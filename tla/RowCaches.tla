------------------------------ MODULE RowCaches ------------------------------
(***************************************************************************)
(* The read path of one indexed table: live rows are recomputed from the   *)
(* table's WAL stream, or taken from the equality table cache, the probe   *)
(* result cache, the live row count cache, the live row checkpoint or the  *)
(* accessor snapshot (execution/access.rs).  Queries hold the application  *)
(* lock shared and writers hold it exclusively, so a query and a write are *)
(* atomic towards each other; the thread that saves an accessor snapshot   *)
(* runs beside both.                                                       *)
(*                                                                         *)
(* The table has one column.  A row is named by the id of the record that  *)
(* wrote it, so a set of ids stands for a set of rows.  The runtime index  *)
(* on the column is exact, as IndexMaintenance has it.                     *)
(***************************************************************************)
EXTENDS Integers, Sequences, FiniteSets, SequencesExt

CONSTANTS
    Values,        \* values of the column, ordered as numbers
    FoldedForm,          \* the ASCII-folded form of each value
    RowBudget,     \* rows an entry may hold (accessor_cache_rows_max_bytes)
    MaxRowRecords,    \* bound: records of the stream, its markers apart
    MaxGroups,     \* bound: write groups
    MaxQueries,    \* bound: queries; nothing follows the last one
    MaxRestarts    \* bound: restarts of the node

ASSUME CacheBounds ==
    /\ Values \subseteq Nat /\ Values # {}
    /\ FoldedForm \in [Values -> Values]
    /\ {RowBudget, MaxRowRecords, MaxGroups, MaxQueries, MaxRestarts} \subseteq Nat

VARIABLES
    stream,        \* the records of the table's WAL stream
    base,          \* id of the first record: 1, or 0 once realigned
    loaded,        \* the stream is hydrated in memory
    entry,         \* the table's entry in EQUALITY_TABLE_CACHE
    probes,        \* the table's part of the probe result cache, by value
    count,         \* the table's entry in LIVE_ROW_COUNT_CACHE
    row_checkpoint,    \* the live row row_checkpoint file
    accessorFile,  \* the accessor cache snapshot file
    saver,         \* the thread saving an accessor snapshot, if any
    options,       \* the two accessor settings of the node
    queries,       \* queries so far
    restarts,      \* restarts so far
    answer         \* whether the last query was answered rightly, and if not why

cacheVars == <<stream, base, loaded, entry, probes, count, row_checkpoint,
               accessorFile, saver, options, queries, restarts, answer>>

-----------------------------------------------------------------------------
(* The stream                                                              *)

Id(i) == base + i - 1
LastId == IF stream = <<>> THEN 0 ELSE Id(Len(stream))
HasHead == loaded /\ stream # <<>>      \* latest_transaction_id_if_loaded

Record(kind, group, ref, value) ==
    [kind |-> kind, group |-> group, ref |-> ref, value |-> value]

RowKinds == {"insert", "update"}
Committed(s) == {s[i].group : i \in {j \in DOMAIN s : s[j].kind = "commit"}}
Aborted(s) == {s[i].group : i \in {j \in DOMAIN s : s[j].kind = "abort"}}

\* record_visible_for_live_row_apply
Visible(r, committed, aborted) ==
    \/ r.group = 0
    \/ /\ r.group \notin aborted
       /\ r.group \in committed \/ r.kind \in {"commit", "abort"}

\* collect_live_rows_from_records: two passes, the markers first.
LiveRows(s) ==
    LET committed == Committed(s)
        aborted == Aborted(s)
        seen == {i \in DOMAIN s : Visible(s[i], committed, aborted)}
    IN  {Id(i) : i \in {j \in seen : s[j].kind \in RowKinds}}
            \ {s[i].ref : i \in {j \in seen : s[j].kind = "delete"}}

Live == LiveRows(stream)
Groups == {stream[i].group : i \in DOMAIN stream} \ {0}
Room(n) == Cardinality({i \in DOMAIN stream : stream[i].kind \notin {"commit", "abort"}}) + n
               <= MaxRowRecords
ValueIn(s, id) == s[id - base + 1].value
RowsMatching(s, rows, vs) == {id \in rows : ValueIn(s, id) \in vs}

\* collect_live_rows_from_records_limited: one pass from the end, which meets
\* the marker of a group before its rows and a deletion before its row.
LimitedStep(acc, i, n) ==
    LET r == stream[i]
        hidden == ~Visible(r, acc.committed, acc.aborted)
    IN  CASE Cardinality(acc.rows) = n -> acc
          [] r.kind = "commit" -> [acc EXCEPT !.committed = @ \cup {r.group}]
          [] r.kind = "abort" -> [acc EXCEPT !.aborted = @ \cup {r.group}]
          [] r.kind = "delete" /\ ~hidden -> [acc EXCEPT !.deleted = @ \cup {r.ref}]
          [] r.kind \in RowKinds /\ ~hidden /\ Id(i) \notin acc.deleted ->
                [acc EXCEPT !.rows = @ \cup {Id(i)}]
          [] OTHER -> acc

LimitedRows(n) ==
    LET after[k \in 0..Len(stream)] ==
            IF k = 0 THEN [rows |-> {}, committed |-> {}, aborted |-> {}, deleted |-> {}]
            ELSE LimitedStep(after[k - 1], Len(stream) + 1 - k, n)
    IN  after[Len(stream)].rows

\* A mutant: a deletion is not applied.
ApplyColdKeepsDeleted(acc, i, v) ==
    IF stream[i].kind \in RowKinds /\ stream[i].value = v
    THEN [acc EXCEPT !.rows = @ \cup {Id(i)}, !.applied = @ \cup {Id(i)}] ELSE acc

\* load_live_rows_by_equality_filters_direct_wal_scan_cold_stream: one pass
\* from the start over a stream that is not hydrated.  The records of a group
\* wait for its marker; an abort takes back the rows the group had applied.
ApplyCold(acc, i, v) ==
    LET r == stream[i] IN
    CASE r.kind \in RowKinds /\ r.value = v ->
            [acc EXCEPT !.rows = @ \cup {Id(i)},
                        !.applied = IF r.group = 0 THEN @ ELSE @ \cup {Id(i)}]
      [] r.kind = "delete" -> [acc EXCEPT !.rows = @ \ {r.ref}]
      [] OTHER -> acc

ColdStep(acc, i, v) ==
    LET r == stream[i]
        ofGroup == {j \in acc.pending : stream[j].group = r.group}
    IN  CASE r.kind = "commit" ->
                LET done == [acc EXCEPT !.committed = @ \cup {r.group},
                                        !.pending = @ \ ofGroup]
                IN  IF r.group \in acc.aborted THEN done
                    ELSE FoldLeft(LAMBDA a, j : ApplyCold(a, j, v), done,
                                  SetToSortSeq(ofGroup, <))
          [] r.kind = "abort" ->
                [acc EXCEPT !.aborted = @ \cup {r.group},
                            !.pending = @ \ ofGroup,
                            !.rows = @ \ {id \in acc.applied :
                                            stream[id - base + 1].group = r.group}]
          [] r.group # 0 /\ r.group \in acc.aborted -> acc
          [] r.group # 0 /\ r.group \notin acc.committed -> [acc EXCEPT !.pending = @ \cup {i}]
          [] OTHER -> ApplyCold(acc, i, v)

ColdRows(v) ==
    LET after[i \in 0..Len(stream)] ==
            IF i = 0 THEN [rows |-> {}, committed |-> {}, aborted |-> {}, pending |-> {},
                           applied |-> {}]
            ELSE ColdStep(after[i - 1], i, v)
    IN  after[Len(stream)].rows

\* A group whose commit marker was followed by an abort marker: the marker of
\* a later table of the same group could not be appended.
TornGroups == Committed(stream) \cap Aborted(stream)

-----------------------------------------------------------------------------
(* The equality table cache                                                *)

Unbuilt == <<>>
Empty == [latest |-> 0, rows |-> {}, postings |-> Unbuilt, folded |-> Unbuilt,
          ranges |-> {}, why |-> {}]
Absent == [Empty EXCEPT !.latest = -1]

\* "why" is no state of the program: it records how a cached result came to
\* differ from the live rows, for the properties below.

EntryPostings(s, rows) == [v \in Values |-> RowsMatching(s, rows, {v})]
FoldedOf(s, rows) == [f \in Values |-> {id \in rows : FoldedForm[ValueIn(s, id)] = f}]

\* build_string_index_from_postings: the values of one folded key overwrite
\* each other, and the postings are a hash map, so any one of them stays.
FoldedOfPostings(postings) ==
    {[f \in Values |-> IF FoldedForm[pick[f]] = f THEN postings[pick[f]] ELSE {}] :
        pick \in {p \in [Values -> Values] :
            \A f \in Values : \A w \in Values :
                FoldedForm[w] = f /\ postings[w] # {} => FoldedForm[p[f]] = f /\ postings[p[f]] # {}}}

Overwrites(postings) ==
    \E v, w \in Values : v # w /\ FoldedForm[v] = FoldedForm[w] /\ postings[v] # {} /\ postings[w] # {}

WithPostings(s, e) ==
    IF e.postings = Unbuilt THEN [e EXCEPT !.postings = EntryPostings(s, e.rows)] ELSE e

\* ensure_string_like_index, case-insensitive: every entry it may leave.
WithFolded(s, e) ==
    CASE e.folded # Unbuilt -> {e}
      [] e.postings = Unbuilt -> {[e EXCEPT !.folded = FoldedOf(s, e.rows)]}
      [] OTHER -> {[e EXCEPT !.folded = f,
                             !.why = IF Overwrites(e.postings) THEN @ \cup {"overwritten"} ELSE @] :
                     f \in FoldedOfPostings(e.postings)}

\* A mutant: the budget is not enforced.
Unbudgeted(e) == e

\* enforce_entry_row_budget
Budgeted(e) == IF Cardinality(e.rows) > RowBudget THEN Empty ELSE e

\* insert_scoped_equality_cache_entry: an entry over the budget is not stored,
\* and the one that is there stays.
Store(e) == IF Cardinality(e.rows) > RowBudget THEN entry ELSE e

\* A warm entry: build_warm_equality_cache and warm_string_like_accessors.
Warm(s, file) ==
    IF Cardinality(file.rows) > RowBudget THEN {entry}
    ELSE WithFolded(s, WithPostings(s, [Empty EXCEPT !.latest = file.latest, !.rows = file.rows,
                                                     !.why = file.why]))

\* cache_entry_matches_loaded_wal_head
Matches(e) == e # Absent /\ (HasHead => e.latest = LastId)

\* A mutant: a deletion that forgets the postings.
CachedDeleteKeepsPostings(e, id, v) == [e EXCEPT !.rows = @ \ {id}, !.ranges = {}]

CachedInsert(e, id, v) ==
    [e EXCEPT !.rows = @ \cup {id},
              !.ranges = {},
              !.postings = IF @ = Unbuilt THEN @ ELSE [@ EXCEPT ![v] = @ \cup {id}],
              !.folded = IF @ = Unbuilt THEN @ ELSE [@ EXCEPT ![FoldedForm[v]] = @ \cup {id}]]

CachedDelete(e, id, v) ==
    [e EXCEPT !.rows = @ \ {id},
              !.ranges = {},
              !.postings = IF @ = Unbuilt THEN @ ELSE [@ EXCEPT ![v] = @ \ {id}],
              !.folded = IF @ = Unbuilt THEN @ ELSE [@ EXCEPT ![FoldedForm[v]] = @ \ {id}]]

\* The body of apply_equality_cache_row_mutation, for record i of s: the entry
\* takes the id of that record whatever it reflected before.
CachedMutation(e, s, i) ==
    LET r == s[i]
        before == LiveRows(Append(SubSeq(s, 1, i - 1), Record("commit", r.group, 0, 0)))
        fresh == [e EXCEPT !.latest = Id(i),
                           !.why = IF e.rows = before THEN @ ELSE @ \cup {"revived"}]
    IN  IF r.kind = "delete"
        THEN CachedDelete(fresh, r.ref, s[r.ref - base + 1].value)
        ELSE CachedInsert(fresh, Id(i), r.value)

-----------------------------------------------------------------------------
(* Writes                                                                  *)

NoProbes == [v \in Values |-> [latest |-> -1, rows |-> {}, why |-> {}]]
NoRowCount == [latest |-> -1, rows |-> 0]
NoRowFile == [length |-> -1, latest |-> 0, tag |-> 0, rows |-> {}, why |-> {}]
NoSave == [length |-> -1, latest |-> 0]
NoAnswer == [ok |-> TRUE, why |-> {}]

\* append_row_payload_record and append_row_payload_records_batch: rows is
\* one record, or the records of an INSERT of several rows, and marks the
\* markers of its group.  Appending hydrates the stream.  Only the records of
\* rows reach the cache, and the budget is enforced once per call.
AppendAll(s, rows) ==
    LET all == s \o rows
        after[i \in 0..Len(rows)] ==
            IF i = 0 THEN entry ELSE CachedMutation(after[i - 1], all, Len(s) + i)
    IN  IF entry = Absent THEN entry ELSE Budgeted(after[Len(rows)])

AppendRows(rows, marks) ==
    /\ Room(Len(rows))
    /\ stream' = stream \o rows \o marks
    /\ loaded' = TRUE
    /\ entry' = LET e == AppendAll(stream, rows) IN
                IF e # Absent /\ rows[1].group # 0 /\ marks = <<>>
                THEN [e EXCEPT !.why = @ \cup {"uncommitted"}] ELSE e
    /\ answer' = NoAnswer
    /\ UNCHANGED <<base, probes, count, row_checkpoint, accessorFile, saver, options, queries, restarts>>

InsertRows(vs) == AppendRows([i \in DOMAIN vs |-> Record("insert", 0, 0, vs[i])], <<>>)

DeleteOne(id) == id \in Live /\ AppendRows(<<Record("delete", 0, id, 0)>>, <<>>)

\* UPDATE appends the deletion and the new row in two calls.
UpdateRow(id, v) ==
    LET delete == Record("delete", 0, id, 0)
        insert == Record("insert", 0, 0, v)
        halfway == IF entry = Absent THEN entry
                   ELSE Budgeted(CachedMutation(entry, Append(stream, delete), Len(stream) + 1))
    IN  /\ id \in Live
        /\ Room(2)
        /\ stream' = stream \o <<delete, insert>>
        /\ loaded' = TRUE
        /\ entry' = IF halfway = Absent THEN halfway
                    ELSE Budgeted(CachedMutation(halfway, stream', Len(stream) + 2))
        /\ answer' = NoAnswer
        /\ UNCHANGED <<base, probes, count, row_checkpoint, accessorFile, saver, options, queries, restarts>>

\* A write group of one row record.  COMMIT appends a commit marker to each
\* touched table; when a later table fails, abort markers go to all of them.
\* An abort marker that cannot be appended is only ignored.
Outcomes == [commit |-> <<"commit">>, abort |-> <<"abort">>,
             torn |-> <<"commit", "abort">>, stuck |-> <<>>]

WriteGroup(row, outcome) ==
    LET g == Len(stream) + 1
        marks == Outcomes[outcome]
    IN  /\ Cardinality(Groups) < MaxGroups
        /\ AppendRows(<<[row EXCEPT !.group = g]>>,
                      [i \in DOMAIN marks |-> Record(marks[i], g, 0, 0)])

GroupWrite(outcome) ==
    \/ \E v \in Values : WriteGroup(Record("insert", 0, 0, v), outcome)
    \/ \E id \in Live : WriteGroup(Record("delete", 0, id, 0), outcome)

\* What a rebuild from the stream leaves: save_live_row_checkpoint.
Saved(s) ==
    LET latest == IF s = <<>> THEN 0 ELSE Id(Len(s))
    IN  [length |-> Len(s), latest |-> latest, tag |-> latest, rows |-> LiveRows(s), why |-> {}]

\* save_accessor_cache_snapshot, of the entry it finds: it is saved for the
\* stream s and under the id given, whatever the entry reflects.
SavedAccessor(e, s, latest) ==
    IF e = Absent THEN accessorFile
    ELSE [length |-> Len(s), latest |-> latest, tag |-> e.latest, rows |-> e.rows,
          why |-> e.why \cup (IF e.rows = LiveRows(s) THEN {} ELSE {"saved"})]

\* A peer's record is appended past the cache, and the runtime indexes are
\* bootstrapped again, which warms the entry only when the node preloads.
Import(r) ==
    /\ Room(1)
    /\ stream' = Append(stream, r)
    /\ loaded' = TRUE
    /\ row_checkpoint' = Saved(stream')
    /\ entry' \in IF options THEN Warm(stream', row_checkpoint') ELSE {entry}
    /\ accessorFile' = IF options THEN SavedAccessor(entry', stream', row_checkpoint'.latest)
                       ELSE accessorFile
    /\ answer' = NoAnswer
    /\ UNCHANGED <<base, probes, count, saver, options, queries, restarts>>

ImportRecord ==
    \/ \E v \in Values : Import(Record("insert", 0, 0, v))
    \/ \E id \in Live : Import(Record("delete", 0, id, 0))

\* ALTER TABLE drops the hydrated stream (invalidate_stream_cache).
Invalidate ==
    /\ loaded
    /\ loaded' = FALSE
    /\ answer' = NoAnswer
    /\ UNCHANGED <<stream, base, entry, probes, count, row_checkpoint, accessorFile, saver,
                   options, queries, restarts>>

\* equality_probe_cache_entry_is_expired
ProbeExpires(v) ==
    /\ probes[v] # NoProbes[v]
    /\ probes' = [probes EXCEPT ![v] = NoProbes[v]]
    /\ UNCHANGED <<stream, base, loaded, entry, count, row_checkpoint, accessorFile, saver,
                   options, queries, restarts, answer>>

-----------------------------------------------------------------------------
(* Queries                                                                 *)

\* Files are used only under the fingerprint of the stream they were saved for.
Usable(file) == file.length = Len(stream)

\* load_live_rows_for_accessor_miss: where the rows come from.  A query that
\* names the fields it wants warm tries the accessor snapshot first.
CheckpointServes ==
    /\ Usable(row_checkpoint)
    /\ HasHead => row_checkpoint.latest >= LastId /\ (row_checkpoint.rows # {} \/ LastId = 0)

\* A mutant: the checkpoint is used whatever stream it was saved for.
MissSourceAnyCheckpoint(warm) ==
    IF row_checkpoint # NoRowFile THEN [file |-> row_checkpoint, scans |-> FALSE]
    ELSE [file |-> Saved(stream), scans |-> TRUE]

MissSource(warm) ==
    CASE warm /\ Usable(accessorFile) -> [file |-> accessorFile, scans |-> FALSE]
      [] CheckpointServes -> [file |-> row_checkpoint, scans |-> FALSE]
      [] ~warm /\ Usable(accessorFile) -> [file |-> accessorFile, scans |-> FALSE]
      [] OTHER -> [file |-> Saved(stream), scans |-> TRUE]

RebuiltEntry(miss) ==
    [Empty EXCEPT !.latest = miss.file.latest, !.rows = miss.file.rows, !.why = miss.file.why]

\* The scan hydrates the stream and saves a checkpoint.
LoadedBy(miss) ==
    /\ loaded' = (loaded \/ miss.scans)
    /\ row_checkpoint' = IF miss.scans THEN miss.file ELSE row_checkpoint

\* An entry served while the stream is not hydrated is not compared with it.
Unchecked(latest, hydrated) == IF ~hydrated /\ latest # LastId THEN {"unchecked"} ELSE {}

\* A query of at most n rows may answer with any n of the rows it is asked for.
Answer(rows, expected, n, why) ==
    LET ok == /\ rows \subseteq expected
              /\ Cardinality(rows) = IF Cardinality(expected) < n THEN Cardinality(expected) ELSE n
    IN  answer' = [ok |-> ok, why |-> IF ok THEN {} ELSE why]

FirstOf(ids, n) == {id \in ids : Cardinality({i \in ids : i < id}) < n}

\* cached_equality_probe_rows
ProbeHits(v, hydrated) == probes[v].rows # {} /\ (hydrated => probes[v].latest = LastId)

\* maybe_cache_equality_probe_rows_with_latest_tx_id
CacheProbe(v, rows, hydrated, why) ==
    IF rows = {} \/ ~hydrated THEN probes
    ELSE [w \in Values |-> IF w = v THEN [latest |-> LastId, rows |-> rows, why |-> why]
                          ELSE IF probes[w].latest = LastId THEN probes[w] ELSE NoProbes[w]]

\* should_use_direct_scan_for_equality_probe
DirectScan(hydrated) == hydrated \/ ~Usable(row_checkpoint)

\* A mutant: the scan applies the records of every group.
DirectRowsOfAnyGroup(v, hydrated) ==
    {Id(i) : i \in {j \in DOMAIN stream : stream[j].kind \in RowKinds /\ stream[j].value = v}}

DirectRows(v, hydrated) == IF hydrated THEN RowsMatching(stream, Live, {v}) ELSE ColdRows(v)
TornCause(hydrated) == IF ~hydrated /\ TornGroups # {} THEN {"torn"} ELSE {}

\* load_live_rows_by_equality_filters_with_limit: the entry, the probe cache, a
\* direct scan, or a new entry; the last one starts the thread that saves it.
\* The limit is applied after the result is cached.
EqualityRows(v, hydrated, n) ==
    LET expected == RowsMatching(stream, Live, {v})
        matches == entry # Absent /\ (hydrated => entry.latest = LastId)
        hit == ~matches /\ ProbeHits(v, hydrated)
        miss == MissSource(TRUE)
        built == WithPostings(stream, RebuiltEntry(miss))
    IN  \/ /\ matches
           /\ entry' = WithPostings(stream, entry)
           /\ Answer(FirstOf(entry'.postings[v], n), expected, n,
                     entry.why \cup Unchecked(entry.latest, hydrated))
           /\ loaded' = (loaded \/ hydrated)
           /\ UNCHANGED <<probes, row_checkpoint, saver>>
        \/ /\ hit
           /\ Answer(FirstOf(probes[v].rows, n), expected, n,
                     probes[v].why \cup Unchecked(probes[v].latest, hydrated))
           /\ loaded' = (loaded \/ hydrated)
           /\ UNCHANGED <<entry, probes, row_checkpoint, saver>>
        \/ /\ ~matches /\ ~hit /\ DirectScan(hydrated)
           /\ probes' = CacheProbe(v, DirectRows(v, hydrated), stream # <<>>, TornCause(hydrated))
           /\ Answer(FirstOf(DirectRows(v, hydrated), n), expected, n, TornCause(hydrated))
           /\ loaded' = (loaded \/ hydrated)
           /\ UNCHANGED <<entry, row_checkpoint, saver>>
        \/ /\ ~matches /\ ~hit /\ ~DirectScan(hydrated)
           /\ LoadedBy(miss)
           /\ entry' = Store(built)
           /\ probes' = CacheProbe(v, built.postings[v], loaded' /\ stream # <<>>, built.why)
           /\ saver' = IF options THEN [length |-> Len(stream), latest |-> built.latest] ELSE saver
           /\ Answer(FirstOf(built.postings[v], n), expected, n, built.why)

\* Every query counts.
Asked == queries' = queries + 1

EqualityRead(v) ==
    /\ Asked
    /\ EqualityRows(v, HasHead, MaxRowRecords)
    /\ UNCHANGED <<stream, base, count, accessorFile, options, restarts>>

\* load_live_rows_by_in_list, for every value: no probe cache, and its direct
\* scan hydrates the stream.
InListRead ==
    LET miss == MissSource(TRUE)
        built == WithPostings(stream, RebuiltEntry(miss))
        all(e) == UNION {e.postings[v] : v \in Values}
    IN  /\ Asked
        /\ \/ /\ Matches(entry)
             /\ entry' = WithPostings(stream, entry)
             /\ Answer(all(entry'), Live, MaxRowRecords,
                       entry.why \cup Unchecked(entry.latest, HasHead))
             /\ UNCHANGED <<loaded, row_checkpoint, saver>>
          \/ /\ ~Matches(entry) /\ DirectScan(HasHead)
             /\ loaded' = TRUE
             /\ Answer(Live, Live, MaxRowRecords, {})
             /\ UNCHANGED <<entry, row_checkpoint, saver>>
          \/ /\ ~Matches(entry) /\ ~DirectScan(HasHead)
             /\ LoadedBy(miss)
             /\ entry' = Store(built)
             /\ saver' = IF options THEN [length |-> Len(stream), latest |-> built.latest] ELSE saver
             /\ Answer(all(built), Live, MaxRowRecords, built.why)
        /\ UNCHANGED <<stream, base, probes, count, accessorFile, options, restarts>>

\* A mutant: references as one-based positions.
AtPositionOneBased(r) ==
    {Id(i) : i \in {j \in DOMAIN stream : j = r /\ stream[j].kind \in RowKinds}}

\* materialize_relation_rows_with_limit over the runtime index.  The references
\* of the key are cut to the limit and then resolved: in a hydrated stream by
\* position, otherwise by id in the checkpoint, otherwise the stream is hydrated.
\* A reference is not zero, so the row of id 0 has none.
\* The rows found are cached as the rows of the key.  When none is found the
\* checkpoint is filtered, and then the equality read is made.
AtPosition(r) ==
    {Id(i) : i \in {j \in DOMAIN stream : j = r + 1 /\ stream[j].kind \in RowKinds}}

\* row_refs_for_key
References(v, n) == FirstOf(RowsMatching(stream, Live, {v}) \ {0}, n)

\* resolve_live_rows_for_row_refs
Resolved(refs) ==
    IF ~HasHead /\ Usable(row_checkpoint) THEN refs \cap row_checkpoint.rows
    ELSE UNION {AtPosition(r) : r \in refs}

\* load_live_rows_by_equality_filters_from_checkpoint_with_limit
CheckpointRows(v, n) ==
    IF Usable(row_checkpoint) THEN FirstOf(RowsMatching(stream, row_checkpoint.rows, {v}), n) ELSE {}

IndexRead(v, n) ==
    LET expected == RowsMatching(stream, Live, {v})
        refs == References(v, n)
        hydrated == HasHead \/ (refs # {} /\ ~Usable(row_checkpoint))
        found == FirstOf(RowsMatching(stream, Resolved(refs), {v}), n)
        rows == IF found # {} THEN found ELSE CheckpointRows(v, n)
        why == (IF found # {} /\ found # refs THEN {"position"} ELSE {})
               \cup (IF Cardinality(expected) > n THEN {"limited"} ELSE {})
               \cup (IF 0 \in expected THEN {"zero"} ELSE {})
    IN  /\ Asked
        /\ \/ /\ ProbeHits(v, HasHead)
             /\ Answer(FirstOf(probes[v].rows, n), expected, n,
                       probes[v].why \cup Unchecked(probes[v].latest, HasHead))
             /\ UNCHANGED <<loaded, entry, probes, row_checkpoint, saver>>
          \/ /\ ~ProbeHits(v, HasHead) /\ expected = {}
             /\ Answer({}, expected, n, {})
             /\ UNCHANGED <<loaded, entry, probes, row_checkpoint, saver>>
          \/ /\ ~ProbeHits(v, HasHead) /\ expected # {} /\ rows # {}
             /\ loaded' = (loaded \/ hydrated)
             /\ probes' = CacheProbe(v, rows, hydrated, why)
             /\ Answer(rows, expected, n, why)
             /\ UNCHANGED <<entry, row_checkpoint, saver>>
          \/ /\ ~ProbeHits(v, HasHead) /\ expected # {} /\ rows = {}
             /\ EqualityRows(v, hydrated, n)
        /\ UNCHANGED <<stream, base, count, accessorFile, options, restarts>>

\* row_ids_for_field_range, values up to v: the ranges an entry has answered
\* are kept with it.
RangeIds(e, v) ==
    LET cached == {r \in e.ranges : r.upto = v}
    IN  IF cached # {} THEN (CHOOSE r \in cached : TRUE).rows
        ELSE UNION {e.postings[w] : w \in Values \cap 0..v}

\* A query answered from the entry, or from one built from the miss: use is the
\* entry it leaves, with what it needs built.
ServedBy(use, miss, rows, expected) ==
    /\ IF Matches(entry)
       THEN entry' = use /\ UNCHANGED <<loaded, row_checkpoint>>
       ELSE entry' = Store(use) /\ LoadedBy(miss)
    /\ Answer(rows, expected, MaxRowRecords,
              use.why \cup IF Matches(entry) THEN Unchecked(entry.latest, HasHead) ELSE {})
    /\ UNCHANGED <<stream, base, probes, count, accessorFile, saver, options, restarts>>

\* load_live_rows_by_range
RangeRead(v) ==
    LET miss == MissSource(TRUE)
        start == WithPostings(stream, IF Matches(entry) THEN entry ELSE RebuiltEntry(miss))
        ids == RangeIds(start, v)
        use == [start EXCEPT !.ranges = @ \cup {[upto |-> v, rows |-> ids]}]
    IN  /\ Asked
        /\ ServedBy(use, miss, ids \cap use.rows, RowsMatching(stream, Live, 0..v))

\* rows_for_field_string_like_case_insensitive and rows_for_field_prefix
FoldedRows(e, v) == e.folded[FoldedForm[v]]
SameFold(v) == {id \in Live : FoldedForm[ValueIn(stream, id)] = FoldedForm[v]}

\* load_live_rows_by_string_like, ignoring case: on a miss the folded keys are
\* built from the rows.
LikeRead(v) ==
    LET miss == MissSource(FALSE) IN
    /\ Asked
    /\ \E use \in WithFolded(stream, IF Matches(entry) THEN entry ELSE RebuiltEntry(miss)) :
          ServedBy(use, miss, FoldedRows(use, v), SameFold(v))

\* load_live_rows_by_prefix, ignoring case: always from the postings.
PrefixRead(v) ==
    LET miss == MissSource(TRUE)
        start == WithPostings(stream, IF Matches(entry) THEN entry ELSE RebuiltEntry(miss))
    IN  /\ Asked
        /\ \E use \in WithFolded(stream, start) :
              ServedBy(use, miss, FoldedRows(use, v), SameFold(v))

\* load_live_row_count: the cached count is used only for a hydrated stream.
CountRead ==
    /\ Asked
    /\ IF HasHead /\ count.latest = LastId
       THEN /\ answer' = [ok |-> count.rows = Cardinality(Live), why |-> {}]
            /\ UNCHANGED <<loaded, count>>
       ELSE /\ loaded' = TRUE
            /\ count' = [latest |-> LastId, rows |-> Cardinality(Live)]
            /\ answer' = [ok |-> TRUE, why |-> {}]
    /\ UNCHANGED <<stream, base, entry, probes, row_checkpoint, accessorFile, saver, options, restarts>>

-----------------------------------------------------------------------------
(* The saving thread and restarts                                          *)

\* The thread gives up when the stream has changed since its query.
SaveSnapshot ==
    /\ saver # NoSave
    /\ saver' = NoSave
    /\ accessorFile' = IF saver.length = Len(stream)
                       THEN SavedAccessor(entry, stream, saver.latest) ELSE accessorFile
    /\ UNCHANGED <<stream, base, loaded, entry, probes, count, row_checkpoint, options, queries,
                   restarts, answer>>

\* load_bootstrap_live_rows: an empty checkpoint of a stream that is not empty
\* is compared with the stream.
CheckpointBoots == Usable(row_checkpoint) /\ (row_checkpoint.rows # {} \/ stream = <<>>)
PreloadFile == IF CheckpointBoots THEN row_checkpoint ELSE Saved(stream)

\* A node restarts: its caches are lost and its checkpoint is rewritten when
\* bootstrap_from_catalogs read the stream.
Rebooted(scans) ==
    /\ restarts < MaxRestarts
    /\ restarts' = restarts + 1
    /\ row_checkpoint' = IF scans THEN Saved(stream) ELSE row_checkpoint
    /\ probes' = NoProbes /\ count' = NoRowCount /\ saver' = NoSave /\ answer' = NoAnswer
    /\ UNCHANGED <<stream, base, options, queries>>

\* The entry a node that preloads starts with.
Preloaded(file) ==
    IF options /\ Cardinality(file.rows) <= RowBudget THEN Warm(stream, file) ELSE {Absent}

\* The indexes are rebuilt, which hydrates the stream.
RestartRebuilding ==
    /\ Rebooted(~CheckpointBoots)
    /\ loaded' = TRUE
    /\ entry' \in Preloaded(PreloadFile)
    /\ accessorFile' = IF options THEN SavedAccessor(entry', stream, PreloadFile.latest)
                       ELSE accessorFile

\* The indexes are restored from their snapshot, which leaves the stream on
\* disk.  A node that preloads restores the accessor snapshot, or warms the
\* entry from the checkpoint or the stream and saves it.
RestartRestoring ==
    LET restores == options /\ Usable(accessorFile)
        scans == options /\ ~restores /\ ~CheckpointBoots
        file == IF restores THEN [accessorFile EXCEPT !.latest = accessorFile.tag]
                ELSE PreloadFile
    IN  /\ Rebooted(scans)
        /\ loaded' = scans
        /\ entry' \in Preloaded(file)
        /\ accessorFile' = IF options /\ ~restores
                           THEN SavedAccessor(entry', stream, file.latest) ELSE accessorFile

CacheInit ==
    /\ \/ base = 1 /\ stream = <<>> /\ options \in BOOLEAN
       \/ base = 0 /\ options = FALSE /\ \E v \in Values : stream = <<Record("insert", 0, 0, v)>>
    /\ loaded = FALSE /\ entry = Absent /\ probes = NoProbes /\ count = NoRowCount
    /\ row_checkpoint = NoRowFile /\ accessorFile = NoRowFile /\ saver = NoSave
    /\ queries = 0 /\ restarts = 0 /\ answer = NoAnswer

CacheNext ==
    /\ queries < MaxQueries
    /\ \/ \E v \in Values : InsertRows(<<v>>)
       \/ \E v \in Values : InsertRows(<<v, v>>)
       \/ \E id \in Live : DeleteOne(id)
       \/ \E id \in Live, v \in Values : UpdateRow(id, v)
       \/ \E outcome \in DOMAIN Outcomes : GroupWrite(outcome)
       \/ ImportRecord
       \/ Invalidate
       \/ \E v \in Values : ProbeExpires(v)
       \/ \E v \in Values : EqualityRead(v)
       \/ InListRead
       \/ \E v \in Values, n \in {1, MaxRowRecords} : IndexRead(v, n)
       \/ \E v \in Values : RangeRead(v)
       \/ \E v \in Values : LikeRead(v)
       \/ \E v \in Values : PrefixRead(v)
       \/ CountRead
       \/ SaveSnapshot
       \/ RestartRebuilding
       \/ RestartRestoring

-----------------------------------------------------------------------------
(* Properties                                                              *)

Causes == {"revived", "uncommitted", "overwritten", "saved", "unchecked", "torn",
           "position", "limited", "zero"}

\* Every cached or saved row is a row of the stream, no entry is tagged with an
\* id past the end of the stream, and no entry is over the budget.
CacheTypeOK ==
    LET ids == {Id(i) : i \in {j \in DOMAIN stream : stream[j].kind \in RowKinds}}
    IN  /\ entry.rows \subseteq ids /\ entry.latest \in -1..LastId
        /\ Cardinality(entry.rows) <= RowBudget
        /\ \A v \in Values : probes[v].rows \subseteq ids /\ probes[v].latest \in -1..LastId
        /\ row_checkpoint.rows \subseteq ids /\ accessorFile.rows \subseteq ids
        /\ answer.why \subseteq Causes

\* A query whose rows are not the live rows it asked for was answered in one of
\* the ways the README lists: from an entry that a mutation had tagged with its
\* own id although the entry lagged behind, from a cut or misplaced row
\* reference, from a cache nothing was compared with, and so on.  Every other
\* query of access.rs is exact whatever path answers it.
WrongAnswersHaveAKnownCause == ~answer.ok => answer.why # {}

\* An entry that none of those ways touched and that carries the head of the
\* hydrated stream is exact in every part: rows, postings, folded keys and the
\* ranges it keeps (the incremental maintenance of access.rs 1844-2042).
FreshEntryIsExact ==
    HasHead /\ Matches(entry) /\ entry.why = {} =>
        /\ entry.rows = Live
        /\ entry.postings # Unbuilt => \A v \in Values :
              entry.postings[v] = RowsMatching(stream, Live, {v})
        /\ entry.folded # Unbuilt => \A f \in Values :
              entry.folded[f] = {id \in Live : FoldedForm[ValueIn(stream, id)] = f}
        /\ \A r \in entry.ranges : r.rows = RowsMatching(stream, Live, 0..r.upto)

\* The live row count and the probe results tagged with the head are current.
TaggedResultsAreCurrent ==
    HasHead =>
        /\ count.latest = LastId => count.rows = Cardinality(Live)
        /\ \A v \in Values : probes[v].latest = LastId /\ probes[v].why = {} =>
              probes[v].rows = RowsMatching(stream, Live, {v})

\* The three ways of reading the stream agree: the pass over a cold stream with
\* the two passes of collect_live_rows_from_records, except for a group with
\* both markers, and the limited backward pass with the newest live rows.
ScansAgree ==
    /\ TornGroups = {} => \A v \in Values : ColdRows(v) = RowsMatching(stream, Live, {v})
    /\ \A n \in 1..MaxRowRecords :
          LimitedRows(n) = {id \in Live : Cardinality({i \in Live : i > id}) < n}

\* In a realigned stream ids are positions, and row references resolve
\* to their own rows (the comment on realign in wal.rs).
RealignedReferencesResolve == base = 0 => "position" \notin answer.why

\* Every wrong answer is explained, and in a realigned stream never by a position.
AnswersAreExplained == WrongAnswersHaveAKnownCause /\ RealignedReferencesResolve

\* What is cached under the head of the stream is what a scan finds, by whichever
\* scan: the table entry, the probe results and the live row count.
CachesAreExact == FreshEntryIsExact /\ TaggedResultsAreCurrent /\ ScansAgree

=============================================================================
