---------------------------- MODULE WriteGroups ----------------------------
(***************************************************************************)
(* COMMIT of a session transaction, and the readers that decide which rows *)
(* of a table stream are live.                                             *)
(*                                                                         *)
(* Every table has one WAL stream.  COMMIT applies the staged statements,  *)
(* tagging each record with one write group, then appends a WriteCommit to *)
(* every touched stream, one stream after the other.  If anything fails it *)
(* appends a WriteAbort to every touched stream.  A statement outside a    *)
(* transaction appends ungrouped records.  All of this runs under the      *)
(* application's write lock, so no reader sees an intermediate state; a    *)
(* crash may leave one.  An append is the durable step that WalStream      *)
(* models in detail; here it succeeds or fails.                            *)
(*                                                                         *)
(* Tables have no primary key and no index: an UPDATE or DELETE finds its  *)
(* rows by scanning the stream.  A row is a single value.                  *)
(***************************************************************************)
EXTENDS Integers, Sequences, FiniteSets, SequencesExt

CONSTANTS
    Tables,
    InsertValues,  \* the values INSERT may write
    UpdateValues,  \* the values UPDATE may write
    RowCap,        \* RELATION_DEFAULT_ROW_CAP, rows an unlimited scan returns
    MaxBatch,      \* bound: statements in one transaction
    MaxStatements, \* bound: statements in a behaviour
    MaxFailures,   \* bound: appends that fail
    None

VARIABLES
    stream,    \* stream[t]: the records of table t, oldest first
    staged,    \* statements staged by the open transaction
    phase,     \* what COMMIT is doing: idle, apply, mark or abort
    queue,     \* staged statements COMMIT has still to apply
    touched,   \* touched_tables of the running COMMIT
    pending,   \* touched tables that still need their marker
    groups,    \* number of write groups opened so far
    last,      \* history: rows before and after the latest COMMIT, its markers
    statements,
    failures

groupVars == <<stream, staged, phase, queue, touched, pending, groups, last,
          statements, failures>>

Statements ==
    [kind : {"Insert"}, table : Tables, value : InsertValues]
        \cup [kind : {"Update"}, table : Tables, value : UpdateValues]
        \cup [kind : {"Delete"}, table : Tables, value : {None}]

Markers == {"WriteCommit", "WriteAbort"}

-----------------------------------------------------------------------------
\* Which records count.

GroupsWith(s, kind) ==
    {s[i].group : i \in {j \in DOMAIN s : s[j].kind = kind}}

\* Mutant of VisibleRecord: a commit wins over an abort.
VisibleDespiteAbort(r, committed, aborted) ==
    \/ r.group = None
    \/ r.group \in committed
    \/ r.kind \in Markers

\* record_visible_for_live_row_apply: an abort wins over a commit.
VisibleRecord(r, committed, aborted) ==
    \/ r.group = None
    \/ /\ r.group \notin aborted
       /\ r.group \in committed \/ r.kind \in Markers

Without(rows, id) == SelectSeq(rows, LAMBDA r : r.id # id)

ApplyRecord(rows, r) ==
    CASE r.kind = "Insert" -> Append(rows, r)
      [] r.kind = "Delete" -> Without(rows, r.ref)
      [] OTHER             -> rows

\* collect_live_rows_from_records: the groups first, then the rows.
LiveRows(s) ==
    LET committed == GroupsWith(s, "WriteCommit")
        aborted   == GroupsWith(s, "WriteAbort")
    IN FoldLeft(ApplyRecord, <<>>,
                SelectSeq(s, LAMBDA r : VisibleRecord(r, committed, aborted)))

\* load_live_row_count: the same two passes over a set of row ids.
LiveRowCount(s) ==
    LET committed == GroupsWith(s, "WriteCommit")
        aborted   == GroupsWith(s, "WriteAbort")
        Count(ids, r) ==
            IF ~VisibleRecord(r, committed, aborted) THEN ids
            ELSE CASE r.kind = "Insert" -> ids \cup {r.id}
                   [] r.kind = "Delete" -> ids \ {r.ref}
                   [] OTHER             -> ids
    IN Cardinality(FoldLeft(Count, {}, s))

\* Mutant of LimitedStep: abort markers are not looked at.
LimitedStepBlindToAborts(acc, r, max) ==
    CASE Len(acc.rows) >= max -> acc
      [] r.kind = "WriteCommit" -> [acc EXCEPT !.committed = @ \cup {r.group}]
      [] r.kind = "Delete" /\ VisibleRecord(r, acc.committed, {}) ->
            [acc EXCEPT !.deleted = @ \cup {r.ref}]
      [] r.kind = "Insert" /\ VisibleRecord(r, acc.committed, {})
            /\ r.id \notin acc.deleted -> [acc EXCEPT !.rows = <<r>> \o @]
      [] OTHER -> acc

\* One record of the backward scan, which stops once it has max rows.
LimitedStep(acc, r, max) ==
    CASE Len(acc.rows) >= max -> acc
      [] r.kind = "WriteCommit" -> [acc EXCEPT !.committed = @ \cup {r.group}]
      [] r.kind = "WriteAbort" -> [acc EXCEPT !.aborted = @ \cup {r.group}]
      [] r.kind = "Delete" /\ VisibleRecord(r, acc.committed, acc.aborted) ->
            [acc EXCEPT !.deleted = @ \cup {r.ref}]
      [] r.kind = "Insert" /\ VisibleRecord(r, acc.committed, acc.aborted)
            /\ r.id \notin acc.deleted -> [acc EXCEPT !.rows = <<r>> \o @]
      [] OTHER -> acc

\* collect_live_rows_from_records_limited.
LimitedRows(s, max) ==
    FoldLeft(LAMBDA acc, r : LimitedStep(acc, r, max),
             [committed |-> {}, aborted |-> {}, deleted |-> {}, rows |-> <<>>],
             Reverse(s)).rows

\* One record of the single forward pass over a stream not held in memory:
\* the records of a group wait for its WriteCommit, and a later WriteAbort
\* takes back the rows the group inserted.
ColdStep(acc, r) ==
    LET waiting == SelectSeq(acc.waiting, LAMBDA p : p.group = r.group)
        others  == SelectSeq(acc.waiting, LAMBDA p : p.group # r.group)
    IN CASE r.kind = "WriteCommit" ->
              [acc EXCEPT !.committed = @ \cup {r.group},
                          !.waiting = others,
                          !.rows = IF r.group \in acc.aborted THEN @
                                   ELSE FoldLeft(ApplyRecord, @, waiting)]
         [] r.kind = "WriteAbort" ->
              [acc EXCEPT !.aborted = @ \cup {r.group},
                          !.waiting = others,
                          !.rows = SelectSeq(@, LAMBDA p : p.group # r.group)]
         [] r.group # None /\ r.group \in acc.aborted -> acc
         [] r.group # None /\ r.group \notin acc.committed ->
              [acc EXCEPT !.waiting = Append(@, r)]
         [] OTHER -> [acc EXCEPT !.rows = ApplyRecord(@, r)]

\* load_live_rows_by_equality_filters_direct_wal_scan_cold_stream, with a
\* filter that every row matches.
ColdScanRows(s) ==
    FoldLeft(ColdStep,
             [committed |-> {}, aborted |-> {}, waiting |-> <<>>, rows |-> <<>>], s).rows

ValuesOf(rows) == [i \in DOMAIN rows |-> rows[i].value]

-----------------------------------------------------------------------------
\* What a statement appends.

LatestId(s) == IF s = <<>> THEN 0 ELSE Last(s).id

Numbered(s, drafts) ==
    [i \in DOMAIN drafts |-> [drafts[i] EXCEPT !.id = LatestId(s) + i]]

Draft(kind, group, ref, value) ==
    [id |-> 0, kind |-> kind, group |-> group, ref |-> ref, value |-> value]

\* The rows an unfiltered UPDATE or DELETE works on: those visible now, which
\* are not those an earlier statement of the same group has written.
TargetRows(s) == LimitedRows(s, RowCap)

\* INSERT appends its row; UPDATE a Delete and an Insert per row, one append
\* each; DELETE a Delete per row.
StatementRecords(s, q, group) ==
    LET rows == TargetRows(s)
        DeleteOf(row) == Draft("Delete", group, row.id, row.value)
        InsertNew     == Draft("Insert", group, None, q.value)
    IN Numbered(s,
         CASE q.kind = "Insert" -> <<InsertNew>>
           [] q.kind = "Update" ->
                FlattenSeq([i \in DOMAIN rows |-> <<DeleteOf(rows[i]), InsertNew>>])
           [] q.kind = "Delete" -> [i \in DOMAIN rows |-> DeleteOf(rows[i])])

MarkerRecord(s, kind, group) == Numbered(s, <<Draft(kind, group, None, None)>>)

\* execute_transactional_read: the staged statements run in one write group on
\* a copy of the streams, their tables are committed, and the SELECT reads it.
Sandbox(qs) ==
    LET group == groups + 1
        Run(streams, q) ==
            [streams EXCEPT ![q.table] = @ \o StatementRecords(@, q, group)]
        applied == FoldLeft(Run, stream, qs)
        written == {qs[i].table : i \in DOMAIN qs}
    IN [t \in Tables |->
          IF t \in written
          THEN applied[t] \o MarkerRecord(applied[t], "WriteCommit", group)
          ELSE applied[t]]

RowsIn(streams) == [t \in Tables |-> ValuesOf(LiveRows(streams[t]))]

-----------------------------------------------------------------------------
NoCommit == [end |-> "none", before |-> RowsIn([t \in Tables |-> <<>>]),
             after |-> RowsIn([t \in Tables |-> <<>>]), marked |-> {}, aborted |-> {}]

\* CREATE TABLE has left its schema record in every stream.
GroupsInit ==
    /\ stream = [t \in Tables |-> Numbered(<<>>, <<Draft("SchemaChange", None, None, None)>>)]
    /\ staged = <<>>
    /\ phase = "idle"
    /\ queue = <<>>
    /\ touched = {}
    /\ pending = {}
    /\ groups = 0
    /\ last = NoCommit
    /\ statements = 0
    /\ failures = 0

Extend(t, recs) == stream' = [stream EXCEPT ![t] = @ \o recs]

\* The append of one of recs fails: those before it stay.
FailWithin(t, recs) ==
    /\ failures < MaxFailures
    /\ failures' = failures + 1
    /\ \E n \in 0..Len(recs) - 1 : Extend(t, SubSeq(recs, 1, n))

\* A DML statement of an open transaction is staged.
Stage(q) ==
    /\ phase = "idle"
    /\ Len(staged) < MaxBatch
    /\ statements < MaxStatements
    /\ staged' = Append(staged, q)
    /\ statements' = statements + 1
    /\ UNCHANGED <<stream, phase, queue, touched, pending, groups, last, failures>>

RollbackStaged ==
    /\ phase = "idle"
    /\ staged # <<>>
    /\ staged' = <<>>
    /\ UNCHANGED <<stream, phase, queue, touched, pending, groups, last, statements,
                   failures>>

\* COMMIT passes validation and opens its write group.
StartCommit ==
    /\ phase = "idle"
    /\ staged # <<>>
    /\ phase' = "apply"
    /\ queue' = staged
    /\ staged' = <<>>
    /\ touched' = {}
    /\ groups' = groups + 1
    /\ last' = [NoCommit EXCEPT !.before = RowsIn(stream),
                                !.after = RowsIn(Sandbox(staged))]
    /\ UNCHANGED <<stream, pending, statements, failures>>

\* The next staged statement is applied in the group.  When one is rejected,
\* COMMIT gives the group up.
ApplyStaged ==
    LET q    == Head(queue)
        recs == StatementRecords(stream[q.table], q, groups)
    IN /\ phase = "apply"
       /\ touched' = touched \cup {q.table}
       /\ pending' = touched'
       /\ \/ /\ Extend(q.table, recs)
             /\ queue' = Tail(queue)
             /\ phase' = IF queue' = <<>> THEN "mark" ELSE "apply"
             /\ UNCHANGED failures
          \/ /\ FailWithin(q.table, recs)
             /\ queue' = <<>>
             /\ phase' = "abort"
       /\ UNCHANGED <<staged, groups, last, statements>>

\* COMMIT or its abort answers once no touched table is left.
Finish(todo, running, answer, record) ==
    /\ pending' = todo
    /\ phase' = IF todo = {} THEN "idle" ELSE running
    /\ last' = [record EXCEPT !.end = IF todo = {} THEN answer ELSE @]

\* Mutant of CommitTable: after a failure only the tables without a marker are aborted.
CommitTableAbortsTheRest(t) ==
    /\ phase = "mark"
    /\ t \in pending
    /\ \/ /\ Extend(t, MarkerRecord(stream[t], "WriteCommit", groups))
          /\ Finish(pending \ {t}, "mark", "ok", [last EXCEPT !.marked = @ \cup {t}])
          /\ UNCHANGED failures
       \/ /\ FailWithin(t, MarkerRecord(stream[t], "WriteCommit", groups))
          /\ phase' = "abort"
          /\ UNCHANGED <<pending, last>>
    /\ UNCHANGED <<staged, queue, touched, groups, statements>>

\* commit_external_write_group, one table; a failed append aborts the group in
\* every touched table, those already committed included.
CommitTable(t) ==
    /\ phase = "mark"
    /\ t \in pending
    /\ \/ /\ Extend(t, MarkerRecord(stream[t], "WriteCommit", groups))
          /\ Finish(pending \ {t}, "mark", "ok", [last EXCEPT !.marked = @ \cup {t}])
          /\ UNCHANGED failures
       \/ /\ FailWithin(t, MarkerRecord(stream[t], "WriteCommit", groups))
          /\ phase' = "abort"
          /\ pending' = touched
          /\ UNCHANGED last
    /\ UNCHANGED <<staged, queue, touched, groups, statements>>

\* abort_external_write_group, one table; a failed append is ignored.
AbortTable(t) ==
    /\ phase = "abort"
    /\ t \in pending
    /\ \/ /\ Extend(t, MarkerRecord(stream[t], "WriteAbort", groups))
          /\ Finish(pending \ {t}, "abort", "err", [last EXCEPT !.aborted = @ \cup {t}])
          /\ UNCHANGED failures
       \/ /\ FailWithin(t, MarkerRecord(stream[t], "WriteAbort", groups))
          /\ Finish(pending \ {t}, "abort", "err", last)
    /\ UNCHANGED <<staged, queue, touched, groups, statements>>

\* The process dies during COMMIT.  The streams are what restart replays.
Crash ==
    /\ phase # "idle"
    /\ phase' = "idle"
    /\ queue' = <<>>
    /\ pending' = {}
    /\ last' = [last EXCEPT !.end = "crash"]
    /\ UNCHANGED <<stream, staged, touched, groups, statements, failures>>

\* A statement outside a transaction; its appends may fail part way.
Autocommit(q) ==
    LET recs == StatementRecords(stream[q.table], q, None) IN
    /\ phase = "idle"
    /\ staged = <<>>
    /\ statements < MaxStatements
    /\ statements' = statements + 1
    /\ last' = NoCommit
    /\ \/ Extend(q.table, recs) /\ UNCHANGED failures
       \/ FailWithin(q.table, recs)
    /\ UNCHANGED <<staged, phase, queue, touched, pending, groups>>

GroupsNext ==
    \/ \E q \in Statements : Stage(q) \/ Autocommit(q)
    \/ RollbackStaged
    \/ StartCommit
    \/ ApplyStaged
    \/ \E t \in Tables : CommitTable(t) \/ AbortTable(t)
    \/ Crash

GroupsSpec == GroupsInit /\ [][GroupsNext]_groupVars

-----------------------------------------------------------------------------
\* Properties.

RecordType(s) ==
    \A i \in DOMAIN s :
       /\ s[i].kind \in {"SchemaChange", "Insert", "Delete"} \cup Markers
       /\ s[i].group \in (1..groups) \cup {None}
       /\ s[i].kind \in Markers => s[i].group # None
       /\ s[i].id = i

\* The records are well formed and numbered without gaps, and COMMIT is never
\* waiting for a marker it has no table for.
WriteGroupsTypeOK ==
    /\ \A t \in Tables : RecordType(stream[t])
    /\ staged \in Seq(Statements) /\ queue \in Seq(Statements)
    /\ phase \in {"idle", "apply", "mark", "abort"}
    /\ pending \subseteq touched /\ touched \subseteq Tables
    /\ phase \in {"mark", "abort"} => pending # {}
    /\ (phase = "apply") = (queue # <<>>)

Finished == phase = "idle" /\ last.end # "none"

\* Whatever interrupted COMMIT, each table on its own shows all of the
\* transaction or none of it: all of it exactly when the table got its commit
\* marker and no abort marker after it.
MarkersDecide ==
    Finished =>
        \A t \in Tables :
            ValuesOf(LiveRows(stream[t])) =
                IF t \in last.marked \ last.aborted THEN last.after[t] ELSE last.before[t]

\* A COMMIT that answers success shows in every table what a SELECT inside the
\* transaction had shown; one that answers an error shows nothing anywhere, as
\* long as one append failed and not the abort's as well.
AnswerIsTruthful ==
    /\ Finished /\ last.end = "ok" => RowsIn(stream) = last.after
    /\ Finished /\ last.end = "err" /\ failures <= 1 => RowsIn(stream) = last.before

\* The forward replay, the backward scan at any limit and the row count agree
\* on every stream that COMMIT, its failures and crashes can leave.
ReadersAgree ==
    \A t \in Tables :
        LET rows == LiveRows(stream[t]) IN
        /\ LiveRowCount(stream[t]) = Len(rows)
        /\ \A max \in 1..Len(rows) + 1 :
              LimitedRows(stream[t], max) =
                  SubSeq(rows, IF max >= Len(rows) THEN 1 ELSE Len(rows) - max + 1, Len(rows))

\* The scan of a stream that is not in memory finds the same rows, unless a
\* group was committed and then aborted in the stream: rows that group deleted
\* are not brought back.
ColdScanAgrees ==
    \A t \in Tables :
        GroupsWith(stream[t], "WriteCommit") \cap GroupsWith(stream[t], "WriteAbort") = {}
            => ToSet(ColdScanRows(stream[t])) = ToSet(LiveRows(stream[t]))

\* All readers of a stream, hot, limited, counting or cold, find the same rows.
AllReadersAgree == ReadersAgree /\ ColdScanAgrees

\* COMMIT publishes staged writes as one grouped durable change: afterwards all
\* tables show the transaction, or none does.
CommitIsOneDurableChange ==
    Finished => RowsIn(stream) \in {last.before, last.after}
=============================================================================
