----------------------------- MODULE WalStream -----------------------------
(***************************************************************************)
(* One durable stream of the write-ahead log (serverlib/src/engine/wal.rs):*)
(* the in-memory record vector (the "storage" entry), the .dtbl file the   *)
(* stream's worker thread writes, and the write high-water mark used by    *)
(* conflict detection.  The callers of the log hold the server's write     *)
(* lock and wait for the worker's acknowledgement, so one command is one   *)
(* step; what can interrupt it is an I/O error inside the command or a     *)
(* crash of the process, before, between or in the middle of its writes.   *)
(***************************************************************************)
EXTENDS Naturals, FiniteSets, Sequences, FiniteSetsExt

CONSTANTS
    Kinds,          \* kinds of record that are appended locally or imported
    MaxWrites,      \* bound: records ever submitted to the stream
    MaxId,          \* bound: largest transaction id
    ImportIds,      \* ids a peer's records arrive with
    Faults,         \* which faults happen, a subset of AllFaults
    MaxFaults,      \* bound: kinds of fault in one behaviour, besides restarts
    Unloaded,       \* the stream has no storage entry in memory
    Torn            \* the bytes of a partly written frame

AllFaults == {"append_error", "rewrite_error", "sync_error", "short_write",
              "crash", "crash_in_append", "crash_in_rewrite"}

DataKinds == {"Insert", "Update", "Delete"}

\* A record.  "tag" stands for the payload: it tells two records of the same
\* id apart.
Records == [id : Nat, kind : DataKinds \cup {"SchemaChange", "MetadataChange", "Truncate"},
            ts : 0..MaxWrites, tag : 1..MaxWrites]

ASSUME WalConstants ==
    /\ MaxWrites \in Nat /\ MaxId \in Nat /\ ImportIds \subseteq 0..MaxId
    /\ Faults \subseteq AllFaults /\ MaxFaults \in Nat
    /\ Kinds \subseteq DataKinds \cup {"SchemaChange", "MetadataChange"}
    /\ Torn \notin Records /\ Unloaded \notin Seq(Records)

VARIABLES
    entries,        \* the stream's records in memory, or Unloaded
    file,           \* the frames of the .dtbl file
    high_water,     \* write_high_water_by_stream, 0 when absent
    acked,          \* writes acknowledged to a caller and not truncated since
    writes,         \* number of records submitted so far; also the clock
    faulted         \* the faults that have happened

vars == <<entries, file, high_water, acked, writes, faulted>>

WalTypeOK ==
    /\ entries = Unloaded \/ entries \in Seq(Records)
    /\ file \in Seq(Records \cup {Torn})
    /\ high_water \in Nat
    /\ acked \subseteq 1..MaxWrites
    /\ writes \in 0..MaxWrites
    /\ faulted \subseteq Faults

Init ==
    /\ entries = Unloaded
    /\ file = <<>>
    /\ high_water = 0
    /\ acked = {}
    /\ writes = 0
    /\ faulted = {}

-----------------------------------------------------------------------------
\* Reading the stream back.

\* The decoder reads frames in order and stops at the first one it cannot
\* decode; bytes left by a partial write are such a frame.
LoadRecords(f) ==
    IF \E i \in DOMAIN f : f[i] = Torn
    THEN SubSeq(f, 1, Min({i \in DOMAIN f : f[i] = Torn}) - 1)
    ELSE f

\* The file is read only if the stream has no storage entry.
Hydrated == IF entries = Unloaded THEN LoadRecords(file) ELSE entries

LatestWriteTimestamp(recs) ==
    Max({0} \cup {recs[i].ts : i \in {j \in DOMAIN recs : recs[j].kind \in DataKinds}})

\* Hydration recomputes the high-water mark; otherwise it is left alone.
HydratedHighWater ==
    IF entries = Unloaded THEN LatestWriteTimestamp(Hydrated) ELSE high_water

LatestTransactionId(recs) == IF recs = <<>> THEN 0 ELSE recs[Len(recs)].id

-----------------------------------------------------------------------------
\* Writing the file.  An outcome is the fault that occurred, if any, what the
\* caller is told, and what the file holds afterwards.

Outcome(fault, ok, f) == [faults |-> fault, ok |-> ok, file |-> f]
ProperPrefixes(recs) == {SubSeq(recs, 1, n) : n \in 0..Len(recs) - 1}

Suffer(fs) ==
    /\ fs \subseteq Faults
    /\ faulted' = faulted \cup fs
    /\ Cardinality(faulted' \ {"crash"}) <= MaxFaults

\* append_wal_bytes: write everything, retry once on a reopened handle.  The
\* first attempt may have written part of the bytes before it failed.
AppendOutcomes(recs) ==
    {Outcome({}, TRUE, file \o recs),
     Outcome({"append_error"}, FALSE, file),
     Outcome({"sync_error"}, FALSE, file \o recs)}
    \cup UNION {{Outcome({"short_write"}, TRUE, file \o p \o <<Torn>> \o recs),
                Outcome({"short_write"}, FALSE, file \o p \o <<Torn>>)} :
                    p \in ProperPrefixes(recs)}

\* rewrite_wal_file: fs::write truncates the file and writes it again in place.
RewriteOutcomes(recs) ==
    {Outcome({}, TRUE, recs),
     Outcome({"rewrite_error"}, FALSE, file),
     Outcome({"sync_error"}, FALSE, recs)}
    \cup {Outcome({"short_write"}, FALSE, p \o <<Torn>>) : p \in ProperPrefixes(recs)}

-----------------------------------------------------------------------------
\* The worker's Append and AppendBatch commands.

AscendingFrom(id, recs) ==
    /\ recs # <<>> => recs[1].id > id
    /\ \A i \in 1..Len(recs) - 1 : recs[i].id < recs[i + 1].id

IsOrdered(old, recs) ==
    IF old = <<>>
    THEN \A i \in 1..Len(recs) - 1 : recs[i].id < recs[i + 1].id
    ELSE AscendingFrom(LatestTransactionId(old), recs)

\* Mutant of InsertSorted: an older record goes to the end.
InsertAtEnd(old, rec) == Append(old, rec)

\* An older record goes after every record of the same or a smaller id.
InsertSorted(old, rec) ==
    IF \E i \in DOMAIN old : old[i] = rec
    THEN old
    ELSE LET before == Cardinality({i \in DOMAIN old : old[i].id <= rec.id})
         IN SubSeq(old, 1, before) \o <<rec>> \o SubSeq(old, before + 1, Len(old))

MergeRecords(old, recs) ==
    LET merged[n \in 0..Len(recs)] ==
          IF n = 0 THEN old ELSE InsertSorted(merged[n - 1], recs[n])
    IN merged[Len(recs)]

\* Mutant of Submit: memory changes before the file.
SubmitMemoryFirst(recs) ==
    LET new == IF IsOrdered(Hydrated, recs) THEN Hydrated \o recs
               ELSE MergeRecords(Hydrated, recs)
    IN /\ entries' = new
       /\ high_water' = Max({HydratedHighWater, LatestWriteTimestamp(recs)})
       /\ \E o \in IF IsOrdered(Hydrated, recs) THEN AppendOutcomes(recs)
                   ELSE RewriteOutcomes(new) :
             /\ Suffer(o.faults)
             /\ file' = o.file
             /\ acked' = IF o.ok THEN acked \cup {recs[i].tag : i \in DOMAIN recs} ELSE acked

\* Mutant of Submit: a failed write is acknowledged.
SubmitIgnoringErrors(recs) ==
    /\ entries' = Hydrated \o recs
    /\ high_water' = Max({HydratedHighWater, LatestWriteTimestamp(recs)})
    /\ acked' = acked \cup {recs[i].tag : i \in DOMAIN recs}
    /\ \E o \in AppendOutcomes(recs) : Suffer(o.faults) /\ file' = o.file

\* Applies a submitted sequence of records: new ids at the end are appended to
\* the file, anything else rewrites it.  Memory and the high-water mark change
\* only after the file did.
Submit(recs) ==
    LET old == Hydrated
        new == IF IsOrdered(old, recs) THEN old \o recs ELSE MergeRecords(old, recs)
        outcomes == IF IsOrdered(old, recs) THEN AppendOutcomes(recs)
                    ELSE IF new = old THEN {Outcome({}, TRUE, file)}
                    ELSE RewriteOutcomes(new)
    IN \E o \in outcomes :
          /\ Suffer(o.faults)
          /\ file' = o.file
          /\ IF o.ok
             THEN /\ entries' = new
                  /\ high_water' = Max({HydratedHighWater, LatestWriteTimestamp(recs)})
                  /\ acked' = acked \cup {recs[i].tag : i \in DOMAIN recs}
             ELSE /\ entries' = old
                  /\ high_water' = HydratedHighWater
                  /\ UNCHANGED acked

NewRecord(n, id, kind) ==
    [id |-> id, kind |-> kind, ts |-> writes + n, tag |-> writes + n]

\* A local write: its id follows the latest one in memory.
AppendRecord(kind) ==
    LET id == LatestTransactionId(Hydrated) + 1 IN
    /\ writes < MaxWrites /\ id <= MaxId
    /\ writes' = writes + 1
    /\ Submit(<<NewRecord(1, id, kind)>>)

\* A multi-row statement submits its records as one batch.
AppendBatch ==
    LET id == LatestTransactionId(Hydrated) + 1 IN
    /\ writes + 1 < MaxWrites /\ id + 1 <= MaxId
    /\ writes' = writes + 2
    /\ Submit(<<NewRecord(1, id, "Insert"), NewRecord(2, id + 1, "Insert")>>)

\* A record fetched from a peer: an id the stream already has is skipped.
ImportRecord(id, kind) ==
    /\ writes < MaxWrites
    /\ id \notin {Hydrated[i].id : i \in DOMAIN Hydrated}
    /\ writes' = writes + 1
    /\ Submit(<<NewRecord(1, id, kind)>>)

-----------------------------------------------------------------------------
\* The commands that rebuild the stream.

\* Truncation keeps the latest schema record and the latest metadata record,
\* adds a Truncate record and renumbers from zero.
LatestOf(recs, kinds) ==
    LET at == {i \in DOMAIN recs : recs[i].kind \in kinds}
    IN IF at = {} THEN {} ELSE {recs[Max(at)].id}

Renumbered(recs) == [i \in DOMAIN recs |-> [recs[i] EXCEPT !.id = i - 1]]

\* The records of the retained ids, in the order of the stream.
Retain(recs, ids) ==
    LET kept[n \in 0..Len(recs)] ==
          IF n = 0 THEN <<>>
          ELSE IF recs[n].id \in ids THEN Append(kept[n - 1], recs[n]) ELSE kept[n - 1]
    IN kept[Len(recs)]

CompactEntries(recs, truncate) ==
    LET retained == LatestOf(recs, {"SchemaChange"}) \cup LatestOf(recs, {"MetadataChange"})
    IN Renumbered(Append(Retain(recs, retained), truncate))

TagsOf(recs) == {recs[i].tag : i \in DOMAIN recs}

\* Mutant of CompactStream: the high-water mark is not recomputed.
CompactLeavesHighWater ==
    LET new == CompactEntries(Hydrated, NewRecord(1, 0, "Truncate")) IN
    /\ writes < MaxWrites
    /\ writes' = writes + 1
    /\ entries' = new
    /\ file' = new
    /\ high_water' = HydratedHighWater
    /\ acked' = acked \cap TagsOf(new)
    /\ UNCHANGED faulted

\* TRUNCATE TABLE.  The worker compacts the vector in memory, then rewrites the
\* file; the high-water mark is recomputed only on success.  Whatever the
\* answer, the caller no longer counts on the records it asked to remove.
CompactStream ==
    LET new == CompactEntries(Hydrated, NewRecord(1, 0, "Truncate")) IN
    /\ writes < MaxWrites
    /\ writes' = writes + 1
    /\ entries' = new
    /\ acked' = acked \cap TagsOf(new)
    /\ \E o \in RewriteOutcomes(new) :
          /\ Suffer(o.faults)
          /\ file' = o.file
          /\ high_water' = IF o.ok THEN LatestWriteTimestamp(new) ELSE HydratedHighWater

\* realign_stream_records: ids become positions.
RealignStream ==
    LET new == Renumbered(Hydrated) IN
    /\ \E o \in RewriteOutcomes(new) :
          /\ Suffer(o.faults)
          /\ file' = o.file
          /\ entries' = IF o.ok THEN new ELSE Hydrated
    /\ high_water' = HydratedHighWater
    /\ UNCHANGED <<acked, writes>>

\* DROP TABLE: the storage entry, the high-water mark and the file go.
DeleteStream ==
    /\ entries' = Unloaded
    /\ high_water' = 0
    /\ file' = <<>>
    /\ acked' = {}
    /\ UNCHANGED <<writes, faulted>>

-----------------------------------------------------------------------------
\* Reads, cache invalidation and restart.

\* Any read loads the stream; has_write_after also fills in an absent mark.
HydrateStream ==
    /\ entries = Unloaded
    /\ entries' = Hydrated
    /\ high_water' = HydratedHighWater
    /\ UNCHANGED <<file, acked, writes, faulted>>

\* The answer of has_write_after(t), given the mark or the entries.
HasWriteAfter(t) ==
    LET mark == IF HydratedHighWater = 0 THEN LatestWriteTimestamp(Hydrated)
                ELSE HydratedHighWater
    IN mark > t

InvalidateStreamCache ==
    /\ entries' = Unloaded
    /\ high_water' = 0
    /\ UNCHANGED <<file, acked, writes, faulted>>

\* The process stops between two commands and is started again.
Crash ==
    /\ Suffer({"crash"})
    /\ entries' = Unloaded
    /\ high_water' = 0
    /\ UNCHANGED <<file, acked, writes>>

\* The process stops inside a command: part of the bytes of an append, or of
\* the new content of a rewrite, is in the file.
CrashInAppend ==
    LET id == LatestTransactionId(Hydrated) + 1 IN
    /\ Suffer({"crash_in_append"})
    /\ writes < MaxWrites /\ id <= MaxId
    /\ writes' = writes + 1
    /\ file' \in {file \o <<Torn>>, Append(file, NewRecord(1, id, "Insert"))}
    /\ entries' = Unloaded
    /\ high_water' = 0
    /\ UNCHANGED acked

\* The contents a rewrite may be writing: an import merged in, a realignment.
RewriteTargets ==
    {Renumbered(Hydrated)} \cup
    {MergeRecords(Hydrated, <<NewRecord(1, id, "Insert")>>) :
        id \in {i \in ImportIds : /\ i < LatestTransactionId(Hydrated)
                                  /\ \A j \in DOMAIN Hydrated : Hydrated[j].id # i}}

CrashInRewrite ==
    /\ Suffer({"crash_in_rewrite"})
    /\ writes < MaxWrites
    /\ writes' = writes + 1
    /\ \E new \in RewriteTargets : file' \in {new} \cup UNION {{p, p \o <<Torn>>} : p \in ProperPrefixes(new)}
    /\ entries' = Unloaded
    /\ high_water' = 0
    /\ UNCHANGED acked

Next ==
    \/ \E kind \in Kinds : AppendRecord(kind)
    \/ AppendBatch
    \/ \E id \in ImportIds, kind \in Kinds : ImportRecord(id, kind)
    \/ CompactStream
    \/ RealignStream
    \/ DeleteStream
    \/ HydrateStream
    \/ InvalidateStreamCache
    \/ Crash
    \/ CrashInAppend
    \/ CrashInRewrite

Spec == Init /\ [][Next]_vars

-----------------------------------------------------------------------------
\* Properties.

\* Every write the log acknowledged (append_with_context returned Ok) is read
\* back by the replay of the file after a crash at this point.
AcknowledgedSurvivesRestart == acked \subseteq TagsOf(LoadRecords(file))

\* The same, as long as no write was cut short: through failed appends, failed
\* rewrites, failed fsyncs, truncation, realignment and any number of restarts
\* between commands, an acknowledged write is never lost.
AcknowledgedSurvivesErrors ==
    faulted \cap {"short_write", "crash_in_append", "crash_in_rewrite"} = {}
        => AcknowledgedSurvivesRestart

\* A restart changes nothing a reader sees: what the process holds in memory is
\* what replay would produce, in the same order, also after appends that failed.
RestartChangesNothing ==
    faulted \subseteq {"append_error", "crash"} /\ entries # Unloaded
        => LoadRecords(file) = entries

\* Ids never decrease along the stream, in memory and after a restart, also when
\* writes are cut short.  Binary search in the worker, partition_point in since()
\* and the choice of the next id rely on it.
Ascending(recs) == \A i \in 1..Len(recs) - 1 : recs[i].id <= recs[i + 1].id
IdsAscend ==
    faulted \cap {"rewrite_error", "sync_error"} = {}
        => Ascending(Hydrated) /\ Ascending(LoadRecords(file))

\* Conflict detection: has_write_after answers exactly as a scan of the records
\* would, through append, import, truncation, invalidation and restart.
HighWaterAnswersLikeScan ==
    faulted \subseteq {"append_error", "crash", "crash_in_append", "crash_in_rewrite"}
        => \A t \in 0..MaxWrites : HasWriteAfter(t) <=> LatestWriteTimestamp(Hydrated) > t
=============================================================================
