--------------------------- MODULE WalCatchupProofs ---------------------------
(***************************************************************************)
(* Proofs about pull replication, for any number of nodes, replicas and    *)
(* streams and any bounds on ids and faults.                               *)
(***************************************************************************)
EXTENDS WalCatchup, NaturalsInduction, WellFoundedInduction, TLAPS

\* A bounded set of naturals that is not empty has a largest member.
LEMMA LargestMember ==
  ASSUME NEW T \in SUBSET (0..MaxId), T # {}
  PROVE  \E m \in T : \A n \in T : m >= n
<1> DEFINE down == {MaxId - n : n \in T}
<1>1. MaxId \in Nat /\ down \in SUBSET Nat /\ down # {}
  <2>1. MaxId \in Nat
    BY CatchupConstants
  <2>2. \A n \in T : MaxId - n \in Nat
    BY <2>1
  <2>3. QED
    BY <2>1, <2>2
<1>2. PICK d \in down : \A e \in down : ~(<<e, d>> \in OpToRel(<, Nat))
  <2> HIDE DEF down
  <2>1. QED
    BY <1>1, WFMin, NatLessThanWellFounded
<1>3. PICK m \in T : d = MaxId - m
  OBVIOUS
<1>4. ASSUME NEW n \in T PROVE m >= n
  <2>1. MaxId - n \in down
    OBVIOUS
  <2>2. ~(MaxId - n < MaxId - m)
    BY <1>1, <1>2, <1>3, <2>1 DEF OpToRel
  <2>3. QED
    BY <1>1, <2>2
<1>5. QED
  BY <1>4

\* LatestId, the next_transaction_id of a stream less one: the largest id, or 0.
LEMMA LatestIdBounds ==
  ASSUME NEW recs \in SUBSET Records
  PROVE  /\ LatestId(recs) \in 0..MaxId
         /\ LatestId(recs) \in {0} \cup Ids(recs)
         /\ \A i \in Ids(recs) : i \in 1..MaxId /\ i <= LatestId(recs)
<1> DEFINE T == {0} \cup Ids(recs)
<1>1. /\ MaxId \in Nat
      /\ \A i \in Ids(recs) : i \in 1..MaxId
  BY CatchupConstants DEF Ids, Records
<1>2. T \in SUBSET (0..MaxId) /\ T # {}
  BY <1>1
<1>3. \E m \in T : \A n \in T : m >= n
  <2> HIDE DEF T
  <2>1. QED
    BY <1>2, LargestMember
<1>4. Max(T) \in T /\ \A n \in T : Max(T) >= n
  <2> HIDE DEF T
  <2>1. QED
    BY <1>3 DEF Max
<1>5. LatestId(recs) = Max(T)
  BY DEF LatestId
<1> HIDE DEF T
<1>6. \A i \in Ids(recs) : i \in T
  BY DEF T
<1>7. LatestId(recs) \in T
  BY <1>4, <1>5
<1>8. \A i \in Ids(recs) : i <= LatestId(recs)
  BY <1>1, <1>2, <1>4, <1>5, <1>6, <1>7
<1>9. QED
  BY <1>1, <1>2, <1>7, <1>8 DEF T

\* A log with more ids ends no earlier.
LEMMA LatestIdGrows ==
  ASSUME NEW recs \in SUBSET Records, NEW more \in SUBSET Records,
         Ids(recs) \subseteq Ids(more)
  PROVE  LatestId(recs) <= LatestId(more)
<1>1. /\ LatestId(recs) \in 0..MaxId /\ LatestId(recs) \in {0} \cup Ids(recs)
      /\ LatestId(more) \in 0..MaxId
      /\ \A i \in Ids(more) : i \in 1..MaxId /\ i <= LatestId(more)
  BY LatestIdBounds
<1>2. QED
  BY <1>1

-----------------------------------------------------------------------------
(* Logs without gaps.                                                      *)

\* recs holds every id from base + 1 up to each of its ids.
Gapless(recs, base) ==
  \A r \in recs : r.id > base /\ \A i \in base + 1..r.id : i \in Ids(recs)

\* The first id a request asks for is the one after this.
Base(cursor) == IF cursor = None THEN 0 ELSE cursor

\* import_wal_records leaves out the ids the stream has and adds the others.
LEMMA MergeIds ==
  ASSUME NEW held \in SUBSET Records, NEW recs \in SUBSET Records
  PROVE  /\ MergeNew(held, recs) \in SUBSET Records
         /\ held \subseteq MergeNew(held, recs)
         /\ MergeNew(held, recs) \subseteq held \cup recs
         /\ Ids(MergeNew(held, recs)) = Ids(held) \cup Ids(recs)
BY DEF MergeNew, Ids

\* A log without gaps is the ids from 1 to its latest.
LEMMA GaplessFromStart ==
  ASSUME NEW recs \in SUBSET Records, Gapless(recs, 0)
  PROVE  Ids(recs) = 1..LatestId(recs)
<1>1. /\ LatestId(recs) \in 0..MaxId /\ LatestId(recs) \in {0} \cup Ids(recs)
      /\ \A i \in Ids(recs) : i \in 1..MaxId /\ i <= LatestId(recs)
  BY LatestIdBounds
<1>2. MaxId \in Nat
  BY CatchupConstants
<1>3. ASSUME NEW i \in 1..LatestId(recs) PROVE i \in Ids(recs)
  <2>1. LatestId(recs) \in Ids(recs)
    BY <1>1, <1>2
  <2>2. PICK r \in recs : r.id = LatestId(recs)
    BY <2>1 DEF Ids
  <2>3. QED
    BY <1>1, <2>2 DEF Gapless
<1>4. ASSUME NEW i \in Ids(recs) PROVE i \in 1..LatestId(recs)
  BY <1>1, <1>2
<1>5. QED
  BY <1>3, <1>4

\* Two answers to requests with the same cursor merge without a gap.
LEMMA MergeGapless ==
  ASSUME NEW held \in SUBSET Records, NEW recs \in SUBSET Records, NEW base \in Nat,
         Gapless(held, base), Gapless(recs, base)
  PROVE  Gapless(MergeNew(held, recs), base)
<1>1. /\ MergeNew(held, recs) \subseteq held \cup recs
      /\ Ids(MergeNew(held, recs)) = Ids(held) \cup Ids(recs)
  BY MergeIds
<1>2. QED
  BY <1>1 DEF Gapless

\* What comes after a cursor that is not past the end of the log extends it
\* without a gap.
LEMMA ExtendGapless ==
  ASSUME NEW held \in SUBSET Records, NEW recs \in SUBSET Records, NEW base \in Nat,
         Gapless(held, 0), Gapless(recs, base), base <= LatestId(held)
  PROVE  Gapless(MergeNew(held, recs), 0)
<1>1. /\ MergeNew(held, recs) \in SUBSET Records
      /\ MergeNew(held, recs) \subseteq held \cup recs
      /\ Ids(MergeNew(held, recs)) = Ids(held) \cup Ids(recs)
  BY MergeIds
<1>2. Ids(held) = 1..LatestId(held) /\ LatestId(held) \in Nat
  BY GaplessFromStart, LatestIdBounds, CatchupConstants
<1>3. SUFFICES ASSUME NEW r \in MergeNew(held, recs)
               PROVE  r.id > 0 /\ \A i \in 1..r.id : i \in Ids(held) \cup Ids(recs)
  BY <1>1 DEF Gapless
<1>4. r.id \in 1..MaxId /\ MaxId \in Nat
  BY <1>1, CatchupConstants DEF Records
<1>5. CASE r \in held
  BY <1>4, <1>5 DEF Gapless
<1>6. CASE r \in recs
  <2>1. ASSUME NEW i \in 1..r.id, i > base PROVE i \in Ids(recs)
    BY <1>4, <1>6, <2>1 DEF Gapless
  <2>2. ASSUME NEW i \in 1..r.id, i <= base PROVE i \in Ids(held)
    BY <1>2, <1>4, <2>2
  <2>3. QED
    BY <1>4, <2>1, <2>2
<1>7. QED
  BY <1>1, <1>5, <1>6

\* An export of a log without gaps, from a cursor on, has none.
LEMMA ExportGapless ==
  ASSUME NEW recs \in SUBSET Records, NEW cursor \in 1..MaxId \cup {None},
         Gapless(recs, 0)
  PROVE  Gapless(Since(recs, cursor), Base(cursor))
<1>1. None \notin Nat /\ MaxId \in Nat
  BY CatchupConstants
<1>2. Base(cursor) \in Nat
  BY <1>1 DEF Base
<1>3. SUFFICES ASSUME NEW r \in Since(recs, cursor)
               PROVE  /\ r.id > Base(cursor)
                      /\ \A i \in Base(cursor) + 1..r.id : i \in Ids(Since(recs, cursor))
  BY DEF Gapless
<1>4. r \in recs /\ r.id \in 1..MaxId /\ r.id > Base(cursor)
  BY <1>1 DEF Since, Base, Records
<1>5. ASSUME NEW i \in Base(cursor) + 1..r.id PROVE i \in Ids(Since(recs, cursor))
  <2>1. i \in 1..r.id /\ i > Base(cursor)
    BY <1>1, <1>2, <1>4
  <2>2. PICK q \in recs : q.id = i
    BY <1>4, <2>1 DEF Gapless, Ids
  <2>3. q \in Since(recs, cursor)
    BY <1>1, <2>1, <2>2 DEF Since, Base
  <2>4. QED
    BY <2>2, <2>3 DEF Ids
<1>6. QED
  BY <1>4, <1>5

\* The frames of an answer up to one of them, which an import that fails stores.
LEMMA UpToGapless ==
  ASSUME NEW recs \in SUBSET Records, NEW base \in Nat, NEW id \in Nat,
         Gapless(recs, base)
  PROVE  UpTo(recs, id) \in SUBSET Records /\ Gapless(UpTo(recs, id), base)
<1>1. MaxId \in Nat
  BY CatchupConstants
<1>2. SUFFICES ASSUME NEW r \in UpTo(recs, id)
               PROVE  r.id > base /\ \A i \in base + 1..r.id : i \in Ids(UpTo(recs, id))
  BY DEF Gapless, UpTo
<1>3. r \in recs /\ r.id \in 1..MaxId /\ r.id <= id
  BY DEF UpTo, Records
<1>4. ASSUME NEW i \in base + 1..r.id PROVE i \in Ids(UpTo(recs, id))
  <2>1. PICK q \in recs : q.id = i
    BY <1>3 DEF Gapless, Ids
  <2>2. q \in UpTo(recs, id)
    BY <1>1, <1>3, <2>1 DEF UpTo
  <2>3. QED
    BY <2>1, <2>2 DEF Ids
<1>5. QED
  BY <1>3, <1>4 DEF Gapless

-----------------------------------------------------------------------------
(* The inductive invariant.                                                *)

\* What nodes hold of a stream with one writer is the writer's, without gaps.
LogsAreGapless ==
  \A n \in Nodes, s \in Streams :
    SingleWriter(s) =>
      /\ wal[n][s] \subseteq wal[WriterOf(s)][s]
      /\ Gapless(wal[n][s], 0)

\* What a pull has received is the writer's, without gaps after the cursor that
\* the pull uses.
PullsAreGapless ==
  \A n \in Nodes, s \in Streams :
    pull[n] # None /\ SingleWriter(s) =>
      /\ pull[n].fetched[s] \subseteq wal[WriterOf(s)][s]
      /\ Gapless(pull[n].fetched[s], Base(pull[n].from[s]))

CatchupInv ==
  /\ CatchupTypeOK
  /\ CursorsSkipNothing
  /\ LogsAreGapless
  /\ PullsAreGapless

\* The writer of a stream with one writer is a node.
LEMMA WriterIsANode ==
  ASSUME NEW s \in Streams, SingleWriter(s)
  PROVE  WriterOf(s) \in Nodes /\ Writers[s] = {WriterOf(s)}
BY DEF SingleWriter, WriterOf

\* Empty logs and no cursors: nodes that have not written or pulled yet.
LEMMA CatchupInitInv == CatchupInit => CatchupInv
<1> SUFFICES ASSUME CatchupInit PROVE CatchupInv
  OBVIOUS
<1>1. CatchupTypeOK
  BY CatchupConstants
     DEF CatchupInit, CatchupTypeOK, NoCursors, NoRecords, Logs, CursorMaps, Records
<1>2. CursorsSkipNothing
  BY DEF CatchupInit, CursorsSkipNothing, NoCursors
<1>3. LogsAreGapless /\ PullsAreGapless
  BY WriterIsANode DEF CatchupInit, LogsAreGapless, PullsAreGapless, Gapless, NoRecords
<1>4. QED
  BY <1>1, <1>2, <1>3 DEF CatchupInv

-----------------------------------------------------------------------------
(* Types.                                                                  *)

\* Exports, merges and the frames of an interrupted import are logs.
LEMMA LogTypes ==
  /\ NoRecords \in Logs /\ NoCursors \in CursorMaps
  /\ \A a, b \in Logs : MergeLogs(a, b) \in Logs
  /\ \A a \in Logs : \A f \in CursorMaps : [s \in Streams |-> Since(a[s], f[s])] \in Logs
<1>1. NoRecords \in Logs /\ NoCursors \in CursorMaps
  BY DEF NoRecords, NoCursors, Logs, CursorMaps
<1>2. ASSUME NEW a \in Logs, NEW b \in Logs PROVE MergeLogs(a, b) \in Logs
  BY DEF MergeLogs, MergeNew, Logs
<1>3. ASSUME NEW a \in Logs, NEW f \in CursorMaps
      PROVE  [s \in Streams |-> Since(a[s], f[s])] \in Logs
  BY DEF Since, Logs
<1>4. QED
  BY <1>1, <1>2, <1>3

\* A peer that was asked leaves the targets; the rest of the pull is what it was.
LEMMA AskedIs ==
  ASSUME NEW pl \in Pulls, NEW p, NEW f \in Logs
  PROVE  /\ Asked(pl, p, f) \in Pulls
         /\ Asked(pl, p, f).fetched = f
         /\ Asked(pl, p, f).from = pl.from
BY DEF Asked, Pulls

\* After an import the pull is over or goes on with nothing received.
LEMMA PullAfterImportIs ==
  ASSUME NEW n \in Nodes, pull[n] \in Pulls
  PROVE  \/ PullAfterImport(n) = None
         \/ /\ PullAfterImport(n) \in Pulls
            /\ PullAfterImport(n).fetched = NoRecords
            /\ PullAfterImport(n).from = pull[n].from
BY LogTypes DEF PullAfterImport, Pulls

\* A step of the task, of a client or of the operator keeps the types.
LEMMA CatchupTypeStep == CatchupTypeOK /\ [CatchupNext]_catchupVars => CatchupTypeOK'
<1> SUFFICES ASSUME CatchupTypeOK, [CatchupNext]_catchupVars PROVE CatchupTypeOK'
  OBVIOUS
<1> USE DEF CatchupTypeOK
<1>1. /\ MaxId \in Nat /\ MaxPullFaults \in Nat
      /\ \A n \in Nodes : pull[n] # None => pull[n] \in Pulls
      /\ \A n \in Nodes : wal[n] \in Logs /\ cursors[n] \in CursorMaps
      /\ Replicas \subseteq Nodes
  BY CatchupConstants
<1>2. PullFault => pull_faults' \in 0..MaxPullFaults
  BY <1>1 DEF PullFault
<1>3. ASSUME NEW n \in Nodes, NEW s \in Streams, AppendLocal(n, s) PROVE CatchupTypeOK'
  <2>1. LatestId(wal[n][s]) \in 0..MaxId
    BY <1>1, LatestIdBounds DEF Logs
  <2>2. [id |-> LatestId(wal[n][s]) + 1, by |-> n] \in Records
    BY <1>1, <1>3, <2>1, CatchupConstants DEF AppendLocal, Records
  <2>3. wal' \in [Nodes -> Logs]
    BY <1>3, <2>2 DEF AppendLocal, Logs
  <2>4. QED
    BY <1>3, <2>3 DEF AppendLocal
<1>4. ASSUME NEW n \in Nodes, NEW mode \in {"sweep", "round"}, StartPull(n, mode)
      PROVE  CatchupTypeOK'
  <2>1. [mode |-> mode, targets |-> Nodes \ {n}, from |-> cursors[n],
         fetched |-> NoRecords, answered |-> FALSE] \in Pulls
    BY <1>1, LogTypes DEF Pulls
  <2>2. QED
    BY <1>4, <2>1 DEF StartPull
<1>5. ASSUME NEW n \in Nodes, NEW p \in Nodes, Fetch(n, p) PROVE CatchupTypeOK'
  <2>1. pull[n] \in Pulls
    BY <1>1, <1>5 DEF Fetch, MayAsk
  <2>2. pull[n].fetched \in Logs /\ pull[n].from \in CursorMaps
    BY <2>1 DEF Pulls
  <2>3. MergeLogs(pull[n].fetched, ExportWalRecords(p, pull[n].from)) \in Logs
    BY <1>1, <2>2, LogTypes DEF ExportWalRecords
  <2>4. QED
    BY <1>5, <2>1, <2>3, AskedIs DEF Fetch
<1>6. ASSUME NEW n \in Nodes, NEW p \in Nodes, FetchFails(n, p) PROVE CatchupTypeOK'
  <2>1. pull[n] \in Pulls /\ pull[n].fetched \in Logs
    BY <1>1, <1>6 DEF FetchFails, MayAsk, Pulls
  <2>2. QED
    BY <1>2, <1>6, <2>1, AskedIs DEF FetchFails
<1>7. ASSUME NEW n \in Nodes, ImportWalRecords(n) PROVE CatchupTypeOK'
  <2>1. pull[n] \in Pulls /\ pull[n].fetched \in Logs
    BY <1>1, <1>7 DEF ImportWalRecords, MayImport, Pulls
  <2>2. wal' \in [Nodes -> Logs]
    BY <1>1, <1>7, <2>1, LogTypes DEF ImportWalRecords
  <2>3. UpdatedCursors(n) \in CursorMaps
    <3>1. ASSUME NEW s \in Streams, pull[n].fetched[s] # {}
          PROVE  LatestId(pull[n].fetched[s]) \in 1..MaxId
      <4>1. pull[n].fetched[s] \in SUBSET Records
        BY <2>1 DEF Logs
      <4>2. PICK i : i \in Ids(pull[n].fetched[s])
        BY <3>1 DEF Ids
      <4>3. QED
        BY <1>1, <4>1, <4>2, LatestIdBounds
    <3>2. QED
      BY <1>1, <3>1 DEF UpdatedCursors, MaxSeen, CursorMaps
  <2>4. QED
    BY <1>7, <2>1, <2>2, <2>3, PullAfterImportIs DEF ImportWalRecords
<1>8. ASSUME NEW n \in Nodes, ImportFails(n) PROVE CatchupTypeOK'
  <2>1. pull[n] \in Pulls /\ pull[n].fetched \in Logs
    BY <1>1, <1>8 DEF ImportFails, MayImport, Pulls
  <2>2. wal' \in [Nodes -> Logs]
    <3>1. PICK stop \in [Streams -> {0} \cup UNION {Ids(pull[n].fetched[s]) : s \in Streams}] :
            wal' = [wal EXCEPT ![n] =
                      MergeLogs(@, [s \in Streams |-> UpTo(pull[n].fetched[s], stop[s])])]
      BY <1>8 DEF ImportFails
    <3>2. [s \in Streams |-> UpTo(pull[n].fetched[s], stop[s])] \in Logs
      BY <2>1 DEF UpTo, Logs
    <3>3. QED
      BY <1>1, <3>1, <3>2, LogTypes
  <2>3. QED
    BY <1>2, <1>8, <2>1, <2>2, PullAfterImportIs DEF ImportFails
<1>9. ASSUME NEW n \in Nodes, Restart(n) PROVE CatchupTypeOK'
  BY <1>2, <1>9, LogTypes DEF Restart
<1>10. CASE UNCHANGED catchupVars
  BY <1>10 DEF catchupVars
<1>11. QED
  BY <1>1, <1>3, <1>4, <1>5, <1>6, <1>7, <1>8, <1>9, <1>10 DEF CatchupNext, PullTaskStep

-----------------------------------------------------------------------------
(* The steps.                                                              *)

\* A log only grows, so a cursor that was not past its end is not now.
LEMMA StillCovered ==
  ASSUME CatchupTypeOK, CatchupTypeOK', NEW n \in Nodes, NEW s \in Streams,
         wal[n][s] \subseteq wal'[n][s],
         NEW c \in 1..MaxId, c <= LatestId(wal[n][s])
  PROVE  c <= LatestId(wal'[n][s])
<1>1. wal[n][s] \in SUBSET Records /\ wal'[n][s] \in SUBSET Records
  BY DEF CatchupTypeOK, Logs
<1>2. Ids(wal[n][s]) \subseteq Ids(wal'[n][s])
  BY DEF Ids
<1>3. LatestId(wal[n][s]) <= LatestId(wal'[n][s])
  BY <1>1, <1>2, LatestIdGrows
<1>4. LatestId(wal[n][s]) \in Nat /\ LatestId(wal'[n][s]) \in Nat /\ MaxId \in Nat
  BY <1>1, LatestIdBounds, CatchupConstants
<1>5. QED
  BY <1>3, <1>4

\* The cursors of a node in the types the provers need.
LEMMA CursorTypes ==
  ASSUME CatchupTypeOK, NEW n \in Nodes, NEW s \in Streams
  PROVE  /\ cursors[n][s] \in 1..MaxId \cup {None}
         /\ pull[n] # None => /\ pull[n] \in Pulls
                              /\ pull[n].from[s] \in 1..MaxId \cup {None}
                              /\ pull[n].fetched[s] \in SUBSET Records
         /\ wal[n][s] \in SUBSET Records
BY DEF CatchupTypeOK, CursorMaps, Pulls, Logs

\* The next id of the writer extends its log; the others hold what they held.
LEMMA AppendLocalStep ==
  ASSUME CatchupInv, CatchupTypeOK', NEW n \in Nodes, NEW s \in Streams, AppendLocal(n, s)
  PROVE  CatchupInv'
<1> DEFINE id == LatestId(wal[n][s]) + 1
           new == [id |-> id, by |-> n]
<1>1. /\ CatchupTypeOK /\ CursorsSkipNothing /\ LogsAreGapless /\ PullsAreGapless
      /\ UNCHANGED <<cursors, pull>>
  BY DEF CatchupInv, AppendLocal
<1>2. /\ wal'[n][s] = wal[n][s] \cup {new}
      /\ \A m \in Nodes, t \in Streams : <<m, t>> # <<n, s>> => wal'[m][t] = wal[m][t]
      /\ \A m \in Nodes, t \in Streams : wal[m][t] \subseteq wal'[m][t]
  BY <1>1 DEF AppendLocal, CatchupTypeOK, Logs
<1>3. CursorsSkipNothing'
  BY <1>1, <1>2, StillCovered, CursorTypes DEF CursorsSkipNothing
<1>4. SingleWriter(s) => n = WriterOf(s)
  BY WriterIsANode DEF AppendLocal
<1>5. SingleWriter(s) => Gapless(wal'[n][s], 0)
  <2> SUFFICES ASSUME SingleWriter(s) PROVE Gapless(wal'[n][s], 0)
    OBVIOUS
  <2>1. Gapless(wal[n][s], 0) /\ wal[n][s] \in SUBSET Records
    BY <1>1, CursorTypes DEF LogsAreGapless
  <2>2. Ids(wal[n][s]) = 1..LatestId(wal[n][s]) /\ LatestId(wal[n][s]) \in Nat
    BY <2>1, GaplessFromStart, LatestIdBounds, CatchupConstants
  <2>3. Ids(wal'[n][s]) = 1..id
    <3>1. Ids(wal'[n][s]) = Ids(wal[n][s]) \cup {id}
      <4>1. new.id = id
        OBVIOUS
      <4> HIDE DEF new, id
      <4>2. QED
        BY <1>2, <4>1 DEF Ids
    <3>2. QED
      BY <2>2, <3>1
  <2>4. ASSUME NEW r \in wal'[n][s] PROVE r.id \in 1..id
    BY <2>3, <2>4 DEF Ids
  <2>5. QED
    BY <2>2, <2>3, <2>4 DEF Gapless
<1>6. LogsAreGapless'
  <2> SUFFICES ASSUME NEW m \in Nodes, NEW t \in Streams, SingleWriter(t)
               PROVE  /\ wal'[m][t] \subseteq wal'[WriterOf(t)][t]
                      /\ Gapless(wal'[m][t], 0)
    BY DEF LogsAreGapless
  <2>1. /\ wal[m][t] \subseteq wal[WriterOf(t)][t] /\ Gapless(wal[m][t], 0)
        /\ WriterOf(t) \in Nodes
    BY <1>1, WriterIsANode DEF LogsAreGapless
  <2>2. CASE m = n /\ t = s
    BY <1>4, <1>5, <2>2
  <2>3. CASE ~(m = n /\ t = s)
    BY <1>2, <2>1, <2>3
  <2>4. QED
    BY <2>2, <2>3
<1>7. PullsAreGapless'
  BY <1>1, <1>2, WriterIsANode DEF PullsAreGapless
<1>8. QED
  BY <1>3, <1>6, <1>7 DEF CatchupInv

\* A pull starts with the cursors of the node and nothing received.
LEMMA StartPullStep ==
  ASSUME CatchupInv, CatchupTypeOK', NEW n \in Nodes, NEW mode \in {"sweep", "round"},
         StartPull(n, mode)
  PROVE  CatchupInv'
<1>1. CursorsSkipNothing'
  BY DEF CatchupInv, CatchupTypeOK, CursorsSkipNothing, StartPull
<1>2. LogsAreGapless'
  BY DEF CatchupInv, LogsAreGapless, StartPull
<1>3. PullsAreGapless'
  BY WriterIsANode
     DEF CatchupInv, CatchupTypeOK, PullsAreGapless, StartPull, Gapless, NoRecords
<1>4. QED
  BY <1>1, <1>2, <1>3 DEF CatchupInv

\* An answer is an export of a log without gaps from the cursor of the pull on.
LEMMA FetchStep ==
  ASSUME CatchupInv, CatchupTypeOK', NEW n \in Nodes, NEW p \in Nodes, Fetch(n, p)
  PROVE  CatchupInv'
<1> DEFINE export == ExportWalRecords(p, pull[n].from)
           all == MergeLogs(pull[n].fetched, export)
<1>1. /\ CatchupTypeOK /\ CursorsSkipNothing /\ LogsAreGapless /\ PullsAreGapless
      /\ UNCHANGED <<wal, cursors>>
      /\ pull[n] # None /\ pull[n] \in Pulls
  BY DEF CatchupInv, Fetch, MayAsk, CatchupTypeOK
<1>2. all \in Logs
  BY <1>1, LogTypes DEF ExportWalRecords, CatchupTypeOK, Pulls
<1>3. /\ pull'[n].fetched = all /\ pull'[n].from = pull[n].from
      /\ \A m \in Nodes : m # n => pull'[m] = pull[m]
  BY <1>1, <1>2, AskedIs DEF Fetch, CatchupTypeOK
<1>4. CursorsSkipNothing'
  BY <1>1, <1>3 DEF CursorsSkipNothing
<1>5. LogsAreGapless'
  BY <1>1 DEF LogsAreGapless
<1>6. ASSUME NEW s \in Streams, SingleWriter(s)
      PROVE  /\ all[s] \subseteq wal[WriterOf(s)][s]
             /\ Gapless(all[s], Base(pull[n].from[s]))
  <2>1. /\ all[s] = MergeNew(pull[n].fetched[s], Since(wal[p][s], pull[n].from[s]))
        /\ pull[n].fetched[s] \in SUBSET Records
        /\ pull[n].from[s] \in 1..MaxId \cup {None}
        /\ wal[p][s] \in SUBSET Records
    BY <1>1, CursorTypes DEF MergeLogs, ExportWalRecords
  <2>2. /\ Since(wal[p][s], pull[n].from[s]) \in SUBSET Records
        /\ Since(wal[p][s], pull[n].from[s]) \subseteq wal[p][s]
    BY <2>1 DEF Since
  <2>3. all[s] \subseteq wal[WriterOf(s)][s]
    <3>1. /\ wal[p][s] \subseteq wal[WriterOf(s)][s]
          /\ pull[n].fetched[s] \subseteq wal[WriterOf(s)][s]
      BY <1>1, <1>6 DEF LogsAreGapless, PullsAreGapless
    <3>2. all[s] \subseteq pull[n].fetched[s] \cup Since(wal[p][s], pull[n].from[s])
      <4> HIDE DEF all
      <4>1. QED
        BY <2>1 DEF MergeNew
    <3>3. QED
      BY <2>2, <3>1, <3>2
  <2>4. Gapless(Since(wal[p][s], pull[n].from[s]), Base(pull[n].from[s]))
    BY <1>1, <1>6, <2>1, ExportGapless DEF LogsAreGapless
  <2>5. Base(pull[n].from[s]) \in Nat
    BY <2>1, CatchupConstants DEF Base
  <2>6. QED
    BY <1>1, <1>6, <2>1, <2>2, <2>3, <2>4, <2>5, MergeGapless DEF PullsAreGapless
<1>7. PullsAreGapless'
  <2> HIDE DEF all, export
  <2>1. QED
    BY <1>1, <1>3, <1>6, WriterIsANode DEF PullsAreGapless
<1>8. QED
  BY <1>4, <1>5, <1>7 DEF CatchupInv

\* A lost answer changes nothing but the peers that are left.
LEMMA FetchFailsStep ==
  ASSUME CatchupInv, CatchupTypeOK', NEW n \in Nodes, NEW p \in Nodes, FetchFails(n, p)
  PROVE  CatchupInv'
<1>1. /\ CatchupTypeOK /\ CursorsSkipNothing /\ LogsAreGapless /\ PullsAreGapless
      /\ UNCHANGED <<wal, cursors>>
      /\ pull[n] # None /\ pull[n] \in Pulls /\ pull[n].fetched \in Logs
  BY DEF CatchupInv, FetchFails, MayAsk, CatchupTypeOK, Pulls
<1>2. /\ pull'[n].fetched = pull[n].fetched /\ pull'[n].from = pull[n].from
      /\ \A m \in Nodes : m # n => pull'[m] = pull[m]
  BY <1>1, AskedIs DEF FetchFails, CatchupTypeOK
<1>3. CursorsSkipNothing'
  BY <1>1, <1>2 DEF CursorsSkipNothing
<1>4. LogsAreGapless'
  BY <1>1 DEF LogsAreGapless
<1>5. PullsAreGapless'
  BY <1>1, <1>2, WriterIsANode DEF PullsAreGapless
<1>6. QED
  BY <1>3, <1>4, <1>5 DEF CatchupInv

\* An import merges part of what was received; the cursors of the node become
\* ones that are not past what it then holds, and the pull is over or goes on with
\* nothing received.
LEMMA ImportStep ==
  ASSUME CatchupInv, CatchupTypeOK', NEW n \in Nodes, MayImport(n),
         NEW part \in Logs,
         \A s \in Streams :
           /\ part[s] \subseteq pull[n].fetched[s]
           /\ SingleWriter(s) => Gapless(part[s], Base(pull[n].from[s])),
         wal' = [wal EXCEPT ![n] = MergeLogs(@, part)],
         pull' = [pull EXCEPT ![n] = PullAfterImport(n)],
         \A m \in Nodes : m # n => cursors'[m] = cursors[m],
         \A s \in Streams :
           cursors'[n][s] # None =>
             \/ cursors'[n][s] = cursors[n][s]
             \/ cursors'[n][s] \in 1..MaxId /\ cursors'[n][s] <= LatestId(wal'[n][s])
  PROVE  CatchupInv'
<1>1. /\ CatchupTypeOK /\ CursorsSkipNothing /\ LogsAreGapless /\ PullsAreGapless
      /\ pull[n] # None /\ pull[n] \in Pulls
  BY DEF CatchupInv, MayImport, CatchupTypeOK
<1>2. /\ \A s \in Streams : wal'[n][s] = MergeNew(wal[n][s], part[s])
      /\ \A m \in Nodes : m # n => wal'[m] = wal[m]
  BY <1>1 DEF MergeLogs, CatchupTypeOK
<1>3. \A s \in Streams : part[s] \in SUBSET Records
  BY DEF Logs
<1>4. \A m \in Nodes, s \in Streams : wal[m][s] \subseteq wal'[m][s]
  BY <1>2 DEF MergeNew
<1>5. /\ \A m \in Nodes : m # n => pull'[m] = pull[m]
      /\ pull'[n] # None => pull'[n].from = pull[n].from /\ pull'[n].fetched = NoRecords
  BY <1>1, PullAfterImportIs DEF CatchupTypeOK
<1>6. CursorsSkipNothing'
  <2> SUFFICES ASSUME NEW m \in Nodes, NEW s \in Streams
               PROVE  /\ cursors'[m][s] # None => cursors'[m][s] <= LatestId(wal'[m][s])
                      /\ pull'[m] # None /\ pull'[m].from[s] # None
                           => pull'[m].from[s] <= LatestId(wal'[m][s])
    BY DEF CursorsSkipNothing
  <2>1. /\ cursors[m][s] \in 1..MaxId \cup {None}
        /\ cursors[m][s] # None => cursors[m][s] <= LatestId(wal[m][s])
        /\ pull[m] # None => /\ pull[m].from[s] \in 1..MaxId \cup {None}
                             /\ pull[m].from[s] # None => pull[m].from[s] <= LatestId(wal[m][s])
    BY <1>1, CursorTypes DEF CursorsSkipNothing
  <2>2. \A c \in 1..MaxId : c <= LatestId(wal[m][s]) => c <= LatestId(wal'[m][s])
    BY <1>1, <1>4, StillCovered
  <2>3. CASE m = n
    BY <1>1, <1>5, <2>1, <2>2, <2>3
  <2>4. CASE m # n
    BY <1>5, <2>1, <2>2, <2>4
  <2>5. QED
    BY <2>3, <2>4
<1>7. LogsAreGapless'
  <2> SUFFICES ASSUME NEW m \in Nodes, NEW s \in Streams, SingleWriter(s)
               PROVE  /\ wal'[m][s] \subseteq wal'[WriterOf(s)][s]
                      /\ Gapless(wal'[m][s], 0)
    BY DEF LogsAreGapless
  <2>1. /\ wal[m][s] \subseteq wal[WriterOf(s)][s] /\ Gapless(wal[m][s], 0)
        /\ pull[n].fetched[s] \subseteq wal[WriterOf(s)][s]
        /\ WriterOf(s) \in Nodes
    BY <1>1, WriterIsANode DEF LogsAreGapless, PullsAreGapless
  <2>2. wal[WriterOf(s)][s] \subseteq wal'[WriterOf(s)][s]
    BY <1>4, <2>1
  <2>3. CASE m = n
    <3>1. wal'[n][s] \subseteq wal[n][s] \cup part[s]
      BY <1>2 DEF MergeNew
    <3>2. wal'[n][s] \subseteq wal'[WriterOf(s)][s]
      BY <2>1, <2>2, <2>3, <3>1
    <3>3. /\ wal[n][s] \in SUBSET Records
          /\ pull[n].from[s] \in 1..MaxId \cup {None}
          /\ pull[n].from[s] # None => pull[n].from[s] <= LatestId(wal[n][s])
          /\ LatestId(wal[n][s]) \in Nat
      BY <1>1, CursorTypes, LatestIdBounds, CatchupConstants DEF CursorsSkipNothing
    <3>4. Base(pull[n].from[s]) \in Nat /\ Base(pull[n].from[s]) <= LatestId(wal[n][s])
      BY <3>3, CatchupConstants DEF Base
    <3>5. Gapless(wal'[n][s], 0)
      BY <1>2, <1>3, <2>1, <2>3, <3>3, <3>4, ExtendGapless
    <3>6. QED
      BY <2>3, <3>2, <3>5
  <2>4. CASE m # n
    BY <1>2, <2>1, <2>2, <2>4
  <2>5. QED
    BY <2>3, <2>4
<1>8. PullsAreGapless'
  <2> SUFFICES ASSUME NEW m \in Nodes, NEW s \in Streams, pull'[m] # None, SingleWriter(s)
               PROVE  /\ pull'[m].fetched[s] \subseteq wal'[WriterOf(s)][s]
                      /\ Gapless(pull'[m].fetched[s], Base(pull'[m].from[s]))
    BY DEF PullsAreGapless
  <2>1. wal[WriterOf(s)][s] \subseteq wal'[WriterOf(s)][s]
    BY <1>4, WriterIsANode
  <2>2. CASE m = n
    BY <1>5, <2>2 DEF NoRecords, Gapless
  <2>3. CASE m # n
    BY <1>1, <1>5, <2>1, <2>3 DEF PullsAreGapless
  <2>4. QED
    BY <2>2, <2>3
<1>9. QED
  BY <1>6, <1>7, <1>8 DEF CatchupInv

\* import_wal_records stores all that was received; the cursors move to the
\* largest ids received, which are then stored.
LEMMA ImportWalRecordsStep ==
  ASSUME CatchupInv, CatchupTypeOK', NEW n \in Nodes, ImportWalRecords(n)
  PROVE  CatchupInv'
<1>1. /\ CatchupTypeOK /\ PullsAreGapless
      /\ MayImport(n) /\ pull[n] # None /\ pull[n] \in Pulls
  BY DEF CatchupInv, ImportWalRecords, MayImport, CatchupTypeOK
<1>2. pull[n].fetched \in Logs
  BY <1>1 DEF Pulls
<1>3. \A s \in Streams : wal'[n][s] = MergeNew(wal[n][s], pull[n].fetched[s])
  BY <1>1 DEF ImportWalRecords, MergeLogs, CatchupTypeOK
<1>4. ASSUME NEW s \in Streams, cursors'[n][s] # None
      PROVE  \/ cursors'[n][s] = cursors[n][s]
             \/ cursors'[n][s] \in 1..MaxId /\ cursors'[n][s] <= LatestId(wal'[n][s])
  <2>1. CASE pull[n].fetched = NoRecords
    BY <1>1, <2>1 DEF ImportWalRecords, UpdatedCursors, CatchupTypeOK
  <2>2. CASE pull[n].fetched # NoRecords
    <3>1. cursors'[n][s] = LatestId(pull[n].fetched[s])
      BY <1>1, <1>4, <2>2 DEF ImportWalRecords, UpdatedCursors, MaxSeen, CatchupTypeOK
    <3>2. /\ wal[n][s] \in SUBSET Records /\ pull[n].fetched[s] \in SUBSET Records
          /\ wal'[n][s] \in SUBSET Records
      BY <1>1, CursorTypes DEF CatchupTypeOK, Logs
    <3>3. Ids(pull[n].fetched[s]) \subseteq Ids(wal'[n][s])
      <4>1. Ids(MergeNew(wal[n][s], pull[n].fetched[s]))
              = Ids(wal[n][s]) \cup Ids(pull[n].fetched[s])
        BY <3>2, MergeIds
      <4>2. QED
        BY <1>3, <4>1
    <3>4. LatestId(pull[n].fetched[s]) <= LatestId(wal'[n][s])
      BY <3>2, <3>3, LatestIdGrows
    <3>5. cursors'[n][s] \in 1..MaxId
      BY <1>4 DEF CatchupTypeOK, CursorMaps
    <3>6. QED
      BY <3>1, <3>4, <3>5
  <2>3. QED
    BY <2>1, <2>2
<1>5. QED
  BY <1>1, <1>2, <1>4, ImportStep DEF ImportWalRecords, PullsAreGapless, CatchupTypeOK

\* An import that fails stores the first frames of each stream and leaves the
\* cursors where they are.
LEMMA ImportFailsStep ==
  ASSUME CatchupInv, CatchupTypeOK', NEW n \in Nodes, ImportFails(n)
  PROVE  CatchupInv'
<1>1. /\ CatchupTypeOK /\ PullsAreGapless
      /\ MayImport(n) /\ pull[n] # None /\ pull[n] \in Pulls
  BY DEF CatchupInv, ImportFails, MayImport, CatchupTypeOK
<1>2. PICK stop \in [Streams -> {0} \cup UNION {Ids(pull[n].fetched[s]) : s \in Streams}] :
        wal' = [wal EXCEPT ![n] =
                  MergeLogs(@, [s \in Streams |-> UpTo(pull[n].fetched[s], stop[s])])]
  BY DEF ImportFails
<1> DEFINE first == [s \in Streams |-> UpTo(pull[n].fetched[s], stop[s])]
<1>3. ASSUME NEW s \in Streams
      PROVE  /\ first[s] \subseteq pull[n].fetched[s]
             /\ first[s] \in SUBSET Records
             /\ SingleWriter(s) => Gapless(first[s], Base(pull[n].from[s]))
  <2>1. /\ pull[n].fetched[s] \in SUBSET Records
        /\ pull[n].from[s] \in 1..MaxId \cup {None}
    BY <1>1, CursorTypes
  <2>2. stop[s] \in Nat
    <3>1. \A t \in Streams : \A i \in Ids(pull[n].fetched[t]) : i \in Nat
      BY <1>1, CursorTypes, LatestIdBounds, CatchupConstants
    <3>2. QED
      BY <3>1
  <2>3. Base(pull[n].from[s]) \in Nat
    BY <2>1, CatchupConstants DEF Base
  <2>4. first[s] = UpTo(pull[n].fetched[s], stop[s])
    OBVIOUS
  <2>5. first[s] \subseteq pull[n].fetched[s] /\ first[s] \in SUBSET Records
    BY <2>1, <2>4 DEF UpTo
  <2>6. SingleWriter(s) => Gapless(first[s], Base(pull[n].from[s]))
    BY <1>1, <2>1, <2>2, <2>3, <2>4, UpToGapless DEF PullsAreGapless
  <2>7. QED
    BY <2>5, <2>6
<1>4. first \in Logs
  BY <1>3 DEF Logs
<1>5. /\ wal' = [wal EXCEPT ![n] = MergeLogs(@, first)]
      /\ pull' = [pull EXCEPT ![n] = PullAfterImport(n)]
      /\ cursors' = cursors
  BY <1>2 DEF ImportFails
<1> HIDE DEF first
<1>6. QED
  BY <1>1, <1>3, <1>4, <1>5, ImportStep

\* A restart forgets the cursors and the pull of one node, nothing else.
LEMMA RestartStep ==
  ASSUME CatchupInv, CatchupTypeOK', NEW n \in Nodes, Restart(n)
  PROVE  CatchupInv'
<1>1. CursorsSkipNothing'
  BY DEF CatchupInv, CatchupTypeOK, CursorsSkipNothing, Restart, NoCursors
<1>2. LogsAreGapless'
  BY DEF CatchupInv, LogsAreGapless, Restart
<1>3. PullsAreGapless'
  BY WriterIsANode DEF CatchupInv, CatchupTypeOK, PullsAreGapless, Restart
<1>4. QED
  BY <1>1, <1>2, <1>3 DEF CatchupInv

\* Every step preserves the inductive invariant.
LEMMA CatchupStepInv == CatchupInv /\ [CatchupNext]_catchupVars => CatchupInv'
<1> SUFFICES ASSUME CatchupInv, [CatchupNext]_catchupVars PROVE CatchupInv'
  OBVIOUS
<1>1. CatchupTypeOK' /\ Replicas \subseteq Nodes
  BY CatchupTypeStep, CatchupConstants DEF CatchupInv
<1>2. CASE CatchupNext
  <2>1. CASE \E n \in Nodes, s \in Streams : AppendLocal(n, s)
    BY <1>1, <2>1, AppendLocalStep
  <2>2. ASSUME NEW n \in Replicas, PullTaskStep(n) PROVE CatchupInv'
    BY <1>1, <2>2, StartPullStep, FetchStep, FetchFailsStep, ImportWalRecordsStep,
       ImportFailsStep
       DEF PullTaskStep
  <2>3. CASE \E n \in Replicas : Restart(n)
    BY <1>1, <2>3, RestartStep
  <2>4. QED
    BY <1>2, <2>1, <2>2, <2>3 DEF CatchupNext
<1>3. CASE UNCHANGED catchupVars
  BY <1>3
     DEF catchupVars, CatchupInv, CatchupTypeOK, CursorsSkipNothing, LogsAreGapless,
         PullsAreGapless
<1>4. QED
  BY <1>2, <1>3

-----------------------------------------------------------------------------
(* What is proved.                                                         *)

\* The inductive invariant of pull replication holds.
THEOREM CatchupInvariant == CatchupSpec => []CatchupInv
BY CatchupInitInv, CatchupStepInv, PTL DEF CatchupSpec

\* The maps of the replication task and the logs keep their types.
THEOREM CatchupTypesHold == CatchupSpec => []CatchupTypeOK
<1>1. CatchupInv => CatchupTypeOK
  BY DEF CatchupInv
<1>2. QED
  BY <1>1, CatchupInvariant, PTL

\* execute_live_wal_catchup_sync: no cursor is past what the node holds, so no
\* record is skipped, with any number of writers, peers, lost answers, imports
\* that fail half way and restarts.
THEOREM NoCursorSkips == CatchupSpec => []CursorsSkipNothing
<1>1. CatchupInv => CursorsSkipNothing
  BY DEF CatchupInv
<1>2. QED
  BY <1>1, CatchupInvariant, PTL

\* import_wal_records: every node holds a prefix of what the one writer of a
\* stream wrote, through any relays, faults and restarts.
THEOREM ReplicasAreGapless == CatchupSpec => []ReplicasHoldPrefixes
<1>1. CatchupInv => ReplicasHoldPrefixes
  <2> SUFFICES ASSUME CatchupInv, NEW n \in Nodes, NEW s \in Streams, SingleWriter(s)
               PROVE  IsPrefixOf(wal[n][s], wal[WriterOf(s)][s])
    BY DEF ReplicasHoldPrefixes
  <2>1. /\ wal[n][s] \subseteq wal[WriterOf(s)][s] /\ Gapless(wal[n][s], 0)
        /\ wal[n][s] \in SUBSET Records
    BY CursorTypes DEF CatchupInv, LogsAreGapless
  <2>2. QED
    BY <2>1, GaplessFromStart DEF IsPrefixOf
<1>2. QED
  BY <1>1, CatchupInvariant, PTL
=============================================================================
