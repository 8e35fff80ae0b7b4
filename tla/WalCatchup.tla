----------------------------- MODULE WalCatchup -----------------------------
(***************************************************************************)
(* Pull replication of one database's WAL between the nodes of an affinity *)
(* (server/src/core/control/replication_sync.rs and the export and import  *)
(* of server/src/core/app/control/wal.rs).  A node's replication task asks *)
(* each peer for the records after its cursors, imports what came back and *)
(* moves the cursors.  Clients keep writing while a pull is under way: the *)
(* task does not hold the server's lock between a peer's answer and the    *)
(* import.  Responses are lost, imports fail half way, nodes restart and   *)
(* forget their cursors, which live in the task's memory only.             *)
(***************************************************************************)
EXTENDS Naturals, FiniteSets, FiniteSetsExt

CONSTANTS
    Nodes,
    Replicas,       \* the nodes started with an affinity, which run the task
    Streams,        \* the database's stream and those of its tables
    Writers,        \* Writers[s] is the set of nodes whose clients write to s
    MaxId,          \* bound: largest id of any stream
    MaxIdOf,        \* bound: largest id of each stream
    MaxPullFaults,  \* bound: lost answers, failing imports and restarts
    None            \* no cursor for a stream; no pull in progress

ASSUME CatchupConstants ==
    /\ Replicas \subseteq Nodes
    /\ Writers \in [Streams -> SUBSET Nodes]
    /\ MaxIdOf \in [Streams -> 0..MaxId]
    /\ MaxId \in Nat /\ MaxPullFaults \in Nat
    /\ None \notin Nat

VARIABLES
    wal,            \* wal[n][s]: the records node n holds of stream s
    cursors,        \* wal_cursors of the replication task
    pull,           \* the catch-up call in progress at a node, or None
    pull_faults     \* number of faults so far

catchupVars == <<wal, cursors, pull, pull_faults>>

\* A record; "by" stands for its content and tells apart the records that two
\* nodes gave the same id.
Records == [id : 1..MaxId, by : Nodes]
Logs == [Streams -> SUBSET Records]
CursorMaps == [Streams -> 1..MaxId \cup {None}]

\* "sweep" asks all peers and imports once (a WalCatchup step of the sync
\* plan); "round" imports after every peer (the catch-up of a ready node).
\* Both use the cursors read when they began.
Pulls == [mode : {"sweep", "round"}, targets : SUBSET Nodes, from : CursorMaps,
          fetched : Logs, answered : BOOLEAN]

CatchupTypeOK ==
    /\ wal \in [Nodes -> Logs]
    /\ cursors \in [Nodes -> CursorMaps]
    /\ pull \in [Nodes -> Pulls \cup {None}]
    /\ pull_faults \in 0..MaxPullFaults

PullFault == pull_faults < MaxPullFaults /\ pull_faults' = pull_faults + 1

NoCursors == [s \in Streams |-> None]
NoRecords == [s \in Streams |-> {}]

CatchupInit ==
    /\ wal = [n \in Nodes |-> NoRecords]
    /\ cursors = [n \in Nodes |-> NoCursors]
    /\ pull = [n \in Nodes |-> None]
    /\ pull_faults = 0

-----------------------------------------------------------------------------
\* Reading and extending a stream.

Ids(recs) == {r.id : r \in recs}
LatestId(recs) == Max({0} \cup Ids(recs))

\* Mutant of Since: a stream without a cursor is not exported.
SinceCursoredOnly(recs, from) == {r \in recs : from # None /\ r.id > from}

\* A stream without a cursor is exported from its first record, also when the
\* request carries cursors for other streams.
Since(recs, from) == {r \in recs : from = None \/ r.id > from}

ExportWalRecords(p, from) == [s \in Streams |-> Since(wal[p][s], from[s])]

\* Records whose id the stream already has are left out, whatever they hold;
\* of two records with one id the first fetched is kept.
MergeNew(held, recs) == held \cup {r \in recs : r.id \notin Ids(held)}
MergeLogs(held, new) == [s \in Streams |-> MergeNew(held[s], new[s])]

\* A client's write at node n takes the next id.
AppendLocal(n, s) ==
    LET id == LatestId(wal[n][s]) + 1 IN
    /\ n \in Writers[s]
    /\ id <= MaxIdOf[s]
    /\ wal' = [wal EXCEPT ![n][s] = @ \cup {[id |-> id, by |-> n]}]
    /\ UNCHANGED <<cursors, pull, pull_faults>>

-----------------------------------------------------------------------------
\* One pull of the replication task of node n.

StartPull(n, mode) ==
    /\ pull[n] = None
    /\ pull' = [pull EXCEPT ![n] =
                  [mode |-> mode, targets |-> Nodes \ {n}, from |-> cursors[n],
                   fetched |-> NoRecords, answered |-> FALSE]]
    /\ UNCHANGED <<wal, cursors, pull_faults>>

\* A round imports what one peer sent before it asks the next; an empty answer
\* leaves nothing to import.
MayAsk(n, p) ==
    /\ pull[n] # None
    /\ p \in pull[n].targets
    /\ ~pull[n].answered

Asked(pl, p, fetched) ==
    [pl EXCEPT !.targets = @ \ {p},
               !.fetched = fetched,
               !.answered = pl.mode = "round" /\ fetched # NoRecords]

\* Peer p answers with an export of its streams.
Fetch(n, p) ==
    /\ MayAsk(n, p)
    /\ pull' = [pull EXCEPT ![n] =
                  Asked(@, p, MergeLogs(@.fetched, ExportWalRecords(p, @.from)))]
    /\ UNCHANGED <<wal, cursors, pull_faults>>

\* No connection, a timeout, another answer, or an answer that is not ok.
FetchFails(n, p) ==
    /\ MayAsk(n, p)
    /\ PullFault
    /\ pull' = [pull EXCEPT ![n] = Asked(@, p, @.fetched)]
    /\ UNCHANGED <<wal, cursors>>

MayImport(n) ==
    /\ pull[n] # None
    /\ pull[n].answered \/ pull[n].targets = {}

\* After the import a round goes on with the next peer.
PullAfterImport(n) ==
    IF pull[n].targets = {} THEN None
    ELSE [pull[n] EXCEPT !.fetched = NoRecords, !.answered = FALSE]

\* The largest id received of each stream.  The map replaces the previous one,
\* so a stream that brought nothing has no cursor any more.
MaxSeen(n) ==
    [s \in Streams |-> IF pull[n].fetched[s] = {} THEN None
                       ELSE LatestId(pull[n].fetched[s])]

UpdatedCursors(n) ==
    IF pull[n].fetched = NoRecords THEN cursors[n] ELSE MaxSeen(n)

ImportWalRecords(n) ==
    /\ MayImport(n)
    /\ wal' = [wal EXCEPT ![n] = MergeLogs(@, pull[n].fetched)]
    /\ cursors' = [cursors EXCEPT ![n] = UpdatedCursors(n)]
    /\ pull' = [pull EXCEPT ![n] = PullAfterImport(n)]
    /\ UNCHANGED pull_faults

\* Mutant of UpTo: the export sorts the newest record first.
UpToNewestFirst(recs, id) == {r \in recs : r.id >= id}

\* The frames of a stream up to one of them: the export sorts by time, then id,
\* and a writer's clock is taken not to step back.
UpTo(recs, id) == {r \in recs : r.id <= id}

\* Mutant of ImportFails: the cursors move although nothing was stored.
ImportFailsMovingCursors(n) ==
    /\ MayImport(n)
    /\ PullFault
    /\ cursors' = [cursors EXCEPT ![n] = UpdatedCursors(n)]
    /\ pull' = [pull EXCEPT ![n] = PullAfterImport(n)]
    /\ UNCHANGED wal

\* The import stops at an error: the frames before it are in the log.  The error
\* is logged and the task goes on.
ImportFails(n) ==
    /\ MayImport(n)
    /\ pull[n].fetched # NoRecords
    /\ PullFault
    /\ \E stop \in [Streams -> {0} \cup UNION {Ids(pull[n].fetched[s]) : s \in Streams}] :
          wal' = [wal EXCEPT ![n] =
                    MergeLogs(@, [s \in Streams |-> UpTo(pull[n].fetched[s], stop[s])])]
    /\ pull' = [pull EXCEPT ![n] = PullAfterImport(n)]
    /\ UNCHANGED cursors

\* The log survives a restart, the task's memory does not.
Restart(n) ==
    /\ PullFault
    /\ cursors' = [cursors EXCEPT ![n] = NoCursors]
    /\ pull' = [pull EXCEPT ![n] = None]
    /\ UNCHANGED wal

\* What the replication task of node n does next.
PullTaskStep(n) ==
    \/ \E mode \in {"sweep", "round"} : StartPull(n, mode)
    \/ \E p \in Nodes : Fetch(n, p)
    \/ \E p \in Nodes : FetchFails(n, p)
    \/ ImportWalRecords(n)
    \/ ImportFails(n)

CatchupNext ==
    \/ \E n \in Nodes, s \in Streams : AppendLocal(n, s)
    \/ \E n \in Replicas : PullTaskStep(n)
    \/ \E n \in Replicas : Restart(n)

\* The timer of a ready node starts a pull again and again, and every request
\* ends: it is answered or it times out.
CatchupFairness == \A n \in Replicas : WF_catchupVars(PullTaskStep(n))

CatchupSpec == CatchupInit /\ [][CatchupNext]_catchupVars
CatchupFairSpec == CatchupSpec /\ CatchupFairness

-----------------------------------------------------------------------------
\* Properties.

SingleWriter(s) == \E n \in Nodes : Writers[s] = {n}
WriterOf(s) == CHOOSE n \in Nodes : Writers[s] = {n}

\* recs is what the first records of the log all are, with no gap.
IsPrefixOf(recs, all) == recs \subseteq all /\ Ids(recs) = 1..LatestId(recs)

\* A replica of a stream written at one node holds a prefix of the writer's
\* records: whatever relays it came through, whatever was lost, failed half way
\* or restarted, import_wal_records never leaves a gap.  Write group markers
\* come after the records they decide, so a replica never shows half a group.
ReplicasHoldPrefixes ==
    \A n \in Nodes, s \in Streams :
        SingleWriter(s) => IsPrefixOf(wal[n][s], wal[WriterOf(s)][s])

\* A cursor, or one a pull is using, never points past what the node holds, so
\* asking for the records after it skips nothing (execute_live_wal_catchup_sync
\* moves cursors to the largest id received, not the largest id stored).
CursorsSkipNothing ==
    \A n \in Nodes, s \in Streams :
        /\ cursors[n][s] # None => cursors[n][s] <= LatestId(wal[n][s])
        /\ pull[n] # None /\ pull[n].from[s] # None
               => pull[n].from[s] <= LatestId(wal[n][s])

\* Every replica catches up again and again, whenever the writers pause, although
\* responses are lost, imports fail, nodes restart and the replaced cursor map
\* makes peers send the same records again.
CaughtUp ==
    \A n \in Replicas, s \in Streams : wal[WriterOf(s)][s] \subseteq wal[n][s]
ReplicasCatchUp == []<>CaughtUp
=============================================================================
