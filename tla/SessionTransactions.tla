------------------------- MODULE SessionTransactions -------------------------
(***************************************************************************)
(* Explicit transactions as ServerApp runs them (server/src/core/app/      *)
(* control/core.rs, isolation.rs, wal.rs and server/src/core/app/state.rs) *)
(* on top of the transaction coordinator.                                  *)
(*                                                                         *)
(* A request runs under the write lock of ServerApp from its dispatch to   *)
(* its answer: "serving" names its session, and no other request, import   *)
(* or lock message is handled meanwhile.  A handler that talks to the      *)
(* coordinator several times takes several steps.                          *)
(*                                                                         *)
(* A table is its number of visible writes and the largest timestamp of    *)
(* its insert, update and delete records.  The entity handles of a cloned  *)
(* catalog are shared with the original (entity/handle.rs), so a statement *)
(* that runs on a cloned catalog locks the real table: table_status is one *)
(* map for the live catalogs, the snapshots and the sandboxes.             *)
(*                                                                         *)
(* Timestamps are nanoseconds read under the write lock: every request     *)
(* sees a later clock than the one before.                                 *)
(***************************************************************************)
EXTENDS TransactionCoordinator, FiniteSets

CONSTANTS
  NoSnapshot,     \* not a snapshot: the session has no entry in tx_snapshot_by_session
  MaxSessions,    \* TX_SNAPSHOT_MAX_SESSIONS, 0 for no limit
  Ttl,            \* TX_SNAPSHOT_TTL_SECONDS in clock units, 0 for no limit
  MaxClock,       \* bound on the number of requests
  MaxImports      \* bound on the number of imported records

ASSUME SessionAssumption ==
  /\ MaxSessions \in Nat /\ Ttl \in Nat /\ MaxClock \in Nat /\ MaxImports \in Nat
  /\ IsFiniteSet(Sessions)
  /\ "Insert" \in QueryKinds

VARIABLES
  serving,        \* the session whose request holds the write lock, or NoOwner
  evicting,       \* sessions the request still has to roll back for the limits
  now,            \* the clock
  tx_begin_epoch_by_session,        \* 0 for a session without an entry
  tx_snapshot_by_session,           \* the table versions captured, or NoSnapshot
  tx_read_observations_by_session,  \* the tables recorded as read
  version,        \* number of visible writes of each table
  high_water,     \* write_high_water_by_stream of each table
  table_status,   \* "Ready" or "Lock"
  imports,        \* number of records imported so far
  begin_version   \* history: the table versions when the session's transaction began

requestVars == <<serving, evicting, now>>
txVars      == <<tx_begin_epoch_by_session, tx_snapshot_by_session,
                 tx_read_observations_by_session, begin_version>>
tableVars   == <<version, high_water, table_status>>
sessionVars == <<coordVars, requestVars, txVars, tableVars, imports>>

SessionInit ==
  /\ CoordInit
  /\ serving = NoOwner
  /\ evicting = {}
  /\ now = 0
  /\ tx_begin_epoch_by_session = [s \in Sessions |-> 0]
  /\ tx_snapshot_by_session = [s \in Sessions |-> NoSnapshot]
  /\ tx_read_observations_by_session = [s \in Sessions |-> {}]
  /\ version = [t \in TableIds |-> 0]
  /\ high_water = [t \in TableIds |-> 0]
  /\ table_status = [t \in TableIds |-> "Ready"]
  /\ imports = 0
  /\ begin_version = [s \in Sessions |-> version]

Holders == {s \in Sessions : tx_snapshot_by_session[s] # NoSnapshot}

\* The request is past the limits and its handler runs.
Handling(s) == serving = s /\ evicting = {} /\ s \notin committing

Answered == serving' = NoOwner /\ UNCHANGED <<evicting, now>>

\* Mutant of ForgetTransaction: the snapshots of all sessions go.
ForgetEverySnapshot(s) ==
  /\ tx_begin_epoch_by_session' = [tx_begin_epoch_by_session EXCEPT ![s] = 0]
  /\ tx_snapshot_by_session' = [r \in Sessions |-> NoSnapshot]
  /\ tx_read_observations_by_session' =
       [tx_read_observations_by_session EXCEPT ![s] = {}]
  /\ UNCHANGED begin_version

\* The three maps lose their entries of session s.
ForgetTransaction(s) ==
  /\ tx_begin_epoch_by_session' = [tx_begin_epoch_by_session EXCEPT ![s] = 0]
  /\ tx_snapshot_by_session' = [tx_snapshot_by_session EXCEPT ![s] = NoSnapshot]
  /\ tx_read_observations_by_session' =
       [tx_read_observations_by_session EXCEPT ![s] = {}]
  /\ UNCHANGED begin_version

Lock(ts) == [t \in TableIds |-> IF t \in ts THEN "Lock" ELSE table_status[t]]

-----------------------------------------------------------------------------
\* Mutant of SessionsToRemove: one snapshot more than the limit survives.
RemoveOneTooFew ==
  {s \in Holders :
     Cardinality({r \in Holders :
       tx_begin_epoch_by_session[r] < tx_begin_epoch_by_session[s]})
     + MaxSessions + 1 < Cardinality(Holders)}

\* What the limits remove: transactions that are too old, and the oldest
\* snapshots above the limit.  Nothing is removed while there is no snapshot.
SessionsToRemove ==
  LET age(s) == now' - tx_begin_epoch_by_session[s]
      older(s) == {r \in Holders :
                     tx_begin_epoch_by_session[r] < tx_begin_epoch_by_session[s]}
      expired == {s \in Sessions : /\ Ttl > 0
                                   /\ tx_begin_epoch_by_session[s] # 0
                                   /\ age(s) >= Ttl}
      overflow == {s \in Holders :
                     /\ MaxSessions > 0
                     /\ Cardinality(older(s)) + MaxSessions < Cardinality(Holders)}
  IN  IF Holders = {} THEN {} ELSE expired \cup overflow

\* A request of session s gets the write lock and the limits are evaluated.
Dispatch(s) ==
  /\ serving = NoOwner
  /\ now < MaxClock
  /\ serving' = s
  /\ now' = now + 1
  /\ evicting' = SessionsToRemove
  /\ UNCHANGED <<coordVars, txVars, tableVars, imports>>

Evict(r) ==
  /\ r \in evicting
  /\ evicting' = evicting \ {r}
  /\ Rollback(r)
  /\ ForgetTransaction(r)
  /\ UNCHANGED <<serving, now, tableVars, imports>>

\* A request that is refused, or that only reads outside a transaction.
NoEffect(s) ==
  /\ Handling(s)
  /\ Answered
  /\ UNCHANGED <<coordVars, txVars, tableVars, imports>>

-----------------------------------------------------------------------------
\* BEGIN: epoch, snapshot and an empty list of observations.
BeginTransaction(s) ==
  /\ Handling(s)
  /\ Begin(s)
  /\ tx_begin_epoch_by_session' = [tx_begin_epoch_by_session EXCEPT ![s] = now]
  /\ tx_snapshot_by_session' = [tx_snapshot_by_session EXCEPT ![s] = version]
  /\ tx_read_observations_by_session' =
       [tx_read_observations_by_session EXCEPT ![s] = {}]
  /\ begin_version' = [begin_version EXCEPT ![s] = version]
  /\ Answered
  /\ UNCHANGED <<tableVars, imports>>

\* The snapshot could not be captured: the transaction is rolled back and the
\* epoch removed; snapshot and observations are not touched.
BeginFails(s) ==
  /\ Handling(s)
  /\ s \notin active
  /\ Rollback(s)
  /\ tx_begin_epoch_by_session' = [tx_begin_epoch_by_session EXCEPT ![s] = 0]
  /\ Answered
  /\ UNCHANGED <<tx_snapshot_by_session, tx_read_observations_by_session,
                 begin_version, tableVars, imports>>

\* Only the epoch is set: no snapshot, and the other two maps keep what they have.
LightweightBegin(s) ==
  /\ tx_begin_epoch_by_session' = [tx_begin_epoch_by_session EXCEPT ![s] = now]
  /\ begin_version' = [begin_version EXCEPT ![s] = version]
  /\ Answered
  /\ UNCHANGED <<tx_snapshot_by_session, tx_read_observations_by_session,
                 tableVars, imports>>

BeginImport(s) == Handling(s) /\ Begin(s) /\ LightweightBegin(s)

LockTables(s, ts) == Handling(s) /\ BeginWithTableLocks(s, ts) /\ LightweightBegin(s)

\* A single INSERT, UPDATE or DELETE inside a transaction is staged.
StageStatement(s, q) ==
  /\ Handling(s)
  /\ RouteQuery(s, q, TRUE)
  /\ Answered
  /\ UNCHANGED <<txVars, tableVars, imports>>

\* Outside a transaction it runs at once; the guard leaves the table Ready.
AutoCommit(s, q) ==
  /\ Handling(s)
  /\ RouteDecision(s, q, TRUE) = "ExecuteImmediately"
  /\ version' = [t \in TableIds |-> IF t \in q.touches THEN version[t] + 1 ELSE version[t]]
  /\ high_water' = [t \in TableIds |-> IF t \in q.touches THEN now ELSE high_water[t]]
  /\ table_status' = [t \in TableIds |-> IF t \in q.touches THEN "Ready" ELSE table_status[t]]
  /\ Answered
  /\ UNCHANGED <<coordVars, txVars, imports>>

\* The tables the first n queries of a list touch.
Touched(queries, n) == UNION {queries[i].touches : i \in 1..n}

\* SELECT inside a transaction: the staged statements run first, in a sandbox on
\* the snapshot, and leave their tables locked.  The n-th may be rejected, which
\* ends the read.  A read of one table is recorded, one with joins is not.
TransactionalRead(s, ts) ==
  /\ Handling(s)
  /\ s \in active
  /\ s \in Holders
  /\ \/ \E n \in 0..Len(staged_by_session[s]) - 1 :
          /\ table_status' = Lock(Touched(staged_by_session[s], n))
          /\ UNCHANGED tx_read_observations_by_session
     \/ /\ table_status' = Lock(Touched(staged_by_session[s], Len(staged_by_session[s])))
        /\ tx_read_observations_by_session' =
             [tx_read_observations_by_session EXCEPT
                ![s] = IF Cardinality(ts) = 1 THEN @ \cup ts ELSE @]
  /\ Answered
  /\ UNCHANGED <<coordVars, tx_begin_epoch_by_session, tx_snapshot_by_session,
                 begin_version, version, high_water, imports>>

RollbackTransaction(s) ==
  /\ Handling(s)
  /\ s \in active
  /\ Rollback(s)
  /\ ForgetTransaction(s)
  /\ Answered
  /\ UNCHANGED <<tableVars, imports>>

-----------------------------------------------------------------------------
\* COMMIT and UNLOCK TABLES take the staged list first.
CommitTake(s) ==
  /\ Handling(s)
  /\ TakeForCommit(s)
  /\ UNCHANGED <<requestVars, txVars, tableVars, imports>>

HasWriteAfter(t, epoch) == high_water[t] > epoch

WriteSet(s) == Touched(taken[s], Len(taken[s]))

DetectWriteWriteConflict(s) ==
  \E t \in WriteSet(s) : HasWriteAfter(t, tx_begin_epoch_by_session[s])

DetectPredicateReadConflicts(s) ==
  \E t \in tx_read_observations_by_session[s] :
    HasWriteAfter(t, tx_begin_epoch_by_session[s])

\* Mutant of Conflict: recorded reads are not checked.
ConflictOnWritesOnly(s) ==
  tx_begin_epoch_by_session[s] > 0 /\ DetectWriteWriteConflict(s)

Conflict(s) ==
  /\ tx_begin_epoch_by_session[s] > 0
  /\ DetectWriteWriteConflict(s) \/ DetectPredicateReadConflicts(s)

\* Without a snapshot only a non-empty list of INSERTs can be validated.
CanValidate(s) ==
  \/ s \in Holders
  \/ taken[s] # << >> /\ \A i \in DOMAIN taken[s] : taken[s][i].kind = "Insert"

\* Mutant of FailCommit: the coordinator is not told that the commit is over.
FailCommitKeepsLocks(s) ==
  /\ s \in committing
  /\ UNCHANGED <<coordVars, txVars>>
  /\ Answered

\* With a snapshot a failed commit only rolls the coordinator back.
FailCommit(s) ==
  /\ s \in committing
  /\ Rollback(s)
  /\ IF s \in Holders THEN UNCHANGED txVars ELSE ForgetTransaction(s)
  /\ Answered

\* The checks refuse the commit before any statement ran.
CommitRefused(s) ==
  /\ Conflict(s) \/ ~CanValidate(s)
  /\ FailCommit(s)
  /\ UNCHANGED <<tableVars, imports>>

\* The dry run rejects a statement; the ones before it have locked their tables.
CommitInvalid(s) ==
  /\ ~Conflict(s) /\ CanValidate(s)
  /\ \E n \in 0..Len(taken[s]) - 1 : table_status' = Lock(Touched(taken[s], n))
  /\ FailCommit(s)
  /\ UNCHANGED <<version, high_water, imports>>

\* The first n statements have appended their records when the next one, or the
\* commit marker, fails; the group is aborted, its records stay in the log.
CommitAborted(s) ==
  /\ ~Conflict(s) /\ CanValidate(s)
  /\ \E n \in 0..Len(taken[s]) :
       high_water' = [t \in TableIds |-> IF t \in Touched(taken[s], n) THEN now
                                                                     ELSE high_water[t]]
  /\ taken[s] # << >>
  /\ table_status' = Lock(WriteSet(s))
  /\ FailCommit(s)
  /\ UNCHANGED <<version, imports>>

\* finalize_group_table_writes looks the tables up by their stream ids, finds
\* none of them, and leaves them locked.
CommitApplied(s) ==
  /\ s \in committing
  /\ ~Conflict(s) /\ CanValidate(s)
  /\ version' = [t \in TableIds |-> IF t \in WriteSet(s) THEN version[t] + 1 ELSE version[t]]
  /\ high_water' = [t \in TableIds |-> IF t \in WriteSet(s) THEN now ELSE high_water[t]]
  /\ table_status' = Lock(WriteSet(s))
  /\ ForgetTransaction(s)
  /\ FinalizeCommit(s)
  /\ Answered
  /\ UNCHANGED imports

-----------------------------------------------------------------------------
\* The connection of s closes; the maps are cleared only if a transaction was open.
Disconnect(s) ==
  /\ serving = NoOwner
  /\ s \in active
  /\ Rollback(s)
  /\ ForgetTransaction(s)
  /\ UNCHANGED <<requestVars, tableVars, imports>>

\* A record of a peer arrives with the timestamp the peer gave it.
ImportRecord(t, timestamp) ==
  /\ serving = NoOwner
  /\ imports < MaxImports
  /\ imports' = imports + 1
  /\ version' = [version EXCEPT ![t] = @ + 1]
  /\ high_water' = [high_water EXCEPT ![t] = IF timestamp > @ THEN timestamp ELSE @]
  /\ UNCHANGED <<coordVars, requestVars, txVars, table_status>>

RemoteLockMessage(o) ==
  /\ serving = NoOwner
  /\ RemoteStep(o)
  /\ UNCHANGED <<requestVars, txVars, tableVars, imports>>

\* Staged DML is one statement on one table.
Statement == [touches : {{t} : t \in TableIds}, kind : QueryKinds]

Request(s) ==
  \/ NoEffect(s)
  \/ BeginTransaction(s)
  \/ BeginFails(s)
  \/ BeginImport(s)
  \/ \E ts \in SUBSET TableIds : LockTables(s, ts) \/ TransactionalRead(s, ts)
  \/ \E q \in Statement : StageStatement(s, q) \/ AutoCommit(s, q)
  \/ RollbackTransaction(s)
  \/ CommitTake(s)
  \/ CommitRefused(s)
  \/ CommitInvalid(s)
  \/ CommitAborted(s)
  \/ CommitApplied(s)

SessionNext ==
  \/ \E s \in Sessions : Dispatch(s) \/ Evict(s) \/ Request(s) \/ Disconnect(s)
  \/ \E t \in TableIds : \E timestamp \in 1..now : ImportRecord(t, timestamp)
  \/ \E o \in RemoteOwners : RemoteLockMessage(o)

SessionSpec == SessionInit /\ [][SessionNext]_sessionVars

-----------------------------------------------------------------------------
\* The maps ServerApp keeps per session, and the table state, keep their shape.
SessionTypeOK ==
  /\ CoordTypeOK
  /\ serving \in Sessions \cup {NoOwner}
  /\ evicting \subseteq Sessions
  /\ now \in Nat /\ imports \in Nat
  /\ tx_begin_epoch_by_session \in [Sessions -> Nat]
  /\ tx_snapshot_by_session \in [Sessions -> [TableIds -> Nat] \cup {NoSnapshot}]
  /\ tx_read_observations_by_session \in [Sessions -> SUBSET TableIds]
  /\ version \in [TableIds -> Nat]
  /\ high_water \in [TableIds -> Nat]
  /\ table_status \in [TableIds -> {"Ready", "Lock"}]
  /\ begin_version \in [Sessions -> [TableIds -> Nat]]

\* A session commits between take_for_commit and its answer, under the write lock;
\* outside of that, table locks belong to open transactions only.  A failed COMMIT,
\* UNLOCK TABLES, an eviction or a disconnect leaves no lock behind.
LocksEndWithTransaction ==
  /\ committing \subseteq {serving}
  /\ serving = NoOwner =>
       \A s \in Sessions : locked_tables_by_session[s] # {} => s \in active

\* commit_staged_queries checks for conflicts only if the begin epoch is positive:
\* every transaction that can reach it has one, whatever was evicted, rolled back
\* or failed before, so the check is never skipped.
OpenTransactionHasEpoch ==
  \A s \in active \cup committing : tx_begin_epoch_by_session[s] > 0

\* enforce_transaction_snapshot_limits runs before the request that may add a
\* snapshot: handlers start below or at the limit, and snapshots that failed
\* commits leave behind count too, so there is never more than one above it.
SnapshotLimit ==
  MaxSessions > 0 =>
    /\ Cardinality(Holders) <= MaxSessions + 1
    /\ serving \in Sessions /\ evicting = {} => Cardinality(Holders) <= MaxSessions

\* First committer wins, at table granularity: when COMMIT makes the writes of a
\* session visible, no table it wrote, and no table whose read was recorded, has
\* received a visible write since its BEGIN or LOCK TABLES.
CommitsAreCurrent ==
  [][\A s \in committing : \A t \in TableIds :
       /\ version' # version
       /\ version'[t] # version[t] \/ t \in tx_read_observations_by_session[s]
       => version[t] = begin_version[s][t]]_sessionVars

\* What an open transaction reads does not move under it: its snapshot is not
\* replaced or dropped by a request of another session or its own, a failed read
\* and a record imported from a peer included, until the transaction ends.
SnapshotIsStable ==
  [][\A s \in active \cap active' :
       tx_snapshot_by_session'[s] = tx_snapshot_by_session[s]]_sessionVars
=============================================================================
