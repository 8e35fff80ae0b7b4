---------------------- MODULE SessionTransactionsProofs ----------------------
(***************************************************************************)
(* Proofs about explicit transactions, for any number of sessions, tables  *)
(* and remote owners, any limits and any number of requests.               *)
(*                                                                         *)
(* The coordinator's theorems carry over first: whatever ServerApp does,   *)
(* the coordinator sees a sequence of its own commands.  The invariants of *)
(* the session maps are then proved on top of that.                        *)
(***************************************************************************)
EXTENDS SessionTransactions, TransactionCoordinatorProofs, FiniteSetTheorems,
        WellFoundedInduction

\* What the coordinator is asked for one request is one of its commands, or
\* nothing.
LEMMA RequestIsCoordStep ==
  ASSUME NEW s \in Sessions, Request(s)
  PROVE  SessionStep(s) \/ UNCHANGED coordVars
<1> USE DEF SessionStep
<1>1. CASE NoEffect(s)
  BY <1>1 DEF NoEffect
<1>2. CASE BeginTransaction(s) \/ BeginImport(s)
  BY <1>2 DEF BeginTransaction, BeginImport
<1>3. CASE BeginFails(s) \/ RollbackTransaction(s)
  BY <1>3 DEF BeginFails, RollbackTransaction
<1>4. CASE \E ts \in SUBSET TableIds : LockTables(s, ts) \/ TransactionalRead(s, ts)
  BY <1>4 DEF LockTables, TransactionalRead
<1>5. CASE \E q \in Statement : StageStatement(s, q) \/ AutoCommit(s, q)
  <2>1. Statement \subseteq Query
    BY DEF Statement, Query
  <2>2. PICK q \in Statement : StageStatement(s, q) \/ AutoCommit(s, q)
    BY <1>5
  <2>3. CASE AutoCommit(s, q)
    BY <2>3 DEF AutoCommit
  <2>4. CASE StageStatement(s, q)
    BY <2>1, <2>4 DEF StageStatement
  <2>5. QED
    BY <2>2, <2>3, <2>4
<1>6. CASE CommitTake(s)
  BY <1>6 DEF CommitTake
<1>7. CASE CommitRefused(s) \/ CommitInvalid(s) \/ CommitAborted(s)
  BY <1>7 DEF CommitRefused, CommitInvalid, CommitAborted, FailCommit
<1>8. CASE CommitApplied(s)
  BY <1>8 DEF CommitApplied
<1>9. QED
  BY <1>1, <1>2, <1>3, <1>4, <1>5, <1>6, <1>7, <1>8 DEF Request

\* Dispatching, evicting, disconnecting, importing and the lock messages of
\* peers are commands of the coordinator or leave it alone.
LEMMA SessionNextIsCoordStep ==
  ASSUME [SessionNext]_sessionVars
  PROVE  [CoordNext]_coordVars
<1>1. ASSUME NEW s \in Sessions, Dispatch(s) \/ Evict(s) \/ Request(s) \/ Disconnect(s)
      PROVE  SessionStep(s) \/ UNCHANGED coordVars
  BY <1>1, RequestIsCoordStep DEF Dispatch, Evict, Disconnect, SessionStep
<1>2. ASSUME NEW t \in TableIds, NEW timestamp \in 1..now, ImportRecord(t, timestamp)
      PROVE  UNCHANGED coordVars
  BY <1>2 DEF ImportRecord
<1>3. ASSUME NEW o \in RemoteOwners, RemoteLockMessage(o)
      PROVE  RemoteStep(o)
  BY <1>3 DEF RemoteLockMessage
<1>4. CASE UNCHANGED sessionVars
  BY <1>4 DEF sessionVars
<1>5. CASE SessionNext
  BY <1>1, <1>2, <1>3, <1>5 DEF SessionNext, CoordNext
<1>6. QED
  BY <1>4, <1>5

\* ServerApp uses the coordinator as it is meant to be used: seen through the
\* coordinator's variables every behaviour of the server is a behaviour of the
\* command loop.
THEOREM SessionsImplementCoordinator == SessionSpec => CoordSpec
<1>1. SessionInit => CoordInit
  BY DEF SessionInit
<1>2. [SessionNext]_sessionVars => [CoordNext]_coordVars
  BY SessionNextIsCoordStep
<1>3. QED
  BY <1>1, <1>2, PTL DEF SessionSpec, CoordSpec

\* The coordinator's invariant holds under the whole server.
THEOREM SessionCoordInvariant == SessionSpec => []CoordInv
BY SessionsImplementCoordinator, CoordInvariant, PTL

\* Through all the layers a table passes from one owner to another only by way
\* of being free: the server implements the lock contract.
THEOREM SessionsRefineTableLocks == SessionSpec => ImplementsTableLocks
BY SessionsImplementCoordinator, CoordinatorRefinesTableLocks, PTL

-----------------------------------------------------------------------------
(* The maps of ServerApp.                                                  *)

\* The inductive invariant of the session maps.  Only the session whose request
\* holds the write lock can be between take_for_commit and its answer, and its
\* evictions are over by then; the clock has left 0 when a handler stamps an
\* epoch, so the epoch of an open transaction is positive.
SessionInv ==
  /\ SessionTypeOK
  /\ OpenTransactionHasEpoch
  /\ committing \subseteq {serving}
  /\ committing # {} => evicting = {}
  /\ serving = NoOwner => evicting = {}
  /\ serving # NoOwner => now > 0

\* ServerApp starts in the invariant.
LEMMA SessionInitInv == SessionInit => SessionInv
<1> SUFFICES ASSUME SessionInit PROVE SessionInv
  OBVIOUS
<1>1. CoordTypeOK
  BY CoordInitInv DEF SessionInit, CoordInv
<1>2. SessionTypeOK
  BY <1>1 DEF SessionInit, SessionTypeOK
<1>3. QED
  BY <1>2 DEF SessionInit, CoordInit, SessionInv, OpenTransactionHasEpoch

\* Ending a transaction in the coordinator takes the session out of both sets.
LEMMA EndTransactionEnds ==
  ASSUME NEW s \in Sessions, Rollback(s) \/ FinalizeCommit(s)
  PROVE  active' = active \ {s} /\ committing' = committing \ {s}
BY DEF Rollback, FinalizeCommit, EndTransaction

\* Locking tables keeps the map of table states typed.
LEMMA LockType ==
  ASSUME SessionTypeOK, NEW ts
  PROVE  Lock(ts) \in [TableIds -> {"Ready", "Lock"}]
BY DEF Lock, SessionTypeOK

\* Forgetting a transaction keeps the maps typed and touches one epoch only.
LEMMA ForgetTransactionType ==
  ASSUME SessionTypeOK, NEW s \in Sessions, ForgetTransaction(s)
  PROVE  /\ tx_begin_epoch_by_session' \in [Sessions -> Nat]
         /\ tx_snapshot_by_session' \in [Sessions -> [TableIds -> Nat] \cup {NoSnapshot}]
         /\ tx_read_observations_by_session' \in [Sessions -> SUBSET TableIds]
         /\ begin_version' \in [Sessions -> [TableIds -> Nat]]
         /\ \A r \in Sessions \ {s} :
              tx_begin_epoch_by_session'[r] = tx_begin_epoch_by_session[r]
BY DEF ForgetTransaction, SessionTypeOK

\* The limits of a request remove sessions only.
LEMMA SessionsToRemoveType ==
  ASSUME NEW s \in Sessions, Dispatch(s)
  PROVE  evicting' \subseteq Sessions
BY DEF Dispatch, SessionsToRemove, Holders

\* Every request of a session preserves the invariant.
LEMMA RequestInv ==
  ASSUME SessionInv, CoordTypeOK', NEW s \in Sessions, Request(s)
  PROVE  SessionInv'
<1> USE DEF SessionInv
<1> s # NoOwner
  BY CoordinatorAssumption DEF Owners
<1>1. CASE NoEffect(s)
  BY <1>1 DEF NoEffect, Answered, Handling, coordVars, txVars, tableVars, SessionTypeOK,
              OpenTransactionHasEpoch
<1>2. CASE BeginTransaction(s)
  <2>1. SessionTypeOK'
    BY <1>2 DEF BeginTransaction, Answered, tableVars, SessionTypeOK
  <2>2. OpenTransactionHasEpoch'
    BY <1>2 DEF BeginTransaction, Handling, Begin, callVars, SessionTypeOK,
                OpenTransactionHasEpoch, CoordTypeOK
  <2>3. QED
    BY <1>2, <2>1, <2>2 DEF BeginTransaction, Handling, Begin, callVars, Answered
<1>3. CASE BeginFails(s)
  <2>1. active' = active \ {s} /\ committing' = committing \ {s}
    BY <1>3, EndTransactionEnds DEF BeginFails
  <2>2. SessionTypeOK'
    BY <1>3 DEF BeginFails, Answered, tableVars, SessionTypeOK
  <2>3. OpenTransactionHasEpoch'
    BY <1>3, <2>1 DEF BeginFails, SessionTypeOK, OpenTransactionHasEpoch, CoordTypeOK
  <2>4. QED
    BY <1>3, <2>1, <2>2, <2>3 DEF BeginFails, Handling, Answered
<1>4. ASSUME Handling(s), LightweightBegin(s),
             active' = active \cup {s}, committing' = committing
      PROVE  SessionInv'
  <2>1. SessionTypeOK'
    BY <1>4 DEF LightweightBegin, Answered, tableVars, SessionTypeOK
  <2>2. OpenTransactionHasEpoch'
    BY <1>4 DEF LightweightBegin, Handling, SessionTypeOK, OpenTransactionHasEpoch,
                CoordTypeOK
  <2>3. QED
    BY <1>4, <2>1, <2>2 DEF LightweightBegin, Handling, Answered
<1>5. CASE BeginImport(s)
  BY <1>4, <1>5 DEF BeginImport, Begin, callVars
<1>6. ASSUME NEW ts \in SUBSET TableIds, LockTables(s, ts)
      PROVE  SessionInv'
  BY <1>4, <1>6 DEF LockTables, BeginWithTableLocks, callVars
<1>7. ASSUME NEW ts \in SUBSET TableIds, TransactionalRead(s, ts)
      PROVE  SessionInv'
  <2>1. table_status' \in [TableIds -> {"Ready", "Lock"}]
    BY <1>7, LockType DEF TransactionalRead
  <2>2. tx_read_observations_by_session' \in [Sessions -> SUBSET TableIds]
    BY <1>7 DEF TransactionalRead, SessionTypeOK
  <2>3. SessionTypeOK'
    BY <1>7, <2>1, <2>2 DEF TransactionalRead, Answered, SessionTypeOK
  <2>4. OpenTransactionHasEpoch'
    BY <1>7 DEF TransactionalRead, coordVars, OpenTransactionHasEpoch
  <2>5. QED
    BY <1>7, <2>3, <2>4 DEF TransactionalRead, Handling, Answered, coordVars
<1>8. ASSUME NEW q \in Statement, StageStatement(s, q)
      PROVE  SessionInv'
  <2>1. UNCHANGED <<active, committing>>
    BY <1>8 DEF StageStatement, RouteQuery, callVars
  <2>2. SessionTypeOK'
    BY <1>8 DEF StageStatement, Answered, txVars, tableVars, SessionTypeOK
  <2>3. QED
    BY <1>8, <2>1, <2>2 DEF StageStatement, Handling, Answered, txVars,
                            OpenTransactionHasEpoch
<1>9. ASSUME NEW q \in Statement, AutoCommit(s, q)
      PROVE  SessionInv'
  <2>1. SessionTypeOK'
    BY <1>9 DEF AutoCommit, Answered, txVars, SessionTypeOK
  <2>2. QED
    BY <1>9, <2>1 DEF AutoCommit, Handling, Answered, txVars, coordVars,
                      OpenTransactionHasEpoch
<1>10. CASE RollbackTransaction(s)
  <2>1. active' = active \ {s} /\ committing' = committing \ {s}
    BY <1>10, EndTransactionEnds DEF RollbackTransaction
  <2>2. SessionTypeOK'
    BY <1>10, ForgetTransactionType DEF RollbackTransaction, Answered, tableVars, SessionTypeOK
  <2>3. OpenTransactionHasEpoch'
    BY <1>10, <2>1, ForgetTransactionType
       DEF RollbackTransaction, OpenTransactionHasEpoch, SessionTypeOK, CoordTypeOK
  <2>4. QED
    BY <1>10, <2>1, <2>2, <2>3 DEF RollbackTransaction, Handling, Answered
<1>11. CASE CommitTake(s)
  <2>1. active' = active \ {s} /\ committing' = committing \cup {s} /\ s \in active
    BY <1>11 DEF CommitTake, TakeForCommit
  <2>2. SessionTypeOK'
    BY <1>11 DEF CommitTake, requestVars, txVars, tableVars, SessionTypeOK
  <2>3. QED
    BY <1>11, <2>1, <2>2 DEF CommitTake, Handling, requestVars, txVars,
                             OpenTransactionHasEpoch
<1>12. ASSUME FailCommit(s), UNCHANGED <<version, imports>>,
              high_water' \in [TableIds -> Nat],
              table_status' \in [TableIds -> {"Ready", "Lock"}]
       PROVE  SessionInv'
  <2>1. active' = active \ {s} /\ committing' = committing \ {s} /\ s \in committing
    BY <1>12, EndTransactionEnds DEF FailCommit
  <2>2. /\ tx_begin_epoch_by_session' \in [Sessions -> Nat]
        /\ tx_snapshot_by_session' \in [Sessions -> [TableIds -> Nat] \cup {NoSnapshot}]
        /\ tx_read_observations_by_session' \in [Sessions -> SUBSET TableIds]
        /\ begin_version' \in [Sessions -> [TableIds -> Nat]]
        /\ \A r \in Sessions \ {s} :
             tx_begin_epoch_by_session'[r] = tx_begin_epoch_by_session[r]
    <3>1. CASE UNCHANGED txVars
      BY <3>1 DEF txVars, SessionTypeOK
    <3>2. CASE ForgetTransaction(s)
      BY <3>2, ForgetTransactionType
    <3>3. QED
      BY <1>12, <3>1, <3>2 DEF FailCommit
  <2>3. SessionTypeOK'
    BY <1>12, <2>2 DEF FailCommit, Answered, SessionTypeOK
  <2>4. OpenTransactionHasEpoch'
    BY <2>1, <2>2 DEF OpenTransactionHasEpoch, SessionTypeOK, CoordTypeOK
  <2>5. QED
    BY <1>12, <2>1, <2>3, <2>4 DEF FailCommit, Answered
<1>13. CASE CommitRefused(s)
  BY <1>12, <1>13 DEF CommitRefused, tableVars, SessionTypeOK
<1>14. CASE CommitInvalid(s)
  <2>1. table_status' \in [TableIds -> {"Ready", "Lock"}]
    BY <1>14, LockType DEF CommitInvalid
  <2>2. QED
    BY <1>12, <1>14, <2>1 DEF CommitInvalid, SessionTypeOK
<1>15. CASE CommitAborted(s)
  <2>1. table_status' \in [TableIds -> {"Ready", "Lock"}]
    BY <1>15, LockType DEF CommitAborted
  <2>2. high_water' \in [TableIds -> Nat]
    BY <1>15 DEF CommitAborted, SessionTypeOK
  <2>3. QED
    BY <1>12, <1>15, <2>1, <2>2 DEF CommitAborted
<1>16. CASE CommitApplied(s)
  <2>1. active' = active \ {s} /\ committing' = committing \ {s} /\ s \in committing
    BY <1>16, EndTransactionEnds DEF CommitApplied
  <2>2. table_status' \in [TableIds -> {"Ready", "Lock"}]
    BY <1>16, LockType DEF CommitApplied
  <2>3. version' \in [TableIds -> Nat] /\ high_water' \in [TableIds -> Nat]
    BY <1>16 DEF CommitApplied, SessionTypeOK
  <2>4. SessionTypeOK'
    BY <1>16, <2>2, <2>3, ForgetTransactionType DEF CommitApplied, Answered, SessionTypeOK
  <2>5. OpenTransactionHasEpoch'
    BY <1>16, <2>1, ForgetTransactionType
       DEF CommitApplied, OpenTransactionHasEpoch, SessionTypeOK, CoordTypeOK
  <2>6. QED
    BY <1>16, <2>1, <2>4, <2>5 DEF CommitApplied, Answered
<1>17. QED
  BY <1>1, <1>2, <1>3, <1>5, <1>6, <1>7, <1>8, <1>9, <1>10, <1>11, <1>13, <1>14, <1>15,
     <1>16 DEF Request

\* Every step of the server preserves the invariant.
LEMMA SessionNextInv ==
  ASSUME SessionInv, CoordTypeOK', [SessionNext]_sessionVars
  PROVE  SessionInv'
<1> USE DEF SessionInv
<1>1. ASSUME NEW s \in Sessions, Dispatch(s)
      PROVE  SessionInv'
  <2>1. SessionTypeOK'
    BY <1>1, SessionsToRemoveType
       DEF Dispatch, txVars, tableVars, SessionTypeOK
  <2>2. committing = {}
    BY <1>1, CoordinatorAssumption DEF Dispatch, SessionTypeOK, CoordTypeOK, Owners
  <2>3. s # NoOwner
    BY CoordinatorAssumption DEF Owners
  <2>4. QED
    BY <1>1, <2>1, <2>2, <2>3
       DEF Dispatch, coordVars, txVars, OpenTransactionHasEpoch, SessionTypeOK
<1>2. ASSUME NEW r \in Sessions, Evict(r)
      PROVE  SessionInv'
  <2>1. active' = active \ {r} /\ committing' = committing \ {r}
    BY <1>2, EndTransactionEnds DEF Evict
  <2>2. SessionTypeOK'
    BY <1>2, ForgetTransactionType DEF Evict, tableVars, SessionTypeOK
  <2>3. OpenTransactionHasEpoch'
    BY <1>2, <2>1, ForgetTransactionType
       DEF Evict, OpenTransactionHasEpoch, SessionTypeOK, CoordTypeOK
  <2>4. QED
    BY <1>2, <2>1, <2>2, <2>3 DEF Evict
<1>3. ASSUME NEW s \in Sessions, Disconnect(s)
      PROVE  SessionInv'
  <2>1. active' = active \ {s} /\ committing' = committing \ {s}
    BY <1>3, EndTransactionEnds DEF Disconnect
  <2>2. SessionTypeOK'
    BY <1>3, ForgetTransactionType DEF Disconnect, requestVars, tableVars, SessionTypeOK
  <2>3. OpenTransactionHasEpoch'
    BY <1>3, <2>1, ForgetTransactionType
       DEF Disconnect, OpenTransactionHasEpoch, SessionTypeOK, CoordTypeOK
  <2>4. QED
    BY <1>3, <2>1, <2>2, <2>3 DEF Disconnect, requestVars
<1>4. ASSUME NEW t \in TableIds, NEW timestamp \in 1..now, ImportRecord(t, timestamp)
      PROVE  SessionInv'
  <2>1. version' \in [TableIds -> Nat] /\ high_water' \in [TableIds -> Nat]
    BY <1>4 DEF ImportRecord, SessionTypeOK
  <2>2. SessionTypeOK'
    BY <1>4, <2>1 DEF ImportRecord, requestVars, txVars, SessionTypeOK
  <2>3. QED
    BY <1>4, <2>2
       DEF ImportRecord, requestVars, txVars, coordVars, OpenTransactionHasEpoch
<1>5. ASSUME NEW o \in RemoteOwners, RemoteLockMessage(o)
      PROVE  SessionInv'
  <2>1. UNCHANGED <<active, committing>>
    BY <1>5 DEF RemoteLockMessage, RemoteStep, ApplyRemoteLocks, ReleaseRemoteLocks, callVars
  <2>2. QED
    BY <1>5, <2>1 DEF RemoteLockMessage, requestVars, txVars, tableVars, SessionTypeOK,
                      OpenTransactionHasEpoch
<1>6. CASE UNCHANGED sessionVars
  BY <1>6 DEF sessionVars, coordVars, requestVars, txVars, tableVars, SessionTypeOK,
              OpenTransactionHasEpoch
<1>7. QED
  BY <1>1, <1>2, <1>3, <1>4, <1>5, <1>6, RequestInv DEF SessionNext

\* The invariant holds under every interleaving of requests, evictions,
\* disconnects, imported records and lock messages.
THEOREM SessionInvariant == SessionSpec => []SessionInv
<1>1. SessionInv /\ CoordInv' /\ [SessionNext]_sessionVars => SessionInv'
  BY SessionNextInv DEF CoordInv
<1>2. QED
  BY <1>1, SessionInitInv, SessionCoordInvariant, PTL DEF SessionSpec

\* The per-session maps and the table state keep their types.
THEOREM SessionTypesHold == SessionSpec => []SessionTypeOK
BY SessionInvariant, PTL DEF SessionInv

\* The conflict check of commit_staged_queries is never skipped for want of a
\* begin epoch, whatever was evicted, rolled back or failed before.
THEOREM EpochIsNeverMissing == SessionSpec => []OpenTransactionHasEpoch
BY SessionInvariant, PTL DEF SessionInv

\* No request leaves a lock behind: when none is being served, locks belong to
\* open transactions.
THEOREM NoLockOutlivesItsTransaction == SessionSpec => []LocksEndWithTransaction
<1>1. SessionInv /\ CoordInv => LocksEndWithTransaction
  <2> SUFFICES ASSUME SessionInv, CoordInv PROVE LocksEndWithTransaction
    OBVIOUS
  <2>1. serving = NoOwner => committing = {}
    BY CoordinatorAssumption DEF SessionInv, SessionTypeOK, CoordTypeOK, Owners
  <2>2. QED
    BY <2>1 DEF SessionInv, CoordInv, LocksEndWithTransaction, LocksNeedTransaction
<1>2. QED
  BY <1>1, SessionInvariant, SessionCoordInvariant, PTL

-----------------------------------------------------------------------------
(* What a transaction reads, and what its commit may overwrite.            *)

\* The snapshot of a transaction that stays open is not touched: the steps that
\* forget a snapshot end the transaction, and BEGIN needs one that is not open.
LEMMA SnapshotStep ==
  ASSUME SessionTypeOK, SessionNext, NEW s \in active \cap active'
  PROVE  tx_snapshot_by_session'[s] = tx_snapshot_by_session[s]
<1> s \in Sessions
  BY DEF SessionTypeOK, CoordTypeOK
<1>1. ASSUME NEW r \in Sessions, ForgetTransaction(r), Rollback(r) \/ FinalizeCommit(r)
      PROVE  tx_snapshot_by_session'[s] = tx_snapshot_by_session[s]
  BY <1>1, EndTransactionEnds DEF ForgetTransaction, SessionTypeOK
<1>2. ASSUME NEW r \in Sessions, BeginTransaction(r)
      PROVE  tx_snapshot_by_session'[s] = tx_snapshot_by_session[s]
  BY <1>2 DEF BeginTransaction, Begin, SessionTypeOK
<1>3. ASSUME NEW r \in Sessions, FailCommit(r)
      PROVE  tx_snapshot_by_session'[s] = tx_snapshot_by_session[s]
  BY <1>1, <1>3 DEF FailCommit, txVars
<1>4. ASSUME NEW r \in Sessions, Request(r)
      PROVE  tx_snapshot_by_session'[s] = tx_snapshot_by_session[s]
  <2>1. CASE NoEffect(r) \/ BeginFails(r) \/ BeginImport(r)
    BY <2>1 DEF NoEffect, BeginFails, BeginImport, LightweightBegin, txVars
  <2>2. CASE \E ts \in SUBSET TableIds : LockTables(r, ts) \/ TransactionalRead(r, ts)
    BY <2>2 DEF LockTables, TransactionalRead, LightweightBegin
  <2>3. CASE \E q \in Statement : StageStatement(r, q) \/ AutoCommit(r, q)
    BY <2>3 DEF StageStatement, AutoCommit, txVars
  <2>4. CASE CommitTake(r)
    BY <2>4 DEF CommitTake, txVars
  <2>5. CASE CommitRefused(r) \/ CommitInvalid(r) \/ CommitAborted(r)
    BY <1>3, <2>5 DEF CommitRefused, CommitInvalid, CommitAborted
  <2>6. CASE RollbackTransaction(r) \/ CommitApplied(r)
    BY <1>1, <2>6 DEF RollbackTransaction, CommitApplied
  <2>7. QED
    BY <1>2, <1>4, <2>1, <2>2, <2>3, <2>4, <2>5, <2>6 DEF Request
<1>5. ASSUME NEW r \in Sessions, Dispatch(r) \/ Evict(r) \/ Disconnect(r)
      PROVE  tx_snapshot_by_session'[s] = tx_snapshot_by_session[s]
  BY <1>1, <1>5 DEF Dispatch, Evict, Disconnect, txVars
<1>6. CASE \/ \E t \in TableIds : \E timestamp \in 1..now : ImportRecord(t, timestamp)
           \/ \E o \in RemoteOwners : RemoteLockMessage(o)
  BY <1>6 DEF ImportRecord, RemoteLockMessage, txVars
<1>7. QED
  BY <1>4, <1>5, <1>6 DEF SessionNext

\* Repeatable reads: no step replaces or drops the snapshot of a transaction that
\* stays open.
THEOREM OpenSnapshotIsStable == SessionSpec => SnapshotIsStable
<1>1. SessionTypeOK /\ [SessionNext]_sessionVars
        => [\A s \in active \cap active' :
              tx_snapshot_by_session'[s] = tx_snapshot_by_session[s]]_sessionVars
  BY SnapshotStep
<1>2. QED
  BY <1>1, SessionTypesHold, PTL DEF SessionSpec, SnapshotIsStable

\* Why a commit that passes the conflict check overwrites nothing it has not seen.
\* Epochs are stamped with the clock of a request and tables with the clock of a
\* later one, so a table that moved since the epoch has a larger high-water mark.
CurrencyInv ==
  /\ \A s \in Sessions :
       /\ tx_begin_epoch_by_session[s] <= now
       /\ serving # NoOwner => tx_begin_epoch_by_session[s] < now
  /\ \A t \in TableIds : high_water[t] <= now
  /\ \A s \in active \cup committing : \A t \in TableIds :
       version[t] # begin_version[s][t] => high_water[t] > tx_begin_epoch_by_session[s]

\* Steps that move no table, and start no transaction, keep tables current.
LEMMA NoWriteCurrency ==
  ASSUME SessionInv, CurrencyInv, SessionInv',
         UNCHANGED <<version, high_water, begin_version>>,
         now' >= now, serving' # NoOwner => serving # NoOwner \/ now' > now,
         active' \cup committing' \subseteq active \cup committing,
         \A s \in Sessions : \/ tx_begin_epoch_by_session'[s] = tx_begin_epoch_by_session[s]
                             \/ /\ tx_begin_epoch_by_session'[s] = 0
                                /\ s \notin active' \cup committing'
  PROVE  CurrencyInv'
<1>1. ASSUME NEW s \in Sessions
      PROVE  /\ tx_begin_epoch_by_session'[s] <= now'
             /\ serving' # NoOwner => tx_begin_epoch_by_session'[s] < now'
  BY DEF CurrencyInv, SessionInv, SessionTypeOK
<1>2. ASSUME NEW t \in TableIds
      PROVE  high_water'[t] <= now'
  BY DEF CurrencyInv, SessionInv, SessionTypeOK
<1>3. ASSUME NEW s \in active' \cup committing', NEW t \in TableIds
      PROVE  version'[t] # begin_version'[s][t]
               => high_water'[t] > tx_begin_epoch_by_session'[s]
  BY DEF CurrencyInv, SessionInv, SessionTypeOK, CoordTypeOK
<1>4. QED
  BY <1>1, <1>2, <1>3 DEF CurrencyInv

\* A transaction that starts is current with the tables it finds.
LEMMA BeginCurrency ==
  ASSUME SessionInv, CurrencyInv, SessionInv', NEW s \in Sessions,
         UNCHANGED <<version, high_water, now>>, serving' = NoOwner,
         active' = active \cup {s}, committing' = committing,
         tx_begin_epoch_by_session' = [tx_begin_epoch_by_session EXCEPT ![s] = now],
         begin_version' = [begin_version EXCEPT ![s] = version]
  PROVE  CurrencyInv'
BY DEF CurrencyInv, SessionInv, SessionTypeOK, CoordTypeOK

\* A request that writes stamps what it writes with its own clock, which is later
\* than the epoch of every transaction.
LEMMA WriteCurrency ==
  ASSUME SessionInv, CurrencyInv, SessionInv', NEW ts,
         serving # NoOwner, UNCHANGED <<now, begin_version>>,
         \A t \in TableIds \ ts : version'[t] = version[t],
         high_water' = [t \in TableIds |-> IF t \in ts THEN now ELSE high_water[t]],
         active' \cup committing' \subseteq active \cup committing,
         \A s \in Sessions : \/ tx_begin_epoch_by_session'[s] = tx_begin_epoch_by_session[s]
                             \/ /\ tx_begin_epoch_by_session'[s] = 0
                                /\ s \notin active' \cup committing',
         serving' = NoOwner
  PROVE  CurrencyInv'
<1>1. ASSUME NEW s \in Sessions
      PROVE  tx_begin_epoch_by_session'[s] <= now'
  BY DEF CurrencyInv, SessionInv, SessionTypeOK
<1>2. ASSUME NEW t \in TableIds
      PROVE  high_water'[t] <= now'
  BY DEF CurrencyInv, SessionInv, SessionTypeOK
<1>3. ASSUME NEW s \in active' \cup committing', NEW t \in TableIds
      PROVE  version'[t] # begin_version'[s][t]
               => high_water'[t] > tx_begin_epoch_by_session'[s]
  <2>1. s \in Sessions /\ s \in active \cup committing
    BY DEF SessionInv, SessionTypeOK, CoordTypeOK
  <2>2. tx_begin_epoch_by_session'[s] = tx_begin_epoch_by_session[s]
    BY <2>1
  <2>3. tx_begin_epoch_by_session[s] < now
    BY <2>1 DEF CurrencyInv
  <2>4. CASE t \in ts
    BY <2>1, <2>2, <2>3, <2>4 DEF SessionInv, SessionTypeOK
  <2>5. CASE t \notin ts
    BY <2>1, <2>2, <2>5 DEF CurrencyInv
  <2>6. QED
    BY <2>4, <2>5
<1>4. QED
  BY <1>1, <1>2, <1>3 DEF CurrencyInv

\* With no record arriving from a peer every step keeps tables current.
LEMMA CurrencyStep ==
  ASSUME MaxImports = 0, SessionInv, CurrencyInv, SessionInv', [SessionNext]_sessionVars
  PROVE  CurrencyInv'
<1> DEFINE EpochKept(s) ==
      \/ tx_begin_epoch_by_session'[s] = tx_begin_epoch_by_session[s]
      \/ tx_begin_epoch_by_session'[s] = 0 /\ s \notin active' \cup committing'
<1>1. ASSUME NEW r \in Sessions, ForgetTransaction(r), Rollback(r) \/ FinalizeCommit(r)
      PROVE  /\ \A s \in Sessions : EpochKept(s)
             /\ active' \cup committing' \subseteq active \cup committing
             /\ UNCHANGED begin_version
  BY <1>1, EndTransactionEnds DEF ForgetTransaction, SessionInv, SessionTypeOK
<1>2. ASSUME NEW r \in Sessions, FailCommit(r)
      PROVE  /\ \A s \in Sessions : EpochKept(s)
             /\ active' \cup committing' \subseteq active \cup committing
             /\ UNCHANGED <<begin_version, now>>
             /\ serving # NoOwner /\ serving' = NoOwner
  <2>1. serving # NoOwner /\ serving' = NoOwner /\ now' = now
    BY <1>2, CoordinatorAssumption DEF FailCommit, Answered, SessionInv, Owners
  <2>2. CASE UNCHANGED txVars
    BY <1>2, <2>1, <2>2, EndTransactionEnds DEF FailCommit, txVars
  <2>3. CASE ForgetTransaction(r)
    BY <1>1, <1>2, <2>1, <2>3 DEF FailCommit
  <2>4. QED
    BY <1>2, <2>2, <2>3 DEF FailCommit
<1>3. ASSUME NEW r \in Sessions, Request(r)
      PROVE  CurrencyInv'
  <2> r # NoOwner
    BY CoordinatorAssumption DEF Owners
  <2> now \in Nat
    BY DEF SessionInv, SessionTypeOK
  <2>1. CASE NoEffect(r)
    BY <2>1, NoWriteCurrency DEF NoEffect, Answered, coordVars, txVars, tableVars
  <2>2. CASE BeginTransaction(r)
    BY <2>2, BeginCurrency DEF BeginTransaction, Begin, callVars, Answered, tableVars
  <2>3. CASE BeginFails(r)
    <3>1. active' = active \ {r} /\ committing' = committing \ {r}
      BY <2>3, EndTransactionEnds DEF BeginFails
    <3>2. \A s \in Sessions : EpochKept(s)
      BY <2>3, <3>1 DEF BeginFails, SessionInv, SessionTypeOK
    <3>3. QED
      BY <2>3, <3>1, <3>2, NoWriteCurrency DEF BeginFails, Answered, tableVars
  <2>4. CASE BeginImport(r)
    BY <2>4, BeginCurrency
       DEF BeginImport, Begin, LightweightBegin, callVars, Answered, tableVars
  <2>5. ASSUME NEW ts \in SUBSET TableIds, LockTables(r, ts)
        PROVE  CurrencyInv'
    BY <2>5, BeginCurrency
       DEF LockTables, BeginWithTableLocks, LightweightBegin, callVars, Answered, tableVars
  <2>6. ASSUME NEW ts \in SUBSET TableIds, TransactionalRead(r, ts)
        PROVE  CurrencyInv'
    BY <2>6, NoWriteCurrency DEF TransactionalRead, Answered, coordVars
  <2>7. ASSUME NEW q \in Statement, StageStatement(r, q)
        PROVE  CurrencyInv'
    BY <2>7, NoWriteCurrency
       DEF StageStatement, RouteQuery, callVars, Answered, txVars, tableVars
  <2>8. ASSUME NEW q \in Statement, AutoCommit(r, q)
        PROVE  CurrencyInv'
    BY <2>8, WriteCurrency
       DEF AutoCommit, Handling, Answered, coordVars, txVars
  <2>9. CASE RollbackTransaction(r)
    BY <1>1, <2>9, NoWriteCurrency DEF RollbackTransaction, Answered, tableVars
  <2>10. CASE CommitTake(r)
    BY <2>10, NoWriteCurrency
       DEF CommitTake, TakeForCommit, requestVars, txVars, tableVars
  <2>11. CASE CommitRefused(r) \/ CommitInvalid(r)
    BY <1>2, <2>11, NoWriteCurrency DEF CommitRefused, CommitInvalid, tableVars
  <2>12. CASE CommitAborted(r)
    <3>1. PICK n \in 0..Len(taken[r]) :
            high_water' = [t \in TableIds |-> IF t \in Touched(taken[r], n)
                                                THEN now ELSE high_water[t]]
      BY <2>12 DEF CommitAborted
    <3>2. QED
      BY <1>2, <2>12, <3>1, WriteCurrency DEF CommitAborted
  <2>13. CASE CommitApplied(r)
    <3>1. serving # NoOwner /\ serving' = NoOwner /\ now' = now
      BY <2>13 DEF CommitApplied, Answered, SessionInv
    <3>2. \A t \in TableIds \ WriteSet(r) : version'[t] = version[t]
      BY <2>13 DEF CommitApplied
    <3>3. QED
      BY <1>1, <2>13, <3>1, <3>2, WriteCurrency DEF CommitApplied
  <2>14. QED
    BY <1>3, <2>1, <2>2, <2>3, <2>4, <2>5, <2>6, <2>7, <2>8, <2>9, <2>10, <2>11, <2>12,
       <2>13 DEF Request
<1>4. ASSUME NEW r \in Sessions, Dispatch(r)
      PROVE  CurrencyInv'
  BY <1>4, NoWriteCurrency
     DEF Dispatch, coordVars, txVars, tableVars, SessionInv, SessionTypeOK
<1>5. ASSUME NEW r \in Sessions, Evict(r) \/ Disconnect(r)
      PROVE  CurrencyInv'
  BY <1>1, <1>5, NoWriteCurrency
     DEF Evict, Disconnect, requestVars, tableVars, SessionInv, SessionTypeOK
<1>6. ASSUME NEW t \in TableIds, NEW timestamp \in 1..now, ImportRecord(t, timestamp)
      PROVE  FALSE
  BY <1>6 DEF ImportRecord, SessionInv, SessionTypeOK
<1>7. ASSUME NEW o \in RemoteOwners, RemoteLockMessage(o)
      PROVE  CurrencyInv'
  <2>1. UNCHANGED <<active, committing>>
    BY <1>7 DEF RemoteLockMessage, RemoteStep, ApplyRemoteLocks, ReleaseRemoteLocks, callVars
  <2>2. QED
    BY <1>7, <2>1, NoWriteCurrency
       DEF RemoteLockMessage, requestVars, txVars, tableVars, SessionInv, SessionTypeOK
<1>8. CASE UNCHANGED sessionVars
  BY <1>8, NoWriteCurrency
     DEF sessionVars, coordVars, requestVars, txVars, tableVars, SessionInv, SessionTypeOK
<1>9. QED
  BY <1>3, <1>4, <1>5, <1>6, <1>7, <1>8 DEF SessionNext

\* The only step that makes tables move while a session commits is that commit, and
\* the conflict check has compared the high-water marks of the tables it is about.
LEMMA CommitStepIsCurrent ==
  ASSUME SessionInv, CurrencyInv, SessionNext, version' # version,
         NEW s \in committing, NEW t \in TableIds,
         version'[t] # version[t] \/ t \in tx_read_observations_by_session[s]
  PROVE  version[t] = begin_version[s][t]
<1> s \in Sessions /\ serving = s /\ s # NoOwner
  BY CoordinatorAssumption DEF SessionInv, SessionTypeOK, CoordTypeOK, Owners
<1>1. CommitApplied(s)
  <2>1. ASSUME NEW r \in Sessions, Request(r)
        PROVE  CommitApplied(s)
    <3>1. CASE NoEffect(r) \/ BeginTransaction(r) \/ BeginFails(r) \/ BeginImport(r)
      BY <3>1 DEF NoEffect, BeginTransaction, BeginFails, BeginImport, LightweightBegin,
                  tableVars
    <3>2. CASE \E ts \in SUBSET TableIds : LockTables(r, ts) \/ TransactionalRead(r, ts)
      BY <3>2 DEF LockTables, TransactionalRead, LightweightBegin, tableVars
    <3>3. CASE \E q \in Statement : StageStatement(r, q) \/ AutoCommit(r, q)
      BY <3>3 DEF StageStatement, AutoCommit, Handling, tableVars
    <3>4. CASE RollbackTransaction(r) \/ CommitTake(r)
      BY <3>4 DEF RollbackTransaction, CommitTake, tableVars
    <3>5. CASE CommitRefused(r) \/ CommitInvalid(r) \/ CommitAborted(r)
      BY <3>5 DEF CommitRefused, CommitInvalid, CommitAborted, tableVars
    <3>6. CASE CommitApplied(r)
      BY <3>6 DEF CommitApplied, SessionInv
    <3>7. QED
      BY <2>1, <3>1, <3>2, <3>3, <3>4, <3>5, <3>6 DEF Request
  <2>2. ASSUME NEW r \in Sessions, Dispatch(r) \/ Evict(r) \/ Disconnect(r)
        PROVE  CommitApplied(s)
    BY <2>2 DEF Dispatch, Evict, Disconnect, tableVars
  <2>3. CASE \/ \E u \in TableIds : \E timestamp \in 1..now : ImportRecord(u, timestamp)
             \/ \E o \in RemoteOwners : RemoteLockMessage(o)
    BY <2>3 DEF ImportRecord, RemoteLockMessage
  <2>4. QED
    BY <2>1, <2>2, <2>3 DEF SessionNext
<1>2. t \in WriteSet(s) \cup tx_read_observations_by_session[s]
  BY <1>1 DEF CommitApplied
<1>3. ~(high_water[t] > tx_begin_epoch_by_session[s])
  BY <1>1, <1>2 DEF CommitApplied, Conflict, DetectWriteWriteConflict,
     DetectPredicateReadConflicts, HasWriteAfter, SessionInv, OpenTransactionHasEpoch
<1>4. QED
  BY <1>3 DEF CurrencyInv

\* First committer wins: as long as no peer sends records (their timestamps may lie
\* before a local BEGIN), a COMMIT never makes writes visible over a table that has
\* moved since its BEGIN, and never after a recorded read of such a table.
THEOREM FirstCommitterWins ==
  ASSUME MaxImports = 0
  PROVE  SessionSpec => CommitsAreCurrent
<1>1. SessionInit => CurrencyInv
  BY CoordinatorAssumption DEF SessionInit, CoordInit, CurrencyInv
<1>2. SessionInv /\ CurrencyInv /\ SessionInv' /\ [SessionNext]_sessionVars => CurrencyInv'
  BY CurrencyStep
<1>3. SessionInv /\ CurrencyInv /\ [SessionNext]_sessionVars
        => [\A s \in committing : \A t \in TableIds :
              /\ version' # version
              /\ version'[t] # version[t] \/ t \in tx_read_observations_by_session[s]
              => version[t] = begin_version[s][t]]_sessionVars
  BY CommitStepIsCurrent
<1>4. QED
  BY <1>1, <1>2, <1>3, SessionInvariant, PTL DEF SessionSpec, CommitsAreCurrent

-----------------------------------------------------------------------------
(* The limit on snapshots.                                                 *)

\* A set of naturals that is not empty has a smallest member.
LEMMA SmallestMember ==
  ASSUME NEW T \in SUBSET Nat, T # {}
  PROVE  \E m \in T : \A n \in T : m <= n
<1>1. PICK m \in T : \A n \in T : ~(<<n, m>> \in OpToRel(<, Nat))
  BY WFMin, NatLessThanWellFounded
<1>2. ASSUME NEW n \in T PROVE m <= n
  <2>1. ~(n < m)
    BY <1>1 DEF OpToRel
  <2>2. QED
    BY <2>1
<1>3. QED
  BY <1>2

\* What enforce_transaction_snapshot_limits leaves is within the limit, also when
\* several snapshots have the same epoch: every session below the oldest survivor
\* is removed, and the survivor was kept because that is enough.
LEMMA LimitsRemoveEnough ==
  ASSUME SessionTypeOK, MaxSessions > 0, NEW s \in Sessions, Dispatch(s)
  PROVE  Cardinality(Holders \ evicting') <= MaxSessions
<1> DEFINE older(r) == {q \in Holders :
                          tx_begin_epoch_by_session[q] < tx_begin_epoch_by_session[r]}
           overflow == {r \in Holders :
                          Cardinality(older(r)) + MaxSessions < Cardinality(Holders)}
           kept == Holders \ evicting'
<1>1. /\ IsFiniteSet(Holders) /\ Cardinality(Holders) \in Nat
      /\ IsFiniteSet(kept) /\ Cardinality(kept) \in Nat /\ MaxSessions \in Nat
  BY SessionAssumption, FS_Subset, FS_CardinalityType DEF Holders
<1>2. CASE kept = {}
  BY <1>1, <1>2, FS_EmptySet
<1>3. CASE kept # {}
  <2>1. Holders # {} /\ overflow \subseteq evicting'
    BY <1>3 DEF Dispatch, SessionsToRemove
  <2>2. PICK oldest \in kept : \A r \in kept :
          tx_begin_epoch_by_session[oldest] <= tx_begin_epoch_by_session[r]
    <3> DEFINE epochs == {tx_begin_epoch_by_session[r] : r \in kept}
    <3>1. epochs \in SUBSET Nat /\ epochs # {}
      <4>1. \A r \in kept : tx_begin_epoch_by_session[r] \in Nat
        BY DEF Holders, SessionTypeOK
      <4> HIDE DEF kept
      <4>2. QED
        BY <1>3, <4>1
    <3> HIDE DEF epochs
    <3>2. PICK m \in epochs : \A n \in epochs : m <= n
      BY <3>1, SmallestMember
    <3> USE DEF epochs
    <3>3. PICK r \in kept : m = tx_begin_epoch_by_session[r]
      OBVIOUS
    <3>4. QED
      BY <3>2, <3>3
  <2>3. older(oldest) \cap kept = {}
    BY <2>2 DEF Holders, SessionTypeOK
  <2>4. Cardinality(Holders) <= Cardinality(older(oldest)) + MaxSessions
    <3>1. older(oldest) \in SUBSET Holders
      OBVIOUS
    <3>2. Cardinality(older(oldest)) \in Nat
      BY <1>1, <3>1, FS_Subset, FS_CardinalityType
    <3>3. QED
      BY <1>1, <2>1, <2>2, <3>2
  <2> HIDE DEF older, overflow, kept
  <2>5. older(oldest) \subseteq Holders /\ kept \subseteq Holders
    BY DEF older, kept
  <2>6. kept \subseteq Holders \ older(oldest)
    BY <2>3, <2>5
  <2>7. /\ IsFiniteSet(Holders \ older(oldest))
        /\ Cardinality(Holders \ older(oldest)) =
             Cardinality(Holders) - Cardinality(Holders \cap older(oldest))
    BY <1>1, FS_Difference
  <2>8. Holders \cap older(oldest) = older(oldest)
    BY <2>5
  <2>9. Cardinality(kept) <= Cardinality(Holders \ older(oldest))
    BY <2>6, <2>7, FS_Subset
  <2>10. Cardinality(older(oldest)) \in Nat
    BY <1>1, <2>5, FS_Subset, FS_CardinalityType
  <2>11. QED
    BY <1>1, <2>4, <2>7, <2>8, <2>9, <2>10 DEF kept
<1>4. QED
  BY <1>2, <1>3

\* A request is answered with the evictions done and adds at most its own session's
\* snapshot; COMMIT takes its list first and adds none.
LEMMA RequestAddsOneHolder ==
  ASSUME SessionInv, NEW r \in Sessions, Request(r)
  PROVE  /\ serving # NoOwner /\ evicting = {} /\ evicting' = {}
         /\ Holders' \subseteq Holders \cup {r}
         /\ serving' # NoOwner => Holders' = Holders
<1> USE DEF SessionInv
<1> r # NoOwner
  BY CoordinatorAssumption DEF Owners
<1>1. serving = r /\ evicting = {}
  BY DEF Request, NoEffect, BeginTransaction, BeginFails, BeginImport, LockTables,
         TransactionalRead, StageStatement, AutoCommit, RollbackTransaction, CommitTake,
         CommitRefused, CommitInvalid, CommitAborted, CommitApplied, FailCommit, Handling
<1>2. CASE CommitTake(r)
  BY <1>1, <1>2 DEF CommitTake, requestVars, txVars, Holders
<1>3. ASSUME Answered, tx_snapshot_by_session' = tx_snapshot_by_session
      PROVE  evicting' = {} /\ serving' = NoOwner /\ Holders' = Holders
  BY <1>1, <1>3 DEF Answered, Holders
<1>4. ASSUME Answered, ForgetTransaction(r)
      PROVE  evicting' = {} /\ serving' = NoOwner /\ Holders' \subseteq Holders
  BY <1>1, <1>4 DEF Answered, ForgetTransaction, Holders, SessionTypeOK
<1>5. CASE BeginTransaction(r)
  BY <1>1, <1>5 DEF BeginTransaction, Answered, Holders, SessionTypeOK
<1>6. CASE NoEffect(r) \/ BeginFails(r) \/ BeginImport(r)
  BY <1>1, <1>3, <1>6 DEF NoEffect, BeginFails, BeginImport, LightweightBegin, txVars
<1>7. CASE \E ts \in SUBSET TableIds : LockTables(r, ts) \/ TransactionalRead(r, ts)
  BY <1>1, <1>3, <1>7 DEF LockTables, TransactionalRead, LightweightBegin
<1>8. CASE \E q \in Statement : StageStatement(r, q) \/ AutoCommit(r, q)
  BY <1>1, <1>3, <1>8 DEF StageStatement, AutoCommit, txVars
<1>9. CASE RollbackTransaction(r) \/ CommitApplied(r)
  BY <1>1, <1>4, <1>9 DEF RollbackTransaction, CommitApplied
<1>10. CASE CommitRefused(r) \/ CommitInvalid(r) \/ CommitAborted(r)
  BY <1>1, <1>3, <1>4, <1>10 DEF CommitRefused, CommitInvalid, CommitAborted, FailCommit,
                                 txVars
<1>11. QED
  BY <1>2, <1>5, <1>6, <1>7, <1>8, <1>9, <1>10 DEF Request

\* The limit, counted while evictions are still to come.
SnapshotInv ==
  MaxSessions > 0 =>
    /\ Cardinality(Holders) <= MaxSessions + 1
    /\ serving # NoOwner => Cardinality(Holders \ evicting) <= MaxSessions

\* A set within the limit has subsets within the limit.
LEMMA SmallerIsWithin ==
  ASSUME NEW H, IsFiniteSet(H), NEW n \in Nat, Cardinality(H) <= n, NEW G, G \subseteq H
  PROVE  Cardinality(G) <= n
<1>1. /\ Cardinality(G) \in Nat /\ Cardinality(H) \in Nat
      /\ Cardinality(G) <= Cardinality(H)
  BY FS_Subset, FS_CardinalityType
<1>2. QED
  BY <1>1

\* Every step keeps the number of snapshots within the limit.
LEMMA SnapshotLimitStep ==
  ASSUME SessionInv, SnapshotInv, SessionInv', [SessionNext]_sessionVars, MaxSessions > 0
  PROVE  SnapshotInv'
<1> USE DEF SessionInv
<1>1. /\ IsFiniteSet(Holders) /\ MaxSessions \in Nat /\ MaxSessions + 1 \in Nat
      /\ Cardinality(Holders) \in Nat
  BY SessionAssumption, FS_Subset, FS_CardinalityType DEF Holders
<1>2. CASE UNCHANGED <<serving, evicting, tx_snapshot_by_session>>
  BY <1>2 DEF SnapshotInv, Holders
<1>3. ASSUME NEW r \in Sessions, Dispatch(r)
      PROVE  SnapshotInv'
  <2>1. serving' # NoOwner /\ Holders' = Holders
    BY <1>3, CoordinatorAssumption DEF Dispatch, txVars, Holders, Owners
  <2>2. QED
    BY <1>3, <2>1, LimitsRemoveEnough DEF SnapshotInv
<1>4. ASSUME NEW r \in Sessions, Evict(r)
      PROVE  SnapshotInv'
  <2>1. serving' = serving /\ serving # NoOwner
    BY <1>4 DEF Evict
  <2>2. Holders' \subseteq Holders /\ Holders' \ evicting' \subseteq Holders \ evicting
    BY <1>4 DEF Evict, ForgetTransaction, Holders, SessionTypeOK
  <2>3. IsFiniteSet(Holders \ evicting)
    BY <1>1, FS_Difference
  <2>4. QED
    BY <1>1, <2>1, <2>2, <2>3, SmallerIsWithin DEF SnapshotInv
<1>5. ASSUME NEW r \in Sessions, Disconnect(r)
      PROVE  SnapshotInv'
  <2>1. serving = NoOwner /\ serving' = NoOwner
    BY <1>5 DEF Disconnect, requestVars
  <2>2. Holders' \subseteq Holders
    BY <1>5 DEF Disconnect, ForgetTransaction, Holders, SessionTypeOK
  <2>3. QED
    BY <1>1, <2>1, <2>2, SmallerIsWithin DEF SnapshotInv
<1>6. ASSUME NEW r \in Sessions, Request(r)
      PROVE  SnapshotInv'
  <2>1. Holders \ evicting = Holders /\ Cardinality(Holders) <= MaxSessions
    BY <1>6, RequestAddsOneHolder DEF SnapshotInv
  <2>2. /\ IsFiniteSet(Holders \cup {r})
        /\ Cardinality(Holders \cup {r}) <= MaxSessions + 1
    BY <1>1, <2>1, FS_AddElement
  <2>3. CASE serving' = NoOwner
    BY <1>1, <1>6, <2>2, <2>3, SmallerIsWithin, RequestAddsOneHolder DEF SnapshotInv
  <2>4. CASE serving' # NoOwner
    <3>1. Holders' = Holders /\ Holders' \ evicting' = Holders
      BY <1>6, <2>4, RequestAddsOneHolder
    <3>2. QED
      BY <1>1, <2>1, <2>4, <3>1 DEF SnapshotInv
  <2>5. QED
    BY <2>3, <2>4
<1>7. QED
  BY <1>2, <1>3, <1>4, <1>5, <1>6
     DEF SessionNext, ImportRecord, RemoteLockMessage, requestVars, txVars, sessionVars

\* TX_SNAPSHOT_MAX_SESSIONS is a limit: a handler starts with at most so many
\* snapshots, the ones failed commits leave behind included, and adds at most one.
THEOREM SnapshotsAreLimited == SessionSpec => []SnapshotLimit
<1>1. SessionInit => SnapshotInv
  <2> SUFFICES ASSUME SessionInit, MaxSessions > 0
               PROVE  Cardinality(Holders) <= MaxSessions + 1
    BY DEF SnapshotInv, SessionInit
  <2>1. Holders = {}
    BY DEF SessionInit, Holders
  <2>2. QED
    BY <2>1, FS_EmptySet, SessionAssumption
<1>2. SessionInv /\ SnapshotInv /\ SessionInv' /\ [SessionNext]_sessionVars => SnapshotInv'
  <2>1. CASE MaxSessions > 0
    BY <2>1, SnapshotLimitStep
  <2>2. CASE ~(MaxSessions > 0)
    BY <2>2 DEF SnapshotInv
  <2>3. QED
    BY <2>1, <2>2
<1>3. SessionInv /\ SnapshotInv => SnapshotLimit
  <2> SUFFICES ASSUME SessionInv, SnapshotInv, MaxSessions > 0
               PROVE  /\ Cardinality(Holders) <= MaxSessions + 1
                      /\ serving \in Sessions /\ evicting = {}
                           => Cardinality(Holders) <= MaxSessions
    BY DEF SnapshotLimit
  <2>1. serving \in Sessions /\ evicting = {} => Cardinality(Holders) <= MaxSessions
    <3>1. evicting = {} => Holders \ evicting = Holders
      OBVIOUS
    <3>2. QED
      BY <3>1, CoordinatorAssumption DEF SnapshotInv, Owners
  <2>2. QED
    BY <2>1 DEF SnapshotInv
<1>4. QED
  BY <1>1, <1>2, <1>3, SessionInvariant, PTL DEF SessionSpec

=============================================================================
