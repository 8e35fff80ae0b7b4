--------------------- MODULE TransactionCoordinatorProofs ---------------------
(***************************************************************************)
(* Proofs about the transaction coordinator, for any number of sessions,   *)
(* remote owners and tables and any bound on the staged lists.             *)
(***************************************************************************)
EXTENDS TransactionCoordinator, TLAPS

\* begin_with_table_locks and apply_remote_table_locks: taking tables that are
\* free or already the owner's keeps both lock maps typed and in agreement.
LEMMA TakeLocksAgree ==
  ASSUME CoordTypeOK, LockMapsAgree,
         NEW o \in Owners, NEW ts \in SUBSET TableIds,
         ~Blocked(o, ts), TakeLocks(o, ts)
  PROVE  /\ table_locks_by_table' \in [TableIds -> Owners \cup {NoOwner}]
         /\ locked_tables_by_session' \in [Owners -> SUBSET TableIds]
         /\ LockMapsAgree'
<1>1. table_locks_by_table' \in [TableIds -> Owners \cup {NoOwner}]
  BY DEF TakeLocks, CoordTypeOK
<1>2. locked_tables_by_session' \in [Owners -> SUBSET TableIds]
  BY DEF TakeLocks, CoordTypeOK
<1>3. ASSUME NEW p \in Owners, NEW t \in TableIds
      PROVE  t \in locked_tables_by_session'[p] <=> table_locks_by_table'[t] = p
  <2>1. t \in locked_tables_by_session[p] <=> table_locks_by_table[t] = p
    BY DEF LockMapsAgree
  <2>2. CASE p = o
    BY <2>1, <2>2 DEF TakeLocks, CoordTypeOK
  <2>3. CASE p # o
    <3>1. t \in ts => table_locks_by_table[t] # p
      BY <2>3, CoordinatorAssumption DEF Blocked
    <3>2. QED
      BY <2>1, <2>3, <3>1 DEF TakeLocks, CoordTypeOK
  <2>4. QED
    BY <2>2, <2>3
<1>4. QED
  BY <1>1, <1>2, <1>3 DEF LockMapsAgree

\* release_session_locks and release_remote_table_locks: giving tables back
\* keeps both lock maps typed and in agreement.
LEMMA DropLocksAgree ==
  ASSUME CoordTypeOK, LockMapsAgree,
         NEW o \in Owners, NEW ts \in SUBSET TableIds, DropLocks(o, ts)
  PROVE  /\ table_locks_by_table' \in [TableIds -> Owners \cup {NoOwner}]
         /\ locked_tables_by_session' \in [Owners -> SUBSET TableIds]
         /\ LockMapsAgree'
<1>1. table_locks_by_table' \in [TableIds -> Owners \cup {NoOwner}]
  BY DEF DropLocks, CoordTypeOK
<1>2. locked_tables_by_session' \in [Owners -> SUBSET TableIds]
  BY DEF DropLocks, CoordTypeOK
<1>3. ASSUME NEW p \in Owners, NEW t \in TableIds
      PROVE  t \in locked_tables_by_session'[p] <=> table_locks_by_table'[t] = p
  <2>1. t \in locked_tables_by_session[p] <=> table_locks_by_table[t] = p
    BY DEF LockMapsAgree
  <2>2. NoOwner # p
    BY CoordinatorAssumption
  <2>3. CASE p = o
    BY <2>1, <2>2, <2>3 DEF DropLocks, CoordTypeOK
  <2>4. CASE p # o
    BY <2>1, <2>2, <2>4 DEF DropLocks, CoordTypeOK
  <2>5. QED
    BY <2>3, <2>4
<1>4. QED
  BY <1>1, <1>2, <1>3 DEF LockMapsAgree

\* The inductive invariant: types, agreement of the two lock maps, and the two
\* facts that tie locks and staged lists to an open transaction.
CoordInv ==
  /\ CoordTypeOK
  /\ LockMapsAgree
  /\ LocksNeedTransaction
  /\ StagedNeedsTransaction

\* The maps the coordinator thread starts with satisfy the invariant.
LEMMA CoordInitInv == CoordInit => CoordInv
BY CoordinatorAssumption
   DEF CoordInit, CoordInv, CoordTypeOK, LockMapsAgree, LocksNeedTransaction,
       StagedNeedsTransaction, Owners

\* The commands that leave the lock maps alone preserve the invariant.
LEMMA LocksUnchangedStep ==
  ASSUME CoordInv, UNCHANGED lockVars,
         active' \subseteq Sessions, committing' \subseteq Sessions,
         staged_by_session' \in [Sessions -> Seq(Query)],
         taken' \in [Sessions -> Seq(Query)],
         active \cup committing \subseteq active' \cup committing',
         StagedNeedsTransaction'
  PROVE  CoordInv'
BY DEF CoordInv, CoordTypeOK, LockMapsAgree, LocksNeedTransaction, lockVars, Owners

\* Every command of a local session preserves the invariant.
LEMMA SessionStepInv ==
  ASSUME CoordInv, NEW s \in Sessions, SessionStep(s)
  PROVE  CoordInv'
<1> s \in Owners
  BY DEF Owners
<1> USE DEF CoordInv
<1>1. CASE Begin(s)
  <2>1. StagedNeedsTransaction'
    BY <1>1 DEF Begin, callVars, StagedNeedsTransaction, CoordTypeOK
  <2>2. QED
    BY <1>1, <2>1, LocksUnchangedStep DEF Begin, callVars, CoordTypeOK
<1>2. CASE \E ts \in SUBSET TableIds : BeginWithTableLocks(s, ts)
  <2>1. PICK ts \in SUBSET TableIds : BeginWithTableLocks(s, ts)
    BY <1>2
  <2>2. /\ table_locks_by_table' \in [TableIds -> Owners \cup {NoOwner}]
        /\ locked_tables_by_session' \in [Owners -> SUBSET TableIds]
        /\ LockMapsAgree'
    BY <2>1, TakeLocksAgree DEF BeginWithTableLocks
  <2>3. CoordTypeOK'
    BY <2>1, <2>2 DEF BeginWithTableLocks, CoordTypeOK, callVars
  <2>4. LocksNeedTransaction'
    BY <2>1 DEF BeginWithTableLocks, TakeLocks, LocksNeedTransaction, CoordTypeOK,
                callVars, Owners
  <2>5. StagedNeedsTransaction'
    BY <2>1 DEF BeginWithTableLocks, StagedNeedsTransaction, CoordTypeOK, callVars
  <2>6. QED
    BY <2>2, <2>3, <2>4, <2>5
<1>3. CASE \E q \in Query : (\E c \in BOOLEAN : RouteQuery(s, q, c)) \/ StageQuery(s, q)
  <2>1. PICK q \in Query : (\E c \in BOOLEAN : RouteQuery(s, q, c)) \/ StageQuery(s, q)
    BY <1>3
  <2>2. /\ s \in active
        /\ staged_by_session' = [staged_by_session EXCEPT ![s] = Append(@, q)]
        /\ UNCHANGED <<active, lockVars, callVars>>
    BY <2>1 DEF RouteQuery, StageQuery, RouteDecision
  <2>4. staged_by_session' \in [Sessions -> Seq(Query)]
    BY <2>2 DEF CoordTypeOK
  <2>5. StagedNeedsTransaction'
    BY <2>2 DEF StagedNeedsTransaction, callVars, CoordTypeOK
  <2>6. QED
    BY <2>2, <2>4, <2>5, LocksUnchangedStep DEF callVars, CoordTypeOK
<1>4. CASE TakeForCommit(s)
  <2>1. StagedNeedsTransaction'
    BY <1>4 DEF TakeForCommit, StagedNeedsTransaction, CoordTypeOK
  <2>2. QED
    BY <1>4, <2>1, LocksUnchangedStep DEF TakeForCommit, CoordTypeOK
<1>5. CASE RestoreAfterFailedCommit(s)
  <2>1. StagedNeedsTransaction'
    BY <1>5 DEF RestoreAfterFailedCommit, StagedNeedsTransaction, CoordTypeOK
  <2>2. QED
    BY <1>5, <2>1, LocksUnchangedStep DEF RestoreAfterFailedCommit, CoordTypeOK
<1>6. CASE Rollback(s) \/ FinalizeCommit(s)
  <2>1. EndTransaction(s)
    BY <1>6 DEF Rollback, FinalizeCommit
  <2>2. DropLocks(s, locked_tables_by_session[s])
    BY <2>1 DEF EndTransaction, ReleaseSessionLocks
  <2>3. locked_tables_by_session[s] \in SUBSET TableIds
    BY DEF CoordTypeOK
  <2>4. /\ table_locks_by_table' \in [TableIds -> Owners \cup {NoOwner}]
        /\ locked_tables_by_session' \in [Owners -> SUBSET TableIds]
        /\ LockMapsAgree'
    BY <2>2, <2>3, DropLocksAgree
  <2>5. CoordTypeOK'
    BY <2>1, <2>4 DEF EndTransaction, CoordTypeOK
  <2>6. LocksNeedTransaction'
    BY <2>1, <2>2 DEF EndTransaction, DropLocks, LocksNeedTransaction, CoordTypeOK, Owners
  <2>7. StagedNeedsTransaction'
    BY <2>1 DEF EndTransaction, StagedNeedsTransaction, CoordTypeOK
  <2>8. QED
    BY <2>4, <2>5, <2>6, <2>7
<1>7. QED
  BY <1>1, <1>2, <1>3, <1>4, <1>5, <1>6 DEF SessionStep

\* Applying or releasing the locks a peer announced preserves the invariant.
LEMMA RemoteStepInv ==
  ASSUME CoordInv, NEW o \in RemoteOwners, RemoteStep(o)
  PROVE  CoordInv'
<1> o \in Owners /\ o \notin Sessions
  BY CoordinatorAssumption DEF Owners
<1> USE DEF CoordInv
<1>1. PICK ts \in SUBSET TableIds : ApplyRemoteLocks(o, ts) \/ ReleaseRemoteLocks(o, ts)
  BY DEF RemoteStep
<1>2. UNCHANGED <<active, staged_by_session, callVars>>
  BY <1>1 DEF ApplyRemoteLocks, ReleaseRemoteLocks
<1>3. /\ table_locks_by_table' \in [TableIds -> Owners \cup {NoOwner}]
      /\ locked_tables_by_session' \in [Owners -> SUBSET TableIds]
      /\ LockMapsAgree'
      /\ \A s \in Sessions : locked_tables_by_session'[s] = locked_tables_by_session[s]
  <2>1. CASE ApplyRemoteLocks(o, ts)
    <3> DEFINE free == {t \in ts : table_locks_by_table[t] \in {NoOwner, o}}
    <3>1. TakeLocks(o, free) /\ ~Blocked(o, free) /\ free \in SUBSET TableIds
      BY <2>1 DEF ApplyRemoteLocks, Blocked
    <3> HIDE DEF free
    <3>2. QED
      BY <3>1, TakeLocksAgree DEF TakeLocks, CoordTypeOK, Owners
  <2>2. CASE ReleaseRemoteLocks(o, ts)
    <3> DEFINE gone == IF ts = {} THEN locked_tables_by_session[o] ELSE ts
    <3>1. DropLocks(o, gone) /\ gone \in SUBSET TableIds
      BY <2>2 DEF ReleaseRemoteLocks, ReleaseSessionLocks, CoordTypeOK
    <3> HIDE DEF gone
    <3>2. QED
      BY <3>1, DropLocksAgree DEF DropLocks, CoordTypeOK, Owners
  <2>3. QED
    BY <1>1, <2>1, <2>2
<1>4. CoordTypeOK'
  BY <1>2, <1>3 DEF CoordTypeOK, callVars
<1>5. LocksNeedTransaction' /\ StagedNeedsTransaction'
  BY <1>2, <1>3 DEF LocksNeedTransaction, StagedNeedsTransaction, callVars
<1>6. QED
  BY <1>3, <1>4, <1>5

\* No command order breaks the invariant: the loop of run_coordinator_loop keeps
\* both lock maps in agreement for any number of sessions, owners and tables.
THEOREM CoordInvariant == CoordSpec => []CoordInv
<1>1. CoordInv /\ [CoordNext]_coordVars => CoordInv'
  <2> SUFFICES ASSUME CoordInv, [CoordNext]_coordVars PROVE CoordInv'
    OBVIOUS
  <2>1. CASE CoordNext
    BY <2>1, SessionStepInv, RemoteStepInv DEF CoordNext
  <2>2. CASE UNCHANGED coordVars
    BY <2>2 DEF coordVars, CoordInv, CoordTypeOK, LockMapsAgree, LocksNeedTransaction,
                StagedNeedsTransaction
  <2>3. QED
    BY <2>1, <2>2
<1>2. QED
  BY <1>1, CoordInitInv, PTL DEF CoordSpec

\* The staged map, the lock map and the lock sets keep their types.
THEOREM CoordTypesHold == CoordSpec => []CoordTypeOK
BY CoordInvariant, PTL DEF CoordInv

\* A table is locked by an owner exactly when it is in that owner's lock set, so
\* release_session_locks frees everything the owner holds and nothing else.
THEOREM LockMapsAlwaysAgree == CoordSpec => []LockMapsAgree
BY CoordInvariant, PTL DEF CoordInv

\* A session that has neither a transaction nor a commit under way holds no lock.
THEOREM NoLockLeak == CoordSpec => []LocksNeedTransaction
BY CoordInvariant, PTL DEF CoordInv

\* take_for_commit, rollback and finalize_commit leave no query that a later BEGIN
\* of the session would inherit.
THEOREM NoStagedLeftover == CoordSpec => []StagedNeedsTransaction
BY CoordInvariant, PTL DEF CoordInv

\* Taking tables that nobody else owns is an Acquire of the lock contract.
LEMMA TakeLocksRefines ==
  ASSUME CoordTypeOK, NEW o \in Owners, NEW ts \in SUBSET TableIds,
         ~Blocked(o, ts), TakeLocks(o, ts)
  PROVE  Locks!LockNext
<1>1. Locks!Acquire(o)
  BY DEF Locks!Acquire, Blocked, TakeLocks
<1>2. QED
  BY <1>1 DEF Locks!LockNext

\* Giving tables back is a Release of the lock contract.
LEMMA DropLocksRefines ==
  ASSUME CoordTypeOK, NEW o \in Owners, NEW ts \in SUBSET TableIds, DropLocks(o, ts)
  PROVE  Locks!LockNext
<1> DEFINE mine == {t \in ts : table_locks_by_table[t] = o}
<1>1. /\ mine \in SUBSET TableIds
      /\ \A t \in mine : table_locks_by_table[t] = o
  OBVIOUS
<1>2. table_locks_by_table' =
        [t \in TableIds |-> IF t \in mine THEN NoOwner ELSE table_locks_by_table[t]]
  BY DEF DropLocks
<1> HIDE DEF mine
<1>3. Locks!Release(o)
  BY <1>1, <1>2 DEF Locks!Release
<1>4. QED
  BY <1>3 DEF Locks!LockNext

\* Every command is a step of the lock contract or leaves the owners alone.
LEMMA CoordStepRefines ==
  ASSUME CoordTypeOK, CoordNext
  PROVE  Locks!LockNext \/ UNCHANGED table_locks_by_table
<1>1. ASSUME NEW s \in Sessions, SessionStep(s)
      PROVE  Locks!LockNext \/ UNCHANGED table_locks_by_table
  <2> s \in Owners
    BY DEF Owners
  <2>1. CASE \E ts \in SUBSET TableIds : BeginWithTableLocks(s, ts)
    BY <2>1, TakeLocksRefines DEF BeginWithTableLocks
  <2>2. CASE EndTransaction(s)
    <3>1. locked_tables_by_session[s] \in SUBSET TableIds
      BY DEF CoordTypeOK
    <3>2. QED
      BY <2>2, <3>1, DropLocksRefines DEF EndTransaction, ReleaseSessionLocks
  <2>3. CASE UNCHANGED lockVars
    BY <2>3 DEF lockVars
  <2>4. QED
    BY <1>1, <2>1, <2>2, <2>3
       DEF SessionStep, Begin, RouteQuery, StageQuery, TakeForCommit,
           RestoreAfterFailedCommit, Rollback, FinalizeCommit
<1>2. ASSUME NEW o \in RemoteOwners, RemoteStep(o)
      PROVE  Locks!LockNext
  <2> o \in Owners
    BY DEF Owners
  <2>1. PICK ts \in SUBSET TableIds : ApplyRemoteLocks(o, ts) \/ ReleaseRemoteLocks(o, ts)
    BY <1>2 DEF RemoteStep
  <2>2. CASE ApplyRemoteLocks(o, ts)
    <3> DEFINE free == {t \in ts : table_locks_by_table[t] \in {NoOwner, o}}
    <3>1. TakeLocks(o, free) /\ ~Blocked(o, free) /\ free \in SUBSET TableIds
      BY <2>2 DEF ApplyRemoteLocks, Blocked
    <3> HIDE DEF free
    <3>2. QED
      BY <3>1, TakeLocksRefines
  <2>3. CASE ReleaseRemoteLocks(o, ts)
    <3> DEFINE gone == IF ts = {} THEN locked_tables_by_session[o] ELSE ts
    <3>1. DropLocks(o, gone) /\ gone \in SUBSET TableIds
      BY <2>3 DEF ReleaseRemoteLocks, ReleaseSessionLocks, CoordTypeOK
    <3> HIDE DEF gone
    <3>2. QED
      BY <3>1, DropLocksRefines
  <2>4. QED
    BY <2>1, <2>2, <2>3
<1>3. QED
  BY <1>1, <1>2 DEF CoordNext

\* The coordinator implements the lock contract: seen through the owner map,
\* every behaviour of the command loop is a behaviour of TableLocks.
THEOREM CoordinatorRefinesTableLocks == CoordSpec => ImplementsTableLocks
<1>1. CoordInit => Locks!LockInit
  BY DEF CoordInit, Locks!LockInit
<1>2. CoordTypeOK /\ [CoordNext]_coordVars => [Locks!LockNext]_table_locks_by_table
  BY CoordStepRefines DEF coordVars
<1>3. QED
  BY <1>1, <1>2, CoordTypesHold, PTL DEF CoordSpec, ImplementsTableLocks, Locks!LockSpec

=============================================================================
