------------------------ MODULE TransactionCoordinator ------------------------
(***************************************************************************)
(* The single-threaded coordinator of server/src/core/                     *)
(* transaction_coordinator.rs.  One thread owns three maps and serves the  *)
(* commands of all sessions one at a time, so every command is one action. *)
(*                                                                         *)
(* A query is the set of table identifiers its insert, update and delete   *)
(* statements name, and its kind, which only the commit looks at.  A       *)
(* command that is rejected, or that only reads (IsActive, GetStaged),     *)
(* changes no map and is not an action.                                    *)
(*                                                                         *)
(* A lock-set entry that is absent and one that holds the empty set are    *)
(* treated alike by every handler, so both are the empty set here.         *)
(***************************************************************************)
EXTENDS Naturals, Sequences

CONSTANTS
  Sessions,       \* ids of the sessions of this server
  RemoteOwners,   \* ids "remote:<node>:<session>" of sessions of other nodes
  TableIds,       \* normalised table identifiers
  NoOwner,        \* not an owner: the table has no entry in the lock map
  QueryKinds,     \* kinds of statements, "Insert" among them
  MaxStaged       \* bound on the length of a staged list

Owners == Sessions \cup RemoteOwners

ASSUME CoordinatorAssumption ==
  /\ NoOwner \notin Owners
  /\ Sessions \cap RemoteOwners = {}
  /\ MaxStaged \in Nat

VARIABLES
  active,                    \* the keys of staged_by_session
  staged_by_session,         \* the staged queries, << >> for a session without an entry
  table_locks_by_table,      \* the owner of each table, or NoOwner
  locked_tables_by_session,  \* the tables each owner holds
  committing,                \* sessions whose caller took the list and has not ended the commit
  taken                      \* the list such a caller holds, << >> for the others

coordVars == <<active, staged_by_session, table_locks_by_table,
               locked_tables_by_session, committing, taken>>
lockVars  == <<table_locks_by_table, locked_tables_by_session>>
callVars  == <<committing, taken>>

Query == [touches : SUBSET TableIds, kind : QueryKinds]

CoordInit ==
  /\ active = {}
  /\ staged_by_session = [s \in Sessions |-> << >>]
  /\ table_locks_by_table = [t \in TableIds |-> NoOwner]
  /\ locked_tables_by_session = [o \in Owners |-> {}]
  /\ committing = {}
  /\ taken = [s \in Sessions |-> << >>]

\* Some table of ts belongs to an owner other than o.
Blocked(o, ts) == \E t \in ts : table_locks_by_table[t] \notin {NoOwner, o}

\* o becomes the owner of every table of ts, in both maps.
TakeLocks(o, ts) ==
  /\ table_locks_by_table' =
       [t \in TableIds |-> IF t \in ts THEN o ELSE table_locks_by_table[t]]
  /\ locked_tables_by_session' =
       [locked_tables_by_session EXCEPT ![o] = @ \cup ts]

\* The lock set of o shrinks by ts; a table of ts becomes free if o still owns it.
DropLocks(o, ts) ==
  /\ table_locks_by_table' =
       [t \in TableIds |-> IF t \in ts /\ table_locks_by_table[t] = o
                             THEN NoOwner ELSE table_locks_by_table[t]]
  /\ locked_tables_by_session' =
       [locked_tables_by_session EXCEPT ![o] = @ \ ts]

ReleaseSessionLocks(o) == DropLocks(o, locked_tables_by_session[o])

-----------------------------------------------------------------------------
Begin(s) ==
  /\ s \notin active
  /\ active' = active \cup {s}
  /\ staged_by_session' = [staged_by_session EXCEPT ![s] = << >>]
  /\ UNCHANGED <<lockVars, callVars>>

BeginWithTableLocks(s, ts) ==
  /\ s \notin active
  /\ ts # {}
  /\ ~Blocked(s, ts)
  /\ TakeLocks(s, ts)
  /\ active' = active \cup {s}
  /\ staged_by_session' = [staged_by_session EXCEPT ![s] = << >>]
  /\ UNCHANGED callVars

\* What RouteQuery answers; the lock test comes before the transaction test.
RouteDecision(s, q, can_stage) ==
  IF Blocked(s, q.touches) THEN "Rejected"
  ELSE IF s \notin active THEN "ExecuteImmediately"
  ELSE IF can_stage THEN "Staged" ELSE "Rejected"

\* The only answer that changes state: the query joins the session's list.
RouteQuery(s, q, can_stage) ==
  /\ RouteDecision(s, q, can_stage) = "Staged"
  /\ Len(staged_by_session[s]) < MaxStaged
  /\ staged_by_session' = [staged_by_session EXCEPT ![s] = Append(@, q)]
  /\ UNCHANGED <<active, lockVars, callVars>>

\* The command without the lock test (no caller in the server uses it today).
StageQuery(s, q) ==
  /\ s \in active
  /\ Len(staged_by_session[s]) < MaxStaged
  /\ staged_by_session' = [staged_by_session EXCEPT ![s] = Append(@, q)]
  /\ UNCHANGED <<active, lockVars, callVars>>

\* The coordinator answers with the list and forgets it; the locks stay.
TakeForCommit(s) ==
  /\ s \in active
  /\ active' = active \ {s}
  /\ committing' = committing \cup {s}
  /\ taken' = [taken EXCEPT ![s] = staged_by_session[s]]
  /\ staged_by_session' = [staged_by_session EXCEPT ![s] = << >>]
  /\ UNCHANGED lockVars

\* The caller hands back the list it took (no caller in the server does so today).
RestoreAfterFailedCommit(s) ==
  /\ s \in committing
  /\ s \notin active
  /\ active' = active \cup {s}
  /\ committing' = committing \ {s}
  /\ staged_by_session' = [staged_by_session EXCEPT ![s] = taken[s]]
  /\ taken' = [taken EXCEPT ![s] = << >>]
  /\ UNCHANGED lockVars

\* Locks are released whether or not the session had a staged list.
EndTransaction(s) ==
  /\ active' = active \ {s}
  /\ staged_by_session' = [staged_by_session EXCEPT ![s] = << >>]
  /\ committing' = committing \ {s}
  /\ taken' = [taken EXCEPT ![s] = << >>]
  /\ ReleaseSessionLocks(s)

Rollback(s) == EndTransaction(s)

FinalizeCommit(s) == EndTransaction(s)

\* Mutant of ApplyRemoteLocks: the peer gets the tables of other owners too.
ApplyRemoteLocksToAll(o, ts) ==
  /\ table_locks_by_table' =
       [t \in TableIds |-> IF t \in ts THEN o ELSE table_locks_by_table[t]]
  /\ locked_tables_by_session' =
       [p \in Owners |-> IF p = o THEN locked_tables_by_session[p] \cup ts
                                  ELSE locked_tables_by_session[p] \ ts]
  /\ UNCHANGED <<active, staged_by_session, callVars>>

\* Tables that another owner holds are skipped, the others are taken.
ApplyRemoteLocks(o, ts) ==
  /\ TakeLocks(o, {t \in ts : table_locks_by_table[t] \in {NoOwner, o}})
  /\ UNCHANGED <<active, staged_by_session, callVars>>

\* An empty list releases everything the owner has.
ReleaseRemoteLocks(o, ts) ==
  /\ IF ts = {} THEN ReleaseSessionLocks(o) ELSE DropLocks(o, ts)
  /\ UNCHANGED <<active, staged_by_session, callVars>>

SessionStep(s) ==
  \/ Begin(s)
  \/ \E ts \in SUBSET TableIds : BeginWithTableLocks(s, ts)
  \/ \E q \in Query, can_stage \in BOOLEAN : RouteQuery(s, q, can_stage)
  \/ \E q \in Query : StageQuery(s, q)
  \/ TakeForCommit(s)
  \/ RestoreAfterFailedCommit(s)
  \/ Rollback(s)
  \/ FinalizeCommit(s)

RemoteStep(o) ==
  \E ts \in SUBSET TableIds : ApplyRemoteLocks(o, ts) \/ ReleaseRemoteLocks(o, ts)

CoordNext ==
  \/ \E s \in Sessions : SessionStep(s)
  \/ \E o \in RemoteOwners : RemoteStep(o)

CoordSpec == CoordInit /\ [][CoordNext]_coordVars

-----------------------------------------------------------------------------
\* The three maps keep their shape: every command leaves staged lists of
\* queries for the sessions and one owner or none for each table.
CoordTypeOK ==
  /\ active \subseteq Sessions
  /\ committing \subseteq Sessions
  /\ staged_by_session \in [Sessions -> Seq(Query)]
  /\ taken \in [Sessions -> Seq(Query)]
  /\ table_locks_by_table \in [TableIds -> Owners \cup {NoOwner}]
  /\ locked_tables_by_session \in [Owners -> SUBSET TableIds]

\* The two lock maps are one relation.  release_session_locks walks the owner's
\* lock set only, so a table that is locked but missing from its owner's set
\* could never be unlocked again, and a stale member could free a table that
\* has passed to another owner.
LockMapsAgree ==
  \A o \in Owners : \A t \in TableIds :
    t \in locked_tables_by_session[o] <=> table_locks_by_table[t] = o

\* A local session holds locks only while it has a transaction or its caller is
\* still between take_for_commit and finalize_commit or rollback: no command
\* order leaves the locks of a finished transaction behind.
LocksNeedTransaction ==
  \A s \in Sessions :
    locked_tables_by_session[s] # {} => s \in active \cup committing

\* Queries are kept only for an open transaction: take_for_commit, rollback and
\* finalize_commit leave nothing behind that a later BEGIN would inherit.
StagedNeedsTransaction ==
  \A s \in Sessions :
    /\ s \notin active => staged_by_session[s] = << >>
    /\ s \notin committing => taken[s] = << >>

Locks == INSTANCE TableLocks WITH owner <- table_locks_by_table

\* Every command, seen through the owner map alone, is a step of the lock
\* contract: one owner takes free tables or gives back its own, and a table
\* never passes from one owner to another in one step.
ImplementsTableLocks == Locks!LockSpec
=============================================================================
