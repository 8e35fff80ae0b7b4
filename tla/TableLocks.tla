------------------------------ MODULE TableLocks ------------------------------
(***************************************************************************)
(* What the transaction coordinator promises about table locks: a table    *)
(* has at most one owner, only a free table can be taken, a table passes   *)
(* from one owner to another only through being free, and one step changes *)
(* the tables of one owner only.                                           *)
(***************************************************************************)

CONSTANTS
  Owners,     \* local sessions and remote owners
  TableIds,   \* normalised table identifiers
  NoOwner     \* the value of a table nobody owns

VARIABLE owner   \* owner[t]: the owner of table t, or NoOwner

LockInit == owner = [t \in TableIds |-> NoOwner]

\* One owner takes some tables, each of them free or already its own.
Acquire(o) ==
  \E ts \in SUBSET TableIds :
    /\ \A t \in ts : owner[t] \in {NoOwner, o}
    /\ owner' = [t \in TableIds |-> IF t \in ts THEN o ELSE owner[t]]

\* One owner gives back some of the tables it owns.
Release(o) ==
  \E ts \in SUBSET TableIds :
    /\ \A t \in ts : owner[t] = o
    /\ owner' = [t \in TableIds |-> IF t \in ts THEN NoOwner ELSE owner[t]]

LockNext == \E o \in Owners : Acquire(o) \/ Release(o)

LockSpec == LockInit /\ [][LockNext]_owner
=============================================================================
