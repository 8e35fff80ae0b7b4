---------------------------- MODULE MCTransactions ----------------------------
(***************************************************************************)
(* SessionTransactions and WriteGroups for TLC.  The two share no variable *)
(* (the first decides when a transaction may commit, the second what the   *)
(* commit writes), so a behaviour is a behaviour of one of them, chosen at *)
(* the start.  Two sessions and two tables give write/write conflicts and  *)
(* write skew; the number of requests is the bound that grows the states.  *)
(***************************************************************************)
EXTENDS SessionTransactions, WriteGroups, TLC

VARIABLE part

vars == <<part, sessionVars, groupVars>>

Init == part \in {"sessions", "groups"} /\ SessionInit /\ GroupsInit

Next ==
    /\ UNCHANGED part
    /\ \/ part = "sessions" /\ SessionNext /\ UNCHANGED groupVars
       \/ part = "groups" /\ GroupsNext /\ UNCHANGED sessionVars

Spec == Init /\ [][Next]_vars

TableSymmetry == Permutations(Tables)
=============================================================================
