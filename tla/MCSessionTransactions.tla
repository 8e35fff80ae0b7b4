------------------------ MODULE MCSessionTransactions ------------------------
(***************************************************************************)
(* SessionTransactions for TLC.  Two sessions and two tables give write/   *)
(* write conflicts and write skew; the number of requests is the bound     *)
(* that grows the state space.                                             *)
(***************************************************************************)
EXTENDS SessionTransactions
=============================================================================
