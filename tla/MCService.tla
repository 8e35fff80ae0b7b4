----------------------------- MODULE MCService -----------------------------
(***************************************************************************)
(* The locks, the accounts and the peers of a connection for TLC.  They    *)
(* share no state: a behaviour is one of them, chosen by `part', so that   *)
(* their states add up and do not multiply.  Two handlers and the          *)
(* background tasks close every cycle of two locks; two connections, two   *)
(* databases and three records let two SET PASSWORD cross and a CREATE     *)
(* USER, GRANT or REVOKE follow another; two nodes with a loopback and two *)
(* public hosts are taken for each other and for the bootstrap address.    *)
(***************************************************************************)
EXTENDS ServiceLocks, AccountState, ConnectorPeers, TLC

CONSTANT Loopback

VARIABLE part

vars == <<serviceVars, accountVars, peerVars, part>>

MCBootstrapAddress == [host |-> Loopback, port |-> 1]

Init == LocksInit /\ AccountsInit /\ PeersInit /\ part \in {"locks", "accounts", "peers"}

Next ==
  \/ part = "locks" /\ LocksNext /\ UNCHANGED <<accountVars, peerVars, part>>
  \/ part = "accounts" /\ AccountsNext /\ UNCHANGED <<serviceVars, peerVars, part>>
  \/ part = "peers" /\ PeersNext /\ UNCHANGED <<serviceVars, accountVars, part>>

Spec == Init /\ [][Next]_vars

Symmetry ==
  Permutations(Handlers) \cup Permutations(Databases) \cup Permutations(Connections)
  \cup Permutations(Nodes)
=============================================================================
