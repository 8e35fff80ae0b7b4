---------------------------- MODULE MCReplication ----------------------------
(***************************************************************************)
(* WalCatchup and ReplicationSync for TLC.  They share no variable: the    *)
(* walk of the sync plan only counts the pulls that WalCatchup models, so  *)
(* a behaviour is a behaviour of one of them, chosen at the start.         *)
(*                                                                         *)
(* Three nodes: n1 and n2 write, n2 and n3 replicate, directly or through  *)
(* each other.  Two databases, so that a refresh adds one that the plan    *)
(* sorts first.                                                            *)
(***************************************************************************)
EXTENDS WalCatchup, ReplicationSync, TLC

CONSTANTS n1, n2, n3, s1, s2

EachStreamOneWriter == (s1 :> {n1}) @@ (s2 :> {n2})
MaxIdOfEach == (s1 :> 2) @@ (s2 :> 1)

VARIABLE part

vars == <<part, catchupVars, affinityVars>>

Init == part \in {"catchup", "plan"} /\ CatchupInit /\ SyncInit

Next ==
    /\ UNCHANGED part
    /\ \/ part = "catchup" /\ CatchupNext /\ UNCHANGED affinityVars
       \/ part = "plan" /\ SyncNext /\ UNCHANGED catchupVars

\* CatchupFairness and SyncFairness, each for the behaviours of its component.
CatchupStep(n) == part = "catchup" /\ PullTaskStep(n) /\ UNCHANGED <<part, affinityVars>>
PlanStep == part = "plan" /\ TaskStep /\ UNCHANGED <<part, catchupVars>>
PlanRefresh == part = "plan" /\ RefreshIsUpToDate /\ UNCHANGED <<part, catchupVars>>

Spec ==
    /\ Init /\ [][Next]_vars
    /\ \A n \in Replicas : WF_vars(CatchupStep(n))
    /\ WF_vars(PlanStep) /\ SF_vars(PlanRefresh)

\* ReplicasCatchUp: every replica catches up again and again, whenever the
\* writers pause, although answers are lost, imports fail, nodes restart and
\* execute_live_wal_catchup_sync replaces the whole cursor map.
ReplicasCatchUpAgain == []<>(part = "catchup" => CaughtUp)

\* Every database that a peer has announced is synchronised in the end, all of them
\* at once, although saves fail, requests get no answer and the process restarts
\* (spawn_affinity_replication_task).  What is announced stays announced, so this
\* implies AnnouncedDatabasesAreSynced.
AnnouncedAreSynced ==
    []<>(part = "plan" => \A d \in Databases : Announced(d) => Synced(d))
=============================================================================
