--------------------------- MODULE MCTableEngine ---------------------------
(***************************************************************************)
(* The parts of the table engine, each on its own: a behaviour picks one   *)
(* part and leaves the state of the others alone.                          *)
(***************************************************************************)
EXTENDS IndexMaintenance, TableMutations

VARIABLE part
vars == <<maintenanceVars, mutationVars, part>>

MCFold(k) == k % 10

Init ==
  /\ part \in {"index", "pages", "mutations"}
  /\ MaintenanceInit /\ MutationInit
  /\ part # "index" => ~text /\ ~tracked
  /\ part # "mutations" => constrained = {}

Next ==
  \/ part = "index" /\ IndexNext /\ UNCHANGED <<pageVars, mutationVars, part>>
  \/ part = "pages" /\ PagesNext /\ UNCHANGED <<indexVars, mutationVars, part>>
  \/ part = "mutations" /\ MutationNext /\ UNCHANGED <<maintenanceVars, part>>

Spec == Init /\ [][Next]_vars
=============================================================================
