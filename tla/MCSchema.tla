------------------------------ MODULE MCSchema ------------------------------
(***************************************************************************)
(* SchemaCatalog and SchemaEvolution for TLC.  The first is about what a   *)
(* restart makes of the logged statements, the second about what an ALTER  *)
(* TABLE makes of the rows; they share no variable, so a behaviour is one  *)
(* of one of them, chosen at the start.                                    *)
(***************************************************************************)
EXTENDS SchemaCatalog, SchemaEvolution, TLC

VARIABLE part

vars == <<part, catalogVars, evolutionVars>>

Init == part \in {"catalog", "rows"} /\ CatalogInit /\ EvolutionInit

Next ==
    /\ UNCHANGED part
    /\ \/ part = "catalog" /\ CatalogNext /\ UNCHANGED evolutionVars
       \/ part = "rows" /\ EvolutionNext /\ UNCHANGED catalogVars

Spec == Init /\ [][Next]_vars

Covered == ~reused /\ ~resaved
MCSymmetry == Permutations(Names)
=============================================================================
