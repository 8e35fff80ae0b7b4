---------------------------- MODULE MCRowCaches ----------------------------
(***************************************************************************)
(* RowCaches for TLC.  Both values have one folded form, so that LIKE and  *)
(* equality differ.  The first row of a stream has the smaller value, rows *)
(* of either value follow it: half of the streams, which leaves room for   *)
(* two queries around a restart.                                           *)
(***************************************************************************)
EXTENDS RowCaches

MCFoldedForm == [v \in Values |-> 1]

Spec == CacheInit /\ [][CacheNext]_cacheVars

FirstRowIsSmaller == stream # <<>> => stream[1].value = 1
=============================================================================
