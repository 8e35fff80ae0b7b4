---------------------------- MODULE MCWalStream ----------------------------
(***************************************************************************)
(* WalStream for TLC.  Four records are enough for an import to fall       *)
(* between two local writes, and for a truncation to be followed by a      *)
(* write whose id collides with one truncated before.                      *)
(***************************************************************************)
EXTENDS WalStream

AllKinds == {"Insert", "SchemaChange", "MetadataChange"}
PeerIds == {2, 4}
=============================================================================
