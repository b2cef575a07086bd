----------------------------- MODULE MCTransfer -----------------------------
(* Instances of Transfer for TLC: two receivers, so that one can be ready,   *)
(* lost, late or gone while the other is not.                                *)
EXTENDS Transfer
=============================================================================
