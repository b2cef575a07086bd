---------------------------- MODULE MCProduconsum ----------------------------
(* Instances of Produconsum for TLC: a ring of three units, so that the     *)
(* counters 0..5 wrap inside the runs, questions for one unit and for two.  *)
EXTENDS Produconsum

MCMins == {1, 2}
=============================================================================
