---------------------------- MODULE MCMapReduce ----------------------------
(* Instances of MapReduce for TLC. *)
EXTENDS MapReduce, TLC

CONSTANTS w1, w2

Worker2 == {w1, w2}
Symm    == Permutations(Worker2)
=============================================================================
