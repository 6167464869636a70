---------------------------- MODULE MCDbWorkers ----------------------------
(* Instances of DbWorkers for TLC. *)
EXTENDS DbWorkers, TLC

Symmetry == Permutations(Workers) \cup Permutations(Pairs)
============================================================================
