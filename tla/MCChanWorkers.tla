--------------------------- MODULE MCChanWorkers ---------------------------
(* Instances of ChanWorkers for TLC. *)
EXTENDS ChanWorkers, TLC

Symmetry == Permutations(Workers) \cup Permutations(Pairs)
============================================================================
