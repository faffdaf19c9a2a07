---------------------------- MODULE MCLocalRuntime ----------------------------
(* Instances of LocalRuntime for TLC. *)
EXTENDS LocalRuntime, TLC

Symmetry == Permutations(Threads) \cup Permutations(Models)
=============================================================================
