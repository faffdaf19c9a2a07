---------------------------- MODULE MCSubagentRuns ----------------------------
(* Instances of SubagentRuns for TLC. *)
EXTENDS SubagentRuns, TLC

CONSTANTS q1, q2

TwoStoppers == {q1, q2}
Symmetry == Permutations(TwoStoppers)
=============================================================================
