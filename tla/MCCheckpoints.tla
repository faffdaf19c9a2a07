----------------------------- MODULE MCCheckpoints -----------------------------
(* Instances of Checkpoints for TLC. *)
EXTENDS Checkpoints

CONSTANTS p1, p2, f1, metadata, c1, c2

TwoProcs == {p1, p2}
OneEditor == {p1}
TwoFiles == {f1, metadata}
TwoContents == {c1, c2}
OneTree == {[f \in TwoFiles |-> c2]}
NotListed == {metadata}
=============================================================================
