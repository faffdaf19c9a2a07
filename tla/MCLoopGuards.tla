----------------------------- MODULE MCLoopGuards -----------------------------
(* Instances of LoopGuards for TLC. *)
EXTENDS LoopGuards, TLC

CONSTANTS edit, read, b, c, x, y

TwoTools == {edit, read}
TwoCalls == {b, c}
ToolOfCall == (b :> edit) @@ (c :> read)
TwoErrors == {x, y}
Symmetry == Permutations(TwoErrors)
=============================================================================
