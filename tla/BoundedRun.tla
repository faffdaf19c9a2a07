------------------------------ MODULE BoundedRun ------------------------------
(***************************************************************************)
(* What one call of ToolUseLoop::run or continue_with promises: it sends   *)
(* at most MaxTurns requests that offer tools, and it returns.             *)
(***************************************************************************)
EXTENDS Naturals

CONSTANT MaxTurns

VARIABLES
    running,   \* a call is in progress
    left       \* requests it may still send

Init == ~running /\ left = MaxTurns

Start == ~running /\ running' = TRUE /\ left' = MaxTurns

Request == running /\ left > 0 /\ left' = left - 1 /\ UNCHANGED running

Return == running /\ running' = FALSE /\ left' = MaxTurns

Next == Start \/ Request \/ Return

BoundedRunSpec ==
    /\ Init /\ [][Next]_<<running, left>>
    /\ WF_<<running, left>>(Request \/ Return)
=============================================================================
