------------------------------ MODULE MCPlanMode ------------------------------
(* Instances of PlanMode for TLC. *)
EXTENDS PlanMode
=============================================================================
