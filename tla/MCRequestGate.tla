---------------------------- MODULE MCRequestGate ----------------------------
(* Instances of RequestGate for TLC. *)
EXTENDS RequestGate
=============================================================================
