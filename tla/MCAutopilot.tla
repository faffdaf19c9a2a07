----------------------------- MODULE MCAutopilot -----------------------------
(* Instances of Autopilot for TLC. *)
EXTENDS Autopilot

Stops == {"autopilot.stop", "other.stop"}
Pauses == {"autopilot.pause", "other.pause", "cwd/autopilot.pause"}
PausePath == [f \in Stops \cup {""} |->
    CASE f = "autopilot.stop" -> "autopilot.pause"
      [] f = "other.stop" -> "other.pause"
      [] f = "" -> "cwd/autopilot.pause"]

\* A run for ever, and one with a limit that ends at its first error.
TwoOptions == {
    [stop |-> "other.stop", limited |-> FALSE, timed |-> FALSE, keepGoing |-> TRUE],
    [stop |-> "autopilot.stop", limited |-> TRUE, timed |-> FALSE, keepGoing |-> FALSE]}
=============================================================================
