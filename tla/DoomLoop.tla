------------------------------- MODULE DoomLoop -------------------------------
(***************************************************************************)
(* The doom loop gate of ToolUseLoop: DoomLoopTracker, which records every *)
(* tool call of the model, and the decision that execute_loop takes when   *)
(* the tracker reports a repetition.  The tracker outlives a user turn.    *)
(* A call is a tool name with its raw arguments.                           *)
(***************************************************************************)
EXTENDS Integers, SequencesExt

CONSTANTS
    Calls,      \* calls the model may make
    NoCall,     \* no call
    Threshold,  \* DOOM_LOOP_THRESHOLD (3)
    Window,     \* DOOM_LOOP_HISTORY_SIZE (10)
    MaxBatch    \* bound: calls of one response

VARIABLES
    recent,   \* recent_calls
    warned,   \* warning_injected
    pc,       \* "idle", "running" a user turn, or "asking" the user
    asked     \* the repeated call of the last question (history variable)

vars == <<recent, warned, pc, asked>>

Init ==
    /\ recent = <<>>
    /\ warned = FALSE
    /\ pc = "idle"
    /\ asked = NoCall

Occurrences(s, c) == Cardinality({i \in DOMAIN s : s[i] = c})

Slide(s, c) ==
    LET longer == Append(s, c)
    IN  IF Len(longer) > Window THEN Tail(longer) ELSE longer

\* A mistake the checks of this definition must notice: Record.
RecordKeepsWarning(t, c) ==
    LET window == Slide(t.recent, c)
    IN  [recent |-> window,
         warned |-> t.warned,
         detected |-> IF Occurrences(window, c) >= Threshold /\ ~t.warned THEN c ELSE NoCall]

\* DoomLoopTracker::record: a call other than the last one lifts the warning.
Record(t, c) ==
    LET window == Slide(t.recent, c)
        warning == t.warned /\ (t.recent = <<>> \/ Last(t.recent) = c)
    IN  [recent |-> window,
         warned |-> warning,
         detected |-> IF Occurrences(window, c) >= Threshold /\ ~warning THEN c ELSE NoCall]

\* All calls of the batch have been executed; they are recorded in order and
\* the first detection ends the recording.
RecordUntilDetected(t, c) == IF t.detected # NoCall THEN t ELSE Record(t, c)

Tracker == [recent |-> recent, warned |-> warned, detected |-> NoCall]

ExecuteBatch(cs) ==
    /\ pc = "running"
    /\ LET t == FoldLeft(RecordUntilDetected, Tracker, cs) IN
          /\ recent' = t.recent
          /\ warned' = t.warned
          /\ IF t.detected # NoCall
             THEN pc' = "asking" /\ asked' = t.detected
             ELSE UNCHANGED <<pc, asked>>

\* The approval callback says yes: reset().
UserContinues ==
    /\ pc = "asking"
    /\ recent' = <<>>
    /\ warned' = FALSE
    /\ pc' = "running"
    /\ UNCHANGED asked

\* No callback, an error, or no: mark_warned() and the turn is over.
UserStops ==
    /\ pc = "asking"
    /\ warned' = TRUE
    /\ pc' = "idle"
    /\ UNCHANGED <<recent, asked>>

\* A user turn begins, or ends for any other reason.
StartTurn == pc = "idle" /\ pc' = "running" /\ UNCHANGED <<recent, warned, asked>>
EndTurn == pc = "running" /\ pc' = "idle" /\ UNCHANGED <<recent, warned, asked>>

Next ==
    \/ \E n \in 1..MaxBatch : \E cs \in [1..n -> Calls] : ExecuteBatch(cs)
    \/ UserContinues \/ UserStops \/ StartTurn \/ EndTurn

Spec == Init /\ [][Next]_vars

-----------------------------------------------------------------------------
(* Properties *)

InARow(n) ==
    /\ Len(recent) >= n
    /\ \A i \in (Len(recent) - n + 1)..Len(recent) : recent[i] = Last(recent)

\* The loop never runs on after Threshold equal calls, even if they are spread
\* over batches and user turns, unless the user has been asked about this
\* very call and has sent a new message.
RepetitionStops ==
    InARow(Threshold) /\ pc # "asking" => warned /\ Last(recent) = asked
=============================================================================
