------------------------------ MODULE LoopGuards ------------------------------
(***************************************************************************)
(* The guards of execute_loop at work on the same batches: the circuit     *)
(* breaker (CircuitBreaker), which is asked and updated call by call; the  *)
(* escalation signals, the recovery and stuck guidance, which judge the    *)
(* batch as a whole; and the doom loop gate (DoomLoop), which comes last   *)
(* and may end the user turn.  A call is a tool name with its arguments;   *)
(* some calls misspell the name.  Tools, users and hooks are free.         *)
(***************************************************************************)
EXTENDS CircuitBreaker, Subsequences, SequencesExt

CONSTANTS
    Calls,            \* calls the model may make
    NoCall,           \* no call
    ToolOf,           \* the tool of a call, its name repaired
    Misspelled,       \* calls with a name that repair_tool_name corrects
    Errors,           \* error texts of tools
    Repetition,       \* DOOM_LOOP_THRESHOLD (3)
    CallWindow,       \* DOOM_LOOP_HISTORY_SIZE (10)
    ErrorWindow,      \* MAX_RECENT_ERRORS (10)
    MaxBatch,         \* bound: calls of one response
    MaxResponses      \* bound: responses with tool calls

ASSUME GuardsAssumption ==
    /\ NoCall \notin Calls
    /\ ToolOf \in [Calls -> Tools] /\ Misspelled \subseteq Calls
    /\ {Repetition, CallWindow, ErrorWindow, MaxBatch} \subseteq Nat \ {0}
    /\ Repetition <= CallWindow /\ MaxResponses \in Nat

VARIABLES
    recent, warned, gate, asked,   \* the variables of DoomLoop, gate is its pc
    batch,       \* tool calls of the response in hand
    left,        \* those without a result, in their order of execution
    together,    \* how many of these are in the parallel path
    results,     \* batch_had_success and batch_had_failure, as a set of "ok" and "failed"
    escalation,  \* EscalationSignals; evidence stands for the four flags
    before,      \* was_escalated_before_batch
    errors,      \* recent_errors
    injected,    \* recovery_injected
    responses,   \* responses with tool calls so far
    reports,     \* stuck guidances given so far (history variable)
    since        \* failures observed with each text since the last of them (history variable)

Doom == INSTANCE DoomLoop WITH Threshold <- Repetition, Window <- CallWindow, pc <- gate

breaker == vars
doom == <<recent, warned, gate, asked>>
stuck == <<errors, reports, since>>
judged == <<escalation, before, injected, stuck>>
hand == <<batch, left, together, results, responses>>
allVars == <<breaker, doom, judged, hand>>

GuardsInit ==
    /\ Init /\ Doom!Init
    /\ batch = <<>> /\ left = <<>> /\ together = 0 /\ results = {}
    /\ escalation = [evidence |-> FALSE, failedTurns |-> 0, okTurns |-> 0]
    /\ before = FALSE /\ errors = <<>> /\ injected = FALSE
    /\ responses = 0 /\ reports = 0 /\ since = [e \in Errors |-> 0]

-----------------------------------------------------------------------------
(* EscalationSignals; the counters are counted up to what they are compared with *)

ShouldEscalate(s) == s.evidence \/ s.failedTurns >= 2

\* The third success in a row, and every one after it, drops the evidence.
RecordSuccess(s) ==
    LET n == Min({3, s.okTurns + 1})
    IN  [failedTurns |-> 0, okTurns |-> n, evidence |-> s.evidence /\ n < 3]

RecordFailure(s) == [s EXCEPT !.failedTurns = Min({2, @ + 1}), !.okTurns = 0]

\* track_error
Track(seq, e) ==
    LET longer == Append(seq, e)
    IN  IF Len(longer) > ErrorWindow THEN Tail(longer) ELSE longer

\* repeated_error_count
RepeatedErrors(seq) ==
    IF seq = <<>> THEN 0 ELSE Cardinality({i \in DOMAIN seq : seq[i] = Last(seq)})

-----------------------------------------------------------------------------
(* One response *)

\* run or continue_with: errors, evidence and counters of the last user turn stay.
StartUserTurn ==
    /\ Doom!StartTurn
    /\ injected' = FALSE
    /\ UNCHANGED <<breaker, hand, escalation, before, stuck>>

\* A response ends the user turn: a text, an error, a limit.
EndUserTurn ==
    /\ batch = <<>>
    /\ Doom!EndTurn
    /\ UNCHANGED <<breaker, judged, hand>>

InParallel == {c \in Calls \ Misspelled : ToolOf[c] \in ParallelTools}

\* A response with tool calls: the cooldowns age, and the calls for the
\* parallel path come first, which takes them if there are several.
Respond(cs) ==
    /\ gate = "running" /\ batch = <<>> /\ responses < MaxResponses
    /\ responses' = responses + 1
    /\ BeginTurn
    /\ LET first == Only(cs, InParallel) IN
          /\ left' = first \o Without(cs, InParallel)
          /\ together' = IF Len(first) > 1 THEN Len(first) ELSE 0
    /\ batch' = cs /\ results' = {}
    /\ before' = ShouldEscalate(escalation)
    /\ UNCHANGED <<doom, escalation, injected, stuck>>

Tool == ToolOf[Head(left)]

Answered(outcome) ==
    /\ left' = Tail(left)
    /\ results' = results \cup {outcome}
    /\ UNCHANGED <<doom, batch, before, injected, responses>>

\* The text of a failure is kept.
Observes(e) ==
    /\ errors' = Track(errors, e)
    /\ since' = [since EXCEPT ![e] = @ + 1]
    /\ UNCHANGED reports

\* The output is scanned, and the text of a failure kept.
Observe(outcome) ==
    /\ \E found \in BOOLEAN : escalation' = [escalation EXCEPT !.evidence = @ \/ found]
    /\ IF outcome = "ok" THEN UNCHANGED stuck ELSE \E e \in Errors : Observes(e)

\* A call of the parallel path: executed, cached, refused or invalid.  Only a
\* textual result is observed; the tools of the local host answer with objects.
ExecuteInParallel ==
    /\ together > 0
    /\ together' = together - 1
    /\ \/ \E outcome \in IF CoolingDown(Tool) THEN {"failed"} ELSE {"ok", "failed"} :
             Answered(outcome) /\ Observe(outcome)
       \/ /\ ~CoolingDown(Tool)
          /\ \E outcome \in {"ok", "failed"} : Answered(outcome)
          /\ UNCHANGED <<escalation, stuck>>
    /\ UNCHANGED breaker

\* A call of the parallel path that needs an approval joins the sequential ones.
DeferCall ==
    /\ together > 0 /\ ~CoolingDown(Tool)
    /\ together' = together - 1
    /\ left' = Append(Tail(left), Head(left))
    /\ UNCHANGED <<breaker, doom, judged, batch, results, responses>>

\* The sequential path asks the breaker by the name as it was given.
Refused == Head(left) \notin Misspelled /\ (Tool \in permanent \/ CoolingDown(Tool))

RefuseCall ==
    /\ left # <<>> /\ together = 0 /\ Refused
    /\ Answered("failed")
    /\ UNCHANGED <<breaker, escalation, stuck, together>>

\* The call is answered without an execution: a cached result, or arguments
\* that do not fit the schema, a hook that blocks, a user who denies.
AnswerOtherwise ==
    /\ left # <<>> /\ together = 0 /\ ~Refused
    /\ \E outcome \in {"ok", "failed"} : Answered(outcome)
    /\ UNCHANGED <<breaker, escalation, stuck, together>>

\* The sequential path executes the call.
ExecuteCall ==
    /\ left # <<>> /\ together = 0
    /\ IF Head(left) \in Misspelled THEN CallByMisspelling(Tool) ELSE CallByName(Tool)
    /\ LET outcome == IF streak'[Tool] > 0 THEN "failed" ELSE "ok"
       IN  Answered(outcome) /\ Observe(outcome)
    /\ UNCHANGED together

\* An agent-level call fails: the batch is dropped and no guard judges it.
AgentCallFails ==
    /\ left # <<>> /\ together = 0
    /\ Doom!EndTurn
    /\ batch' = <<>> /\ left' = <<>> /\ results' = {}
    /\ UNCHANGED <<breaker, judged, together, responses>>

\* A mistake the checks of this definition must notice: Guided.
GuidedUntilUserTurn(s) == injected \/ ("ok" \notin results /\ ShouldEscalate(s) /\ ~before)

\* The recovery guidance is given when the loop becomes escalated by a failed batch.
Guided(s) == "ok" \notin results /\ (injected \/ (ShouldEscalate(s) /\ ~before))

\* The stuck guidance is due after a batch in which everything failed.
Stuck == "ok" \notin results /\ RepeatedErrors(errors) >= 3

\* A mistake the checks of this definition must notice: JudgeErrors.
JudgeErrorsKept ==
    /\ Stuck
    /\ reports' = reports + 1 /\ since' = [e \in Errors |-> 0]
    /\ UNCHANGED errors

\* Stuck detection: the guidance is given, and the errors behind it forgotten.
JudgeErrors ==
    /\ Stuck
    /\ reports' = reports + 1 /\ since' = [e \in Errors |-> 0]
    /\ errors' = <<>>

\* The verdict over the batch, then the doom loop gate over its calls.
FinishBatch ==
    /\ batch # <<>> /\ left = <<>>
    /\ LET s == IF "ok" \in results THEN RecordSuccess(escalation) ELSE RecordFailure(escalation) IN
          /\ escalation' = s
          /\ injected' = Guided(s)
    /\ JudgeErrors \/ (~Stuck /\ UNCHANGED stuck)
    /\ Doom!ExecuteBatch(batch)
    /\ batch' = <<>> /\ results' = {}
    /\ UNCHANGED <<breaker, before, left, together, responses>>

UserDecides ==
    /\ Doom!UserContinues \/ Doom!UserStops
    /\ UNCHANGED <<breaker, judged, hand>>

GuardsNext ==
    \/ StartUserTurn \/ EndUserTurn
    \/ \E n \in 1..MaxBatch : \E cs \in [1..n -> Calls] : Respond(cs)
    \/ ExecuteInParallel \/ DeferCall
    \/ RefuseCall \/ AnswerOtherwise \/ ExecuteCall \/ AgentCallFails
    \/ FinishBatch \/ UserDecides

GuardsSpec == GuardsInit /\ [][GuardsNext]_allVars

-----------------------------------------------------------------------------
(* Properties *)

\* The loop never runs on after Repetition equal calls, even if they are spread
\* over batches and user turns or refused by the breaker, unless the user has
\* been asked about this very call and has sent a new message.
RepetitionStops == Doom!RepetitionStops

\* The recovery guidance is current: recovery_injected is set only while the
\* loop is escalated, so that the next escalation gets its guidance, although
\* the flag and the signals are reset by different events.
RecoveryIsCurrent == injected => ShouldEscalate(escalation)

\* Being stuck is earned: every stuck guidance answers three observed failures
\* with one text that no earlier guidance has answered, although the list of
\* errors outlives batches and user turns, batches with a success pass it by,
\* and a batch without a failure of its own (all refused) is judged by it too.
StuckIsEarned ==
    [][reports' # reports => \E e \in Errors : since[e] >= 3]_allVars
=============================================================================
