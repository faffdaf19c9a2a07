------------------------------- MODULE ToolLoop -------------------------------
(***************************************************************************)
(* ToolUseLoop, the think-act-observe loop of the agent: one user turn is  *)
(* a call of run or continue_with, one iteration sends the message list to *)
(* the model and handles its response.                                     *)
(*                                                                         *)
(* The model, the tools and the user are the environment: their answers    *)
(* are chosen freely.  Which repeated call trips the doom loop gate and    *)
(* which failure trips the circuit breaker is the subject of DoomLoop and  *)
(* CircuitBreaker; here both may happen at any time.  One System message   *)
(* stands for any number in a row.                                         *)
(***************************************************************************)
EXTENDS Conversation, Integers, SequencesExt

CONSTANTS
    MaxTurns,          \* config.max_turns
    MaxNudges,         \* MAX_NUDGE_ATTEMPTS (3)
    MaxTruncations,    \* MAX_TRUNCATION_RETRIES (3)
    MaxVerbosity,      \* verbosity nudges of one user turn (2)
    ExploreReads,      \* reads that end the Explore phase (3)
    ExecuteEdits,      \* edits that end the Execute phase (5)
    ReminderInterval,  \* MID_CONVERSATION_REMINDER_INTERVAL (10)
    RetrievalInterval, \* turns between two retrievals (3)
    InitialPhases,     \* initial values of phase under check
    Kinds,             \* kinds of tool calls under check
    MaxBatch,          \* bound: tool calls of one response
    MaxCalls,          \* bound: tool calls of one conversation
    MaxRuns            \* bound: user turns of one conversation

AllKinds == {"read", "write", "query", "delegate", "enterPlan", "exitPlan"}
Phases == {"none", "Explore", "Plan", "Execute", "Verify"}

ASSUME ToolLoopAssumption ==
    /\ {MaxTurns, MaxNudges, MaxTruncations, MaxVerbosity, MaxRuns} \subseteq Nat
    /\ {ExploreReads, ExecuteEdits, ReminderInterval, RetrievalInterval} \subseteq Nat \ {0}
    /\ MaxBatch \in Nat \ {0} /\ MaxCalls \in Nat
    /\ Kinds \subseteq AllKinds /\ InitialPhases \subseteq Phases

VARIABLES
    messages,   \* self.messages
    pc,         \* where the loop stands; "idle" between two user turns
    turns,      \* turns of execute_loop
    nudged,     \* the nudge and retry counters of execute_loop
    batch,      \* tool calls of the response in hand
    pending,    \* calls of the batch that are still to be executed
    made,       \* tool_calls_made.len()
    phase,      \* self.phase, "none" for None
    reads,      \* phase_read_only_calls
    edits,      \* phase_edit_calls
    issued,     \* tool call ids handed out by the provider so far
    base,       \* ids handed out before this user turn
    runs        \* user turns so far

progress == <<turns, nudged, made>>
calls == <<batch, pending, issued>>
phases == <<phase, reads, edits>>
session == <<base, runs>>
vars == <<messages, pc, progress, calls, phases, session>>

\* Metadata of the tools: the parallel path takes the reads only; an
\* agent-level tool is handled by handle_agent_level_tool.
ReadOnly == {"read", "query"}
AgentLevel == {"query", "delegate", "enterPlan", "exitPlan"}

NoNudges == [shell |-> 0, nudge |-> 0, truncation |-> 0, verbosity |-> 0]

Init ==
    /\ messages \in {<<System>>, <<System, User, Text>>}
    /\ pc = "idle"
    /\ turns = 0 /\ nudged = NoNudges /\ made = 0
    /\ batch = <<>> /\ pending = <<>> /\ issued = 0
    /\ phase \in InitialPhases /\ reads = 0 /\ edits = 0
    /\ base = 0 /\ runs = 0

Optional(m) == {<<>>, <<m>>}

\* The user turn returns to its caller and its locals are gone.
Return ==
    /\ pc' = "idle"
    /\ turns' = 0 /\ nudged' = NoNudges /\ made' = 0
    /\ batch' = <<>> /\ pending' = <<>>

Goto(l) == pc' = l

-----------------------------------------------------------------------------
(* A user turn begins; the first is run, the others are continue_with *)

AddUserTurn ==
    /\ pc = "idle"
    /\ runs < MaxRuns
    /\ \E anchor \in IF runs = 0 THEN {<<>>} ELSE Optional(System) :
          messages' \in Grounded(Append(messages \o anchor, User))
    /\ runs' = runs + 1
    /\ base' = issued
    /\ Goto("head")
    /\ UNCHANGED <<progress, calls, phases>>

-----------------------------------------------------------------------------
(* The head of an iteration: turn limit, context window, retrieval *)

\* A mistake the checks of this definition must notice: SummarizeAtLimit.
SummarizeBeyondLimit ==
    /\ pc = "head"
    /\ turns > MaxTurns
    /\ messages' = Append(messages, System)
    /\ Return
    /\ UNCHANGED <<issued, phases, session>>

\* One last request without tools; its text is returned, not recorded.
SummarizeAtLimit ==
    /\ pc = "head"
    /\ turns >= MaxTurns
    /\ messages' = Append(messages, System)
    /\ Return
    /\ UNCHANGED <<issued, phases, session>>

\* Retrieval is repeated every few turns.
Refreshed(h) == IF turns > 0 /\ turns % RetrievalInterval = 0 THEN Grounded(h) ELSE {h}

\* Below the thresholds, or above the first: prune_old_tool_outputs shortens
\* contents and removes no message.
KeepContext ==
    /\ pc = "head"
    /\ turns < MaxTurns
    /\ messages' \in Refreshed(messages)
    /\ Goto("send")
    /\ UNCHANGED <<progress, calls, phases, session>>

CompactContext ==
    /\ pc = "head"
    /\ turns < MaxTurns
    /\ Compactable(messages)
    /\ \E keep \in GroupStarts(messages), work \in Optional(System), files \in Optional(System) :
          messages' \in Refreshed(Compacted(messages, keep, work) \o files)
    /\ Goto("send")
    /\ UNCHANGED <<progress, calls, phases, session>>

\* Nothing to compact, or a summary too short to be used: the messages are
\* moved into the result.
OverflowContext ==
    /\ pc = "head"
    /\ turns < MaxTurns
    /\ messages' = <<>>
    /\ Return
    /\ UNCHANGED <<issued, phases, session>>

-----------------------------------------------------------------------------
(* The request and the model's response *)

\* Provider error, budget exceeded, or content filter.
RequestFails ==
    /\ pc = "send"
    /\ Return
    /\ UNCHANGED <<messages, issued, phases, session>>

\* The response does not end the user turn: some guidance and another
\* iteration.  limits of the four kinds of retry.
Limit == [shell |-> 1, nudge |-> MaxNudges, truncation |-> MaxTruncations,
          verbosity |-> MaxVerbosity]

Retry(kind, tail) ==
    /\ pc = "send"
    /\ nudged[kind] < Limit[kind]
    /\ turns' = turns + 1
    /\ nudged' = [nudged EXCEPT ![kind] = @ + 1]
    /\ messages' = messages \o tail
    /\ Goto("head")
    /\ UNCHANGED <<made, calls, phases, session>>

\* Text where tool calls were due, guesses or prose beyond the limit.
NudgeModel == \E kind \in {"shell", "nudge", "verbosity"} : Retry(kind, <<Text, User>>)

\* finish_reason "length"; an empty partial answer is not recorded.
RetryTruncated == \E partial \in Optional(Text) : Retry("truncation", <<System>> \o partial)

-----------------------------------------------------------------------------
(* Phases of complex tasks *)

\* A mistake the checks of this definition must notice: NextPhase.
NextPhaseReopened(r, e, wrote, text, planned) ==
    CASE wrote \/ (text /\ planned) -> "Execute"
      [] phase = "Explore" /\ ~wrote /\ r >= ExploreReads /\ text -> "Plan"
      [] phase = "Execute" /\ (text \/ e >= ExecuteEdits) -> "Verify"
      [] OTHER -> "stay"

\* check_phase_transition; "stay" for None.
NextPhase(r, e, wrote, text, planned) ==
    CASE phase = "Explore" /\ wrote -> "Execute"
      [] phase = "Explore" /\ ~wrote /\ r >= ExploreReads /\ text -> "Plan"
      [] phase = "Plan" /\ text /\ planned -> "Execute"
      [] phase = "Execute" /\ (text \/ e >= ExecuteEdits) -> "Verify"
      [] OTHER -> "stay"

\* apply_phase_transition to another phase, and the message it leaves.
EnterPhase(p) == phase' = p /\ reads' = 0 /\ edits' = 0
Announcement(p) == IF p \in {"Plan", "Verify"} /\ p # phase THEN <<System>> ELSE <<>>

\* A final text.  It may end a phase instead of the user turn, but never the
\* Plan phase: mod.rs does not ask there.
TextTransition(planned) ==
    IF phase = "Plan" THEN "stay" ELSE NextPhase(reads, edits, FALSE, TRUE, planned)

AnswerInText(planned) ==
    /\ pc = "send"
    /\ LET next == TextTransition(planned) IN
          IF next = "stay"
          THEN /\ messages' = Append(messages, Text)
               /\ Return
               /\ UNCHANGED phases
          ELSE /\ messages' = Append(messages, Text) \o Announcement(next)
               /\ EnterPhase(next)
               /\ turns' = turns + 1
               /\ Goto("head")
               /\ UNCHANGED <<nudged, made, batch, pending>>
    /\ UNCHANGED <<issued, session>>

-----------------------------------------------------------------------------
(* Tool calls *)

\* The response asks for tools: the Assistant message is recorded first.
AskForTools ==
    /\ pc = "send"
    /\ \E n \in 1..MaxBatch : \E kinds \in [1..n -> Kinds] :
          /\ issued + n <= MaxCalls
          /\ batch' = [i \in 1..n |-> [id |-> issued + i, kind |-> kinds[i]]]
          /\ issued' = issued + n
          /\ messages' = Append(messages, Asks((issued + 1)..(issued + n)))
    /\ pending' = <<>>
    /\ turns' = turns + 1
    /\ Goto("batch")
    /\ UNCHANGED <<nudged, made, phases, session>>

Results(cs) == [i \in DOMAIN cs |-> Answers(cs[i].id)]

\* A mistake the checks of this definition must notice: RunParallelReads.
RunParallelReadsTwice ==
    /\ pc = "batch"
    /\ LET readCalls == {c \in ToSet(batch) : c.kind = "read"} IN
          /\ \E deferred \in SUBSET readCalls : pending' = Without(batch, readCalls \ deferred)
          /\ messages' = messages \o Results(Only(batch, readCalls))
    /\ Goto("calls")
    /\ UNCHANGED <<turns, nudged, made, batch, issued, phases, session>>

\* Two or more reads run in parallel threads and their results are recorded
\* in order, except those that need an approval: they go to the end of the
\* sequential calls.  A single read is executed like any other call.
RunParallelReads ==
    /\ pc = "batch"
    /\ LET readCalls == {c \in ToSet(batch) : c.kind = "read"}
           others == Without(batch, readCalls)
       IN  IF Cardinality(readCalls) > 1
           THEN \E deferred \in SUBSET readCalls :
                   LET now == Only(batch, readCalls \ deferred) IN
                   /\ messages' = messages \o Results(now)
                   /\ made' = made + Len(now)
                   /\ pending' = others \o Only(batch, deferred)
           ELSE pending' = Only(batch, readCalls) \o others /\ UNCHANGED <<messages, made>>
    /\ Goto("calls")
    /\ UNCHANGED <<turns, nudged, batch, issued, phases, session>>

\* The next call is answered: note is what is recorded before the answer.
AnswerNext(note) ==
    /\ messages' = messages \o note \o <<Answers(Head(pending).id)>>
    /\ pending' = Tail(pending)
    /\ made' = made + 1
    /\ Goto("calls")
    /\ UNCHANGED <<turns, nudged, batch, issued, session>>

\* execute_tool_call.  Refused by the circuit breaker, invalid, blocked by a
\* hook, approval failed, denied, cached or executed: one Tool message.  A
\* failure that trips the breaker records a System message before it.
ExecuteCall ==
    /\ pc = "calls" /\ pending # <<>>
    /\ Head(pending).kind \notin AgentLevel
    /\ \E tripped \in Optional(System) : AnswerNext(tripped)
    /\ UNCHANGED phases

\* handle_agent_level_tool for the tools that leave the phase alone.
ExecuteAgentCall ==
    /\ pc = "calls" /\ pending # <<>>
    /\ Head(pending).kind \in {"query", "delegate"}
    /\ AnswerNext(<<>>)
    /\ UNCHANGED phases

EnterPlanMode ==
    /\ pc = "calls" /\ pending # <<>>
    /\ Head(pending).kind = "enterPlan"
    /\ AnswerNext(Announcement("Plan"))
    /\ EnterPhase("Plan")

ExitPlanMode ==
    /\ pc = "calls" /\ pending # <<>>
    /\ Head(pending).kind = "exitPlan"
    /\ AnswerNext(<<>>)
    /\ EnterPhase("Plan")

\* An agent-level handler returns Err (bad arguments, store error): the error
\* leaves the user turn, and this call and the rest of the batch unanswered.
AgentCallFails ==
    /\ pc = "calls" /\ pending # <<>>
    /\ Head(pending).kind \in AgentLevel
    /\ Return
    /\ UNCHANGED <<messages, issued, phases, session>>

-----------------------------------------------------------------------------
(* The end of a batch *)

\* The user (or the absence of one) ends the turn at the doom loop gate; the
\* messages are moved into the result.
StopAtDoomLoop ==
    /\ pc = "calls" /\ pending = <<>>
    /\ messages' = <<>>
    /\ Return
    /\ UNCHANGED <<issued, phases, session>>

CountKinds(kinds) == Cardinality({i \in DOMAIN batch : batch[i].kind \in kinds})

Reminder == IF made > 0 /\ made % ReminderInterval = 0 THEN <<User>> ELSE <<>>

\* Checklist, recovery, stuck and doom loop guidance, then the phase, then
\* the reminder.  Counters beyond their limit make no difference.
FinishBatch ==
    /\ pc = "calls" /\ pending = <<>>
    /\ LET wrote == CountKinds(Kinds \ ReadOnly)
           r == Min({ExploreReads, reads + CountKinds(ReadOnly)})
           e == Min({ExecuteEdits, edits + wrote})
           next == IF phase = "none" THEN "stay" ELSE NextPhase(r, e, wrote > 0, FALSE, FALSE)
           announced == IF next = "stay" THEN <<>> ELSE Announcement(next)
       IN  /\ \E guidance \in Optional(System) :
                 messages' = messages \o guidance \o announced \o Reminder
           /\ CASE next # "stay" -> EnterPhase(next)
                [] phase = "none" -> UNCHANGED phases
                [] OTHER -> phase' = phase /\ reads' = r /\ edits' = e
    /\ batch' = <<>>
    /\ Goto("head")
    /\ UNCHANGED <<turns, nudged, made, pending, issued, session>>

LoopStep ==
    \/ SummarizeAtLimit \/ KeepContext \/ CompactContext \/ OverflowContext
    \/ RequestFails \/ NudgeModel \/ RetryTruncated
    \/ \E planned \in BOOLEAN : AnswerInText(planned)
    \/ AskForTools \/ RunParallelReads
    \/ ExecuteCall \/ ExecuteAgentCall \/ EnterPlanMode \/ ExitPlanMode \/ AgentCallFails
    \/ StopAtDoomLoop \/ FinishBatch

Next == AddUserTurn \/ LoopStep

Spec == Init /\ [][Next]_vars

\* Requests, tools and callbacks return.
FairSpec == Spec /\ WF_vars(LoopStep)

-----------------------------------------------------------------------------
(* Properties *)

\* In every request each call of this user turn has exactly one answer, after
\* the question, whatever path the call took (parallel, deferred, refused,
\* denied, cached, failed) and whatever compaction and retrieval removed.
CallsAnsweredOnce ==
    pc = "send" => \A c \in (base + 1)..issued : AnsweredOnce(messages, c)

\* No Tool message loses its Assistant message, in any state and also after
\* errors, overflows and compactions in the middle of earlier turns.
NoOrphanResults == NoOrphans(messages)

\* One user turn sends at most MaxTurns requests with tools and returns.
Run == INSTANCE BoundedRun WITH running <- (pc # "idle"), left <- MaxTurns - turns

ImplementsBoundedRun == Run!BoundedRunSpec

\* The workflow of a complex task goes forward, in whatever order texts, reads,
\* edits and retries come; only the plan mode tools lead back to Plan.
Rank == [p \in Phases |-> CASE p = "Explore" -> 1 [] p = "Plan" -> 2 [] p = "Execute" -> 3
                              [] p = "Verify" -> 4 [] OTHER -> 0]
PhasesGoForward ==
    [][EnterPlanMode \/ ExitPlanMode \/ Rank[phase] <= Rank[phase']]_vars
=============================================================================
