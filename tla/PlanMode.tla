------------------------------- MODULE PlanMode -------------------------------
(***************************************************************************)
(* The plan workflow of a session: drafting, review by the user, execution *)
(* and verification.  Its state is the row of the session in the store,    *)
(* the stored plan and the phase of the tool loop.                         *)
(*                                                                         *)
(* Two actors change the row by loading it, deciding, and writing later:   *)
(* the agent (enter_plan_mode, exit_plan_mode, changes of phase,           *)
(* spawn_task, and a prompt that grants the approval) and the user's /plan *)
(* command in a terminal.  An operation of the agent is a queue of writes  *)
(* to the store, executed one at a time.  A write that fails ends the turn *)
(* where the code propagates the error, and is skipped where it does not.  *)
(***************************************************************************)
EXTENDS Naturals, Sequences

CONSTANTS
    MaxTurns,      \* bound: user turns
    MaxHandlers,   \* bound: operations of the agent
    MaxFailures    \* bound: failed writes and killed agents

ASSUME PlanModeAssumption ==
    /\ MaxTurns \in Nat /\ MaxHandlers \in Nat /\ MaxFailures \in Nat

VARIABLES
    row,        \* the session: its status, and whether it has an active plan
    plan,       \* the stored plan: none, an empty draft, or one written by the agent
    running,    \* whether the agent executes a turn
    phase,      \* phase of the tool loop
    copy,       \* the session as the operation in progress loaded it
    todo,       \* writes left of the operation in progress
    granting,   \* whether the operation carries out an approval given in a prompt
    cmd,        \* the /plan command that has loaded the session
    stale,      \* whether a /plan command decided on an outdated status (history variable)
    awaited,    \* whether the last exit_plan_mode waits for its answer (history variable)
    turns, handlers, failures

store == <<row, plan>>
agent == <<running, phase, copy, todo, granting>>
user == <<cmd, stale>>
counts == <<turns, handlers, failures>>
vars == <<store, agent, user, awaited, counts>>

Statuses == {"Idle", "Planning", "AwaitingApproval", "ExecutingStep", "Verifying"}
PlanStates == {"Planning", "AwaitingApproval"}
Phases == {"none", "Explore", "Plan", "Execute", "Verify"}
\* One write: what it does, its argument, whether its failure ends the turn,
\* and otherwise how many writes its failure skips.
Write(do, arg, must, skip) == [do |-> do, arg |-> arg, must |-> must, skip |-> skip]
Save(status, must, skip) == Write("session", status, must, skip)
SavePlan(text, must, skip) == Write("plan", text, must, skip)
StatusEvent(status) == Write("status", status, FALSE, 1)
PlanEvent(text) == Write("revise", text, FALSE, 1)
Transition(p) == Write("transition", p, FALSE, 1)
SetPhase(p) == Write("phase", p, FALSE, 1)

Init ==
    /\ row = [status |-> "Idle", plan |-> FALSE] /\ plan = "none"
    /\ running = FALSE /\ phase = "none" /\ copy = row /\ todo = <<>> /\ granting = FALSE
    /\ cmd = "none" /\ stale = FALSE /\ awaited = FALSE
    /\ turns = 0 /\ handlers = 0 /\ failures = 0

-----------------------------------------------------------------------------
(* A turn of the agent *)

\* initial_phase: from the status, or Explore for a complex task.
InitialPhase(status, complex) ==
    CASE status \in PlanStates -> "Plan"
      [] status = "ExecutingStep" -> "Execute"
      [] status = "Verifying" -> "Verify"
      [] status = "Idle" -> IF complex THEN "Explore" ELSE "none"

\* A prompt with words like "go ahead" approves a plan that awaits approval.
\* The workflow has phases only if phase_loop_enabled is configured.
StartTurn(grants, complex, phased) ==
    /\ ~running /\ turns < MaxTurns
    /\ turns' = turns + 1
    /\ running' = TRUE
    /\ granting' = (grants /\ row.status = "AwaitingApproval")
    /\ LET status == IF granting' THEN "ExecutingStep" ELSE row.status
       IN  /\ copy' = [row EXCEPT !.status = status]
           /\ phase' = IF phased THEN InitialPhase(status, complex) ELSE "none"
           /\ todo' = IF granting' THEN <<Save(status, TRUE, 1), StatusEvent(status)>> ELSE <<>>
    /\ awaited' = (awaited /\ ~granting')
    /\ UNCHANGED <<store, user, handlers, failures>>

EndTurn ==
    /\ running /\ todo = <<>>
    /\ running' = FALSE /\ phase' = "none" /\ granting' = FALSE
    /\ UNCHANGED <<store, copy, todo, user, awaited, counts>>

Begin(loaded, writes) ==
    /\ running /\ todo = <<>> /\ handlers < MaxHandlers
    /\ handlers' = handlers + 1
    /\ copy' = loaded
    /\ todo' = writes
    /\ granting' = FALSE
    /\ UNCHANGED <<store, running, phase, user, turns, failures>>

EnterPlanMode ==
    /\ Begin([row EXCEPT !.plan = TRUE],
             <<Save("Planning", TRUE, 1), SavePlan("draft", TRUE, 1), Transition("Plan"),
               StatusEvent("Planning"), PlanEvent("draft")>>)
    /\ awaited' = FALSE

\* A mistake the checks of this definition must notice: ExitPlanMode.
ExitPlanModeSwapped ==
    /\ Begin([row EXCEPT !.plan = TRUE],
             <<Save("AwaitingApproval", TRUE, 1), SavePlan("revised", TRUE, 1), SetPhase("Plan"),
               StatusEvent("AwaitingApproval"), PlanEvent("revised")>>)
    /\ awaited' = TRUE

ExitPlanMode ==
    /\ Begin([row EXCEPT !.plan = TRUE],
             <<Save("AwaitingApproval", TRUE, 1), SavePlan("revised", TRUE, 1), SetPhase("Plan"),
               PlanEvent("revised"), StatusEvent("AwaitingApproval")>>)
    /\ awaited' = TRUE

\* spawn_task forks the session and saves the parent as it was loaded.
SpawnTask == Begin(row, <<Save(row.status, TRUE, 1)>>) /\ UNCHANGED awaited

\* A mistake the checks of this definition must notice: TextTransitions.
TextTransitionsFromPlan ==
    [p \in Phases |-> CASE p = "Explore" -> {"Plan"} [] p = "Plan" -> {"Execute"}
                        [] p = "Execute" -> {"Verify"} [] OTHER -> {}]

\* Phases reached by an answer without calls: from Explore after some reads,
\* from Execute always, from Plan never.
TextTransitions ==
    [p \in Phases |-> CASE p = "Explore" -> {"Plan"} [] p = "Execute" -> {"Verify"} [] OTHER -> {}]

\* Phases reached by the calls of a batch: a write leaves Explore, the fifth
\* write leaves Execute.
CallTransitions ==
    [p \in Phases |-> CASE p = "Explore" -> {"Execute"} [] p = "Execute" -> {"Verify"} [] OTHER -> {}]

ChangePhase ==
    /\ \E p \in TextTransitions[phase] \cup CallTransitions[phase] : Begin(copy, <<Transition(p)>>)
    /\ UNCHANGED awaited

-----------------------------------------------------------------------------
(* The writes of an operation *)

\* A mistake the checks of this definition must notice: TargetStatus.
TargetStatusNoVerify(p) == IF p = "Plan" THEN "Planning" ELSE "ExecutingStep"

TargetStatus(p) ==
    CASE p = "Plan" -> "Planning" [] p = "Execute" -> "ExecutingStep" [] p = "Verify" -> "Verifying"

\* persist_phase_state_best_effort, after it has loaded the session.
PersistWrites(loaded, p) ==
    LET target == TargetStatus(p)
        firstPlan == IF p = "Plan" /\ ~loaded.plan
                     THEN <<SavePlan("draft", FALSE, 2), PlanEvent("draft")>>
                     ELSE <<>>
    IN  firstPlan \o
        IF loaded.status = target
        THEN IF loaded.plan \/ firstPlan # <<>> THEN <<Save(target, FALSE, 1)>> ELSE <<>>
        ELSE <<Save(target, FALSE, 2), StatusEvent(target)>>

\* Each store write of the agent; copy is what a saved session is made of.
WriteNext ==
    /\ running /\ todo # <<>>
    /\ LET w == Head(todo)
       IN  \/ /\ w.do = "session"
              /\ row' = [status |-> w.arg, plan |-> copy.plan]
              /\ todo' = Tail(todo)
              /\ UNCHANGED <<plan, phase, copy>>
           \/ /\ w.do = "plan"
              /\ plan' = w.arg
              /\ copy' = [copy EXCEPT !.plan = TRUE]
              /\ todo' = Tail(todo)
              /\ UNCHANGED <<row, phase>>
           \/ /\ w.do = "status"
              /\ row' = [row EXCEPT !.status = w.arg]
              /\ todo' = Tail(todo)
              /\ UNCHANGED <<plan, phase, copy>>
           \/ /\ w.do = "revise"
              /\ plan' = w.arg
              /\ row' = [status |-> "Planning", plan |-> TRUE]
              /\ todo' = Tail(todo)
              /\ UNCHANGED <<phase, copy>>
           \/ /\ w.do = "transition" /\ phase = w.arg
              /\ todo' = Tail(todo)
              /\ UNCHANGED <<store, phase, copy>>
           \/ /\ w.do = "transition" /\ phase # w.arg
              /\ copy' = row
              /\ todo' = PersistWrites(row, w.arg) \o <<SetPhase(w.arg)>> \o Tail(todo)
              /\ UNCHANGED <<store, phase>>
           \/ /\ w.do = "phase"
              /\ phase' = w.arg
              /\ todo' = Tail(todo)
              /\ UNCHANGED <<store, copy>>
    /\ UNCHANGED <<running, granting, user, awaited, counts>>

\* The turn ends in an error.
Stop == running' = FALSE /\ phase' = "none" /\ todo' = <<>> /\ granting' = FALSE /\ UNCHANGED copy

WriteFails ==
    /\ running /\ todo # <<>> /\ failures < MaxFailures
    /\ failures' = failures + 1
    /\ LET w == Head(todo)
       IN  /\ w.do \in {"session", "plan", "status", "revise"}
           /\ \/ w.must /\ Stop
              \/ /\ ~w.must
                 /\ todo' = SubSeq(todo, w.skip + 1, Len(todo))
                 /\ UNCHANGED <<running, phase, copy, granting>>
    /\ UNCHANGED <<store, user, awaited, turns, handlers>>

\* The agent is killed.
Killed ==
    /\ running /\ failures < MaxFailures
    /\ failures' = failures + 1
    /\ Stop
    /\ UNCHANGED <<store, user, awaited, turns, handlers>>

-----------------------------------------------------------------------------
(* The user's /plan command *)

Verdict == [approve |-> "ExecutingStep", reject |-> "Planning"]

\* The other statuses make the command fail, or do nothing.
LoadForVerdict(verb) ==
    /\ cmd = "none"
    /\ row.status = "AwaitingApproval" /\ row.plan /\ plan # "none"
    /\ cmd' = verb
    /\ UNCHANGED <<store, agent, stale, awaited, counts>>

GiveVerdict ==
    /\ cmd # "none"
    /\ row' = [row EXCEPT !.status = Verdict[cmd]]
    /\ cmd' = "none"
    /\ stale' = (stale \/ row.status # "AwaitingApproval")
    /\ awaited' = FALSE
    /\ UNCHANGED <<plan, agent, counts>>

Next ==
    \/ \E grants, complex, phased \in BOOLEAN : StartTurn(grants, complex, phased)
    \/ EndTurn
    \/ EnterPlanMode \/ ExitPlanMode \/ SpawnTask \/ ChangePhase
    \/ WriteNext \/ WriteFails \/ Killed
    \/ \E verb \in DOMAIN Verdict : LoadForVerdict(verb)
    \/ GiveVerdict

Spec == Init /\ [][Next]_vars

-----------------------------------------------------------------------------
(* Properties *)

Settled == todo = <<>> /\ ~stale /\ failures = 0

\* Between two operations the phase of the loop and the status of the session
\* tell the same story, although they are written one after the other by
\* handlers that save copies of the session: a loop that executes or verifies
\* does so for a session that says so, and one that plans for a session whose
\* plan is drafted, under review, or just approved by the user.
PhaseMatchesStatus ==
    running /\ Settled =>
        CASE phase = "Explore" -> row.status = "Idle"
          [] phase = "Plan" -> row.status \in PlanStates \cup {"ExecutingStep"}
          [] phase = "Execute" -> row.status = "ExecutingStep"
          [] phase = "Verify" -> row.status = "Verifying"
          [] OTHER -> TRUE

\* The plan that exit_plan_mode saves is put before the user: the session awaits
\* the approval until the user answers or the agent enters plan mode again, also
\* after phases, prompts and copies of the session in later turns; and the plan
\* under review is this one, not the empty draft that enter_plan_mode stores.
ReviewShowsPlan ==
    Settled =>
        /\ awaited => row.status = "AwaitingApproval"
        /\ row.status = "AwaitingApproval" => row.plan /\ plan = "revised"

\* Drafting and review end by a decision of the user only: whatever the agent
\* does, also with copies loaded before, after failed writes and in later
\* turns, it does not start to execute a plan that was not approved.
PlanLeftOnlyByUser ==
    [][row.status \in PlanStates /\ row'.status \notin PlanStates /\ ~stale =>
         cmd = "approve" \/ granting]_vars
=============================================================================
