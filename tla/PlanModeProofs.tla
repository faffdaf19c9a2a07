---------------------------- MODULE PlanModeProofs ----------------------------
(***************************************************************************)
(* PlanMode for any number of turns, operations and failures: the types,   *)
(* that drafting and review end by a decision of the user only, and that   *)
(* between two operations the phase, the status and the plan fit.          *)
(*                                                                         *)
(* The invariant is about the queue of writes.  The writes of one          *)
(* operation either all stay with the plan or all leave it; one that       *)
(* leaves it was begun outside of the plan, and unless an outdated verdict *)
(* interfered the session is still outside when its writes are executed.   *)
(* An operation that enters the plan ends with the phase Plan, which no    *)
(* failed write skips: no later operation can leave from another phase.    *)
(*                                                                         *)
(* The second invariant, Story, follows each operation through its writes: *)
(* what is left of the queue says where the phase and the status will      *)
(* meet, and at which writes a verdict of the user may come in between.    *)
(* The third, ReviewInv, follows a plan from exit_plan_mode to its answer. *)
(***************************************************************************)
EXTENDS PlanMode, SequenceTheorems, TLAPS

-----------------------------------------------------------------------------
(* The queue of writes *)

StoreWrites == {"session", "plan", "status", "revise"}
PhaseWrites == {"transition", "phase"}
Planned == {"Plan", "Execute", "Verify"}

Texts == {"draft", "revised"}

WriteType ==
    {w \in [do : StoreWrites \cup PhaseWrites, arg : Statuses \cup Texts \cup Planned, must : BOOLEAN, skip : 1..2] :
        /\ w.do \in {"session", "status"} => w.arg \in Statuses
        /\ w.do \in {"plan", "revise"} => w.arg \in Texts
        /\ w.do \in PhaseWrites => w.arg \in Planned}

\* The writes that stay with the plan, and those that leave it.
StayingWrites ==
    {w \in WriteType :
        /\ w.do \in {"session", "status"} => w.arg \in PlanStates
        /\ w.do \in PhaseWrites => w.arg = "Plan"}
LeavingWrites ==
    {w \in WriteType :
        /\ w.do # "revise"
        /\ w.do \in {"session", "status"} => w.arg \notin PlanStates
        /\ w.do \in PhaseWrites => w.arg # "Plan"}

\* A write that fails takes no change of phase with it.
KeepsPhases(q) ==
    \A i \in DOMAIN q : q[i].skip = 2 => i + 1 \in DOMAIN q /\ q[i + 1].do \in StoreWrites

SetsPhase(q) == \E i \in DOMAIN q : q[i].do \in PhaseWrites

SessionType == [status : Statuses, plan : BOOLEAN]

DataOK ==
    /\ row \in SessionType /\ copy \in SessionType
    /\ plan \in {"none"} \cup Texts
    /\ phase \in Phases
    /\ todo \in Seq(WriteType) /\ KeepsPhases(todo)
    /\ cmd \in {"none"} \cup DOMAIN Verdict
FlagsOK == running \in BOOLEAN /\ granting \in BOOLEAN /\ stale \in BOOLEAN
CountsOK == turns \in 0..MaxTurns /\ handlers \in 0..MaxHandlers /\ failures \in 0..MaxFailures

\* Types, and no failed write takes a change of phase with it.
TypeOK == DataOK /\ FlagsOK /\ CountsOK

Outside == {"Explore", "Execute", "Verify"}

\* An operation of the plan in a loop outside of it will change the phase.
Staying ==
    /\ todo \in Seq(StayingWrites)
    /\ phase \in Outside => SetsPhase(todo) \/ (todo = <<>> /\ row.status \notin PlanStates)

\* An operation that leaves the plan does so outside of it, or for the user.
Leaving ==
    /\ todo \in Seq(LeavingWrites)
    /\ row.status \in PlanStates =>
          granting /\ todo # <<>> /\ todo[1].do = "session" /\ todo[1].must

PlanInv == TypeOK /\ (running /\ ~stale => Staying \/ Leaving)

-----------------------------------------------------------------------------
(* Queues *)

\* What is left of a queue after the first one or two writes.
LEMMA RestOfQueue ==
    ASSUME NEW S, NEW q \in Seq(S), NEW n \in 1..2
    PROVE  LET r == SubSeq(q, n + 1, Len(q))
           IN  /\ r \in Seq(S)
               /\ \A i \in DOMAIN q : i > n => i - n \in DOMAIN r /\ r[i - n] = q[i]
               /\ KeepsPhases(q) => KeepsPhases(r)
<1> DEFINE r == SubSeq(q, n + 1, Len(q))
<1>1. Len(q) \in Nat /\ DOMAIN q = 1..Len(q)
  BY LenProperties
<1>2. /\ r \in Seq(S)
      /\ Len(r) = IF n + 1 <= Len(q) THEN Len(q) - n ELSE 0
      /\ \A i \in 1..(Len(q) - n) : r[i] = q[i + n]
  <2>1. \A i \in (n + 1)..Len(q) : q[i] \in S
    BY <1>1, ElementOfSeq
  <2> QED
    BY <1>1, <2>1, SubSeqProperties
<1> HIDE DEF r
<1>3. DOMAIN r = 1..Len(r)
  BY <1>2, LenProperties
<1>4. ASSUME NEW i \in DOMAIN r PROVE i \in Nat /\ i + n \in DOMAIN q /\ r[i] = q[i + n]
  <2>1. i \in 1..(Len(q) - n) /\ i + n \in 1..Len(q)
    BY <1>1, <1>2, <1>3
  <2>2. i \in Nat
    BY <1>1, <2>1
  <2> QED
    BY <1>1, <1>2, <2>1, <2>2
<1>5. ASSUME NEW i \in DOMAIN q, i > n PROVE i - n \in DOMAIN r /\ r[i - n] = q[i]
  <2>1. i - n \in 1..(Len(q) - n) /\ (i - n) + n = i /\ n + 1 <= Len(q)
    BY <1>1, <1>5
  <2>2. i - n \in DOMAIN r
    BY <1>2, <1>3, <2>1
  <2> QED
    BY <1>2, <2>1, <2>2
<1>6. ASSUME KeepsPhases(q) PROVE KeepsPhases(r)
  <2> SUFFICES ASSUME NEW i \in DOMAIN r, r[i].skip = 2
               PROVE  i + 1 \in DOMAIN r /\ r[i + 1].do \in StoreWrites
    BY DEF KeepsPhases
  <2>1. i \in Nat /\ i + n \in DOMAIN q /\ r[i] = q[i + n]
    BY <1>4
  <2>2. (i + n) + 1 \in DOMAIN q /\ q[(i + n) + 1].do \in StoreWrites
    BY <1>6, <2>1 DEF KeepsPhases
  <2>3. (i + n) + 1 > n /\ ((i + n) + 1) - n = i + 1
    BY <2>1
  <2> QED
    BY <1>5, <2>2, <2>3
<1> QED
  BY <1>2, <1>5, <1>6 DEF r

\* Two queues, one after the other.
LEMMA JoinedQueues ==
    ASSUME NEW S, NEW p \in Seq(S), NEW q \in Seq(S), KeepsPhases(p), KeepsPhases(q)
    PROVE  /\ p \o q \in Seq(S) /\ KeepsPhases(p \o q)
           /\ SetsPhase(p) \/ SetsPhase(q) => SetsPhase(p \o q)
<1> DEFINE r == p \o q
<1>1. Len(p) \in Nat /\ DOMAIN p = 1..Len(p) /\ Len(q) \in Nat /\ DOMAIN q = 1..Len(q)
  BY LenProperties
<1>2. r \in Seq(S) /\ Len(r) = Len(p) + Len(q)
      /\ \A i \in 1..(Len(p) + Len(q)) : r[i] = IF i <= Len(p) THEN p[i] ELSE q[i - Len(p)]
  BY ConcatProperties
<1> HIDE DEF r
<1>3. DOMAIN r = 1..(Len(p) + Len(q))
  BY <1>2, LenProperties
<1>4. \A i \in DOMAIN p : i \in DOMAIN r /\ r[i] = p[i]
  BY <1>1, <1>2, <1>3
<1>5. ASSUME NEW i \in DOMAIN q PROVE Len(p) + i \in DOMAIN r /\ r[Len(p) + i] = q[i]
  <2>1. Len(p) + i \in 1..(Len(p) + Len(q)) /\ ~(Len(p) + i <= Len(p)) /\ (Len(p) + i) - Len(p) = i
    BY <1>1
  <2> QED
    BY <1>2, <1>3, <2>1
<1>6. KeepsPhases(r)
  <2> SUFFICES ASSUME NEW i \in DOMAIN r, r[i].skip = 2
               PROVE  i + 1 \in DOMAIN r /\ r[i + 1].do \in StoreWrites
    BY DEF KeepsPhases
  <2>1. CASE i \in DOMAIN p
    BY <1>4, <2>1 DEF KeepsPhases
  <2>2. CASE i \notin DOMAIN p
    <3> DEFINE j == i - Len(p)
    <3>1. j \in DOMAIN q /\ r[i] = q[j] /\ Len(p) + (j + 1) = i + 1
      BY <1>1, <1>2, <1>3, <2>2
    <3> HIDE DEF j
    <3> QED
      BY <1>5, <3>1 DEF KeepsPhases
  <2> QED
    BY <2>1, <2>2
<1>7. SetsPhase(p) \/ SetsPhase(q) => SetsPhase(r)
  BY <1>4, <1>5 DEF SetsPhase
<1> QED
  BY <1>2, <1>6, <1>7 DEF r

\* What persist_phase_state_best_effort writes, with the change of phase.
LEMMA PersistQueue ==
    ASSUME NEW s \in SessionType, NEW p \in Planned
    PROVE  LET q == PersistWrites(s, p) \o <<SetPhase(p)>>
           IN  /\ KeepsPhases(q) /\ SetsPhase(q)
               /\ q \in Seq(IF p = "Plan" THEN StayingWrites ELSE LeavingWrites)
<1> DEFINE target == TargetStatus(p)
           a == SavePlan("draft", FALSE, 2)
           b == PlanEvent("draft")
           c == Save(target, FALSE, 1)
           d == Save(target, FALSE, 2)
           e == StatusEvent(target)
           f == SetPhase(p)
           S == IF p = "Plan" THEN StayingWrites ELSE LeavingWrites
           first == IF p = "Plan" /\ ~s.plan THEN <<a, b>> ELSE <<>>
           second == IF s.status = target
                     THEN IF s.plan \/ first # <<>> THEN <<c>> ELSE <<>>
                     ELSE <<d, e>>
<1>1. target \in Statuses /\ (target \in PlanStates <=> p = "Plan")
  BY DEF TargetStatus, Planned, Statuses, PlanStates
<1>2. a.skip = 2 /\ b.skip = 1 /\ b.do \in StoreWrites /\ c.skip = 1
      /\ d.skip = 2 /\ e.skip = 1 /\ e.do \in StoreWrites /\ f.skip = 1 /\ f.do \in PhaseWrites
  BY DEF SavePlan, PlanEvent, Save, StatusEvent, SetPhase, Write, StoreWrites, PhaseWrites
<1>3. (p = "Plan" => a \in S /\ b \in S) /\ c \in S /\ d \in S /\ e \in S /\ f \in S
  <2>1. a \in WriteType /\ b \in WriteType
    BY DEF SavePlan, PlanEvent, Write, WriteType, StoreWrites, PhaseWrites, Texts
  <2>2. c \in WriteType /\ d \in WriteType /\ e \in WriteType
    <3> HIDE DEF target
    <3> QED
      BY <1>1 DEF Save, StatusEvent, Write, WriteType, StoreWrites, PhaseWrites
  <2>3. f \in WriteType
    BY DEF SetPhase, Write, WriteType, StoreWrites, PhaseWrites, Planned
  <2> HIDE DEF target
  <2> QED
    BY <1>1, <2>1, <2>2, <2>3 DEF StayingWrites, LeavingWrites, SavePlan, PlanEvent, Save, StatusEvent,
       SetPhase, Write, PhaseWrites
<1>4. PersistWrites(s, p) = first \o second
  BY DEF PersistWrites
<1> HIDE DEF a, b, c, d, e, f, S, target
<1>5. first \in Seq(S) /\ KeepsPhases(first)
  BY <1>2, <1>3 DEF KeepsPhases
<1>6. second \in Seq(S) /\ KeepsPhases(second)
  BY <1>2, <1>3 DEF KeepsPhases
<1>7. <<f>> \in Seq(S) /\ KeepsPhases(<<f>>) /\ SetsPhase(<<f>>)
  BY <1>2, <1>3 DEF KeepsPhases, SetsPhase
<1> HIDE DEF first, second
<1>8. first \o second \in Seq(S) /\ KeepsPhases(first \o second)
  BY <1>5, <1>6, JoinedQueues
<1> QED
  BY <1>4, <1>7, <1>8, JoinedQueues DEF f, S

\* Queues made of one write, two, or five.
LEMMA ShortQueues ==
    ASSUME NEW S, NEW a \in S, a.skip = 1, NEW b \in S, b.skip = 1
    PROVE  /\ <<>> \in Seq(S) /\ KeepsPhases(<<>>)
           /\ <<a>> \in Seq(S) /\ KeepsPhases(<<a>>)
           /\ <<a, b>> \in Seq(S) /\ KeepsPhases(<<a, b>>)
  BY DEF KeepsPhases

\* The writes of enter_plan_mode and exit_plan_mode.
LEMMA PlanQueues ==
    ASSUME NEW status \in PlanStates, NEW text \in Texts, NEW change,
           change \in {Transition("Plan"), SetPhase("Plan")},
           NEW x, NEW y,
           x \in {StatusEvent(status), PlanEvent(text)}, y \in {StatusEvent(status), PlanEvent(text)}
    PROVE  LET q == <<Save(status, TRUE, 1), SavePlan(text, TRUE, 1), change, x, y>>
           IN  q \in Seq(StayingWrites) /\ KeepsPhases(q) /\ SetsPhase(q)
<1> DEFINE a == Save(status, TRUE, 1)
           b == SavePlan(text, TRUE, 1)
<1> USE DEF Write, StayingWrites, WriteType, StoreWrites, PhaseWrites
<1>1. a \in StayingWrites /\ a.skip = 1
  BY DEF Save, PlanStates, Statuses
<1>2. b \in StayingWrites /\ b.skip = 1
  BY DEF SavePlan
<1>3. /\ Transition("Plan") \in StayingWrites /\ Transition("Plan").skip = 1
      /\ SetPhase("Plan") \in StayingWrites /\ SetPhase("Plan").skip = 1
  BY DEF Transition, SetPhase, Planned
<1>4. change.do \in PhaseWrites
  BY DEF Transition, SetPhase
<1>5. StatusEvent(status) \in StayingWrites /\ StatusEvent(status).skip = 1
  BY DEF StatusEvent, PlanStates, Statuses
<1>6. PlanEvent(text) \in StayingWrites /\ PlanEvent(text).skip = 1
  BY DEF PlanEvent
<1>7. \A z \in {change, x, y} : z \in StayingWrites /\ z.skip = 1
  <2> HIDE DEF Write, StayingWrites, WriteType, StoreWrites, PhaseWrites, a, b
  <2> QED
    BY <1>3, <1>5, <1>6
<1> HIDE DEF a, b, Write, StayingWrites, WriteType, StoreWrites, PhaseWrites
<1> DEFINE q == <<a, b, change, x, y>>
<1>8. q \in Seq(StayingWrites) /\ KeepsPhases(q)
  BY <1>1, <1>2, <1>7 DEF KeepsPhases
<1>9. 3 \in DOMAIN q /\ q[3] = change
  OBVIOUS
<1>10. SetsPhase(q)
  BY <1>4, <1>9 DEF SetsPhase
<1> QED
  BY <1>8, <1>10 DEF a, b

LEMMA QueueTypes ==
    ASSUME NEW q, q \in Seq(StayingWrites) \/ q \in Seq(LeavingWrites)
    PROVE  q \in Seq(WriteType)
<1>1. StayingWrites \subseteq WriteType /\ LeavingWrites \subseteq WriteType
  BY DEF StayingWrites, LeavingWrites
<1> QED
  BY <1>1, SeqMonotonic

-----------------------------------------------------------------------------
(* The invariant *)

LEMMA InvInit ==
    ASSUME Init PROVE PlanInv
<1>1. <<>> \in Seq(WriteType) /\ KeepsPhases(<<>>)
  BY DEF KeepsPhases
<1>2. DataOK
  BY <1>1 DEF Init, DataOK, SessionType, Statuses, Phases
<1>3. FlagsOK
  BY DEF Init, FlagsOK
<1>4. CountsOK
  BY PlanModeAssumption DEF Init, CountsOK
<1> QED
  BY <1>2, <1>3, <1>4 DEF Init, PlanInv, TypeOK

\* Between two operations a loop outside of the plan has a session outside.
LEMMA IdleLoop ==
    ASSUME PlanInv, running, ~stale, todo = <<>>, phase \in Outside
    PROVE  row.status \notin PlanStates
  BY DEF PlanInv, Staying, Leaving, SetsPhase

LEMMA StartTurnInv ==
    ASSUME PlanInv, NEW grants \in BOOLEAN, NEW complex \in BOOLEAN, NEW phased \in BOOLEAN,
           StartTurn(grants, complex, phased)
    PROVE  PlanInv'
<1> DEFINE status == IF granting' THEN "ExecutingStep" ELSE row.status
<1>1. /\ turns' = turns + 1 /\ turns < MaxTurns
      /\ running' = TRUE
      /\ granting' \in BOOLEAN
      /\ copy' = [row EXCEPT !.status = status]
      /\ phase' = IF phased THEN InitialPhase(status, complex) ELSE "none"
      /\ todo' = IF granting' THEN <<Save(status, TRUE, 1), StatusEvent(status)>> ELSE <<>>
      /\ UNCHANGED <<row, plan, cmd, stale, handlers, failures>>
  BY DEF StartTurn, store, user
<1>2. row \in SessionType /\ row.status \in Statuses
  BY DEF PlanInv, TypeOK, DataOK, SessionType
<1>3. status \in Statuses
  BY <1>2 DEF Statuses
<1>4. copy' \in SessionType
  BY <1>1, <1>2, <1>3 DEF SessionType
<1>5. phase' \in Phases
  BY <1>1, <1>3 DEF InitialPhase, Statuses, PlanStates, Phases
<1>6. FlagsOK' /\ CountsOK'
  <2>1. FlagsOK'
    BY <1>1 DEF PlanInv, TypeOK, FlagsOK
  <2>2. CountsOK'
    BY <1>1, PlanModeAssumption DEF PlanInv, TypeOK, CountsOK
  <2> QED
    BY <2>1, <2>2
<1>7. CASE granting'
  <2>1. Save(status, TRUE, 1) \in LeavingWrites /\ StatusEvent(status) \in LeavingWrites
    BY <1>7 DEF Save, StatusEvent, Write, LeavingWrites, WriteType, StoreWrites, PhaseWrites, Statuses, PlanStates
  <2>2. /\ Save(status, TRUE, 1).do = "session" /\ Save(status, TRUE, 1).must
        /\ Save(status, TRUE, 1).skip = 1 /\ StatusEvent(status).skip = 1
    BY DEF Save, StatusEvent, Write
  <2>3. todo' = <<Save(status, TRUE, 1), StatusEvent(status)>>
    BY <1>1, <1>7
  <2> HIDE DEF status
  <2>4. todo' \in Seq(LeavingWrites) /\ KeepsPhases(todo)'
    BY <2>1, <2>2, <2>3, ShortQueues DEF KeepsPhases
  <2>5. Leaving'
    BY <1>7, <2>2, <2>3, <2>4 DEF Leaving
  <2>6. todo' \in Seq(WriteType)
    BY <2>4, QueueTypes
  <2>7. DataOK'
    BY <1>1, <1>4, <1>5, <2>4, <2>6 DEF PlanInv, TypeOK, DataOK
  <2> QED
    BY <1>6, <2>5, <2>7 DEF PlanInv, TypeOK
<1>8. CASE ~granting'
  <2>1. todo' = <<>>
    BY <1>1, <1>8
  <2>2. todo' \in Seq(StayingWrites) /\ todo' \in Seq(WriteType) /\ KeepsPhases(todo)'
    BY <2>1 DEF KeepsPhases
  <2>3. phase' \in Outside => row.status \notin PlanStates
    BY <1>1, <1>2, <1>8 DEF InitialPhase, Outside, PlanStates, Statuses
  <2>4. Staying'
    BY <1>1, <2>1, <2>2, <2>3 DEF Staying
  <2>5. DataOK'
    BY <1>1, <1>4, <1>5, <2>2 DEF PlanInv, TypeOK, DataOK
  <2> QED
    BY <1>6, <2>4, <2>5 DEF PlanInv, TypeOK
<1> QED
  BY <1>7, <1>8

\* The beginning of an operation, whose writes stay with the plan or leave it.
LEMMA BeginInv ==
    ASSUME PlanInv, NEW loaded \in SessionType, NEW writes, Begin(loaded, writes),
           KeepsPhases(writes), writes \in Seq(WriteType),
           ~stale => \/ writes \in Seq(StayingWrites) /\ (phase \in Outside => SetsPhase(writes))
                     \/ writes \in Seq(LeavingWrites) /\ row.status \notin PlanStates
    PROVE  PlanInv'
<1>1. /\ todo' = writes /\ copy' = loaded /\ granting' = FALSE
      /\ handlers' = handlers + 1 /\ handlers < MaxHandlers
      /\ UNCHANGED <<row, plan, running, phase, cmd, stale, turns, failures>>
  BY DEF Begin, store, user
<1>2. TypeOK'
  <2>1. KeepsPhases(todo)'
    BY <1>1 DEF KeepsPhases
  <2>2. DataOK'
    BY <1>1, <2>1 DEF PlanInv, TypeOK, DataOK
  <2>3. FlagsOK'
    BY <1>1 DEF PlanInv, TypeOK, FlagsOK
  <2>4. CountsOK'
    BY <1>1, PlanModeAssumption DEF PlanInv, TypeOK, CountsOK
  <2> QED
    BY <2>2, <2>3, <2>4 DEF TypeOK
<1>3. ~stale' => Staying' \/ Leaving'
  <2>1. SetsPhase(writes) => SetsPhase(todo)'
    BY <1>1 DEF SetsPhase
  <2> QED
    BY <1>1, <2>1 DEF Staying, Leaving
<1> QED
  BY <1>2, <1>3 DEF PlanInv

LEMMA OperationsInv ==
    ASSUME PlanInv, EnterPlanMode \/ ExitPlanMode \/ SpawnTask \/ ChangePhase
    PROVE  PlanInv'
<1>1. row \in SessionType /\ copy \in SessionType /\ row.status \in Statuses
  BY DEF PlanInv, TypeOK, DataOK, SessionType
<1>2. [row EXCEPT !.plan = TRUE] \in SessionType
  BY <1>1 DEF SessionType
<1>3. CASE EnterPlanMode
  <2> DEFINE q == <<Save("Planning", TRUE, 1), SavePlan("draft", TRUE, 1), Transition("Plan"),
                    StatusEvent("Planning"), PlanEvent("draft")>>
  <2>1. q \in Seq(StayingWrites) /\ KeepsPhases(q) /\ SetsPhase(q)
    BY PlanQueues DEF PlanStates, Texts
  <2>2. Begin([row EXCEPT !.plan = TRUE], q)
    BY <1>3 DEF EnterPlanMode
  <2> HIDE DEF q
  <2> QED
    BY <1>2, <2>1, <2>2, BeginInv, QueueTypes
<1>4. CASE ExitPlanMode
  <2> DEFINE q == <<Save("AwaitingApproval", TRUE, 1), SavePlan("revised", TRUE, 1), SetPhase("Plan"),
                    PlanEvent("revised"), StatusEvent("AwaitingApproval")>>
  <2>1. q \in Seq(StayingWrites) /\ KeepsPhases(q) /\ SetsPhase(q)
    BY PlanQueues DEF PlanStates, Texts
  <2>2. Begin([row EXCEPT !.plan = TRUE], q)
    BY <1>4 DEF ExitPlanMode
  <2> HIDE DEF q
  <2> QED
    BY <1>2, <2>1, <2>2, BeginInv, QueueTypes
<1>5. CASE SpawnTask
  <2> DEFINE w == Save(row.status, TRUE, 1)
  <2>1. w.skip = 1 /\ w \in WriteType
        /\ (row.status \in PlanStates => w \in StayingWrites)
        /\ (row.status \notin PlanStates => w \in LeavingWrites)
    BY <1>1 DEF Save, Write, StayingWrites, LeavingWrites, WriteType, StoreWrites, PhaseWrites
  <2>2. Begin(row, <<w>>) /\ running /\ todo = <<>>
    BY <1>5 DEF SpawnTask, Begin
  <2> HIDE DEF w
  <2>3. KeepsPhases(<<w>>) /\ <<w>> \in Seq(WriteType)
        /\ (row.status \in PlanStates => <<w>> \in Seq(StayingWrites))
        /\ (row.status \notin PlanStates => <<w>> \in Seq(LeavingWrites))
    BY <2>1, ShortQueues
  <2> QED
    BY <1>1, <2>2, <2>3, BeginInv, IdleLoop
<1>6. CASE ChangePhase
  <2>1. PICK p \in TextTransitions[phase] \cup CallTransitions[phase] : Begin(copy, <<Transition(p)>>)
    BY <1>6 DEF ChangePhase
  <2>2. phase \in Phases
    BY DEF PlanInv, TypeOK, DataOK
  <2>3. phase \in Outside /\ p \in Planned
    BY <2>1, <2>2 DEF TextTransitions, CallTransitions, Phases, Outside, Planned
  <2> DEFINE w == Transition(p)
  <2>4. w.skip = 1 /\ w \in WriteType /\ w.do \in PhaseWrites
        /\ (p = "Plan" => w \in StayingWrites) /\ (p # "Plan" => w \in LeavingWrites)
    BY <2>3 DEF Transition, Write, StayingWrites, LeavingWrites, WriteType, StoreWrites, PhaseWrites
  <2>5. running /\ todo = <<>>
    BY <2>1 DEF Begin
  <2>6. Begin(copy, <<w>>)
    BY <2>1
  <2> HIDE DEF w
  <2>7. KeepsPhases(<<w>>) /\ <<w>> \in Seq(WriteType)
        /\ (p = "Plan" => <<w>> \in Seq(StayingWrites))
        /\ (p # "Plan" => <<w>> \in Seq(LeavingWrites))
    BY <2>4, ShortQueues
  <2>8. SetsPhase(<<w>>)
    BY <2>4 DEF SetsPhase
  <2> QED
    BY <1>1, <2>3, <2>5, <2>6, <2>7, <2>8, BeginInv, IdleLoop
<1> QED
  BY <1>3, <1>4, <1>5, <1>6

-----------------------------------------------------------------------------
(* The writes preserve the invariant *)

\* The first write of the queue, and those after it.
LEMMA HeadAndRest ==
    ASSUME PlanInv, todo # <<>>
    PROVE  /\ Head(todo) \in WriteType /\ Head(todo) = todo[1]
           /\ Tail(todo) \in Seq(WriteType) /\ KeepsPhases(Tail(todo))
           /\ todo \in Seq(StayingWrites) => Head(todo) \in StayingWrites /\ Tail(todo) \in Seq(StayingWrites)
           /\ todo \in Seq(LeavingWrites) => Head(todo) \in LeavingWrites /\ Tail(todo) \in Seq(LeavingWrites)
           /\ SetsPhase(todo) /\ Head(todo).do \notin PhaseWrites => SetsPhase(Tail(todo))
<1>1. todo \in Seq(WriteType) /\ KeepsPhases(todo)
  BY DEF PlanInv, TypeOK, DataOK
<1>2. ASSUME NEW S, todo \in Seq(S)
      PROVE  Head(todo) \in S /\ Head(todo) = todo[1] /\ Tail(todo) \in Seq(S)
  BY <1>2
<1>3. Tail(todo) = SubSeq(todo, 1 + 1, Len(todo))
  BY <1>1, TailIsSubSeq
<1> DEFINE r == Tail(todo)
<1>4. /\ KeepsPhases(todo) => KeepsPhases(r)
      /\ \A i \in DOMAIN todo : i > 1 => i - 1 \in DOMAIN r /\ r[i - 1] = todo[i]
  <2>1. 1 \in 1..2
    OBVIOUS
  <2> DEFINE n == 1
  <2> HIDE DEF n
  <2>2. LET t == SubSeq(todo, n + 1, Len(todo))
        IN  /\ \A i \in DOMAIN todo : i > n => i - n \in DOMAIN t /\ t[i - n] = todo[i]
            /\ KeepsPhases(todo) => KeepsPhases(t)
    BY <1>1, <2>1, RestOfQueue DEF n
  <2> QED
    BY <1>3, <2>2 DEF n
<1> HIDE DEF r
<1>5. SetsPhase(todo) /\ Head(todo).do \notin PhaseWrites => SetsPhase(r)
  <2> SUFFICES ASSUME NEW i \in DOMAIN todo, todo[i].do \in PhaseWrites, todo[1].do \notin PhaseWrites
               PROVE  SetsPhase(r)
    BY <1>1, <1>2 DEF SetsPhase
  <2>1. i \in Nat /\ i > 1
    <3>1. i # 1
      OBVIOUS
    <3>2. i \in 1..Len(todo) /\ Len(todo) \in Nat
      BY <1>1, LenProperties
    <3> QED
      BY <3>1, <3>2
  <2> QED
    BY <1>4, <2>1 DEF SetsPhase
<1> QED
  BY <1>1, <1>2, <1>4, <1>5 DEF r

LEMMA WriteNextInv ==
    ASSUME PlanInv, WriteNext
    PROVE  PlanInv'
<1> DEFINE w == Head(todo)
<1>1. running /\ todo # <<>> /\ UNCHANGED <<running, granting, cmd, stale, turns, handlers, failures>>
  BY DEF WriteNext, user, counts
<1>2. /\ w \in WriteType /\ w = todo[1]
      /\ Tail(todo) \in Seq(WriteType) /\ KeepsPhases(Tail(todo))
      /\ todo \in Seq(StayingWrites) => w \in StayingWrites /\ Tail(todo) \in Seq(StayingWrites)
      /\ todo \in Seq(LeavingWrites) => w \in LeavingWrites /\ Tail(todo) \in Seq(LeavingWrites)
      /\ SetsPhase(todo) /\ w.do \notin PhaseWrites => SetsPhase(Tail(todo))
  BY <1>1, HeadAndRest
<1>3. FlagsOK' /\ CountsOK'
  <2>1. FlagsOK'
    BY <1>1 DEF PlanInv, TypeOK, FlagsOK
  <2>2. CountsOK'
    BY <1>1 DEF PlanInv, TypeOK, CountsOK
  <2> QED
    BY <2>1, <2>2
<1>4. DataOK /\ (~stale => Staying \/ Leaving)
  BY <1>1 DEF PlanInv, TypeOK
<1>5. row \in SessionType /\ copy \in SessionType
  BY <1>4 DEF DataOK
<1>6. ASSUME w.do \in StoreWrites, todo' = Tail(todo), phase' = phase, DataOK',
             row'.status # row.status => w.do \in {"session", "status", "revise"},
             w.do \in {"session", "status"} => row'.status = w.arg
      PROVE  PlanInv'
  <2>1. ASSUME Staying PROVE Staying'
    <3>1. SetsPhase(Tail(todo)) => SetsPhase(todo)'
      BY <1>6 DEF SetsPhase
    <3> QED
      BY <1>1, <1>2, <1>6, <2>1, <3>1 DEF Staying, StoreWrites, PhaseWrites
  <2>2. ASSUME Leaving PROVE Leaving'
    <3>1. w \in LeavingWrites /\ todo' \in Seq(LeavingWrites)
      BY <1>2, <1>6, <2>2 DEF Leaving
    <3>2. row'.status \notin PlanStates
      BY <1>2, <1>6, <2>2, <3>1 DEF Leaving, LeavingWrites
    <3> QED
      BY <3>1, <3>2 DEF Leaving
  <2> QED
    BY <1>1, <1>3, <1>4, <1>6, <2>1, <2>2 DEF PlanInv, TypeOK
<1>7. ASSUME w.do \in PhaseWrites, todo' = Tail(todo), row' = row, phase' = w.arg, DataOK'
      PROVE  PlanInv'
  <2>1. ASSUME Staying PROVE Staying'
    BY <1>2, <1>7, <2>1 DEF Staying, StayingWrites, Outside
  <2>2. ASSUME Leaving PROVE Leaving'
    BY <1>2, <1>7, <2>2 DEF Leaving, PhaseWrites
  <2> QED
    BY <1>1, <1>3, <1>4, <1>7, <2>1, <2>2 DEF PlanInv, TypeOK
<1> HIDE DEF w
<1>8. CASE w.do = "session" /\ row' = [status |-> w.arg, plan |-> copy.plan] /\ todo' = Tail(todo)
           /\ UNCHANGED <<plan, phase, copy>>
  <2>1. row' \in SessionType
    BY <1>2, <1>5, <1>8 DEF SessionType, WriteType
  <2>2. DataOK'
    BY <1>1, <1>2, <1>4, <1>8, <2>1 DEF DataOK
  <2> QED
    BY <1>6, <1>8, <2>2 DEF StoreWrites
<1>9. CASE w.do = "plan" /\ plan' = w.arg /\ copy' = [copy EXCEPT !.plan = TRUE] /\ todo' = Tail(todo)
           /\ UNCHANGED <<row, phase>>
  <2>1. copy' \in SessionType /\ plan' \in Texts
    BY <1>2, <1>5, <1>9 DEF SessionType, WriteType
  <2>2. DataOK'
    BY <1>1, <1>2, <1>4, <1>9, <2>1 DEF DataOK
  <2> QED
    BY <1>6, <1>9, <2>2 DEF StoreWrites
<1>10. CASE w.do = "status" /\ row' = [row EXCEPT !.status = w.arg] /\ todo' = Tail(todo)
            /\ UNCHANGED <<plan, phase, copy>>
  <2>1. row' \in SessionType /\ row'.status = w.arg
    BY <1>2, <1>5, <1>10 DEF SessionType, WriteType
  <2>2. DataOK'
    BY <1>1, <1>2, <1>4, <1>10, <2>1 DEF DataOK
  <2> QED
    BY <1>6, <1>10, <2>1, <2>2 DEF StoreWrites
<1>11. CASE w.do = "revise" /\ plan' = w.arg /\ row' = [status |-> "Planning", plan |-> TRUE]
            /\ todo' = Tail(todo) /\ UNCHANGED <<phase, copy>>
  <2>1. row' \in SessionType /\ plan' \in Texts
    BY <1>2, <1>11 DEF SessionType, WriteType, Statuses
  <2>2. DataOK'
    BY <1>1, <1>2, <1>4, <1>11, <2>1 DEF DataOK
  <2> QED
    BY <1>6, <1>11, <2>2 DEF StoreWrites
<1>12. CASE w.do = "transition" /\ phase = w.arg /\ todo' = Tail(todo)
            /\ UNCHANGED <<row, plan, phase, copy>>
  <2>1. DataOK'
    BY <1>1, <1>2, <1>4, <1>12 DEF DataOK
  <2> QED
    BY <1>7, <1>12, <2>1 DEF PhaseWrites
<1>13. CASE w.do = "phase" /\ phase' = w.arg /\ todo' = Tail(todo)
            /\ UNCHANGED <<row, plan, copy>>
  <2>1. phase' \in Phases
    BY <1>2, <1>13 DEF WriteType, PhaseWrites, Planned, Phases
  <2>2. DataOK'
    BY <1>1, <1>2, <1>4, <1>13, <2>1 DEF DataOK
  <2> QED
    BY <1>7, <1>13, <2>2 DEF PhaseWrites
<1>14. CASE w.do = "transition" /\ phase # w.arg /\ copy' = row
            /\ todo' = PersistWrites(row, w.arg) \o <<SetPhase(w.arg)>> \o Tail(todo)
            /\ UNCHANGED <<row, plan, phase>>
  <2> DEFINE q == PersistWrites(row, w.arg) \o <<SetPhase(w.arg)>>
             S == IF w.arg = "Plan" THEN StayingWrites ELSE LeavingWrites
  <2>1. w.arg \in Planned
    BY <1>2, <1>14 DEF WriteType, PhaseWrites
  <2>2. KeepsPhases(q) /\ SetsPhase(q) /\ q \in Seq(S)
    BY <1>5, <2>1, PersistQueue
  <2>3. todo' = q \o Tail(todo)
    BY <1>14
  <2> HIDE DEF q
  <2>4. q \in Seq(WriteType)
    BY <2>2, QueueTypes
  <2>5. todo' \in Seq(WriteType) /\ KeepsPhases(todo') /\ SetsPhase(todo')
    BY <1>2, <2>2, <2>3, <2>4, JoinedQueues
  <2>6. DataOK'
    BY <1>1, <1>4, <1>5, <1>14, <2>5 DEF DataOK
  <2>7. ASSUME Staying PROVE Staying'
    <3>1. w.arg = "Plan" /\ Tail(todo) \in Seq(StayingWrites)
      BY <1>2, <1>14, <2>7 DEF Staying, StayingWrites, PhaseWrites
    <3>2. todo' \in Seq(StayingWrites)
      BY <1>2, <2>2, <2>3, <3>1, JoinedQueues
    <3> QED
      BY <2>5, <3>2 DEF Staying
  <2>8. ASSUME Leaving PROVE Leaving'
    <3>1. w.arg # "Plan" /\ Tail(todo) \in Seq(LeavingWrites)
      BY <1>2, <1>14, <2>8 DEF Leaving, LeavingWrites, PhaseWrites
    <3>2. todo' \in Seq(LeavingWrites)
      BY <1>2, <2>2, <2>3, <3>1, JoinedQueues
    <3> QED
      BY <1>2, <1>14, <2>8, <3>2 DEF Leaving
  <2> QED
    BY <1>1, <1>3, <1>4, <2>6, <2>7, <2>8 DEF PlanInv, TypeOK
<1> QED
  BY <1>8, <1>9, <1>10, <1>11, <1>12, <1>13, <1>14 DEF WriteNext, store, w

LEMMA StopInv ==
    ASSUME PlanInv, Stop, failures < MaxFailures, failures' = failures + 1,
           UNCHANGED <<row, plan, cmd, stale, turns, handlers>>
    PROVE  PlanInv'
<1>1. <<>> \in Seq(WriteType) /\ KeepsPhases(<<>>)
  BY DEF KeepsPhases
<1>2. DataOK'
  BY <1>1 DEF PlanInv, TypeOK, DataOK, Stop, Phases
<1>3. FlagsOK'
  BY DEF PlanInv, TypeOK, FlagsOK, Stop
<1>4. CountsOK'
  BY PlanModeAssumption DEF PlanInv, TypeOK, CountsOK
<1> QED
  BY <1>2, <1>3, <1>4 DEF PlanInv, TypeOK, Stop

LEMMA WriteFailsInv ==
    ASSUME PlanInv, WriteFails
    PROVE  PlanInv'
<1> DEFINE w == Head(todo)
           r == SubSeq(todo, w.skip + 1, Len(todo))
<1>1. /\ running /\ todo # <<>> /\ failures < MaxFailures /\ failures' = failures + 1
      /\ w.do \in StoreWrites
      /\ UNCHANGED <<row, plan, cmd, stale, turns, handlers>>
  BY DEF WriteFails, store, user, StoreWrites
<1>2. CASE Stop
  BY <1>1, <1>2, StopInv
<1>3. CASE ~w.must /\ todo' = r /\ UNCHANGED <<running, phase, copy, granting>>
  <2>1. w \in WriteType /\ w = todo[1] /\ w.skip \in 1..2
    <3>1. w \in WriteType /\ w = todo[1]
      BY <1>1, HeadAndRest
    <3> QED
      BY <3>1 DEF WriteType
  <2>2. DataOK /\ (~stale => Staying \/ Leaving)
    BY <1>1 DEF PlanInv, TypeOK
  <2>3. todo \in Seq(WriteType) /\ KeepsPhases(todo)
    BY <2>2 DEF DataOK
  <2>4. /\ r \in Seq(WriteType) /\ KeepsPhases(r)
        /\ \A i \in DOMAIN todo : i > w.skip => i - w.skip \in DOMAIN r /\ r[i - w.skip] = todo[i]
    <3> HIDE DEF w
    <3> QED
      BY <2>1, <2>3, RestOfQueue
  <2>5. ASSUME NEW S, todo \in Seq(S) PROVE r \in Seq(S)
    <3> HIDE DEF w
    <3> QED
      BY <2>1, <2>5, RestOfQueue
  <2> HIDE DEF r, w
  <2>6. DataOK'
    BY <1>1, <1>3, <2>2, <2>4 DEF DataOK
  <2>7. FlagsOK'
    BY <1>1, <1>3 DEF PlanInv, TypeOK, FlagsOK
  <2>8. CountsOK'
    BY <1>1, PlanModeAssumption DEF PlanInv, TypeOK, CountsOK
  <2>9. SetsPhase(todo) => SetsPhase(todo')
    <3> SUFFICES ASSUME NEW i \in DOMAIN todo, todo[i].do \in PhaseWrites PROVE SetsPhase(r)
      BY <1>3 DEF SetsPhase
    <3>1. DOMAIN todo = 1..Len(todo) /\ Len(todo) \in Nat
      BY <2>3, LenProperties
    <3>2. i # 1
      BY <1>1, <2>1 DEF StoreWrites, PhaseWrites
    <3>3. w.skip = 2 => i # 2
      <4>1. 1 \in DOMAIN todo
        BY <3>1
      <4>2. w.skip = 2 => todo[1 + 1].do \in StoreWrites
        BY <2>1, <2>3, <4>1 DEF KeepsPhases
      <4> QED
        BY <4>2 DEF StoreWrites, PhaseWrites
    <3>4. i > w.skip
      BY <2>1, <3>1, <3>2, <3>3
    <3> QED
      BY <2>4, <3>4 DEF SetsPhase
  <2>10. ASSUME Staying PROVE Staying'
    BY <1>1, <1>3, <2>5, <2>9, <2>10 DEF Staying
  <2>11. ASSUME Leaving PROVE Leaving'
    BY <1>1, <1>3, <2>1, <2>5, <2>11 DEF Leaving
  <2> QED
    BY <1>1, <1>3, <2>2, <2>6, <2>7, <2>8, <2>10, <2>11 DEF PlanInv, TypeOK
<1> QED
  BY <1>2, <1>3 DEF WriteFails

\* A verdict that is not outdated finds the session inside the plan.
LEMMA GiveVerdictInv ==
    ASSUME PlanInv, GiveVerdict
    PROVE  PlanInv'
<1>1. /\ cmd # "none" /\ cmd' = "none"
      /\ row' = [row EXCEPT !.status = Verdict[cmd]]
      /\ stale' = (stale \/ row.status # "AwaitingApproval")
      /\ UNCHANGED <<plan, running, phase, copy, todo, granting, turns, handlers, failures>>
  BY DEF GiveVerdict, agent, counts
<1>2. cmd \in DOMAIN Verdict /\ row \in SessionType
  BY <1>1 DEF PlanInv, TypeOK, DataOK
<1>3. row' \in SessionType
  BY <1>1, <1>2 DEF SessionType, Verdict, Statuses
<1>4. DataOK'
  BY <1>1, <1>3 DEF PlanInv, TypeOK, DataOK
<1>5. FlagsOK'
  BY <1>1 DEF PlanInv, TypeOK, FlagsOK
<1>6. CountsOK'
  BY <1>1 DEF PlanInv, TypeOK, CountsOK
<1>7. ASSUME running, ~stale' PROVE Staying' \/ Leaving'
  <2>1. ~stale /\ row.status \in PlanStates
    BY <1>1, <1>7 DEF PlanStates
  <2>2. Staying \/ Leaving
    BY <1>7, <2>1 DEF PlanInv
  <2>3. ASSUME Staying PROVE Staying'
    BY <1>1, <2>1, <2>3 DEF Staying
  <2>4. ASSUME Leaving PROVE Leaving'
    BY <1>1, <2>1, <2>4 DEF Leaving
  <2> QED
    BY <2>2, <2>3, <2>4
<1> QED
  BY <1>1, <1>4, <1>5, <1>6, <1>7 DEF PlanInv, TypeOK

LEMMA InvStep ==
    ASSUME PlanInv, [Next]_vars
    PROVE  PlanInv'
<1>1. CASE \E grants, complex, phased \in BOOLEAN : StartTurn(grants, complex, phased)
  BY <1>1, StartTurnInv
<1>2. CASE EndTurn
  <2>1. DataOK'
    BY <1>2 DEF EndTurn, store, user, PlanInv, TypeOK, DataOK, Phases
  <2>2. FlagsOK'
    BY <1>2 DEF EndTurn, user, PlanInv, TypeOK, FlagsOK
  <2>3. CountsOK'
    BY <1>2 DEF EndTurn, counts, PlanInv, TypeOK, CountsOK
  <2> QED
    BY <1>2, <2>1, <2>2, <2>3 DEF EndTurn, PlanInv, TypeOK
<1>3. CASE EnterPlanMode \/ ExitPlanMode \/ SpawnTask \/ ChangePhase
  BY <1>3, OperationsInv
<1>4. CASE WriteNext
  BY <1>4, WriteNextInv
<1>5. CASE WriteFails
  BY <1>5, WriteFailsInv
<1>6. CASE Killed
  BY <1>6, StopInv DEF Killed, store, user
<1>7. ASSUME NEW verb \in DOMAIN Verdict, LoadForVerdict(verb) PROVE PlanInv'
  <2>1. UNCHANGED <<row, plan, running, phase, copy, todo, granting, stale, turns, handlers, failures>>
        /\ cmd' = verb
    BY <1>7 DEF LoadForVerdict, store, agent, counts
  <2>2. DataOK'
    BY <2>1 DEF PlanInv, TypeOK, DataOK
  <2>3. FlagsOK' /\ CountsOK'
    BY <2>1 DEF PlanInv, TypeOK, FlagsOK, CountsOK
  <2> QED
    BY <2>1, <2>2, <2>3 DEF PlanInv, TypeOK, Staying, Leaving
<1>8. CASE GiveVerdict
  BY <1>8, GiveVerdictInv
<1>9. CASE UNCHANGED vars
  <2>1. UNCHANGED <<row, plan, running, phase, copy, todo, granting, cmd, stale, turns, handlers, failures>>
    BY <1>9 DEF vars, store, agent, user, counts
  <2> QED
    BY <2>1 DEF PlanInv, TypeOK, DataOK, FlagsOK, CountsOK, Staying, Leaving
<1> QED
  BY <1>1, <1>2, <1>3, <1>4, <1>5, <1>6, <1>7, <1>8, <1>9 DEF Next

-----------------------------------------------------------------------------
(* The theorems *)

LEMMA InvAlways == Spec => []PlanInv
  BY InvInit, InvStep, PTL DEF Spec

\* The types, for any number of turns, operations and failures.
THEOREM PlanTypeCorrect == Spec => []TypeOK
<1>1. PlanInv => TypeOK
  BY DEF PlanInv
<1> QED
  BY <1>1, InvAlways, PTL

\* What a step that is not a verdict nor carries out an approval may not do.
LEMMA OnlyUserLeaves ==
    ASSUME PlanInv, [Next]_vars
    PROVE  row.status \in PlanStates /\ row'.status \notin PlanStates /\ ~stale =>
             cmd = "approve" \/ granting
<1> SUFFICES ASSUME row.status \in PlanStates, row'.status \notin PlanStates, ~stale
             PROVE  cmd = "approve" \/ granting
  OBVIOUS
<1>1. CASE WriteNext
  <2> DEFINE w == Head(todo)
  <2>1. running /\ todo # <<>>
    BY <1>1 DEF WriteNext
  <2>2. row \in SessionType
    BY DEF PlanInv, TypeOK, DataOK
  <2>3. Staying \/ Leaving
    BY <2>1 DEF PlanInv
  <2>4. todo \in Seq(StayingWrites) => w \in StayingWrites
    BY <2>1, HeadAndRest
  <2> HIDE DEF w
  <2>5. \/ row' = row
        \/ w.do \in {"session", "status"} /\ row'.status = w.arg
        \/ row'.status = "Planning"
    BY <1>1, <2>2 DEF WriteNext, store, SessionType, w
  <2>6. w.do \in {"session", "status"} /\ w.arg \notin PlanStates
    BY <2>5 DEF PlanStates
  <2>7. ~Staying
    BY <2>4, <2>6 DEF Staying, StayingWrites
  <2> QED
    BY <2>3, <2>7 DEF Leaving
<1>2. CASE GiveVerdict
  BY <1>2 DEF GiveVerdict, Verdict, PlanStates, PlanInv, TypeOK, DataOK, SessionType
<1>3. CASE row' = row
  BY <1>3
<1>4. row' = row \/ WriteNext \/ GiveVerdict
  BY DEF Next, vars, store, StartTurn, EndTurn, EnterPlanMode, ExitPlanMode, SpawnTask, ChangePhase,
     Begin, WriteFails, Killed, LoadForVerdict
<1> QED
  BY <1>1, <1>2, <1>3, <1>4

\* Only the user ends the drafting and the review of a plan, whatever the
\* agent writes, in whatever order writes, failures and commands follow.
THEOREM OnlyUserLeavesPlan == Spec => PlanLeftOnlyByUser
<1>1. PlanInv /\ [Next]_vars =>
        [row.status \in PlanStates /\ row'.status \notin PlanStates /\ ~stale =>
           cmd = "approve" \/ granting]_vars
  BY OnlyUserLeaves
<1> QED
  BY <1>1, InvAlways, PTL DEF Spec, PlanLeftOnlyByUser

-----------------------------------------------------------------------------
(* The story told by phase and status *)

\* A phase and a status that fit, and a session whose plan can be reviewed.
Fits(p, status) ==
    CASE p = "Explore" -> status = "Idle"
      [] p = "Plan" -> status \in PlanStates \cup {"ExecutingStep"}
      [] p = "Execute" -> status = "ExecutingStep"
      [] p = "Verify" -> status = "Verifying"
      [] OTHER -> TRUE
Reviewable(session, text) == session.status = "AwaitingApproval" => session.plan /\ text = "revised"

\* The session as enter_plan_mode and a revision of the plan leave it.
Drafted == [status |-> "Planning", plan |-> TRUE]

\* Between two operations, and between two turns.
Between ==
    /\ todo = <<>>
    /\ running => Fits(phase, row.status)
    /\ Reviewable(row, plan)

\* An approval given in a prompt is being carried out.
Confirming ==
    /\ phase \in {"none", "Execute"}
    /\ \/ todo = <<Save("ExecutingStep", TRUE, 1), StatusEvent("ExecutingStep")>>
       \/ row.status = "ExecutingStep" /\ todo = <<StatusEvent("ExecutingStep")>>

\* enter_plan_mode: once the session says so, no verdict applies to it.
Entering ==
    \/ /\ copy.plan
       /\ todo = <<Save("Planning", TRUE, 1), SavePlan("draft", TRUE, 1), Transition("Plan"),
                   StatusEvent("Planning"), PlanEvent("draft")>>
    \/ /\ row = Drafted
       /\ \/ todo = <<SavePlan("draft", TRUE, 1), Transition("Plan"), StatusEvent("Planning"), PlanEvent("draft")>>
          \/ todo = <<Transition("Plan"), StatusEvent("Planning"), PlanEvent("draft")>>
          \/ todo = <<SetPhase("Plan"), StatusEvent("Planning"), PlanEvent("draft")>>
          \/ /\ copy = Drafted
             /\ todo = <<Save("Planning", FALSE, 1), SetPhase("Plan"), StatusEvent("Planning"), PlanEvent("draft")>>
          \/ /\ phase = "Plan"
             /\ todo = <<StatusEvent("Planning"), PlanEvent("draft")>> \/ todo = <<PlanEvent("draft")>>

\* exit_plan_mode: a verdict given too early is overwritten.
Exiting ==
    \/ todo = <<Save("AwaitingApproval", TRUE, 1), SavePlan("revised", TRUE, 1), SetPhase("Plan"),
                PlanEvent("revised"), StatusEvent("AwaitingApproval")>>
    \/ todo = <<SavePlan("revised", TRUE, 1), SetPhase("Plan"), PlanEvent("revised"), StatusEvent("AwaitingApproval")>>
    \/ todo = <<SetPhase("Plan"), PlanEvent("revised"), StatusEvent("AwaitingApproval")>>
    \/ phase = "Plan" /\ todo = <<PlanEvent("revised"), StatusEvent("AwaitingApproval")>>
    \/ /\ phase = "Plan" /\ row = Drafted /\ plan = "revised"
       /\ todo = <<StatusEvent("AwaitingApproval")>>

\* spawn_task: the status it writes back told the story when it was loaded.
Spawning ==
    \E status \in Statuses :
        /\ todo = <<Save(status, TRUE, 1)>>
        /\ Fits(phase, status)
        /\ Reviewable([status |-> status, plan |-> copy.plan], plan)

\* A change of phase, far from the review.
Changing ==
    /\ row.status # "AwaitingApproval"
    /\ \/ /\ todo = <<SavePlan("draft", FALSE, 2), PlanEvent("draft"), Save("Planning", FALSE, 2),
                     StatusEvent("Planning"), SetPhase("Plan")>>
       \/ todo = <<PlanEvent("draft"), Save("Planning", FALSE, 2), StatusEvent("Planning"), SetPhase("Plan")>>
       \/ \E p \in Planned :
             \/ todo = <<Transition(p)>> /\ p # phase /\ row.status # TargetStatus(p)
             \/ todo = <<Save(TargetStatus(p), FALSE, 2), StatusEvent(TargetStatus(p)), SetPhase(p)>>
             \/ /\ row.status = TargetStatus(p)
                /\ todo = <<StatusEvent(TargetStatus(p)), SetPhase(p)>> \/ todo = <<SetPhase(p)>>

\* As long as no write has failed and no verdict was outdated, the writes that
\* are left lead to a phase and a status that fit.
Story == Between \/ (running /\ (Confirming \/ Entering \/ Exiting \/ Spawning \/ Changing))
StoryInv == ~stale /\ failures = 0 => Story

\* The first write of a queue and the rest of it.
LEMMA ShortTails ==
    ASSUME NEW a, NEW b, NEW c
    PROVE  /\ Head(<<a>>) = a /\ Tail(<<a>>) = <<>>
           /\ Head(<<a, b>>) = a /\ Tail(<<a, b>>) = <<b>>
           /\ Head(<<a, b, c>>) = a /\ Tail(<<a, b, c>>) = <<b, c>>
  OBVIOUS

\* A queue that is longer by one write.
LEMMA OneMore ==
    ASSUME NEW S, NEW q \in Seq(S), NEW r \in Seq(S), NEW x \in S,
           Len(r) = Len(q) + 1, r[Len(r)] = x, \A i \in 1..Len(q) : r[i] = q[i]
    PROVE  q \o <<x>> = r
<1>1. Len(q) \in Nat
  OBVIOUS
<1>2. /\ Append(q, x) \in Seq(S) /\ Len(Append(q, x)) = Len(q) + 1
      /\ Append(q, x)[Len(q) + 1] = x /\ \A i \in 1..Len(q) : Append(q, x)[i] = q[i]
  OBVIOUS
<1>3. \A i \in 1..(Len(q) + 1) : Append(q, x)[i] = r[i]
  BY <1>1, <1>2
<1>4. Append(q, x) = r
  BY <1>2, <1>3, SeqEqual
<1> QED
  BY <1>4, AppendIsConcat

\* The queues of two to five writes: how they are joined, and of the longer
\* ones the first write and the rest.
TwoWrites(a, b) == <<a>> \o <<b>> = <<a, b>> /\ <<>> \o <<a>> = <<a>> /\ <<>> \o <<a, b>> = <<a, b>>
ThreeWrites(a, b, c) == <<a, b>> \o <<c>> = <<a, b, c>> /\ <<a, b, c>> \o <<>> = <<a, b, c>>
FourWrites(a, b, c, d) ==
    /\ Head(<<a, b, c, d>>) = a /\ Tail(<<a, b, c, d>>) = <<b, c, d>>
    /\ <<a, b>> \o <<c, d>> = <<a, b, c, d>>
FiveWrites(a, b, c, d, e) ==
    /\ Head(<<a, b, c, d, e>>) = a /\ Tail(<<a, b, c, d, e>>) = <<b, c, d, e>>
    /\ <<a, b, c, d>> \o <<e>> = <<a, b, c, d, e>> /\ <<a, b, c, d, e>> \o <<>> = <<a, b, c, d, e>>

LEMMA LongQueues ==
    ASSUME NEW a, NEW b, NEW c, NEW d, NEW e
    PROVE  TwoWrites(a, b) /\ ThreeWrites(a, b, c) /\ FourWrites(a, b, c, d) /\ FiveWrites(a, b, c, d, e)
<1> DEFINE S == {a, b, c, d, e}
           q1 == <<a>>
           q2 == <<a, b>>
           q3 == <<a, b, c>>
           q4 == <<a, b, c, d>>
           q5 == <<a, b, c, d, e>>
           p1 == <<c>>
           p2 == <<c, d>>
<1>1. /\ <<>> \in Seq(S) /\ q1 \in Seq(S) /\ p1 \in Seq(S) /\ <<d>> \in Seq(S) /\ q2 \in Seq(S)
      /\ p2 \in Seq(S) /\ q3 \in Seq(S)
  OBVIOUS
<1>2. q4 \in Seq(S) /\ q5 \in Seq(S)
  OBVIOUS
<1>3. b \in S /\ c \in S /\ d \in S /\ e \in S
  OBVIOUS
<1>4. /\ Len(q1) = 1 /\ q1[1] = a
      /\ Len(q2) = 2 /\ q2[1] = a /\ q2[2] = b
      /\ Len(q3) = 3 /\ q3[1] = a /\ q3[2] = b /\ q3[3] = c
      /\ Len(p1) = 1 /\ p1[1] = c
      /\ Len(p2) = 2 /\ p2[1] = c /\ p2[2] = d
  OBVIOUS
<1>5. /\ Len(q4) = 4 /\ q4[1] = a /\ q4[2] = b /\ q4[3] = c /\ q4[4] = d
      /\ Len(q5) = 5 /\ q5[1] = a /\ q5[2] = b /\ q5[3] = c /\ q5[4] = d /\ q5[5] = e
  OBVIOUS
<1> HIDE DEF S, q1, q2, q3, q4, q5, p1, p2
<1>6. q1 \o <<b>> = q2
  <2>1. Len(q2) = Len(q1) + 1 /\ q2[Len(q2)] = b
    BY <1>4
  <2>2. \A i \in 1..Len(q1) : q2[i] = q1[i]
    BY <1>4
  <2>3. q1 \in Seq(S) /\ q2 \in Seq(S) /\ b \in S
    BY <1>1, <1>2, <1>3
  <2> QED
    BY <2>1, <2>2, <2>3, OneMore
<1>7. q2 \o <<c>> = q3
  <2>1. Len(q3) = Len(q2) + 1 /\ q3[Len(q3)] = c
    BY <1>4
  <2>2. \A i \in 1..Len(q2) : q3[i] = q2[i]
    BY <1>4
  <2>3. q2 \in Seq(S) /\ q3 \in Seq(S) /\ c \in S
    BY <1>1, <1>2, <1>3
  <2> QED
    BY <2>1, <2>2, <2>3, OneMore
<1>8. p1 \o <<d>> = p2
  <2>1. Len(p2) = Len(p1) + 1 /\ p2[Len(p2)] = d
    BY <1>4
  <2>2. \A i \in 1..Len(p1) : p2[i] = p1[i]
    BY <1>4
  <2>3. p1 \in Seq(S) /\ p2 \in Seq(S) /\ d \in S
    BY <1>1, <1>2, <1>3
  <2> QED
    BY <2>1, <2>2, <2>3, OneMore
<1>9. q3 \o <<d>> = q4
  <2>1. Len(q4) = Len(q3) + 1 /\ q4[Len(q4)] = d
    BY <1>4, <1>5
  <2>2. \A i \in 1..Len(q3) : q4[i] = q3[i]
    BY <1>4, <1>5
  <2>3. q3 \in Seq(S) /\ q4 \in Seq(S) /\ d \in S
    BY <1>1, <1>2, <1>3
  <2> QED
    BY <2>1, <2>2, <2>3, OneMore
<1>10. q4 \o <<e>> = q5
  <2>1. Len(q5) = Len(q4) + 1 /\ q5[Len(q5)] = e
    BY <1>5
  <2>2. \A i \in 1..Len(q4) : q5[i] = q4[i]
    BY <1>5
  <2>3. q4 \in Seq(S) /\ q5 \in Seq(S) /\ e \in S
    BY <1>1, <1>2, <1>3
  <2> QED
    BY <2>1, <2>2, <2>3, OneMore
<1>11. (q2 \o p1) \o <<d>> = q2 \o (p1 \o <<d>>)
  <2>1. q2 \in Seq(S) /\ p1 \in Seq(S) /\ <<d>> \in Seq(S)
    BY <1>1
  <2> HIDE DEF q2, p1, S
  <2> QED
    BY <2>1, ConcatAssociative
<1>12. q2 \o p2 = q4
  BY <1>7, <1>8, <1>9, <1>11 DEF p1
<1>13. <<>> \o q1 = q1 /\ <<>> \o q2 = q2 /\ q3 \o <<>> = q3 /\ q5 \o <<>> = q5
  BY <1>1, <1>2, ConcatEmptySeq
<1>14. Head(<<a, b, c, d>>) = a /\ Tail(<<a, b, c, d>>) = <<b, c, d>>
  OBVIOUS
<1>15. Head(<<a, b, c, d, e>>) = a /\ Tail(<<a, b, c, d, e>>) = <<b, c, d, e>>
  OBVIOUS
<1> QED
  BY <1>6, <1>7, <1>10, <1>12, <1>13, <1>14, <1>15, Zenon DEF q1, q2, q3, q4, q5, p2, TwoWrites, ThreeWrites, FourWrites, FiveWrites

\* One by one.
LEMMA TwoLong == \A a, b : TwoWrites(a, b)
  BY LongQueues
LEMMA ThreeLong == \A a, b, c : ThreeWrites(a, b, c)
  BY LongQueues
LEMMA FourLong == \A a, b, c, d : FourWrites(a, b, c, d)
  BY LongQueues
LEMMA FiveLong == \A a, b, c, d, e : FiveWrites(a, b, c, d, e)
  BY LongQueues

\* What the first write of the queue does.
LEMMA FirstWrite ==
    ASSUME WriteNext, row \in SessionType
    PROVE  /\ running /\ UNCHANGED <<running, stale, failures>>
           /\ \A status, must, skip : Head(todo) = Save(status, must, skip) =>
                 /\ row' = [status |-> status, plan |-> copy.plan]
                 /\ todo' = Tail(todo) /\ UNCHANGED <<plan, phase, copy>>
           /\ \A text, must, skip : Head(todo) = SavePlan(text, must, skip) =>
                 /\ plan' = text /\ copy' = [copy EXCEPT !.plan = TRUE]
                 /\ todo' = Tail(todo) /\ UNCHANGED <<row, phase>>
           /\ \A status : Head(todo) = StatusEvent(status) =>
                 /\ row' = [status |-> status, plan |-> row.plan]
                 /\ todo' = Tail(todo) /\ UNCHANGED <<plan, phase, copy>>
           /\ \A text : Head(todo) = PlanEvent(text) =>
                 /\ plan' = text /\ row' = Drafted
                 /\ todo' = Tail(todo) /\ UNCHANGED <<phase, copy>>
           /\ \A p : Head(todo) = SetPhase(p) =>
                 /\ phase' = p
                 /\ todo' = Tail(todo) /\ UNCHANGED <<row, plan, copy>>
           /\ \A p : Head(todo) = Transition(p) =>
                 /\ UNCHANGED <<row, plan, phase>>
                 /\ \/ phase = p /\ todo' = Tail(todo)
                    \/ /\ phase # p /\ copy' = row
                       /\ todo' = PersistWrites(row, p) \o <<SetPhase(p)>> \o Tail(todo)
<1> DEFINE w == Head(todo)
<1>1. /\ running /\ UNCHANGED <<running, stale, failures>>
  BY DEF WriteNext, user, counts
<1>2. ASSUME NEW status, NEW must, NEW skip, w = Save(status, must, skip)
      PROVE  /\ row' = [status |-> status, plan |-> copy.plan]
             /\ todo' = Tail(todo) /\ UNCHANGED <<plan, phase, copy>>
  BY <1>2 DEF WriteNext, Save, Write
<1>3. ASSUME NEW text, NEW must, NEW skip, w = SavePlan(text, must, skip)
      PROVE  /\ plan' = text /\ copy' = [copy EXCEPT !.plan = TRUE]
             /\ todo' = Tail(todo) /\ UNCHANGED <<row, phase>>
  BY <1>3 DEF WriteNext, SavePlan, Write
<1>4. ASSUME NEW status, w = StatusEvent(status)
      PROVE  /\ row' = [status |-> status, plan |-> row.plan]
             /\ todo' = Tail(todo) /\ UNCHANGED <<plan, phase, copy>>
  <2>1. w.do = "status" /\ w.arg = status
    BY <1>4 DEF StatusEvent, Write
  <2>2. row' = [row EXCEPT !.status = status] /\ todo' = Tail(todo) /\ UNCHANGED <<plan, phase, copy>>
    BY <2>1 DEF WriteNext
  <2>3. [row EXCEPT !.status = status] = [status |-> status, plan |-> row.plan]
    BY DEF SessionType
  <2> QED
    BY <2>2, <2>3
<1>5. ASSUME NEW text, w = PlanEvent(text)
      PROVE  /\ plan' = text /\ row' = Drafted
             /\ todo' = Tail(todo) /\ UNCHANGED <<phase, copy>>
  <2>1. w.do = "revise" /\ w.arg = text
    BY <1>5 DEF PlanEvent, Write
  <2> QED
    BY <2>1 DEF WriteNext, Drafted
<1>6. ASSUME NEW p, w = SetPhase(p)
      PROVE  /\ phase' = p
             /\ todo' = Tail(todo) /\ UNCHANGED <<row, plan, copy>>
  BY <1>6 DEF WriteNext, SetPhase, Write, store
<1>7. ASSUME NEW p, w = Transition(p)
      PROVE  /\ UNCHANGED <<row, plan, phase>>
             /\ \/ phase = p /\ todo' = Tail(todo)
                \/ /\ phase # p /\ copy' = row
                   /\ todo' = PersistWrites(row, p) \o <<SetPhase(p)>> \o Tail(todo)
  <2>1. w.do = "transition" /\ w.arg = p
    BY <1>7 DEF Transition, Write
  <2>2. CASE phase = p
    BY <2>1, <2>2 DEF WriteNext, store
  <2>3. CASE phase # p
    BY <2>1, <2>3 DEF WriteNext, store
  <2> QED
    BY <2>2, <2>3
<1> QED
  BY <1>1, <1>2, <1>3, <1>4, <1>5, <1>6, <1>7

\* The writes of an approval given in a prompt.
LEMMA ConfirmingWrite ==
    ASSUME row \in SessionType, Confirming, WriteNext
    PROVE  Confirming' \/ Between'
<1>1. CASE todo = <<Save("ExecutingStep", TRUE, 1), StatusEvent("ExecutingStep")>>
  <2>a. Head(todo) = Save("ExecutingStep", TRUE, 1) /\ Tail(todo) = <<StatusEvent("ExecutingStep")>>
    BY <1>1, ShortTails
  <2>1. /\ row' = [status |-> "ExecutingStep", plan |-> copy.plan] /\ phase' = phase
        /\ todo' = <<StatusEvent("ExecutingStep")>>
    BY <1>1, <2>a, FirstWrite
  <2>2. row'.status = "ExecutingStep"
    BY <2>1
  <2> QED
    BY <2>1, <2>2 DEF Confirming
<1>2. CASE row.status = "ExecutingStep" /\ todo = <<StatusEvent("ExecutingStep")>>
  <2>a. Head(todo) = StatusEvent("ExecutingStep") /\ Tail(todo) = <<>>
    BY <1>2, ShortTails
  <2>1. row' = [status |-> "ExecutingStep", plan |-> row.plan] /\ phase' = phase /\ todo' = <<>>
    BY <1>2, <2>a, FirstWrite
  <2>2. row'.status = "ExecutingStep"
    BY <2>1
  <2> QED
    BY <2>1, <2>2 DEF Confirming, Between, Fits, Reviewable
<1> QED
  BY <1>1, <1>2 DEF Confirming

\* The writes of exit_plan_mode: the revision event takes the session back to
\* drafting, and the status event after it puts the plan under review.
LEMMA ExitingWrite ==
    ASSUME row \in SessionType, Exiting, WriteNext
    PROVE  Exiting' \/ (Between' /\ row'.status = "AwaitingApproval")
<1>1. CASE todo = <<Save("AwaitingApproval", TRUE, 1), SavePlan("revised", TRUE, 1), SetPhase("Plan"),
                    PlanEvent("revised"), StatusEvent("AwaitingApproval")>>
  <2>a. Head(todo) = Save("AwaitingApproval", TRUE, 1) /\ Tail(todo) = <<SavePlan("revised", TRUE, 1), SetPhase("Plan"), PlanEvent("revised"), StatusEvent("AwaitingApproval")>>
    <3>1. FiveWrites(Save("AwaitingApproval", TRUE, 1), SavePlan("revised", TRUE, 1), SetPhase("Plan"), PlanEvent("revised"), StatusEvent("AwaitingApproval"))
      BY FiveLong
    <3> QED
      BY <1>1, <3>1 DEF FiveWrites
  <2>1. todo' = <<SavePlan("revised", TRUE, 1), SetPhase("Plan"), PlanEvent("revised"), StatusEvent("AwaitingApproval")>>
    BY <1>1, <2>a, FirstWrite
  <2> QED
    BY <2>1 DEF Exiting
<1>2. CASE todo = <<SavePlan("revised", TRUE, 1), SetPhase("Plan"), PlanEvent("revised"), StatusEvent("AwaitingApproval")>>
  <2>a. Head(todo) = SavePlan("revised", TRUE, 1) /\ Tail(todo) = <<SetPhase("Plan"), PlanEvent("revised"), StatusEvent("AwaitingApproval")>>
    <3>1. FourWrites(SavePlan("revised", TRUE, 1), SetPhase("Plan"), PlanEvent("revised"), StatusEvent("AwaitingApproval"))
      BY FourLong
    <3> QED
      BY <1>2, <3>1 DEF FourWrites
  <2>1. todo' = <<SetPhase("Plan"), PlanEvent("revised"), StatusEvent("AwaitingApproval")>>
    BY <1>2, <2>a, FirstWrite
  <2> QED
    BY <2>1 DEF Exiting
<1>3. CASE todo = <<SetPhase("Plan"), PlanEvent("revised"), StatusEvent("AwaitingApproval")>>
  <2>a. Head(todo) = SetPhase("Plan") /\ Tail(todo) = <<PlanEvent("revised"), StatusEvent("AwaitingApproval")>>
    BY <1>3, ShortTails
  <2>1. todo' = <<PlanEvent("revised"), StatusEvent("AwaitingApproval")>> /\ phase' = "Plan"
    BY <1>3, <2>a, FirstWrite
  <2> QED
    BY <2>1 DEF Exiting
<1>4. CASE phase = "Plan" /\ todo = <<PlanEvent("revised"), StatusEvent("AwaitingApproval")>>
  <2>a. Head(todo) = PlanEvent("revised") /\ Tail(todo) = <<StatusEvent("AwaitingApproval")>>
    BY <1>4, ShortTails
  <2>1. /\ todo' = <<StatusEvent("AwaitingApproval")>> /\ phase' = "Plan"
        /\ row' = Drafted /\ plan' = "revised"
    BY <1>4, <2>a, FirstWrite
  <2> QED
    BY <2>1 DEF Exiting
<1>5. CASE phase = "Plan" /\ row = Drafted /\ plan = "revised" /\ todo = <<StatusEvent("AwaitingApproval")>>
  <2>a. Head(todo) = StatusEvent("AwaitingApproval") /\ Tail(todo) = <<>>
    BY <1>5, ShortTails
  <2>1. /\ todo' = <<>> /\ phase' = "Plan" /\ plan' = "revised"
        /\ row' = [status |-> "AwaitingApproval", plan |-> row.plan]
    BY <1>5, <2>a, FirstWrite
  <2> QED
    BY <1>5, <2>1 DEF Between, Fits, Reviewable, Drafted, PlanStates
<1> QED
  BY <1>1, <1>2, <1>3, <1>4, <1>5 DEF Exiting

\* The write of spawn_task.
LEMMA SpawningWrite ==
    ASSUME row \in SessionType, Spawning, WriteNext
    PROVE  Between'
<1>1. PICK status \in Statuses :
        /\ todo = <<Save(status, TRUE, 1)>>
        /\ Fits(phase, status)
        /\ Reviewable([status |-> status, plan |-> copy.plan], plan)
  BY DEF Spawning
<1>a. Head(todo) = Save(status, TRUE, 1) /\ Tail(todo) = <<>>
  BY <1>1, ShortTails
<1>2. /\ todo' = <<>> /\ UNCHANGED <<plan, phase>>
      /\ row' = [status |-> status, plan |-> copy.plan]
  BY <1>1, <1>a, FirstWrite
<1> QED
  BY <1>1, <1>2 DEF Between, Fits, Reviewable

\* A transition to Plan of a session that is being drafted.
LEMMA DraftedTransition ==
    /\ PersistWrites(Drafted, "Plan") = <<Save("Planning", FALSE, 1)>>
    /\ \A x, y, z : (<<x>> \o <<y>>) \o z = <<x, y>> \o z
<1>1. <<>> \o <<Save("Planning", FALSE, 1)>> = <<Save("Planning", FALSE, 1)>>
  BY TwoLong DEF TwoWrites
<1>2. PersistWrites(Drafted, "Plan") = <<>> \o <<Save("Planning", FALSE, 1)>>
  BY DEF PersistWrites, TargetStatus, Drafted
<1>3. \A x, y : <<x>> \o <<y>> = <<x, y>>
  BY TwoLong DEF TwoWrites
<1> QED
  BY <1>1, <1>2, <1>3

\* The writes of enter_plan_mode, and those of its change of phase.
LEMMA EnteringWrite ==
    ASSUME row \in SessionType, copy \in SessionType, Entering, WriteNext
    PROVE  Entering' \/ Between'
<1>1. CASE copy.plan /\ todo = <<Save("Planning", TRUE, 1), SavePlan("draft", TRUE, 1), Transition("Plan"),
                   StatusEvent("Planning"), PlanEvent("draft")>>
  <2>a. Head(todo) = Save("Planning", TRUE, 1) /\ Tail(todo) = <<SavePlan("draft", TRUE, 1), Transition("Plan"), StatusEvent("Planning"), PlanEvent("draft")>>
    <3>1. FiveWrites(Save("Planning", TRUE, 1), SavePlan("draft", TRUE, 1), Transition("Plan"), StatusEvent("Planning"), PlanEvent("draft"))
      BY FiveLong
    <3> QED
      BY <1>1, <3>1 DEF FiveWrites
  <2>1. /\ row' = [status |-> "Planning", plan |-> copy.plan]
        /\ todo' = <<SavePlan("draft", TRUE, 1), Transition("Plan"), StatusEvent("Planning"), PlanEvent("draft")>>
    BY <1>1, <2>a, FirstWrite
  <2>2. copy.plan = TRUE
    BY <1>1 DEF SessionType
  <2> QED
    BY <2>1, <2>2 DEF Entering, Drafted
<1>2. CASE row = Drafted /\ todo = <<SavePlan("draft", TRUE, 1), Transition("Plan"), StatusEvent("Planning"), PlanEvent("draft")>>
  <2>a. Head(todo) = SavePlan("draft", TRUE, 1) /\ Tail(todo) = <<Transition("Plan"), StatusEvent("Planning"), PlanEvent("draft")>>
    <3>1. FourWrites(SavePlan("draft", TRUE, 1), Transition("Plan"), StatusEvent("Planning"), PlanEvent("draft"))
      BY FourLong
    <3> QED
      BY <1>2, <3>1 DEF FourWrites
  <2>1. row' = Drafted /\ todo' = <<Transition("Plan"), StatusEvent("Planning"), PlanEvent("draft")>>
    BY <1>2, <2>a, FirstWrite
  <2> QED
    BY <2>1 DEF Entering
<1>3. CASE row = Drafted /\ todo = <<Transition("Plan"), StatusEvent("Planning"), PlanEvent("draft")>>
  <2> DEFINE rest == <<StatusEvent("Planning"), PlanEvent("draft")>>
  <2>a. Head(todo) = Transition("Plan") /\ Tail(todo) = <<StatusEvent("Planning"), PlanEvent("draft")>>
    BY <1>3, ShortTails
  <2>1. /\ UNCHANGED <<row, phase>>
        /\ \/ phase = "Plan" /\ todo' = rest
           \/ copy' = row /\ todo' = PersistWrites(row, "Plan") \o <<SetPhase("Plan")>> \o rest
    BY <1>3, <2>a, FirstWrite
  <2>2. ASSUME todo' = PersistWrites(row, "Plan") \o <<SetPhase("Plan")>> \o rest
        PROVE  todo' = <<Save("Planning", FALSE, 1), SetPhase("Plan"), StatusEvent("Planning"), PlanEvent("draft")>>
    <3>1. todo' = <<Save("Planning", FALSE, 1), SetPhase("Plan")>> \o rest
      <4> HIDE DEF rest
      <4> QED
        BY <1>3, <2>2, DraftedTransition
    <3>2. FourWrites(Save("Planning", FALSE, 1), SetPhase("Plan"), StatusEvent("Planning"), PlanEvent("draft"))
      BY FourLong
    <3> QED
      BY <3>1, <3>2 DEF FourWrites
  <2> QED
    BY <1>3, <2>1, <2>2 DEF Entering
<1>4. CASE row = Drafted /\ copy = Drafted
           /\ todo = <<Save("Planning", FALSE, 1), SetPhase("Plan"), StatusEvent("Planning"), PlanEvent("draft")>>
  <2>a. Head(todo) = Save("Planning", FALSE, 1) /\ Tail(todo) = <<SetPhase("Plan"), StatusEvent("Planning"), PlanEvent("draft")>>
    <3>1. FourWrites(Save("Planning", FALSE, 1), SetPhase("Plan"), StatusEvent("Planning"), PlanEvent("draft"))
      BY FourLong
    <3> QED
      BY <1>4, <3>1 DEF FourWrites
  <2>1. /\ row' = [status |-> "Planning", plan |-> copy.plan]
        /\ todo' = <<SetPhase("Plan"), StatusEvent("Planning"), PlanEvent("draft")>>
    BY <1>4, <2>a, FirstWrite
  <2> QED
    BY <1>4, <2>1 DEF Entering, Drafted
<1>5. CASE row = Drafted /\ todo = <<SetPhase("Plan"), StatusEvent("Planning"), PlanEvent("draft")>>
  <2>a. Head(todo) = SetPhase("Plan") /\ Tail(todo) = <<StatusEvent("Planning"), PlanEvent("draft")>>
    BY <1>5, ShortTails
  <2>1. row' = Drafted /\ phase' = "Plan" /\ todo' = <<StatusEvent("Planning"), PlanEvent("draft")>>
    BY <1>5, <2>a, FirstWrite
  <2> QED
    BY <2>1 DEF Entering
<1>6. CASE row = Drafted /\ phase = "Plan" /\ todo = <<StatusEvent("Planning"), PlanEvent("draft")>>
  <2>a. Head(todo) = StatusEvent("Planning") /\ Tail(todo) = <<PlanEvent("draft")>>
    BY <1>6, ShortTails
  <2>1. /\ row' = [status |-> "Planning", plan |-> row.plan] /\ phase' = "Plan"
        /\ todo' = <<PlanEvent("draft")>>
    BY <1>6, <2>a, FirstWrite
  <2> QED
    BY <1>6, <2>1 DEF Entering, Drafted
<1>7. CASE row = Drafted /\ phase = "Plan" /\ todo = <<PlanEvent("draft")>>
  <2>a. Head(todo) = PlanEvent("draft") /\ Tail(todo) = <<>>
    BY <1>7, ShortTails
  <2>1. row' = Drafted /\ phase' = "Plan" /\ todo' = <<>>
    BY <1>7, <2>a, FirstWrite
  <2> QED
    BY <2>1 DEF Between, Fits, Reviewable, Drafted, PlanStates
<1> QED
  BY <1>1, <1>2, <1>3, <1>4, <1>5, <1>6, <1>7 DEF Entering

\* The writes for a phase the session does not tell yet.
LEMMA NewPhase ==
    ASSUME NEW session \in SessionType, NEW p \in Planned, session.status # TargetStatus(p)
    PROVE  PersistWrites(session, p) \o <<SetPhase(p)>> \o <<>> \in
             {<<SavePlan("draft", FALSE, 2), PlanEvent("draft"), Save(TargetStatus(p), FALSE, 2),
                StatusEvent(TargetStatus(p)), SetPhase(p)>>,
              <<Save(TargetStatus(p), FALSE, 2), StatusEvent(TargetStatus(p)), SetPhase(p)>>}
           /\ (p # "Plan" => PersistWrites(session, p) \o <<SetPhase(p)>> \o <<>> =
                 <<Save(TargetStatus(p), FALSE, 2), StatusEvent(TargetStatus(p)), SetPhase(p)>>)
<1> DEFINE a == SavePlan("draft", FALSE, 2)
           b == PlanEvent("draft")
           c == Save(TargetStatus(p), FALSE, 2)
           d == StatusEvent(TargetStatus(p))
           e == SetPhase(p)
           q == PersistWrites(session, p)
<1>1. \/ q = <<a, b>> \o <<c, d>>
      \/ q = <<>> \o <<c, d>>
  BY DEF PersistWrites
<1>2. p # "Plan" => q = <<>> \o <<c, d>>
  BY DEF PersistWrites
<1> HIDE DEF a, b, c, d, e, q
<1>3. FourWrites(a, b, c, d) /\ FiveWrites(a, b, c, d, e)
  BY FourLong, FiveLong
<1>4. TwoWrites(c, d) /\ ThreeWrites(c, d, e)
  BY TwoLong, ThreeLong
<1>5. \/ q \o <<e>> \o <<>> = <<a, b, c, d, e>>
      \/ q \o <<e>> \o <<>> = <<c, d, e>>
  BY <1>1, <1>3, <1>4, Zenon DEF TwoWrites, ThreeWrites, FourWrites, FiveWrites
<1>6. p # "Plan" => q \o <<e>> \o <<>> = <<c, d, e>>
  BY <1>2, <1>4, Zenon DEF TwoWrites, ThreeWrites
<1> QED
  BY <1>5, <1>6 DEF a, b, c, d, e, q

\* The writes of a change of phase.
LEMMA ChangingWrite ==
    ASSUME row \in SessionType, Changing, WriteNext
    PROVE  Changing' \/ Between'
<1> USE DEF TargetStatus
<1>1. CASE todo = <<SavePlan("draft", FALSE, 2), PlanEvent("draft"), Save("Planning", FALSE, 2),
                    StatusEvent("Planning"), SetPhase("Plan")>>
  <2>a. Head(todo) = SavePlan("draft", FALSE, 2) /\ Tail(todo) = <<PlanEvent("draft"), Save("Planning", FALSE, 2), StatusEvent("Planning"), SetPhase("Plan")>>
    <3>1. FiveWrites(SavePlan("draft", FALSE, 2), PlanEvent("draft"), Save("Planning", FALSE, 2), StatusEvent("Planning"), SetPhase("Plan"))
      BY FiveLong
    <3> QED
      BY <1>1, <3>1 DEF FiveWrites
  <2>1. row' = row /\ todo' = <<PlanEvent("draft"), Save("Planning", FALSE, 2), StatusEvent("Planning"), SetPhase("Plan")>>
    BY <1>1, <2>a, FirstWrite
  <2> QED
    BY <2>1 DEF Changing
<1>2. CASE todo = <<PlanEvent("draft"), Save("Planning", FALSE, 2), StatusEvent("Planning"), SetPhase("Plan")>>
  <2>a. Head(todo) = PlanEvent("draft") /\ Tail(todo) = <<Save("Planning", FALSE, 2), StatusEvent("Planning"), SetPhase("Plan")>>
    <3>1. FourWrites(PlanEvent("draft"), Save("Planning", FALSE, 2), StatusEvent("Planning"), SetPhase("Plan"))
      BY FourLong
    <3> QED
      BY <1>2, <3>1 DEF FourWrites
  <2>1. row' = Drafted /\ todo' = <<Save("Planning", FALSE, 2), StatusEvent("Planning"), SetPhase("Plan")>>
    BY <1>2, <2>a, FirstWrite
  <2>2. TargetStatus("Plan") = "Planning" /\ "Plan" \in Planned
    BY DEF Planned
  <2> QED
    BY <2>1, <2>2 DEF Changing, Drafted
<1>3. ASSUME NEW p \in Planned, todo = <<Transition(p)>>, p # phase, row.status # TargetStatus(p)
      PROVE  Changing'
  <2>a. Head(todo) = Transition(p) /\ Tail(todo) = <<>>
    BY <1>3, ShortTails
  <2>1. row' = row /\ todo' = PersistWrites(row, p) \o <<SetPhase(p)>> \o <<>>
    BY <1>3, <2>a, FirstWrite
  <2>2. \/ /\ p = "Plan"
           /\ todo' = <<SavePlan("draft", FALSE, 2), PlanEvent("draft"), Save(TargetStatus(p), FALSE, 2),
                        StatusEvent(TargetStatus(p)), SetPhase(p)>>
        \/ todo' = <<Save(TargetStatus(p), FALSE, 2), StatusEvent(TargetStatus(p)), SetPhase(p)>>
    <3> HIDE DEF TargetStatus
    <3> QED
      BY <1>3, <2>1, NewPhase
  <2>3. CASE p = "Plan" /\ todo' = <<SavePlan("draft", FALSE, 2), PlanEvent("draft"), Save(TargetStatus(p), FALSE, 2),
                                     StatusEvent(TargetStatus(p)), SetPhase(p)>>
    BY <2>1, <2>3 DEF Changing
  <2>4. CASE todo' = <<Save(TargetStatus(p), FALSE, 2), StatusEvent(TargetStatus(p)), SetPhase(p)>>
    <3> HIDE DEF TargetStatus
    <3> QED
      BY <2>1, <2>4 DEF Changing
  <2> QED
    BY <2>2, <2>3, <2>4
<1>4. ASSUME NEW p \in Planned, todo = <<Save(TargetStatus(p), FALSE, 2), StatusEvent(TargetStatus(p)), SetPhase(p)>>
      PROVE  Changing'
  <2>1. TargetStatus(p) # "AwaitingApproval"
    BY DEF Planned
  <2> HIDE DEF TargetStatus
  <2>a. Head(todo) = Save(TargetStatus(p), FALSE, 2) /\ Tail(todo) = <<StatusEvent(TargetStatus(p)), SetPhase(p)>>
    BY <1>4, ShortTails
  <2>2. /\ row' = [status |-> TargetStatus(p), plan |-> copy.plan]
        /\ todo' = <<StatusEvent(TargetStatus(p)), SetPhase(p)>>
    BY <1>4, <2>a, FirstWrite
  <2>3. row'.status = TargetStatus(p)
    BY <2>2
  <2> QED
    BY <2>1, <2>2, <2>3 DEF Changing
<1>5. ASSUME NEW p \in Planned, row.status = TargetStatus(p), todo = <<StatusEvent(TargetStatus(p)), SetPhase(p)>>
      PROVE  Changing'
  <2>1. TargetStatus(p) # "AwaitingApproval"
    BY DEF Planned
  <2> HIDE DEF TargetStatus
  <2>a. Head(todo) = StatusEvent(TargetStatus(p)) /\ Tail(todo) = <<SetPhase(p)>>
    BY <1>5, ShortTails
  <2>2. /\ row' = [status |-> TargetStatus(p), plan |-> row.plan]
        /\ todo' = <<SetPhase(p)>>
    BY <1>5, <2>a, FirstWrite
  <2>3. row'.status = TargetStatus(p)
    BY <2>2
  <2> QED
    BY <2>1, <2>2, <2>3 DEF Changing
<1>6. ASSUME NEW p \in Planned, row.status = TargetStatus(p), todo = <<SetPhase(p)>>
      PROVE  Between'
  <2>a. Head(todo) = SetPhase(p) /\ Tail(todo) = <<>>
    BY <1>6, ShortTails
  <2>1. row' = row /\ phase' = p /\ todo' = <<>>
    BY <1>6, <2>a, FirstWrite
  <2>2. row'.status # "AwaitingApproval" /\ Fits(phase', row'.status)
    BY <1>6, <2>1 DEF Planned, Fits, PlanStates
  <2> QED
    BY <2>1, <2>2 DEF Between, Reviewable
<1> QED
  BY <1>1, <1>2, <1>3, <1>4, <1>5, <1>6 DEF Changing

\* Every write goes on with the story of its operation.
LEMMA StoryWrite ==
    ASSUME PlanInv, Story, WriteNext
    PROVE  Story'
<1>1. row \in SessionType /\ copy \in SessionType
  BY DEF PlanInv, TypeOK, DataOK
<1>2. running /\ running' /\ todo # <<>>
  BY DEF WriteNext
<1>3. Confirming \/ Entering \/ Exiting \/ Spawning \/ Changing
  BY <1>2 DEF Story, Between
<1>4. Confirming' \/ Entering' \/ Exiting' \/ Changing' \/ Between'
  BY <1>1, <1>3, ConfirmingWrite, EnteringWrite, ExitingWrite, SpawningWrite, ChangingWrite
<1> QED
  BY <1>2, <1>4 DEF Story

\* Every operation begins its story where the one before has ended.
LEMMA StoryBegins ==
    ASSUME PlanInv, Story, EnterPlanMode \/ ExitPlanMode \/ SpawnTask \/ ChangePhase
    PROVE  Story'
<1>1. running /\ todo = <<>> /\ running' /\ UNCHANGED <<row, plan, phase>>
  <2>1. ASSUME NEW loaded, NEW writes, Begin(loaded, writes)
        PROVE  running /\ todo = <<>> /\ running' /\ UNCHANGED <<row, plan, phase>>
    BY <2>1 DEF Begin, store
  <2> QED
    BY <2>1 DEF EnterPlanMode, ExitPlanMode, SpawnTask, ChangePhase
<1>2. row \in SessionType /\ phase \in Phases
  BY DEF PlanInv, TypeOK, DataOK
<1>3. Between
  BY <1>1 DEF Story, Confirming, Entering, Exiting, Spawning, Changing
<1>4. CASE EnterPlanMode
  <2>1. copy'.plan
    BY <1>2, <1>4 DEF EnterPlanMode, Begin, SessionType
  <2>2. todo' = <<Save("Planning", TRUE, 1), SavePlan("draft", TRUE, 1), Transition("Plan"),
                  StatusEvent("Planning"), PlanEvent("draft")>>
    BY <1>4 DEF EnterPlanMode, Begin
  <2>3. Entering'
    BY <2>1, <2>2 DEF Entering
  <2> QED
    BY <1>1, <2>3 DEF Story
<1>5. CASE ExitPlanMode
  <2>1. Exiting'
    BY <1>5 DEF ExitPlanMode, Begin, Exiting
  <2> QED
    BY <1>1, <2>1 DEF Story
<1>6. CASE SpawnTask
  <2>1. copy' = row /\ todo' = <<Save(row.status, TRUE, 1)>>
    BY <1>6 DEF SpawnTask, Begin
  <2>2. row.status \in Statuses
    BY <1>2 DEF SessionType
  <2>3. Fits(phase, row.status)' /\ Reviewable([status |-> row.status, plan |-> copy'.plan], plan')
    BY <1>1, <1>3, <2>1 DEF Between, Fits, Reviewable
  <2>4. Spawning'
    BY <1>1, <2>1, <2>2, <2>3 DEF Spawning, Fits
  <2> QED
    BY <1>1, <2>4 DEF Story
<1>7. CASE ChangePhase
  <2>1. PICK p \in TextTransitions[phase] \cup CallTransitions[phase] : Begin(copy, <<Transition(p)>>)
    BY <1>7 DEF ChangePhase
  <2>2. \/ phase = "Explore" /\ p \in {"Plan", "Execute"} /\ row.status = "Idle"
        \/ phase = "Execute" /\ p = "Verify" /\ row.status = "ExecutingStep"
    BY <1>1, <1>2, <1>3, <2>1 DEF TextTransitions, CallTransitions, Between, Fits, Phases
  <2>3. p \in Planned /\ p # phase /\ row.status # TargetStatus(p) /\ row.status # "AwaitingApproval"
    BY <2>2 DEF Planned, TargetStatus
  <2>4. todo' = <<Transition(p)>>
    BY <2>1 DEF Begin
  <2>5. Changing'
    <3> HIDE DEF TargetStatus
    <3> QED
      BY <1>1, <2>3, <2>4 DEF Changing
  <2> QED
    BY <1>1, <2>5 DEF Story
<1> QED
  BY <1>4, <1>5, <1>6, <1>7

\* A turn starts with the phase its session tells, or with an approval.
LEMMA StoryStarts ==
    ASSUME PlanInv, Story, NEW grants \in BOOLEAN, NEW complex \in BOOLEAN, NEW phased \in BOOLEAN,
           StartTurn(grants, complex, phased)
    PROVE  Story'
<1> DEFINE status == IF granting' THEN "ExecutingStep" ELSE row.status
<1>1. /\ ~running /\ running'
      /\ phase' = IF phased THEN InitialPhase(status, complex) ELSE "none"
      /\ todo' = IF granting' THEN <<Save(status, TRUE, 1), StatusEvent(status)>> ELSE <<>>
      /\ UNCHANGED <<row, plan>>
  BY DEF StartTurn, store
<1>2. row.status \in Statuses
  BY DEF PlanInv, TypeOK, DataOK, SessionType
<1>3. Between
  BY <1>1 DEF Story
<1>4. CASE granting'
  <2>1. phase' \in {"none", "Execute"}
    BY <1>1, <1>4 DEF InitialPhase, PlanStates
  <2>2. Confirming'
    BY <1>1, <1>4, <2>1 DEF Confirming
  <2> QED
    BY <1>1, <2>2 DEF Story
<1>5. CASE ~granting'
  <2>1. Fits(phase', row'.status)
    BY <1>1, <1>2, <1>5 DEF InitialPhase, Fits, Statuses, PlanStates
  <2>2. Reviewable(row, plan)'
    BY <1>1, <1>3 DEF Between, Reviewable
  <2>3. Between'
    BY <1>1, <1>5, <2>1, <2>2 DEF Between, Fits, Reviewable
  <2> QED
    BY <2>3 DEF Story
<1> QED
  BY <1>4, <1>5

\* A verdict in time: the plan was under review, so the loop was planning, or
\* the operation in progress overwrites the verdict.
LEMMA StoryVerdict ==
    ASSUME PlanInv, Story, GiveVerdict, row.status = "AwaitingApproval"
    PROVE  Story'
<1>1. /\ row' = [row EXCEPT !.status = Verdict[cmd]]
      /\ UNCHANGED <<plan, running, phase, copy, todo>>
      /\ cmd \in DOMAIN Verdict /\ row \in SessionType /\ phase \in Phases
  BY DEF GiveVerdict, agent, PlanInv, TypeOK, DataOK
<1>2. row'.status \in {"ExecutingStep", "Planning"}
  BY <1>1 DEF Verdict, SessionType
<1>3. row # Drafted
  BY DEF Drafted
<1>4. CASE Between
  <2>1. running => phase \in {"none", "Plan"}
    BY <1>1, <1>4 DEF Between, Fits, Phases
  <2>2. running' => Fits(phase, row.status)'
    BY <1>1, <1>2, <2>1 DEF Fits, PlanStates
  <2> QED
    BY <1>1, <1>2, <1>4, <2>2 DEF Story, Between, Reviewable
<1>5. Between \/ running
  BY DEF Story
<1>6. CASE Confirming
  <2>1. todo = <<Save("ExecutingStep", TRUE, 1), StatusEvent("ExecutingStep")>>
    BY <1>6 DEF Confirming
  <2>2. Confirming'
    BY <1>1, <1>6, <2>1 DEF Confirming
  <2> QED
    BY <1>1, <1>4, <1>5, <2>2 DEF Story
<1>7. CASE Entering
  <2>1. Entering'
    BY <1>1, <1>3, <1>7 DEF Entering
  <2> QED
    BY <1>1, <1>4, <1>5, <2>1 DEF Story
<1>8. CASE Exiting
  <2>1. Exiting'
    BY <1>1, <1>3, <1>8 DEF Exiting
  <2> QED
    BY <1>1, <1>4, <1>5, <2>1 DEF Story
<1>9. CASE Spawning
  <2>1. Spawning'
    BY <1>1, <1>9 DEF Spawning, Fits, Reviewable
  <2> QED
    BY <1>1, <1>4, <1>5, <2>1 DEF Story
<1>10. ~Changing
  BY DEF Changing
<1> QED
  BY <1>4, <1>6, <1>7, <1>8, <1>9, <1>5, <1>10 DEF Story

\* A step after which no verdict was outdated and no write has failed has the
\* same behind it.
LEMMA NothingBefore ==
    ASSUME PlanInv, [Next]_vars, ~stale', failures' = 0
    PROVE  ~stale /\ failures = 0
<1>1. failures \in Nat /\ stale \in BOOLEAN
  BY PlanModeAssumption DEF PlanInv, TypeOK, CountsOK, FlagsOK
<1>2. CASE GiveVerdict
  BY <1>1, <1>2 DEF GiveVerdict, counts
<1>3. CASE ~GiveVerdict
  <2>1. stale' = stale
    BY <1>3 DEF Next, vars, user, StartTurn, EndTurn, EnterPlanMode, ExitPlanMode, SpawnTask, ChangePhase,
                Begin, WriteNext, WriteFails, Killed, LoadForVerdict
  <2>2. failures' = failures \/ failures' = failures + 1
    BY <1>3 DEF Next, vars, counts, StartTurn, EndTurn, EnterPlanMode, ExitPlanMode, SpawnTask, ChangePhase,
                Begin, WriteNext, WriteFails, Killed, LoadForVerdict
  <2> QED
    BY <1>1, <2>1, <2>2
<1> QED
  BY <1>2, <1>3

\* Every step goes on with the story, as long as it has to be told.
LEMMA StoryStep ==
    ASSUME PlanInv, StoryInv, [Next]_vars
    PROVE  StoryInv'
<1> SUFFICES ASSUME ~stale', failures' = 0 PROVE Story'
  BY DEF StoryInv
<1>1. failures \in Nat
  BY PlanModeAssumption DEF PlanInv, TypeOK, CountsOK
<1>2. ~stale /\ failures = 0
  BY NothingBefore
<1>3. Story
  BY <1>2 DEF StoryInv
<1>4. CASE \E grants, complex, phased \in BOOLEAN : StartTurn(grants, complex, phased)
  BY <1>3, <1>4, StoryStarts
<1>5. CASE EndTurn
  <2>1. todo = <<>> /\ todo' = <<>> /\ ~running' /\ UNCHANGED <<row, plan>>
    BY <1>5 DEF EndTurn, store
  <2>2. Between
    BY <1>3, <2>1 DEF Story, Confirming, Entering, Exiting, Spawning, Changing
  <2> QED
    BY <2>1, <2>2 DEF Story, Between, Reviewable
<1>6. CASE EnterPlanMode \/ ExitPlanMode \/ SpawnTask \/ ChangePhase
  BY <1>3, <1>6, StoryBegins
<1>7. CASE WriteNext
  BY <1>3, <1>7, StoryWrite
<1>8. CASE WriteFails \/ Killed
  BY <1>1, <1>2, <1>8 DEF WriteFails, Killed
<1>9. CASE GiveVerdict
  <2>1. row.status = "AwaitingApproval"
    BY <1>9 DEF GiveVerdict
  <2> QED
    BY <1>3, <1>9, <2>1, StoryVerdict
<1>10. CASE UNCHANGED <<row, plan, running, phase, copy, todo>>
  BY <1>3, <1>10 DEF Story, Between, Confirming, Entering, Exiting, Spawning, Changing, Fits, Reviewable
<1>11. ASSUME NEW verb \in DOMAIN Verdict, LoadForVerdict(verb)
       PROVE  UNCHANGED <<row, plan, running, phase, copy, todo>>
  BY <1>11 DEF LoadForVerdict, store, agent
<1>12. UNCHANGED vars => UNCHANGED <<row, plan, running, phase, copy, todo>>
  BY DEF vars, store, agent
<1> QED
  BY <1>4, <1>5, <1>6, <1>7, <1>8, <1>9, <1>10, <1>11, <1>12 DEF Next

\* The story is always told.
LEMMA StoryAlways == Spec => []StoryInv
<1>1. Init => StoryInv
  BY DEF Init, StoryInv, Story, Between, Reviewable
<1>2. PlanInv /\ StoryInv /\ [Next]_vars => StoryInv'
  BY StoryStep
<1> QED
  BY <1>1, <1>2, InvAlways, PTL DEF Spec

\* Between two operations the phase of the loop and the status of the session
\* tell the same story, whatever copies of the session were saved meanwhile
\* and however early the user has decided.
THEOREM PhaseAlwaysMatchesStatus == Spec => []PhaseMatchesStatus
<1>1. StoryInv => PhaseMatchesStatus
  <2> SUFFICES ASSUME Story, running, todo = <<>> PROVE Fits(phase, row.status)
    BY DEF StoryInv, PhaseMatchesStatus, Settled, Fits
  <2>1. Between
    BY DEF Story, Confirming, Entering, Exiting, Spawning, Changing
  <2> QED
    BY <2>1 DEF Between
<1> QED
  BY <1>1, StoryAlways, PTL

-----------------------------------------------------------------------------
(* The review *)

\* A plan that was put before the user and is not answered is still there:
\* exit_plan_mode is at work, or the session awaits the approval and at most
\* spawn_task writes, which keeps the status.
Waiting ==
    /\ row.status = "AwaitingApproval"
    /\ todo \in {<<>>, <<Save("AwaitingApproval", TRUE, 1)>>}
ReviewInv ==
    /\ awaited \in BOOLEAN
    /\ ~stale /\ failures = 0 /\ awaited => Exiting \/ Waiting

\* A turn that grants nothing leaves the review as it is.
LEMMA ReviewStarts ==
    ASSUME Story, Exiting \/ Waiting,
           NEW grants \in BOOLEAN, NEW complex \in BOOLEAN, NEW phased \in BOOLEAN,
           StartTurn(grants, complex, phased), awaited'
    PROVE  Waiting'
<1>1. ~running /\ ~granting' /\ todo' = <<>> /\ row' = row
  BY DEF StartTurn, store
<1>2. todo = <<>>
  BY <1>1 DEF Story, Between
<1>3. Waiting
  BY <1>2 DEF Exiting
<1> QED
  BY <1>1, <1>3 DEF Waiting

\* No operation but enter_plan_mode takes a session out of the review.
LEMMA ReviewBegins ==
    ASSUME PlanInv, Story, awaited => Exiting \/ Waiting,
           EnterPlanMode \/ ExitPlanMode \/ SpawnTask \/ ChangePhase, awaited'
    PROVE  Exiting' \/ Waiting'
<1>1. ~EnterPlanMode
  BY DEF EnterPlanMode
<1>2. CASE ExitPlanMode
  BY <1>2 DEF ExitPlanMode, Begin, Exiting
<1>3. CASE SpawnTask \/ ChangePhase
  <2>1. running /\ todo = <<>> /\ row' = row /\ awaited
    BY <1>3 DEF SpawnTask, ChangePhase, Begin, store
  <2>2. row.status = "AwaitingApproval"
    BY <2>1 DEF Exiting, Waiting
  <2>3. CASE SpawnTask
    <3>1. todo' = <<Save(row.status, TRUE, 1)>>
      BY <2>3 DEF SpawnTask, Begin
    <3> QED
      BY <2>1, <2>2, <3>1 DEF Waiting
  <2>4. CASE ChangePhase
    <3>1. Between
      BY <2>1 DEF Story, Confirming, Entering, Exiting, Spawning, Changing
    <3>2. phase \in {"none", "Plan"}
      BY <2>1, <2>2, <3>1 DEF Between, Fits, PlanInv, TypeOK, DataOK, Phases
    <3> QED
      BY <2>4, <3>2 DEF ChangePhase, TextTransitions, CallTransitions, Phases
  <2> QED
    BY <1>3, <2>3, <2>4
<1> QED
  BY <1>1, <1>2, <1>3

\* The writes of exit_plan_mode end with the review, and spawn_task keeps it.
LEMMA ReviewWrites ==
    ASSUME PlanInv, Exiting \/ Waiting, WriteNext
    PROVE  Exiting' \/ Waiting'
<1>1. row \in SessionType
  BY DEF PlanInv, TypeOK, DataOK
<1>2. CASE Exiting
  BY <1>1, <1>2, ExitingWrite DEF Between, Waiting
<1>3. CASE Waiting
  <2>1. todo = <<Save("AwaitingApproval", TRUE, 1)>>
    BY <1>3 DEF Waiting, WriteNext
  <2>2. Head(todo) = Save("AwaitingApproval", TRUE, 1) /\ Tail(todo) = <<>>
    BY <2>1, ShortTails
  <2>3. todo' = <<>> /\ row' = [status |-> "AwaitingApproval", plan |-> copy.plan]
    BY <1>1, <2>2, FirstWrite
  <2> QED
    BY <2>3 DEF Waiting
<1> QED
  BY <1>2, <1>3

LEMMA ReviewStep ==
    ASSUME PlanInv, StoryInv, ReviewInv, [Next]_vars
    PROVE  ReviewInv'
<1>1. awaited' \in BOOLEAN
  BY DEF ReviewInv, Next, vars, StartTurn, EndTurn, EnterPlanMode, ExitPlanMode, SpawnTask, ChangePhase,
         WriteNext, WriteFails, Killed, LoadForVerdict, GiveVerdict
<1> SUFFICES ASSUME ~stale', failures' = 0, awaited' PROVE Exiting' \/ Waiting'
  BY <1>1 DEF ReviewInv
<1>2. ~stale /\ failures = 0
  BY NothingBefore
<1>3. Story /\ (awaited => Exiting \/ Waiting)
  BY <1>2 DEF StoryInv, ReviewInv
<1>4. CASE \E grants, complex, phased \in BOOLEAN : StartTurn(grants, complex, phased)
  <2>1. awaited
    BY <1>4 DEF StartTurn
  <2> QED
    BY <1>3, <1>4, <2>1, ReviewStarts
<1>5. CASE EndTurn
  BY <1>3, <1>5 DEF EndTurn, store, Exiting, Waiting
<1>6. CASE EnterPlanMode \/ ExitPlanMode \/ SpawnTask \/ ChangePhase
  BY <1>3, <1>6, ReviewBegins
<1>7. CASE WriteNext
  BY <1>3, <1>7, ReviewWrites DEF WriteNext
<1>8. CASE WriteFails \/ Killed
  <2>1. failures' = 1
    BY <1>2, <1>8 DEF WriteFails, Killed
  <2> QED
    BY <2>1
<1>9. CASE GiveVerdict
  BY <1>9 DEF GiveVerdict
<1>10. CASE UNCHANGED <<row, plan, phase, todo, awaited>>
  BY <1>3, <1>10 DEF Exiting, Waiting
<1>11. ASSUME NEW verb \in DOMAIN Verdict, LoadForVerdict(verb)
       PROVE  UNCHANGED <<row, plan, phase, todo, awaited>>
  BY <1>11 DEF LoadForVerdict, store, agent
<1>12. UNCHANGED vars => UNCHANGED <<row, plan, phase, todo, awaited>>
  BY DEF vars, store, agent
<1> QED
  BY <1>4, <1>5, <1>6, <1>7, <1>8, <1>9, <1>10, <1>11, <1>12 DEF Next

\* The plan that exit_plan_mode saves is put before the user until the user
\* answers or the agent enters plan mode again, and the plan under review is
\* the one the agent has written.
THEOREM ReviewAlwaysShowsPlan == Spec => []ReviewShowsPlan
<1>1. Init => ReviewInv
  BY DEF Init, ReviewInv
<1>2. PlanInv /\ StoryInv /\ ReviewInv /\ [Next]_vars => ReviewInv'
  BY ReviewStep
<1>3. StoryInv /\ ReviewInv => ReviewShowsPlan
  <2> SUFFICES ASSUME Story, todo = <<>>, awaited => Exiting \/ Waiting
               PROVE  /\ awaited => row.status = "AwaitingApproval"
                      /\ row.status = "AwaitingApproval" => row.plan /\ plan = "revised"
    BY DEF StoryInv, ReviewInv, ReviewShowsPlan, Settled
  <2>1. Between
    BY DEF Story, Confirming, Entering, Exiting, Spawning, Changing
  <2>2. awaited => row.status = "AwaitingApproval"
    BY DEF Exiting, Waiting
  <2> QED
    BY <2>1, <2>2 DEF Between, Reviewable
<1> QED
  BY <1>1, <1>2, <1>3, InvAlways, StoryAlways, PTL DEF Spec

=============================================================================
