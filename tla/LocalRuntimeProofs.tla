--------------------------- MODULE LocalRuntimeProofs ---------------------------
(***************************************************************************)
(* LocalRuntime for any number of threads, models and slots: the types,    *)
(* and the four safety invariants of the load lane, the runners map and    *)
(* the runner states.  And its RequestGate for any finite set of request   *)
(* threads and any limits: its counters count, its limits hold, no wakeup  *)
(* is lost, and it implements BoundedAdmission.                            *)
(*                                                                         *)
(* The argument annotates the program text: ThreadShape says of each       *)
(* location what a thread there holds (a model, the load lane, a permit).  *)
(* Every other invariant is inductive relative to it.                      *)
(*                                                                         *)
(* In the gate no conjunct of the invariant is inductive alone: the limits *)
(* need exact counters (a saturated decrement would free a place nobody    *)
(* left), and the wakeup argument needs the limits.                        *)
(***************************************************************************)
EXTENDS LocalRuntime, RequestGate, FiniteSetTheorems, TLAPS

HoldsLane == {"relookup", "admission", "peek", "markLoading", "load", "insert",
              "fail", "leaveLane"}
HoldsNoLane == {"idle", "tick", "lookup", "lane", "announce", "asleep", "woken", "busy",
                "generate", "finish", "reload", "invalidate", "giveUp", "return"}
HoldsPermit == {"tick", "busy", "generate", "finish", "reload", "invalidate", "giveUp"}

\* What a thread at each location holds.
ThreadShape(t) ==
    /\ pc[t] # "idle" => target[t] \in Models
    /\ pc[t] \in HoldsLane => t \in inLane
    /\ pc[t] \in HoldsNoLane => t \notin inLane
    /\ pc[t] \in HoldsPermit => t \in permits
    /\ pc[t] \in {"drop", "clear"} =>
          /\ ret[t] \in {"lookup", "admission", "warm"}
          /\ ret[t] = "admission" => t \in inLane
          /\ ret[t] = "lookup" => t \notin inLane
    /\ pc[t] = "leaveLane" =>
          /\ ret[t] \in {"busy", "return"}
          /\ ret[t] = "busy" => t \in permits

Shape == TypeOK /\ \A t \in Threads : ThreadShape(t)

\* The threads that have found no runner inside the lane and have not stored
\* theirs yet: until then the map stays without one.
BeforeInsert(t) ==
    \/ pc[t] \in {"admission", "peek", "markLoading", "load", "insert", "fail"}
    \/ pc[t] \in {"drop", "clear"} /\ ret[t] = "admission"

LaneGuardsRunners == \A t \in Threads : BeforeInsert(t) => target[t] \notin runners

\* Who overwrites a Loading or a Busy state next.
EndsLoading(t) ==
    \/ pc[t] \in {"load", "insert", "fail", "touch", "warm"}
    \/ pc[t] \in {"drop", "clear"} /\ ret[t] = "warm"
EndsBusy(t) == pc[t] \in {"generate", "finish", "reload", "giveUp"}

StatesOwned ==
    \A m \in Models :
        /\ state[m] = "Loading" => \E t \in Threads : target[t] = m /\ EndsLoading(t)
        /\ state[m] = "Busy" => \E t \in Threads : target[t] = m /\ EndsBusy(t)

-----------------------------------------------------------------------------
(* Each invariant is preserved by every step *)

\* Types and annotations survive every step, a restart included.
LEMMA ShapeStep ==
    ASSUME Shape, [NextWithRestart]_vars
    PROVE  Shape'
<1> USE DEF manager, locks, locals, Shape, ThreadShape, TypeOK, HoldsLane, HoldsNoLane,
           HoldsPermit, Goto, Locations, RunnerStates
<1>1. ASSUME NEW t \in Threads, MaintenanceTick(t)
      PROVE  Shape'
  BY <1>1 DEF MaintenanceTick, DropThen, IdleVictims, Retired
<1>2. ASSUME NEW t \in Threads, DropRunners(t)
      PROVE  Shape'
  BY <1>2 DEF DropRunners
<1>3. ASSUME NEW t \in Threads, Lookup(t)
      PROVE  Shape'
  BY <1>3 DEF Lookup, LookFor
<1>4. ASSUME NEW t \in Threads, TakeLane(t)
      PROVE  Shape'
  BY <1>4 DEF TakeLane
<1>5. ASSUME NEW t \in Threads, AnnounceWait(t)
      PROVE  Shape'
  BY <1>5 DEF AnnounceWait
<1>6. ASSUME NEW t \in Threads, SleepAfterAnnounce(t)
      PROVE  Shape'
  BY <1>6 DEF SleepAfterAnnounce
<1>7. ASSUME NEW t \in Threads, SleepAgain(t)
      PROVE  Shape'
  BY <1>7 DEF SleepAgain
<1>8. ASSUME NEW t \in Threads, Relookup(t)
      PROVE  Shape'
  BY <1>8 DEF Relookup, LookFor
<1>9. ASSUME NEW t \in Threads, AdmissionFits(t)
      PROVE  Shape'
  BY <1>9 DEF AdmissionFits
<1>10. ASSUME NEW t \in Threads, AdmissionEvicts(t)
      PROVE  Shape'
  BY <1>10 DEF AdmissionEvicts, DropThen, PressureVictims, Retired
<1>11. ASSUME NEW t \in Threads, AdmissionDenied(t)
      PROVE  Shape'
  BY <1>11 DEF AdmissionDenied
<1>12. ASSUME NEW t \in Threads, PeekState(t)
      PROVE  Shape'
  BY <1>12 DEF PeekState
<1>13. ASSUME NEW t \in Threads, MarkLoading(t)
      PROVE  Shape'
  BY <1>13 DEF MarkLoading, SetState
<1>14. ASSUME NEW t \in Threads, LoadBackend(t)
      PROVE  Shape'
  BY <1>14 DEF LoadBackend
<1>15. ASSUME NEW t \in Threads, LoadFails(t)
      PROVE  Shape'
  BY <1>15 DEF LoadFails, SetState
<1>16. ASSUME NEW t \in Threads, InsertRunner(t)
      PROVE  Shape'
  BY <1>16 DEF InsertRunner
<1>17. ASSUME NEW t \in Threads, TouchRuntime(t)
      PROVE  Shape'
  BY <1>17 DEF TouchRuntime, DropThen, CapacityVictims, IdleVictims, Retired
<1>18. ASSUME NEW t \in Threads, SetWarm(t)
      PROVE  Shape'
  BY <1>18 DEF SetWarm, AfterEnsure, SetState
<1>19. ASSUME NEW t \in Threads, LeaveLane(t)
      PROVE  Shape'
  BY <1>19 DEF LeaveLane
<1>20. ASSUME NEW t \in Threads, SetBusy(t)
      PROVE  Shape'
  BY <1>20 DEF SetBusy, SetState
<1>21. ASSUME NEW t \in Threads, Generate(t)
      PROVE  Shape'
  BY <1>21 DEF Generate
<1>22. ASSUME NEW t \in Threads, FinishGenerate(t)
      PROVE  Shape'
  BY <1>22 DEF FinishGenerate, SetState
<1>23. ASSUME NEW t \in Threads, MarkReloading(t)
      PROVE  Shape'
  BY <1>23 DEF MarkReloading, SetState
<1>24. ASSUME NEW t \in Threads, InvalidateRunner(t)
      PROVE  Shape'
  BY <1>24 DEF InvalidateRunner
<1>25. ASSUME NEW t \in Threads, RetryFails(t)
      PROVE  Shape'
  BY <1>25 DEF RetryFails, SetState
<1>26. ASSUME NEW t \in Threads, ReturnToCaller(t)
      PROVE  Shape'
  BY <1>26 DEF ReturnToCaller
<1>27. ASSUME NEW t \in Threads, SpuriousWakeup(t)
      PROVE  Shape'
  BY <1>27 DEF SpuriousWakeup
<1>28. ASSUME NEW t \in Threads, NEW m \in Models, StartGenerate(t, m)
      PROVE  Shape'
  BY <1>28 DEF StartGenerate
<1>29. ASSUME NEW t \in Threads, NEW m \in Models, StartPrewarm(t, m)
      PROVE  Shape'
  BY <1>29 DEF StartPrewarm
<1>30. ASSUME NEW t \in Threads, NEW m \in Models, ClearState(t, m)
      PROVE  Shape'
  BY <1>30 DEF ClearState, SetState
<1>31. ASSUME NEW m \in Models, KeepWarmElapses(m)
      PROVE  Shape'
  BY <1>31 DEF KeepWarmElapses
<1>32. CASE Restart
  BY <1>32 DEF Restart
<1>33. CASE UNCHANGED vars
  BY <1>33 DEF vars
<1>34. QED
  BY <1>1, <1>2, <1>3, <1>4, <1>5, <1>6, <1>7, <1>8, <1>9, <1>10, <1>11, <1>12,
     <1>13, <1>14, <1>15, <1>16, <1>17, <1>18, <1>19, <1>20, <1>21, <1>22, <1>23, <1>24,
     <1>25, <1>26, <1>27, <1>28, <1>29, <1>30, <1>31, <1>32, <1>33
  DEF NextWithRestart, Next, EnsureStep, GenerateStep

\* Seven actions touch the lane, its permits or a thread's model.
LEMMA LaneMoves ==
    ASSUME [NextWithRestart]_vars
    PROVE  \/ UNCHANGED <<lane, inLane, target>>
           \/ \E t \in Threads : TakeLane(t) \/ LeaveLane(t) \/ ReturnToCaller(t)
           \/ \E t \in Threads, m \in Models : StartGenerate(t, m) \/ StartPrewarm(t, m)
           \/ Restart
<1> USE DEF manager, locks, locals
<1>1. ASSUME NEW t \in Threads, EnsureStep(t), ~TakeLane(t), ~LeaveLane(t)
      PROVE  UNCHANGED <<lane, inLane, target>>
  BY <1>1 DEF EnsureStep, MaintenanceTick, DropRunners, ClearState, Lookup, LookFor, AnnounceWait,
              SleepAfterAnnounce, SleepAgain, Relookup, AdmissionFits, AdmissionEvicts,
              AdmissionDenied, PeekState, MarkLoading, LoadBackend, LoadFails, InsertRunner,
              TouchRuntime, SetWarm
<1>2. ASSUME NEW t \in Threads, GenerateStep(t) \/ SpuriousWakeup(t), ~ReturnToCaller(t)
      PROVE  UNCHANGED <<lane, inLane, target>>
  BY <1>2 DEF GenerateStep, SetBusy, Generate, FinishGenerate, MarkReloading, InvalidateRunner,
              RetryFails, SpuriousWakeup
<1>3. ASSUME NEW m \in Models, KeepWarmElapses(m)
      PROVE  UNCHANGED <<lane, inLane, target>>
  BY <1>3 DEF KeepWarmElapses
<1>4. CASE UNCHANGED vars
  BY <1>4 DEF vars
<1>5. QED
  BY <1>1, <1>2, <1>3, <1>4 DEF NextWithRestart, Next

\* The lane passes from one thread to the next.
LEMMA LaneStep ==
    ASSUME Shape, LoadsSerialized, [NextWithRestart]_vars
    PROVE  LoadsSerialized'
<1> USE DEF Shape, ThreadShape, TypeOK, HoldsLane, HoldsNoLane, LoadsSerialized
<1>1. CASE UNCHANGED <<lane, inLane, target>>
  BY <1>1
<1>2. ASSUME NEW t \in Threads, TakeLane(t)
      PROVE  LoadsSerialized'
  BY <1>2, RuntimeAssumption DEF TakeLane, LaneFree, locals
<1>3. ASSUME NEW t \in Threads, LeaveLane(t)
      PROVE  LoadsSerialized'
  BY <1>3 DEF LeaveLane, locals
<1>4. ASSUME NEW t \in Threads, ReturnToCaller(t)
      PROVE  LoadsSerialized'
  BY <1>4 DEF ReturnToCaller
<1>5. ASSUME NEW t \in Threads, NEW m \in Models, StartGenerate(t, m) \/ StartPrewarm(t, m)
      PROVE  LoadsSerialized'
  BY <1>5 DEF StartGenerate, StartPrewarm, locks
<1>6. CASE Restart
  BY <1>6 DEF Restart
<1>7. QED
  BY <1>1, <1>2, <1>3, <1>4, <1>5, <1>6, LaneMoves

\* A runner is stored by a lane holder only, and there is one.
LEMMA RunnersStep ==
    ASSUME Shape, LoadsSerialized, LaneGuardsRunners, [NextWithRestart]_vars
    PROVE  LaneGuardsRunners'
<1> USE DEF manager, locks, locals, Shape, ThreadShape, TypeOK, HoldsLane, Goto,
           LoadsSerialized, LaneGuardsRunners, BeforeInsert
<1>1. ASSUME NEW t \in Threads, MaintenanceTick(t)
      PROVE  LaneGuardsRunners'
  BY <1>1 DEF MaintenanceTick, DropThen
<1>2. ASSUME NEW t \in Threads, DropRunners(t)
      PROVE  LaneGuardsRunners'
  BY <1>2 DEF DropRunners
<1>3. ASSUME NEW t \in Threads, Lookup(t)
      PROVE  LaneGuardsRunners'
  BY <1>3 DEF Lookup, LookFor
<1>4. ASSUME NEW t \in Threads, TakeLane(t)
      PROVE  LaneGuardsRunners'
  BY <1>4 DEF TakeLane
<1>5. ASSUME NEW t \in Threads, AnnounceWait(t)
      PROVE  LaneGuardsRunners'
  BY <1>5 DEF AnnounceWait
<1>6. ASSUME NEW t \in Threads, SleepAfterAnnounce(t)
      PROVE  LaneGuardsRunners'
  BY <1>6 DEF SleepAfterAnnounce
<1>7. ASSUME NEW t \in Threads, SleepAgain(t)
      PROVE  LaneGuardsRunners'
  BY <1>7 DEF SleepAgain
<1>8. ASSUME NEW t \in Threads, Relookup(t)
      PROVE  LaneGuardsRunners'
  BY <1>8 DEF Relookup, LookFor
<1>9. ASSUME NEW t \in Threads, AdmissionFits(t)
      PROVE  LaneGuardsRunners'
  BY <1>9 DEF AdmissionFits
<1>10. ASSUME NEW t \in Threads, AdmissionEvicts(t)
      PROVE  LaneGuardsRunners'
  BY <1>10 DEF AdmissionEvicts, DropThen
<1>11. ASSUME NEW t \in Threads, AdmissionDenied(t)
      PROVE  LaneGuardsRunners'
  BY <1>11 DEF AdmissionDenied
<1>12. ASSUME NEW t \in Threads, PeekState(t)
      PROVE  LaneGuardsRunners'
  BY <1>12 DEF PeekState
<1>13. ASSUME NEW t \in Threads, MarkLoading(t)
      PROVE  LaneGuardsRunners'
  BY <1>13 DEF MarkLoading
<1>14. ASSUME NEW t \in Threads, LoadBackend(t)
      PROVE  LaneGuardsRunners'
  BY <1>14 DEF LoadBackend
<1>15. ASSUME NEW t \in Threads, LoadFails(t)
      PROVE  LaneGuardsRunners'
  BY <1>15 DEF LoadFails
<1>16. ASSUME NEW t \in Threads, InsertRunner(t)
      PROVE  LaneGuardsRunners'
  BY <1>16 DEF InsertRunner
<1>17. ASSUME NEW t \in Threads, TouchRuntime(t)
      PROVE  LaneGuardsRunners'
  BY <1>17 DEF TouchRuntime, DropThen
<1>18. ASSUME NEW t \in Threads, SetWarm(t)
      PROVE  LaneGuardsRunners'
  BY <1>18 DEF SetWarm, AfterEnsure
<1>19. ASSUME NEW t \in Threads, LeaveLane(t)
      PROVE  LaneGuardsRunners'
  BY <1>19 DEF LeaveLane
<1>20. ASSUME NEW t \in Threads, SetBusy(t)
      PROVE  LaneGuardsRunners'
  BY <1>20 DEF SetBusy
<1>21. ASSUME NEW t \in Threads, Generate(t)
      PROVE  LaneGuardsRunners'
  BY <1>21 DEF Generate
<1>22. ASSUME NEW t \in Threads, FinishGenerate(t)
      PROVE  LaneGuardsRunners'
  BY <1>22 DEF FinishGenerate
<1>23. ASSUME NEW t \in Threads, MarkReloading(t)
      PROVE  LaneGuardsRunners'
  BY <1>23 DEF MarkReloading
<1>24. ASSUME NEW t \in Threads, InvalidateRunner(t)
      PROVE  LaneGuardsRunners'
  BY <1>24 DEF InvalidateRunner
<1>25. ASSUME NEW t \in Threads, RetryFails(t)
      PROVE  LaneGuardsRunners'
  BY <1>25 DEF RetryFails
<1>26. ASSUME NEW t \in Threads, ReturnToCaller(t)
      PROVE  LaneGuardsRunners'
  BY <1>26 DEF ReturnToCaller
<1>27. ASSUME NEW t \in Threads, SpuriousWakeup(t)
      PROVE  LaneGuardsRunners'
  BY <1>27 DEF SpuriousWakeup
<1>28. ASSUME NEW t \in Threads, NEW m \in Models, StartGenerate(t, m)
      PROVE  LaneGuardsRunners'
  BY <1>28 DEF StartGenerate
<1>29. ASSUME NEW t \in Threads, NEW m \in Models, StartPrewarm(t, m)
      PROVE  LaneGuardsRunners'
  BY <1>29 DEF StartPrewarm
<1>30. ASSUME NEW t \in Threads, NEW m \in Models, ClearState(t, m)
      PROVE  LaneGuardsRunners'
  BY <1>30 DEF ClearState
<1>31. ASSUME NEW m \in Models, KeepWarmElapses(m)
      PROVE  LaneGuardsRunners'
  BY <1>31 DEF KeepWarmElapses
<1>32. CASE Restart
  BY <1>32 DEF Restart
<1>33. CASE UNCHANGED vars
  BY <1>33 DEF vars
<1>34. QED
  BY <1>1, <1>2, <1>3, <1>4, <1>5, <1>6, <1>7, <1>8, <1>9, <1>10, <1>11, <1>12,
     <1>13, <1>14, <1>15, <1>16, <1>17, <1>18, <1>19, <1>20, <1>21, <1>22, <1>23, <1>24,
     <1>25, <1>26, <1>27, <1>28, <1>29, <1>30, <1>31, <1>32, <1>33
  DEF NextWithRestart, Next, EnsureStep, GenerateStep

\* Slots and runners disagree only while a thread is about to reconcile them.
LEMMA AccountStep ==
    ASSUME Shape, RunnersAccountedFor, [NextWithRestart]_vars
    PROVE  RunnersAccountedFor'
<1> USE DEF manager, locks, locals, Shape, TypeOK, Goto, RunnersAccountedFor
<1>1. ASSUME NEW t \in Threads, MaintenanceTick(t)
      PROVE  RunnersAccountedFor'
  BY <1>1 DEF MaintenanceTick, DropThen
<1>2. ASSUME NEW t \in Threads, DropRunners(t)
      PROVE  RunnersAccountedFor'
  BY <1>2 DEF DropRunners
<1>3. ASSUME NEW t \in Threads, Lookup(t)
      PROVE  RunnersAccountedFor'
  BY <1>3 DEF Lookup, LookFor
<1>4. ASSUME NEW t \in Threads, TakeLane(t)
      PROVE  RunnersAccountedFor'
  BY <1>4 DEF TakeLane
<1>5. ASSUME NEW t \in Threads, AnnounceWait(t)
      PROVE  RunnersAccountedFor'
  BY <1>5 DEF AnnounceWait
<1>6. ASSUME NEW t \in Threads, SleepAfterAnnounce(t)
      PROVE  RunnersAccountedFor'
  BY <1>6 DEF SleepAfterAnnounce
<1>7. ASSUME NEW t \in Threads, SleepAgain(t)
      PROVE  RunnersAccountedFor'
  BY <1>7 DEF SleepAgain
<1>8. ASSUME NEW t \in Threads, Relookup(t)
      PROVE  RunnersAccountedFor'
  BY <1>8 DEF Relookup, LookFor
<1>9. ASSUME NEW t \in Threads, AdmissionFits(t)
      PROVE  RunnersAccountedFor'
  BY <1>9 DEF AdmissionFits
<1>10. ASSUME NEW t \in Threads, AdmissionEvicts(t)
      PROVE  RunnersAccountedFor'
  BY <1>10 DEF AdmissionEvicts, DropThen
<1>11. ASSUME NEW t \in Threads, AdmissionDenied(t)
      PROVE  RunnersAccountedFor'
  BY <1>11 DEF AdmissionDenied
<1>12. ASSUME NEW t \in Threads, PeekState(t)
      PROVE  RunnersAccountedFor'
  BY <1>12 DEF PeekState
<1>13. ASSUME NEW t \in Threads, MarkLoading(t)
      PROVE  RunnersAccountedFor'
  BY <1>13 DEF MarkLoading
<1>14. ASSUME NEW t \in Threads, LoadBackend(t)
      PROVE  RunnersAccountedFor'
  BY <1>14 DEF LoadBackend
<1>15. ASSUME NEW t \in Threads, LoadFails(t)
      PROVE  RunnersAccountedFor'
  BY <1>15 DEF LoadFails
<1>16. ASSUME NEW t \in Threads, InsertRunner(t)
      PROVE  RunnersAccountedFor'
  BY <1>16 DEF InsertRunner
<1>17. ASSUME NEW t \in Threads, TouchRuntime(t)
      PROVE  RunnersAccountedFor'
  BY <1>17 DEF TouchRuntime, DropThen
<1>18. ASSUME NEW t \in Threads, SetWarm(t)
      PROVE  RunnersAccountedFor'
  BY <1>18 DEF SetWarm
<1>19. ASSUME NEW t \in Threads, LeaveLane(t)
      PROVE  RunnersAccountedFor'
  BY <1>19 DEF LeaveLane
<1>20. ASSUME NEW t \in Threads, SetBusy(t)
      PROVE  RunnersAccountedFor'
  BY <1>20 DEF SetBusy
<1>21. ASSUME NEW t \in Threads, Generate(t)
      PROVE  RunnersAccountedFor'
  BY <1>21 DEF Generate
<1>22. ASSUME NEW t \in Threads, FinishGenerate(t)
      PROVE  RunnersAccountedFor'
  BY <1>22 DEF FinishGenerate
<1>23. ASSUME NEW t \in Threads, MarkReloading(t)
      PROVE  RunnersAccountedFor'
  BY <1>23 DEF MarkReloading
<1>24. ASSUME NEW t \in Threads, InvalidateRunner(t)
      PROVE  RunnersAccountedFor'
  BY <1>24 DEF InvalidateRunner
<1>25. ASSUME NEW t \in Threads, RetryFails(t)
      PROVE  RunnersAccountedFor'
  BY <1>25 DEF RetryFails
<1>26. ASSUME NEW t \in Threads, ReturnToCaller(t)
      PROVE  RunnersAccountedFor'
  BY <1>26 DEF ReturnToCaller
<1>27. ASSUME NEW t \in Threads, SpuriousWakeup(t)
      PROVE  RunnersAccountedFor'
  BY <1>27 DEF SpuriousWakeup
<1>28. ASSUME NEW t \in Threads, NEW m \in Models, StartGenerate(t, m)
      PROVE  RunnersAccountedFor'
  BY <1>28 DEF StartGenerate
<1>29. ASSUME NEW t \in Threads, NEW m \in Models, StartPrewarm(t, m)
      PROVE  RunnersAccountedFor'
  BY <1>29 DEF StartPrewarm
<1>30. ASSUME NEW t \in Threads, NEW m \in Models, ClearState(t, m)
      PROVE  RunnersAccountedFor'
  BY <1>30 DEF ClearState
<1>31. ASSUME NEW m \in Models, KeepWarmElapses(m)
      PROVE  RunnersAccountedFor'
  BY <1>31 DEF KeepWarmElapses
<1>32. CASE Restart
  BY <1>32 DEF Restart
<1>33. CASE UNCHANGED vars
  BY <1>33 DEF vars
<1>34. QED
  BY <1>1, <1>2, <1>3, <1>4, <1>5, <1>6, <1>7, <1>8, <1>9, <1>10, <1>11, <1>12,
     <1>13, <1>14, <1>15, <1>16, <1>17, <1>18, <1>19, <1>20, <1>21, <1>22, <1>23, <1>24,
     <1>25, <1>26, <1>27, <1>28, <1>29, <1>30, <1>31, <1>32, <1>33
  DEF NextWithRestart, Next, EnsureStep, GenerateStep

\* A thread that writes Loading or Busy writes again before it returns.
LEMMA OwnerStep ==
    ASSUME Shape, StatesOwned, [Next]_vars
    PROVE  StatesOwned'
<1> USE DEF manager, locks, locals, Shape, TypeOK, Goto, StatesOwned, EndsLoading, EndsBusy
<1>1. ASSUME NEW t \in Threads, MaintenanceTick(t)
      PROVE  StatesOwned'
  BY <1>1 DEF MaintenanceTick, DropThen, Retired
<1>2. ASSUME NEW t \in Threads, DropRunners(t)
      PROVE  StatesOwned'
  BY <1>2 DEF DropRunners
<1>3. ASSUME NEW t \in Threads, Lookup(t)
      PROVE  StatesOwned'
  BY <1>3 DEF Lookup, LookFor
<1>4. ASSUME NEW t \in Threads, TakeLane(t)
      PROVE  StatesOwned'
  BY <1>4 DEF TakeLane
<1>5. ASSUME NEW t \in Threads, AnnounceWait(t)
      PROVE  StatesOwned'
  BY <1>5 DEF AnnounceWait
<1>6. ASSUME NEW t \in Threads, SleepAfterAnnounce(t)
      PROVE  StatesOwned'
  BY <1>6 DEF SleepAfterAnnounce
<1>7. ASSUME NEW t \in Threads, SleepAgain(t)
      PROVE  StatesOwned'
  BY <1>7 DEF SleepAgain
<1>8. ASSUME NEW t \in Threads, Relookup(t)
      PROVE  StatesOwned'
  BY <1>8 DEF Relookup, LookFor
<1>9. ASSUME NEW t \in Threads, AdmissionFits(t)
      PROVE  StatesOwned'
  BY <1>9 DEF AdmissionFits
<1>10. ASSUME NEW t \in Threads, AdmissionEvicts(t)
      PROVE  StatesOwned'
  BY <1>10 DEF AdmissionEvicts, DropThen, Retired
<1>11. ASSUME NEW t \in Threads, AdmissionDenied(t)
      PROVE  StatesOwned'
  BY <1>11 DEF AdmissionDenied
<1>12. ASSUME NEW t \in Threads, PeekState(t)
      PROVE  StatesOwned'
  BY <1>12 DEF PeekState
<1>13. ASSUME NEW t \in Threads, MarkLoading(t)
      PROVE  StatesOwned'
  BY <1>13 DEF MarkLoading, SetState
<1>14. ASSUME NEW t \in Threads, LoadBackend(t)
      PROVE  StatesOwned'
  BY <1>14 DEF LoadBackend
<1>15. ASSUME NEW t \in Threads, LoadFails(t)
      PROVE  StatesOwned'
  BY <1>15 DEF LoadFails, SetState
<1>16. ASSUME NEW t \in Threads, InsertRunner(t)
      PROVE  StatesOwned'
  BY <1>16 DEF InsertRunner
<1>17. ASSUME NEW t \in Threads, TouchRuntime(t)
      PROVE  StatesOwned'
  BY <1>17 DEF TouchRuntime, DropThen, Retired
<1>18. ASSUME NEW t \in Threads, SetWarm(t)
      PROVE  StatesOwned'
  BY <1>18 DEF SetWarm, SetState
<1>19. ASSUME NEW t \in Threads, LeaveLane(t)
      PROVE  StatesOwned'
  BY <1>19 DEF LeaveLane
<1>20. ASSUME NEW t \in Threads, SetBusy(t)
      PROVE  StatesOwned'
  BY <1>20 DEF SetBusy, SetState
<1>21. ASSUME NEW t \in Threads, Generate(t)
      PROVE  StatesOwned'
  BY <1>21 DEF Generate
<1>22. ASSUME NEW t \in Threads, FinishGenerate(t)
      PROVE  StatesOwned'
  BY <1>22 DEF FinishGenerate, SetState
<1>23. ASSUME NEW t \in Threads, MarkReloading(t)
      PROVE  StatesOwned'
  BY <1>23 DEF MarkReloading, SetState
<1>24. ASSUME NEW t \in Threads, InvalidateRunner(t)
      PROVE  StatesOwned'
  BY <1>24 DEF InvalidateRunner
<1>25. ASSUME NEW t \in Threads, RetryFails(t)
      PROVE  StatesOwned'
  BY <1>25 DEF RetryFails, SetState
<1>26. ASSUME NEW t \in Threads, ReturnToCaller(t)
      PROVE  StatesOwned'
  BY <1>26 DEF ReturnToCaller
<1>27. ASSUME NEW t \in Threads, SpuriousWakeup(t)
      PROVE  StatesOwned'
  BY <1>27 DEF SpuriousWakeup
<1>28. ASSUME NEW t \in Threads, NEW m \in Models, StartGenerate(t, m)
      PROVE  StatesOwned'
  BY <1>28 DEF StartGenerate
<1>29. ASSUME NEW t \in Threads, NEW m \in Models, StartPrewarm(t, m)
      PROVE  StatesOwned'
  BY <1>29 DEF StartPrewarm
<1>30. ASSUME NEW t \in Threads, NEW m \in Models, ClearState(t, m)
      PROVE  StatesOwned'
  BY <1>30 DEF ClearState, SetState
<1>31. ASSUME NEW m \in Models, KeepWarmElapses(m)
      PROVE  StatesOwned'
  BY <1>31 DEF KeepWarmElapses
<1>32. CASE UNCHANGED vars
  BY <1>32 DEF vars
<1>33. QED
  BY <1>1, <1>2, <1>3, <1>4, <1>5, <1>6, <1>7, <1>8, <1>9, <1>10, <1>11, <1>12,
     <1>13, <1>14, <1>15, <1>16, <1>17, <1>18, <1>19, <1>20, <1>21, <1>22, <1>23, <1>24,
     <1>25, <1>26, <1>27, <1>28, <1>29, <1>30, <1>31, <1>32
  DEF Next, EnsureStep, GenerateStep

-----------------------------------------------------------------------------
(* The theorems *)

LEMMA ShapeAlways == RestartSpec => []Shape
<1>1. Init => Shape
  BY DEF Init, Shape, ThreadShape, TypeOK, HoldsLane, HoldsNoLane, HoldsPermit, Locations,
         RunnerStates
<1>2. QED
  BY <1>1, ShapeStep, PTL DEF RestartSpec

\* The types hold in every state of the runtime, restarts included.
THEOREM RuntimeTypeCorrect == RestartSpec => []TypeOK
<1>1. Shape => TypeOK
  BY DEF Shape
<1>2. QED
  BY <1>1, ShapeAlways, PTL

\* Loads are serialized (acquire_load_lane and Drop of LoadLanePermit).
THEOREM RuntimeSerializesLoads == RestartSpec => []LoadsSerialized
<1>1. Init => LoadsSerialized
  BY DEF Init, LoadsSerialized
<1>2. QED
  BY <1>1, ShapeAlways, LaneStep, PTL DEF RestartSpec

\* No model is loaded twice (the second lookup of ensure_runner).
THEOREM RuntimeLoadsOnce == RestartSpec => []NoDuplicateLoad
<1>1. Init => LaneGuardsRunners
  BY DEF Init, LaneGuardsRunners
<1>2. LaneGuardsRunners => NoDuplicateLoad
  BY DEF LaneGuardsRunners, NoDuplicateLoad, BeforeInsert
<1>3. QED
  BY <1>1, <1>2, ShapeAlways, RuntimeSerializesLoads, RunnersStep, PTL DEF RestartSpec

\* No runner leaks (mark_runtime_used, the evictions, remove_runners).
THEOREM RuntimeLeaksNoRunner == RestartSpec => []RunnersAccountedFor
<1>1. Init => RunnersAccountedFor
  BY DEF Init, RunnersAccountedFor
<1>2. QED
  BY <1>1, ShapeAlways, AccountStep, PTL DEF RestartSpec

\* Without a restart, Loading and Busy never outlive the call that set them.
THEOREM RuntimeExemptsWorkers == Spec => []ExemptionsHaveWorkers
<1>1. Spec => []Shape
  <2>1. [Next]_vars => [NextWithRestart]_vars
    BY DEF NextWithRestart
  <2>2. QED
    BY <2>1, ShapeAlways, PTL DEF Spec, RestartSpec
<1>2. Init => StatesOwned
  BY DEF Init, StatesOwned
<1>3. StatesOwned => ExemptionsHaveWorkers
  BY DEF StatesOwned, ExemptionsHaveWorkers, EndsLoading, EndsBusy
<1>4. QED
  BY <1>1, <1>2, <1>3, OwnerStep, PTL DEF Spec

-----------------------------------------------------------------------------
(* The request gate *)

GateInv ==
    /\ GateTypeOK
    /\ CountersMatchThreads
    /\ GateBounds
    /\ NoStrandedWaiter

-----------------------------------------------------------------------------
(* The sets of threads the invariant counts, and how one step moves them. *)

\* Every set of request threads the invariant counts is finite.
LEMMA ThreadSetsFinite ==
    /\ IsFiniteSet(Serving) /\ Cardinality(Serving) \in Nat
    /\ IsFiniteSet(At("woken")) /\ Cardinality(At("woken")) \in Nat
    /\ IsFiniteSet(InQueue) /\ Cardinality(InQueue) \in Nat
<1>1. ASSUME NEW S \in SUBSET Requests
      PROVE  IsFiniteSet(S) /\ Cardinality(S) \in Nat
  BY FS_Subset, FS_CardinalityType, GateAssumption
<1>2. /\ Serving \in SUBSET Requests
      /\ At("woken") \in SUBSET Requests
      /\ InQueue \in SUBSET Requests
  BY DEF At, InQueue, Serving
<1>3. QED
  BY <1>1, <1>2

\* Entering a set adds one to its size, leaving it takes one away.
LEMMA Counting ==
    ASSUME NEW S, IsFiniteSet(S), NEW x
    PROVE  /\ Cardinality(S) \in Nat
           /\ Cardinality(S \cup {x}) \in Nat
           /\ Cardinality(S \cup {x}) >= Cardinality(S)
           /\ x \notin S => Cardinality(S \cup {x}) = Cardinality(S) + 1
           /\ Cardinality(S \ {x}) \in Nat
           /\ Cardinality(S \ {x}) >= Cardinality(S) - 1
           /\ x \in S => /\ Cardinality(S \ {x}) = Cardinality(S) - 1
                         /\ Cardinality(S) > 0
<1>1. x \in S => Cardinality(S) # 0
  BY FS_EmptySet
<1>2. /\ Cardinality(S) \in Nat
      /\ Cardinality(S \cup {x}) \in Nat
      /\ Cardinality(S \ {x}) \in Nat
  BY FS_AddElement, FS_RemoveElement, FS_CardinalityType
<1>3. QED
  BY <1>1, <1>2, FS_AddElement, FS_RemoveElement

\* notify_one moves at most one sleeper to "woken" and touches no other set.
LEMMA NotifyOneEffect ==
    ASSUME NEW moved \in [Requests -> GateLocations], NotifyOne(moved)
    PROVE  /\ at' \in [Requests -> GateLocations]
           /\ Serving' = {t \in Requests : moved[t] \in ServingLocations}
           /\ InQueue' = {t \in Requests : moved[t] \in QueueLocations}
           /\ \/ /\ At("waiting")' = {}
                 /\ at' = moved
              \/ \E w \in Requests :
                    /\ moved[w] = "waiting"
                    /\ At("woken")' = {t \in Requests : moved[t] = "woken"} \cup {w}
<1>1. CASE \E w \in Requests : moved[w] = "waiting"
  <2>1. PICK w \in Requests : moved[w] = "waiting" /\ at' = [moved EXCEPT ![w] = "woken"]
    BY <1>1 DEF NotifyOne
  <2>2. /\ Serving' = {t \in Requests : moved[t] \in ServingLocations}
        /\ InQueue' = {t \in Requests : moved[t] \in QueueLocations}
        /\ At("woken")' = {t \in Requests : moved[t] = "woken"} \cup {w}
    BY <2>1 DEF At, InQueue, Serving, QueueLocations, ServingLocations
  <2>3. QED
    BY <2>1, <2>2 DEF QueueLocations, ServingLocations, GateLocations
<1>2. CASE ~ \E w \in Requests : moved[w] = "waiting"
  BY <1>2 DEF NotifyOne, At, InQueue, Serving, QueueLocations, ServingLocations
<1>3. QED
  BY <1>1, <1>2

-----------------------------------------------------------------------------
(* The inductive invariant *)

LEMMA InitInv == GateInit => GateInv
<1> SUFFICES ASSUME GateInit PROVE GateInv
  OBVIOUS
<1>1. Serving = {} /\ InQueue = {} /\ At("waiting") = {}
  BY DEF GateInit, At, InQueue, Serving, QueueLocations, ServingLocations
<1>2. GateTypeOK
  BY DEF GateInit, GateTypeOK, GateLocations
<1>3. CountersMatchThreads
  BY <1>1, FS_EmptySet DEF GateInit, CountersMatchThreads
<1>4. GateBounds /\ NoStrandedWaiter
  BY <1>1, GateAssumption DEF GateInit, GateBounds, NoStrandedWaiter
<1>5. QED
  BY <1>2, <1>3, <1>4 DEF GateInv

LEMMA EnqueueInv ==
    ASSUME GateInv, NEW t \in Requests, Enqueue(t)
    PROVE  GateInv'
<1> USE DEF GateInv, GateTypeOK
<1>1. /\ t \notin InQueue
      /\ InQueue' = InQueue \cup {t}
      /\ Serving' = Serving
      /\ At("waiting")' = At("waiting")
      /\ At("woken")' = At("woken")
  BY DEF Enqueue, At, InQueue, Serving, QueueLocations, ServingLocations, GateLocations
<1>2. GateTypeOK'
  BY DEF Enqueue, hangs, QueueLocations, ServingLocations, GateLocations
<1>3. CountersMatchThreads'
  BY <1>1, ThreadSetsFinite, Counting DEF Enqueue, CountersMatchThreads
<1>4. GateBounds'
  BY GateAssumption DEF Enqueue, GateFull, GateBounds
<1>5. NoStrandedWaiter'
  BY <1>1 DEF Enqueue, NoStrandedWaiter
<1>6. QED
  BY <1>2, <1>3, <1>4, <1>5

LEMMA AdmitInv ==
    ASSUME GateInv, NEW t \in Requests, Admit(t)
    PROVE  GateInv'
<1> USE DEF GateInv, GateTypeOK
<1>1. /\ t \in InQueue /\ t \notin Serving
      /\ InQueue' = InQueue \ {t}
      /\ Serving' = Serving \cup {t}
      /\ At("waiting")' = At("waiting")
      /\ At("woken")' = At("woken") \ {t}
  BY DEF Admit, TestsLoopGuard, At, InQueue, Serving, QueueLocations, ServingLocations, GateLocations
<1>2. queued > 0 /\ Decrement(queued) = queued - 1
  <2>1. Cardinality(InQueue) > 0
    BY <1>1, ThreadSetsFinite, Counting
  <2>2. QED
    BY <2>1 DEF CountersMatchThreads, Decrement
<1>3. GateTypeOK'
  BY <1>2 DEF Admit, hangs, QueueLocations, ServingLocations, GateLocations
<1>4. CountersMatchThreads'
  BY <1>1, <1>2, ThreadSetsFinite, Counting DEF Admit, CountersMatchThreads
<1>5. GateBounds'
  BY <1>2, GateAssumption DEF Admit, GateBounds
<1>6. NoStrandedWaiter'
  <2>1. /\ Cardinality(At("woken")') >= Cardinality(At("woken")) - 1
        /\ Cardinality(At("woken")') \in Nat
    <3>1. Cardinality(At("woken")') = Cardinality(At("woken") \ {t})
      BY <1>1
    <3>2. QED
      BY <3>1, ThreadSetsFinite, Counting
  <2>2. QED
    BY <1>1, <2>1, ThreadSetsFinite, GateAssumption DEF Admit, NoStrandedWaiter
<1>7. QED
  BY <1>3, <1>4, <1>5, <1>6

\* A rejection, a snapshot and the self-deadlock of a permit holder move a
\* thread between places that are counted alike.
LEMMA StayCountedInv ==
    ASSUME GateInv, NEW t \in Requests,
           Reject(t) \/ Snapshot(t) \/ HitWaitsForItself(t)
    PROVE  GateInv' /\ Serving' = Serving /\ InQueue' = InQueue
<1> USE DEF GateInv, GateTypeOK
<1>1. /\ Serving' = Serving
      /\ InQueue' = InQueue
      /\ At("waiting")' = At("waiting")
      /\ At("woken")' = At("woken")
      /\ UNCHANGED <<active, queued>>
  <2>1. CASE Reject(t)
    BY <2>1 DEF Reject, At, InQueue, Serving, QueueLocations, ServingLocations
  <2>2. CASE Snapshot(t)
    BY <2>2 DEF Snapshot, AfterSnapshot, At, InQueue, Serving, QueueLocations, ServingLocations
  <2>3. CASE HitWaitsForItself(t)
    BY <2>3 DEF HitWaitsForItself, At, InQueue, Serving, QueueLocations, ServingLocations
  <2>4. QED
    BY <2>1, <2>2, <2>3
<1>2. GateTypeOK'
  <2>1. CASE Reject(t)
    BY <2>1 DEF Reject, hangs, QueueLocations, ServingLocations, GateLocations
  <2>2. CASE Snapshot(t)
    <3>1. /\ runnersHeld' = runnersHeld /\ gateHeld' \in BOOLEAN
          /\ UNCHANGED <<active, queued, expired>>
      BY <2>2 DEF Snapshot
    <3>2. AfterSnapshot[at[t]] \in GateLocations
      BY <2>2 DEF Snapshot, AfterSnapshot, QueueLocations, ServingLocations, GateLocations
    <3>3. at' = at \/ at' = [at EXCEPT ![t] = AfterSnapshot[at[t]]]
      BY <2>2 DEF Snapshot
    <3>4. at' \in [Requests -> GateLocations]
      BY <3>2, <3>3
    <3>5. QED
      BY <3>1, <3>4
  <2>3. CASE HitWaitsForItself(t)
    BY <2>3 DEF HitWaitsForItself, QueueLocations, ServingLocations, GateLocations
  <2>4. QED
    BY <2>1, <2>2, <2>3
<1>3. CountersMatchThreads' /\ GateBounds' /\ NoStrandedWaiter'
  BY <1>1 DEF CountersMatchThreads, GateBounds, NoStrandedWaiter
<1>4. QED
  BY <1>1, <1>2, <1>3

\* A self-deadlock or a snapshot outside the gate moves no request at all.
LEMMA HangInv ==
    ASSUME GateInv, PrewarmWaitsForItself \/ SnapshotElsewhere
    PROVE  GateInv' /\ Serving' = Serving /\ InQueue' = InQueue
<1>1. /\ UNCHANGED <<active, queued, at, expired>>
      /\ runnersHeld' \in BOOLEAN /\ gateHeld' \in BOOLEAN
  BY DEF PrewarmWaitsForItself, SnapshotElsewhere, GateInv, GateTypeOK
<1>2. Serving' = Serving /\ InQueue' = InQueue
      /\ At("waiting")' = At("waiting") /\ At("woken")' = At("woken")
  BY <1>1 DEF At, InQueue, Serving
<1>3. QED
  BY <1>1, <1>2 DEF GateInv, GateTypeOK, CountersMatchThreads, GateBounds, NoStrandedWaiter

\* Sleep, WaitElapses and SpuriousGateWakeup only move a thread inside the queue.
LEMMA MoveInQueueInv ==
    ASSUME GateInv, NEW t \in Requests,
           Sleep(t) \/ WaitElapses(t) \/ SpuriousGateWakeup(t)
    PROVE  GateInv' /\ Serving' = Serving /\ InQueue' = InQueue
<1> USE DEF GateInv, GateTypeOK
<1>1. /\ Serving' = Serving
      /\ InQueue' = InQueue
      /\ UNCHANGED <<active, queued>>
  BY DEF Sleep, WaitElapses, SpuriousGateWakeup, TestsLoopGuard, At, InQueue, Serving, QueueLocations, ServingLocations, GateLocations
<1>2. GateTypeOK'
  BY DEF Sleep, WaitElapses, SpuriousGateWakeup, hangs, InQueue, QueueLocations, ServingLocations, GateLocations
<1>3. CountersMatchThreads' /\ GateBounds'
  BY <1>1 DEF CountersMatchThreads, GateBounds
<1>4. NoStrandedWaiter'
  <2>1. CASE Sleep(t)
    <3>1. active' >= MaxConcurrent
      BY <2>1 DEF Sleep
    <3>2. Cardinality(At("woken")') \in Nat
      <4>1. At("woken")' = At("woken") \ {t}
        BY <2>1 DEF Sleep, At, TestsLoopGuard
      <4>2. QED
        BY <4>1, ThreadSetsFinite, FS_RemoveElement, FS_CardinalityType
    <3>3. QED
      BY <1>1, <3>1, <3>2, GateAssumption DEF NoStrandedWaiter
  <2>2. CASE WaitElapses(t) \/ SpuriousGateWakeup(t)
    <3>1. /\ At("waiting")' \subseteq At("waiting")
          /\ At("woken")' = At("woken") \/ At("woken")' = At("woken") \cup {t}
      BY <2>2 DEF WaitElapses, SpuriousGateWakeup, At, InQueue, Serving, QueueLocations, ServingLocations
    <3>2. /\ Cardinality(At("woken")') >= Cardinality(At("woken"))
          /\ Cardinality(At("woken")') \in Nat
      <4>1. CASE At("woken")' = At("woken")
        BY <4>1, ThreadSetsFinite
      <4>2. CASE At("woken")' = At("woken") \cup {t}
        <5>1. Cardinality(At("woken")') = Cardinality(At("woken") \cup {t})
          BY <4>2
        <5>2. QED
          BY <5>1, ThreadSetsFinite, Counting
      <4>3. QED
        BY <3>1, <4>1, <4>2
    <3>3. QED
      BY <1>1, <3>1, <3>2, ThreadSetsFinite, GateAssumption DEF NoStrandedWaiter
  <2>3. QED
    BY <2>1, <2>2
<1>5. QED
  BY <1>1, <1>2, <1>3, <1>4

LEMMA GiveUpInv ==
    ASSUME GateInv, NEW t \in Requests, GiveUp(t)
    PROVE  /\ GateInv'
           /\ t \in InQueue
           /\ InQueue' = InQueue \ {t}
           /\ Serving' = Serving
<1> USE DEF GateInv, GateTypeOK
<1> DEFINE moved == [at EXCEPT ![t] = "idle"]
<1>1. moved \in [Requests -> GateLocations] /\ NotifyOne(moved)
  BY DEF GiveUp, QueueLocations, ServingLocations, GateLocations
<1>2. /\ at' \in [Requests -> GateLocations]
      /\ Serving' = {u \in Requests : moved[u] \in ServingLocations}
      /\ InQueue' = {u \in Requests : moved[u] \in QueueLocations}
  BY <1>1, NotifyOneEffect
<1>3. /\ t \in InQueue
      /\ InQueue' = InQueue \ {t}
      /\ Serving' = Serving
  BY <1>2 DEF GiveUp, TestsLoopGuard, At, InQueue, Serving, QueueLocations, ServingLocations, GateLocations
<1>4. queued > 0 /\ Decrement(queued) = queued - 1
  <2>1. Cardinality(InQueue) > 0
    BY <1>3, ThreadSetsFinite, Counting
  <2>2. QED
    BY <2>1 DEF CountersMatchThreads, Decrement
<1>5. GateTypeOK'
  BY <1>2, <1>4 DEF GiveUp, hangs
<1>6. CountersMatchThreads'
  BY <1>3, <1>4, ThreadSetsFinite, Counting DEF GiveUp, CountersMatchThreads
<1>7. GateBounds'
  BY <1>4, GateAssumption DEF GiveUp, GateBounds
<1>8. NoStrandedWaiter'
  <2>1. Cardinality(At("woken")') \in Nat
    <3>1. At("woken")' \in SUBSET Requests
      BY DEF At
    <3>2. QED
      BY <3>1, FS_Subset, FS_CardinalityType, GateAssumption
  <2>2. QED
    BY <2>1, GateAssumption DEF GiveUp, NoStrandedWaiter
<1>9. QED
  BY <1>3, <1>5, <1>6, <1>7, <1>8

LEMMA ReleaseInv ==
    ASSUME GateInv, NEW t \in Requests, ReleasePermit(t)
    PROVE  /\ GateInv'
           /\ t \in Serving
           /\ Serving' = Serving \ {t}
           /\ InQueue' = InQueue
<1> USE DEF GateInv, GateTypeOK
<1> DEFINE moved == [at EXCEPT ![t] = "leaving"]
<1>1. moved \in [Requests -> GateLocations] /\ NotifyOne(moved)
  BY DEF ReleasePermit, QueueLocations, ServingLocations, GateLocations
<1>2. /\ at' \in [Requests -> GateLocations]
      /\ Serving' = {u \in Requests : moved[u] \in ServingLocations}
      /\ InQueue' = {u \in Requests : moved[u] \in QueueLocations}
      /\ \/ At("waiting")' = {}
         \/ \E w \in Requests :
               /\ moved[w] = "waiting"
               /\ At("woken")' = {u \in Requests : moved[u] = "woken"} \cup {w}
  BY <1>1, NotifyOneEffect
<1>3. /\ t \in Serving
      /\ Serving' = Serving \ {t}
      /\ InQueue' = InQueue
  BY <1>2 DEF ReleasePermit, At, InQueue, Serving, QueueLocations, ServingLocations, GateLocations
<1>4. active > 0 /\ Decrement(active) = active - 1
  <2>1. Cardinality(Serving) > 0
    BY <1>3, ThreadSetsFinite, Counting
  <2>2. QED
    BY <2>1 DEF CountersMatchThreads, Decrement
<1>5. GateTypeOK'
  BY <1>2, <1>4 DEF ReleasePermit, hangs
<1>6. CountersMatchThreads'
  BY <1>3, <1>4, ThreadSetsFinite, Counting DEF ReleasePermit, CountersMatchThreads
<1>7. GateBounds'
  BY <1>4, GateAssumption DEF ReleasePermit, GateBounds
<1>8. NoStrandedWaiter'
  <2>1. CASE At("waiting")' = {}
    BY <2>1 DEF NoStrandedWaiter
  <2>2. ASSUME NEW w \in Requests, moved[w] = "waiting",
               At("woken")' = {u \in Requests : moved[u] = "woken"} \cup {w}
        PROVE  NoStrandedWaiter'
    <3>1. w \in At("waiting") /\ w \notin At("woken")
      BY <2>2 DEF ReleasePermit, At
    <3>2. At("woken")' = At("woken") \cup {w}
      BY <2>2 DEF ReleasePermit, At
    <3>3. Cardinality(At("woken")') = Cardinality(At("woken")) + 1
      BY <3>1, <3>2, ThreadSetsFinite, Counting
    <3>4. active + Cardinality(At("woken")) >= MaxConcurrent
      BY <3>1 DEF NoStrandedWaiter
    <3>5. QED
      BY <1>4, <3>3, <3>4, ThreadSetsFinite, GateAssumption
      DEF ReleasePermit, NoStrandedWaiter
  <2>3. QED
    BY <1>2, <2>1, <2>2
<1>9. QED
  BY <1>3, <1>5, <1>6, <1>7, <1>8

LEMMA StutterInv ==
    ASSUME GateInv, UNCHANGED gateVars
    PROVE  GateInv' /\ Serving' = Serving /\ InQueue' = InQueue
<1>1. Serving' = Serving /\ InQueue' = InQueue
      /\ At("waiting")' = At("waiting") /\ At("woken")' = At("woken")
  BY DEF gateVars, At, InQueue, Serving, QueueLocations, ServingLocations
<1>2. QED
  BY <1>1 DEF gateVars, GateInv, GateTypeOK, CountersMatchThreads, GateBounds, NoStrandedWaiter

\* GateInv holds in every reachable state of the gate.
THEOREM GateInvariant == GateSpec => []GateInv
<1>1. GateInit => GateInv
  BY InitInv
<1>2. GateInv /\ [GateNext]_gateVars => GateInv'
  <2> SUFFICES ASSUME GateInv, [GateNext]_gateVars PROVE GateInv'
    OBVIOUS
  <2>1. ASSUME NEW t \in Requests, Reject(t) \/ Snapshot(t) \/ HitWaitsForItself(t)
        PROVE GateInv'
    BY <2>1, StayCountedInv
  <2>2. ASSUME NEW t \in Requests, Enqueue(t) PROVE GateInv'
    BY <2>2, EnqueueInv
  <2>3. ASSUME NEW t \in Requests, Admit(t) PROVE GateInv'
    BY <2>3, AdmitInv
  <2>4. ASSUME NEW t \in Requests, Sleep(t) \/ WaitElapses(t) \/ SpuriousGateWakeup(t)
        PROVE GateInv'
    BY <2>4, MoveInQueueInv
  <2>5. ASSUME NEW t \in Requests, GiveUp(t) PROVE GateInv'
    BY <2>5, GiveUpInv
  <2>6. ASSUME NEW t \in Requests, ReleasePermit(t) PROVE GateInv'
    BY <2>6, ReleaseInv
  <2>7. CASE UNCHANGED gateVars
    BY <2>7, StutterInv
  <2>8. CASE PrewarmWaitsForItself \/ SnapshotElsewhere
    BY <2>8, HangInv
  <2>9. QED
    BY <2>1, <2>2, <2>3, <2>4, <2>5, <2>6, <2>7, <2>8 DEF GateNext
<1>3. QED
  BY <1>1, <1>2, PTL DEF GateSpec

-----------------------------------------------------------------------------
(* The properties of the runs, for all values of the constants *)

\* The variables of the gate keep their types.
THEOREM GateTypeCorrect == GateSpec => []GateTypeOK
<1>1. GateInv => GateTypeOK
  BY DEF GateInv
<1>2. QED
  BY <1>1, GateInvariant, PTL

\* active_requests and queued_requests always equal the threads they count.
THEOREM GateCountersCorrect == GateSpec => []CountersMatchThreads
<1>1. GateInv => CountersMatchThreads
  BY DEF GateInv
<1>2. QED
  BY <1>1, GateInvariant, PTL

\* Never more than max_concurrent_requests served, nor more than that plus
\* max_queue_depth admitted.
THEOREM GateBoundsHold == GateSpec => []GateBounds
<1>1. GateInv => GateBounds
  BY DEF GateInv
<1>2. QED
  BY <1>1, GateInvariant, PTL

\* notify_one on each permit drop and each timeout loses no wakeup.
THEOREM GateLosesNoWakeup == GateSpec => []NoStrandedWaiter
<1>1. GateInv => NoStrandedWaiter
  BY DEF GateInv
<1>2. QED
  BY <1>1, GateInvariant, PTL

\* The instance of BoundedAdmission brings its own copy of Cardinality.
LEMMA AdmissionCardinality ==
    ASSUME NEW S PROVE Admission!Cardinality(S) = Cardinality(S)
BY DEF Admission!Cardinality, Cardinality

\* Two counters, a mutex and a condition variable implement the bounded
\* service with a bounded waiting room that the callers are promised.
THEOREM GateImplementsAdmission == GateSpec => ImplementsAdmission
<1> USE DEF Admission!Arrive, Admission!Grant, Admission!Abandon, Admission!Depart
<1>1. GateInit => Admission!AdmissionInit
  BY DEF GateInit, Admission!AdmissionInit, At, InQueue, Serving, QueueLocations, ServingLocations
<1>2. GateInv /\ [GateNext]_gateVars => [Admission!AdmissionNext]_Admission!avars
  <2> SUFFICES ASSUME GateInv, [GateNext]_gateVars
               PROVE  [Admission!AdmissionNext]_Admission!avars
    OBVIOUS
  <2> USE DEF Admission!AdmissionNext
  <2>0. /\ active \in Nat /\ queued \in Nat
        /\ active = Cardinality(Serving)
        /\ queued = Cardinality(InQueue)
        /\ at \in [Requests -> GateLocations]
    BY DEF GateInv, CountersMatchThreads, GateTypeOK
  <2>1. ASSUME NEW t \in Requests, Reject(t) \/ Snapshot(t) \/ HitWaitsForItself(t)
        PROVE UNCHANGED Admission!avars
    BY <2>1, StayCountedInv DEF Admission!avars
  <2>2. ASSUME NEW t \in Requests, Enqueue(t) PROVE Admission!Arrive(t)
    <3>1. t \notin Serving \cup InQueue
      BY <2>2 DEF Enqueue, At, InQueue, Serving, QueueLocations, ServingLocations
    <3>2. InQueue' = InQueue \cup {t} /\ Serving' = Serving
      BY <2>0, <2>2 DEF Enqueue, At, InQueue, Serving, QueueLocations, ServingLocations
    <3>3. Admission!HasRoom
      BY <2>0, <2>2, AdmissionCardinality, ThreadSetsFinite, GateAssumption
      DEF Enqueue, GateFull, Admission!HasRoom
    <3>4. QED
      BY <3>1, <3>2, <3>3
  <2>3. ASSUME NEW t \in Requests, Admit(t) PROVE Admission!Grant(t)
    <3>1. /\ t \in InQueue
          /\ InQueue' = InQueue \ {t}
          /\ Serving' = Serving \cup {t}
      BY <2>0, <2>3 DEF Admit, TestsLoopGuard, At, InQueue, Serving, QueueLocations, ServingLocations
    <3>2. Admission!HasPlace
      BY <2>0, <2>3, AdmissionCardinality DEF Admit, Admission!HasPlace
    <3>3. QED
      BY <3>1, <3>2
  <2>4. ASSUME NEW t \in Requests, Sleep(t) \/ WaitElapses(t) \/ SpuriousGateWakeup(t)
        PROVE UNCHANGED Admission!avars
    BY <2>4, MoveInQueueInv DEF Admission!avars
  <2>5. ASSUME NEW t \in Requests, GiveUp(t) PROVE Admission!Abandon(t)
    <3>1. ~Admission!HasPlace
      BY <2>0, <2>5, AdmissionCardinality, ThreadSetsFinite, GateAssumption
      DEF GiveUp, Admission!HasPlace
    <3>2. QED
      BY <2>5, <3>1, GiveUpInv
  <2>6. ASSUME NEW t \in Requests, ReleasePermit(t) PROVE Admission!Depart(t)
    BY <2>6, ReleaseInv
  <2>7. CASE UNCHANGED gateVars
    BY <2>7, StutterInv DEF Admission!avars
  <2>8. CASE PrewarmWaitsForItself \/ SnapshotElsewhere
    BY <2>8, HangInv DEF Admission!avars
  <2>9. QED
    BY <2>1, <2>2, <2>3, <2>4, <2>5, <2>6, <2>7, <2>8 DEF GateNext
<1>3. QED
  BY <1>1, <1>2, GateInvariant, PTL DEF GateSpec, ImplementsAdmission, Admission!AdmissionSpec
=============================================================================
