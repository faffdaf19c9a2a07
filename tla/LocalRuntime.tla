----------------------------- MODULE LocalRuntime -----------------------------
(***************************************************************************)
(* The local model runtime: LocalRunnerLifecycleManager (ensure_runner,    *)
(* generate, prewarm, maintenance_tick, the load lane) over the slots and  *)
(* runner states of ModelManager.  One action is one critical section of   *)
(* one mutex, so the other threads run between any two of them.            *)
(*                                                                         *)
(* The request gate appears as what RequestGate implements: a set of       *)
(* permits that never exceeds MaxPermits.  last_used_epoch_secs has a      *)
(* resolution of one second and is abstracted to "inside the keep-warm     *)
(* window or not", so the eviction order among candidates is any order.    *)
(* Metrics, events and the live snapshot, which no decision reads, are     *)
(* left out.                                                               *)
(*                                                                         *)
(* A hit in the runners map is an "if let" on the locked map: Rust keeps   *)
(* the guard alive to the end of the branch, so the thread touches the     *)
(* model and marks it warm with the runners mutex held.                    *)
(***************************************************************************)
EXTENDS Integers, FiniteSets

CONSTANTS
    Threads,         \* callers of generate() and prewarm()
    Models,          \* model ids
    NoModel,         \* load_lane.active_model = None
    MaxPermits,      \* permits of the request gate
    MaxLoaded        \* runtime_policy.max_loaded_models

ASSUME RuntimeAssumption ==
    /\ IsFiniteSet(Threads) /\ IsFiniteSet(Models)
    /\ NoModel \notin Models
    /\ MaxPermits \in Nat \ {0}
    /\ MaxLoaded \in Nat \ {0}

VARIABLES
    runners,    \* models with a backend in the runners map
    slots,      \* runtime_slots of the ModelManager
    fresh,      \* slots used within the keep-warm window
    state,      \* runtime_runner_states, "none" for an absent entry
    lane,       \* load_lane.active_model
    permits,    \* threads inside generate()
    holders,    \* threads in a hit branch, which hold the runners mutex
    pc,         \* the next critical section of each thread
    target,     \* the model each thread works for
    victims,    \* evicted models whose runners the thread still has to drop
    ret,        \* where a thread goes on after dropping its victims
    inLane,     \* threads that hold a LoadLanePermit
    retrying    \* threads in the second attempt of generate()

manager == <<slots, fresh, state>>
locks == <<lane, inLane, permits, holders>>
locals == <<target, victims, ret, retrying>>
vars == <<runners, manager, locks, pc, locals>>

RunnerStates == {"none", "Loading", "Warm", "Busy", "Reloading", "Expiring", "Failed"}
Locations == {"idle", "tick", "lookup", "lane", "announce", "asleep", "woken",
              "relookup", "admission", "peek", "markLoading", "load", "insert", "touch",
              "drop", "clear", "warm", "fail", "leaveLane", "busy", "generate",
              "finish", "reload", "invalidate", "giveUp", "return"}

Init ==
    /\ runners = {} /\ slots = {} /\ fresh = {}
    /\ state = [m \in Models |-> "none"]
    /\ lane = NoModel
    /\ permits = {}
    /\ pc = [t \in Threads |-> "idle"]
    /\ target = [t \in Threads |-> NoModel]
    /\ victims = [t \in Threads |-> {}]
    /\ ret = [t \in Threads |-> "idle"]
    /\ inLane = {} /\ retrying = {} /\ holders = {}

Goto(t, l) == pc' = [pc EXCEPT ![t] = l]

\* The runners mutex can be taken; it is not reentrant.
RunnersFree == holders = {}

Evictable(m) == state[m] \notin {"Loading", "Busy", "Reloading"}
Retired(out) == [m \in Models |-> IF m \in out THEN "Expiring" ELSE state[m]]
SetState(m, s) == state' = [state EXCEPT ![m] = s]

\* Where a successful ensure_runner returns to: generate() goes on, prewarm()
\* is done.
AfterEnsure(t) == IF t \in permits THEN "busy" ELSE "return"

\* A mistake the checks of this definition must notice: DropThen.
ForgetVictims(t, out, l) == Goto(t, l) /\ UNCHANGED <<victims, ret>>

\* remove_runners(&out) does nothing for an empty list.
DropThen(t, out, l) ==
    /\ victims' = [victims EXCEPT ![t] = out]
    /\ ret' = [ret EXCEPT ![t] = l]
    /\ Goto(t, IF out = {} THEN l ELSE "drop")

-----------------------------------------------------------------------------
(* Entry points *)

StartGenerate(t, m) ==
    /\ pc[t] = "idle"
    /\ Cardinality(permits) < MaxPermits
    /\ permits' = permits \cup {t}
    /\ target' = [target EXCEPT ![t] = m]
    /\ Goto(t, "tick")
    /\ UNCHANGED <<runners, manager, lane, inLane, holders, victims, ret, retrying>>

StartPrewarm(t, m) ==
    /\ pc[t] = "idle"
    /\ target' = [target EXCEPT ![t] = m]
    /\ Goto(t, "lookup")
    /\ UNCHANGED <<runners, manager, locks, victims, ret, retrying>>

\* evict_idle_runtime_models_at: every slot outside the window goes, unless
\* its runner state says that it is in use.
IdleVictims(in) == {m \in in \ fresh : Evictable(m)}

MaintenanceTick(t) ==
    /\ pc[t] = "tick"
    /\ LET out == IdleVictims(slots) IN
          /\ slots' = slots \ out
          /\ state' = Retired(out)
          /\ DropThen(t, out, "lookup")
    /\ UNCHANGED <<runners, fresh, locks, target, retrying>>

-----------------------------------------------------------------------------
(* remove_runners_inner: first the map entries (with a cancel to each backend),
   then, model by model, the runner state *)

DropRunners(t) ==
    /\ pc[t] = "drop"
    /\ RunnersFree
    /\ runners' = runners \ victims[t]
    /\ Goto(t, "clear")
    /\ UNCHANGED <<manager, locks, locals>>

ClearState(t, m) ==
    /\ pc[t] = "clear"
    /\ m \in victims[t]
    /\ SetState(m, "none")
    /\ victims' = [victims EXCEPT ![t] = @ \ {m}]
    /\ Goto(t, IF victims'[t] = {} THEN ret[t] ELSE "clear")
    /\ UNCHANGED <<runners, slots, fresh, locks, target, ret, retrying>>

-----------------------------------------------------------------------------
(* ensure_runner and acquire_load_lane *)

LookFor(t, miss) ==
    /\ RunnersFree
    /\ IF target[t] \in runners
       THEN Goto(t, "touch") /\ holders' = {t}
       ELSE Goto(t, miss) /\ UNCHANGED holders
    /\ UNCHANGED <<runners, manager, lane, inLane, permits, locals>>

Lookup(t) == pc[t] = "lookup" /\ LookFor(t, "lane")

\* A mistake the checks of this definition must notice: LaneFree.
LaneUnguarded == TRUE

LaneFree == lane = NoModel

TakeLane(t) ==
    /\ pc[t] \in {"lane", "woken"}
    /\ LaneFree
    /\ lane' = target[t]
    /\ inLane' = inLane \cup {t}
    /\ Goto(t, "relookup")
    /\ UNCHANGED <<runners, manager, permits, holders, locals>>

\* First sight of a taken lane: count the waiter, release the mutex and
\* publish a snapshot.
AnnounceWait(t) ==
    /\ pc[t] = "lane"
    /\ ~LaneFree
    /\ Goto(t, "announce")
    /\ UNCHANGED <<runners, manager, locks, locals>>

\* The mutex is taken again and the thread waits without another look at
\* active_model.
SleepAfterAnnounce(t) ==
    /\ pc[t] = "announce"
    /\ Goto(t, "asleep")
    /\ UNCHANGED <<runners, manager, locks, locals>>

SleepAgain(t) ==
    /\ pc[t] = "woken"
    /\ ~LaneFree
    /\ Goto(t, "asleep")
    /\ UNCHANGED <<runners, manager, locks, locals>>

\* A mistake the checks of this definition must notice: Relookup.
RelookupSkipped(t) ==
    /\ pc[t] = "relookup"
    /\ Goto(t, "admission")
    /\ UNCHANGED <<runners, manager, locks, locals>>

Relookup(t) == pc[t] = "relookup" /\ LookFor(t, "admission")

\* check_model_fits: the memory probe may answer anything.
AdmissionFits(t) ==
    /\ pc[t] = "admission"
    /\ Goto(t, "peek")
    /\ UNCHANGED <<runners, manager, locks, locals>>

\* evict_one_runtime_model_for_memory_pressure: another evictable model, or
\* the target itself when there is no other.
PressureVictims(m) ==
    LET others == {c \in slots \ {m} : Evictable(c)}
    IN  IF others # {} THEN others ELSE {c \in slots : Evictable(c)}

AdmissionEvicts(t) ==
    /\ pc[t] = "admission"
    /\ \E v \in PressureVictims(target[t]) :
          /\ slots' = slots \ {v}
          /\ fresh' = fresh \ {v}
          /\ state' = Retired({v})
          /\ DropThen(t, {v}, "admission")
    /\ UNCHANGED <<runners, locks, target, retrying>>

AdmissionDenied(t) ==
    /\ pc[t] = "admission"
    /\ PressureVictims(target[t]) = {}
    /\ ret' = [ret EXCEPT ![t] = "return"]
    /\ Goto(t, "leaveLane")
    /\ UNCHANGED <<runners, manager, locks, target, victims, retrying>>

\* A reload keeps "Reloading"; the state is read in one critical section and
\* overwritten in the next.
PeekState(t) ==
    /\ pc[t] = "peek"
    /\ Goto(t, IF state[target[t]] = "Reloading" THEN "load" ELSE "markLoading")
    /\ UNCHANGED <<runners, manager, locks, locals>>

MarkLoading(t) ==
    /\ pc[t] = "markLoading"
    /\ SetState(target[t], "Loading")
    /\ Goto(t, "load")
    /\ UNCHANGED <<runners, slots, fresh, locks, locals>>

\* loader.load_backend, outside every mutex.
LoadBackend(t) ==
    /\ pc[t] = "load"
    /\ \E l \in {"insert", "fail"} : Goto(t, l)
    /\ UNCHANGED <<runners, manager, locks, locals>>

LoadFails(t) ==
    /\ pc[t] = "fail"
    /\ SetState(target[t], "Failed")
    /\ ret' = [ret EXCEPT ![t] = "return"]
    /\ Goto(t, "leaveLane")
    /\ UNCHANGED <<runners, slots, fresh, locks, target, victims, retrying>>

InsertRunner(t) ==
    /\ pc[t] = "insert"
    /\ RunnersFree
    /\ runners' = runners \cup {target[t]}
    /\ Goto(t, "touch")
    /\ UNCHANGED <<manager, locks, locals>>

\* mark_runtime_used_at: while there are more slots than the cap, another
\* evictable slot goes, and the used one itself when no other is evictable.
CapacityVictims(in, m) ==
    LET others == {c \in in \ {m} : Evictable(c)}
        excess == Cardinality(in) - MaxLoaded
    IN  IF excess <= 0 THEN {{}}
        ELSE IF Cardinality(others) >= excess
             THEN {out \in SUBSET others : Cardinality(out) = excess}
             ELSE {others \cup {c \in {m} : Evictable(c)}}

TouchRuntime(t) ==
    /\ pc[t] = "touch"
    /\ LET m == target[t]
           used == slots \cup {m}
       IN  \E over \in CapacityVictims(used, m) :
              LET idle == IdleVictims((used \ over) \ {m}) IN
              /\ slots' = (used \ over) \ idle
              /\ fresh' = (fresh \cup {m}) \ over
              /\ state' = Retired(over \cup idle)
              /\ DropThen(t, over \cup idle, "warm")
    /\ UNCHANGED <<runners, locks, target, retrying>>

SetWarm(t) ==
    /\ pc[t] = "warm"
    /\ SetState(target[t], "Warm")
    /\ ret' = [ret EXCEPT ![t] = AfterEnsure(t)]
    /\ Goto(t, IF t \in inLane THEN "leaveLane" ELSE AfterEnsure(t))
    /\ holders' = holders \ {t}
    /\ UNCHANGED <<runners, slots, fresh, lane, inLane, permits, target, victims, retrying>>

\* Drop of LoadLanePermit: compares model ids, then notify_all.
LeaveLane(t) ==
    /\ pc[t] = "leaveLane"
    /\ inLane' = inLane \ {t}
    /\ LET woken == IF lane = target[t] THEN {w \in Threads : pc[w] = "asleep"} ELSE {}
       IN  /\ lane' = IF lane = target[t] THEN NoModel ELSE lane
           /\ pc' = [u \in Threads |->
                        IF u = t THEN ret[t] ELSE IF u \in woken THEN "woken" ELSE pc[u]]
    /\ UNCHANGED <<runners, manager, permits, holders, locals>>

SpuriousWakeup(t) ==
    /\ pc[t] = "asleep"
    /\ Goto(t, "woken")
    /\ UNCHANGED <<runners, manager, locks, locals>>

-----------------------------------------------------------------------------
(* generate, with its single reload and retry *)

SetBusy(t) ==
    /\ pc[t] = "busy"
    /\ SetState(target[t], "Busy")
    /\ Goto(t, "generate")
    /\ UNCHANGED <<runners, slots, fresh, locks, locals>>

\* backend.generate, outside every mutex.
Generate(t) ==
    /\ pc[t] = "generate"
    /\ \/ Goto(t, "finish")
       \/ Goto(t, IF t \in retrying THEN "giveUp" ELSE "reload")
    /\ UNCHANGED <<runners, manager, locks, locals>>

\* A mistake the checks of this definition must notice: FinishGenerate.
FinishGenerateStaysBusy(t) ==
    /\ pc[t] = "finish"
    /\ Goto(t, "return")
    /\ UNCHANGED <<runners, manager, locks, locals>>

FinishGenerate(t) ==
    /\ pc[t] = "finish"
    /\ SetState(target[t], "Warm")
    /\ Goto(t, "return")
    /\ UNCHANGED <<runners, slots, fresh, locks, locals>>

MarkReloading(t) ==
    /\ pc[t] = "reload"
    /\ SetState(target[t], "Reloading")
    /\ Goto(t, "invalidate")
    /\ UNCHANGED <<runners, slots, fresh, locks, locals>>

\* invalidate_runner keeps the slot and the state.
InvalidateRunner(t) ==
    /\ pc[t] = "invalidate"
    /\ RunnersFree
    /\ runners' = runners \ {target[t]}
    /\ retrying' = retrying \cup {t}
    /\ Goto(t, "lookup")
    /\ UNCHANGED <<manager, locks, target, victims, ret>>

RetryFails(t) ==
    /\ pc[t] = "giveUp"
    /\ SetState(target[t], "Failed")
    /\ Goto(t, "return")
    /\ UNCHANGED <<runners, slots, fresh, locks, locals>>

\* Every way out of generate() drops its RequestPermit; prewarm() has none.
ReturnToCaller(t) ==
    /\ pc[t] = "return"
    /\ permits' = permits \ {t}
    /\ retrying' = retrying \ {t}
    /\ target' = [target EXCEPT ![t] = NoModel]
    /\ ret' = [ret EXCEPT ![t] = "idle"]
    /\ Goto(t, "idle")
    /\ UNCHANGED <<runners, manager, lane, inLane, holders, victims>>

-----------------------------------------------------------------------------
(* The environment: time, and a crash that leaves only runtime_state.json *)

KeepWarmElapses(m) ==
    /\ m \in slots \cap fresh
    /\ fresh' = fresh \ {m}
    /\ UNCHANGED <<runners, slots, state, locks, pc, locals>>

Restart ==
    /\ runners' = {} /\ lane' = NoModel /\ inLane' = {} /\ permits' = {} /\ holders' = {}
    /\ pc' = [t \in Threads |-> "idle"]
    /\ target' = [t \in Threads |-> NoModel]
    /\ victims' = [t \in Threads |-> {}]
    /\ ret' = [t \in Threads |-> "idle"]
    /\ retrying' = {}
    /\ UNCHANGED manager

EnsureStep(t) ==
    \/ MaintenanceTick(t) \/ DropRunners(t) \/ \E m \in Models : ClearState(t, m)
    \/ Lookup(t) \/ TakeLane(t) \/ AnnounceWait(t) \/ SleepAfterAnnounce(t) \/ SleepAgain(t)
    \/ Relookup(t) \/ AdmissionFits(t) \/ AdmissionEvicts(t) \/ AdmissionDenied(t)
    \/ PeekState(t) \/ MarkLoading(t) \/ LoadBackend(t) \/ LoadFails(t) \/ InsertRunner(t)
    \/ TouchRuntime(t) \/ SetWarm(t) \/ LeaveLane(t)

GenerateStep(t) ==
    \/ SetBusy(t) \/ Generate(t) \/ FinishGenerate(t)
    \/ MarkReloading(t) \/ InvalidateRunner(t) \/ RetryFails(t) \/ ReturnToCaller(t)

Next ==
    \/ \E t \in Threads, m \in Models : StartGenerate(t, m) \/ StartPrewarm(t, m)
    \/ \E t \in Threads : EnsureStep(t) \/ GenerateStep(t) \/ SpuriousWakeup(t)
    \/ \E m \in Models : KeepWarmElapses(m)

NextWithRestart == Next \/ Restart

Spec == Init /\ [][Next]_vars
RestartSpec == Init /\ [][NextWithRestart]_vars

-----------------------------------------------------------------------------
(* Properties *)

\* The variables have the types of their Rust counterparts.
TypeOK ==
    /\ runners \subseteq Models /\ slots \subseteq Models /\ fresh \subseteq slots
    /\ state \in [Models -> RunnerStates]
    /\ lane \in Models \cup {NoModel}
    /\ inLane \subseteq Threads /\ holders \subseteq Threads
    /\ permits \subseteq Threads /\ retrying \subseteq permits
    /\ pc \in [Threads -> Locations]
    /\ target \in [Threads -> Models \cup {NoModel}]
    /\ victims \in [Threads -> SUBSET Models]
    /\ ret \in [Threads -> Locations]

\* Loads are serialized: one thread at a time is past acquire_load_lane, and
\* active_model names its model, although LoadLanePermit::drop recognises its
\* own turn by the model id alone.
LoadsSerialized ==
    /\ \A t, u \in inLane : t = u
    /\ \A t \in inLane : lane = target[t]
    /\ lane # NoModel => inLane # {}

\* Concurrent requests for one model share one load: nobody loads a model
\* that already has a runner, so or_insert_with never discards a backend.
NoDuplicateLoad ==
    \A t \in Threads : pc[t] \in {"load", "insert"} => target[t] \notin runners

\* No runner leaks: one without a slot, which no eviction would find, is about
\* to get the slot or to be dropped.  Slots and runners change in different
\* critical sections of different threads, in any order.
RunnersAccountedFor ==
    \A m \in runners \ slots : \E t \in Threads :
        \/ pc[t] = "touch" /\ target[t] = m
        \/ pc[t] = "drop" /\ m \in victims[t]

\* Loading and Busy exempt a slot from eviction; some thread is then working
\* for the model and will overwrite the state.
ExemptionsHaveWorkers ==
    \A m \in Models : state[m] \in {"Loading", "Busy"} =>
        \E t \in Threads : target[t] = m /\ pc[t] # "return"
=============================================================================
