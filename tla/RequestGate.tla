----------------------------- MODULE RequestGate -----------------------------
(***************************************************************************)
(* The request gate of LocalRunnerLifecycleManager: acquire_request_permit *)
(* and the Drop of RequestPermit.  A request thread takes the gate mutex   *)
(* once to be counted as queued, and again to wait on gate_cv until a      *)
(* place is free or its waiting time is over.                              *)
(*                                                                         *)
(* Between these it takes the mutex a third time: refresh_live_snapshot    *)
(* locks the runners while it holds the gate.  A caller of ensure_runner   *)
(* that finds its runner and evicts another locks the runners a second     *)
(* time and never lets go; the next snapshot then never lets go of the     *)
(* gate.  runnersHeld and gateHeld record these two ends.                  *)
(*                                                                         *)
(* The metrics and the numbers in the snapshot are diagnostics no decision *)
(* of the gate reads; they are left out.                                   *)
(***************************************************************************)
EXTENDS Integers, FiniteSets

CONSTANTS
    Requests,        \* the threads that call generate()
    MaxConcurrent,   \* gate.max_concurrent_requests
    MaxQueueDepth    \* gate.max_queue_depth

ASSUME GateAssumption ==
    /\ IsFiniteSet(Requests)
    /\ MaxConcurrent \in Nat \ {0}
    /\ MaxQueueDepth \in Nat \ {0}

VARIABLES
    active,       \* gate.active_requests
    queued,       \* gate.queued_requests
    at,           \* where each request thread is
    expired,      \* queued threads for which elapsed >= max_wait
    runnersHeld,  \* a thread that holds the runners waits for itself
    gateHeld      \* a snapshot that holds the gate waits for that thread

hangs == <<runnersHeld, gateHeld>>
gateVars == <<active, queued, at, expired, runnersHeld, gateHeld>>

(***************************************************************************)
(* "idle"     not in the gate                                              *)
(* "counted"  counted in gate.queued_requests, snapshot to be taken        *)
(* "enqueued" snapshot taken, about to lock the gate and test the guard    *)
(* "waiting"  asleep on gate_cv                                            *)
(* "woken"    returned from wait_timeout, about to re-test the guard       *)
(* "admitted" counted in gate.active_requests, snapshot to be taken        *)
(* "active"   holds a RequestPermit                                        *)
(* "stuck"    holds a RequestPermit and waits for itself in ensure_runner  *)
(* "leaving"  rejected or finished, snapshot to be taken                   *)
(***************************************************************************)
QueueLocations == {"counted", "enqueued", "waiting", "woken"}
ServingLocations == {"admitted", "active", "stuck"}
GateLocations == QueueLocations \cup ServingLocations \cup {"idle", "leaving"}

At(l) == {t \in Requests : at[t] = l}
InQueue == {t \in Requests : at[t] \in QueueLocations}
Serving == {t \in Requests : at[t] \in ServingLocations}

GateInit ==
    /\ active = 0
    /\ queued = 0
    /\ at = [t \in Requests |-> "idle"]
    /\ expired = {}
    /\ runnersHeld = FALSE
    /\ gateHeld = FALSE

Decrement(n) == IF n = 0 THEN 0 ELSE n - 1

GateFull == active + queued >= MaxConcurrent + MaxQueueDepth

\* moved is at after the caller's own move; notify_one wakes one
\* sleeper, whichever the system picks, or nobody when none sleeps.
NotifyOne(moved) ==
    IF \E w \in Requests : moved[w] = "waiting"
    THEN \E w \in Requests :
            /\ moved[w] = "waiting"
            /\ at' = [moved EXCEPT ![w] = "woken"]
    ELSE at' = moved

\* The first critical section: "queue is full" or counted as queued.
Reject(t) ==
    /\ ~gateHeld
    /\ at[t] = "idle"
    /\ GateFull
    /\ at' = [at EXCEPT ![t] = "leaving"]
    /\ UNCHANGED <<active, queued, expired, hangs>>

Enqueue(t) ==
    /\ ~gateHeld
    /\ at[t] = "idle"
    /\ ~GateFull
    /\ queued' = queued + 1
    /\ at' = [at EXCEPT ![t] = "counted"]
    /\ UNCHANGED <<active, expired, hangs>>

\* refresh_live_snapshot between two critical sections of a request: once
\* the runners are held for ever it keeps the gate for ever.
AfterSnapshot == [counted |-> "enqueued", admitted |-> "active", leaving |-> "idle"]

Snapshot(t) ==
    /\ ~gateHeld
    /\ at[t] \in DOMAIN AfterSnapshot
    /\ IF runnersHeld
       THEN gateHeld' = TRUE /\ UNCHANGED at
       ELSE at' = [at EXCEPT ![t] = AfterSnapshot[@]] /\ UNCHANGED gateHeld
    /\ UNCHANGED <<active, queued, expired, runnersHeld>>

\* The loop of the second critical section, one action per way round it.
TestsLoopGuard(t) == ~gateHeld /\ at[t] \in {"enqueued", "woken"}

\* A mistake the checks of this definition must notice: Admit.
AdmitUnbounded(t) ==
    /\ TestsLoopGuard(t)
    /\ queued' = Decrement(queued)
    /\ active' = active + 1
    /\ at' = [at EXCEPT ![t] = "admitted"]
    /\ expired' = expired \ {t}
    /\ UNCHANGED hangs

Admit(t) ==
    /\ TestsLoopGuard(t)
    /\ active < MaxConcurrent
    /\ queued' = Decrement(queued)
    /\ active' = active + 1
    /\ at' = [at EXCEPT ![t] = "admitted"]
    /\ expired' = expired \ {t}
    /\ UNCHANGED hangs

\* A mistake the checks of this definition must notice: Sleep.
SleepBeyondDeadline(t) ==
    /\ TestsLoopGuard(t)
    /\ active >= MaxConcurrent
    /\ at' = [at EXCEPT ![t] = "waiting"]
    /\ UNCHANGED <<active, queued, expired, hangs>>

Sleep(t) ==
    /\ TestsLoopGuard(t)
    /\ active >= MaxConcurrent
    /\ t \notin expired
    /\ at' = [at EXCEPT ![t] = "waiting"]
    /\ UNCHANGED <<active, queued, expired, hangs>>

\* A mistake the checks of this definition must notice: GiveUp.
GiveUpStillCounted(t) ==
    /\ TestsLoopGuard(t)
    /\ active >= MaxConcurrent
    /\ t \in expired
    /\ NotifyOne([at EXCEPT ![t] = "idle"])
    /\ expired' = expired \ {t}
    /\ UNCHANGED <<active, queued, hangs>>

\* elapsed >= max_wait: leave the queue and pass a possible wakeup on.  The
\* one way out that takes no snapshot.
GiveUp(t) ==
    /\ TestsLoopGuard(t)
    /\ active >= MaxConcurrent
    /\ t \in expired
    /\ queued' = Decrement(queued)
    /\ NotifyOne([at EXCEPT ![t] = "idle"])
    /\ expired' = expired \ {t}
    /\ UNCHANGED <<active, hangs>>

\* max_wait runs out while the thread is in its wait loop; a sleeper returns
\* from wait_timeout, another thread notices when it next tests the guard.
WaitElapses(t) ==
    /\ t \in InQueue \ expired
    /\ at[t] # "counted"
    /\ expired' = expired \cup {t}
    /\ at' = [at EXCEPT ![t] = IF @ = "waiting" THEN "woken" ELSE @]
    /\ UNCHANGED <<active, queued, hangs>>

\* A condition variable may also return for no reason.
SpuriousGateWakeup(t) ==
    /\ at[t] = "waiting"
    /\ at' = [at EXCEPT ![t] = "woken"]
    /\ UNCHANGED <<active, queued, expired, hangs>>

\* A mistake the checks of this definition must notice: ReleasePermit.
ReleasePermitSilently(t) ==
    /\ ~gateHeld
    /\ at[t] = "active"
    /\ active' = Decrement(active)
    /\ at' = [at EXCEPT ![t] = "leaving"]
    /\ UNCHANGED <<queued, expired, hangs>>

\* Drop of RequestPermit, on every way out of generate().
ReleasePermit(t) ==
    /\ ~gateHeld
    /\ at[t] = "active"
    /\ active' = Decrement(active)
    /\ NotifyOne([at EXCEPT ![t] = "leaving"])
    /\ UNCHANGED <<queued, expired, hangs>>

\* The hit branch of ensure_runner holds the runners of its if-let while
\* touch_runtime evicts another model, which locks them again: in a request
\* with its permit, or in prewarm, which takes none.
HitWaitsForItself(t) ==
    /\ ~runnersHeld
    /\ at[t] = "active"
    /\ runnersHeld' = TRUE
    /\ at' = [at EXCEPT ![t] = "stuck"]
    /\ UNCHANGED <<active, queued, expired, gateHeld>>

PrewarmWaitsForItself ==
    /\ ~runnersHeld
    /\ runnersHeld' = TRUE
    /\ UNCHANGED <<active, queued, at, expired, gateHeld>>

\* Every other snapshot: the public one, those of the load lane and of
\* remove_runners.  While the runners come free again it changes nothing here.
SnapshotElsewhere ==
    /\ runnersHeld
    /\ ~gateHeld
    /\ gateHeld' = TRUE
    /\ UNCHANGED <<active, queued, at, expired, runnersHeld>>

GateNext ==
    \/ \E t \in Requests :
          \/ Reject(t) \/ Enqueue(t) \/ Snapshot(t)
          \/ Admit(t) \/ Sleep(t) \/ GiveUp(t)
          \/ WaitElapses(t) \/ SpuriousGateWakeup(t)
          \/ ReleasePermit(t) \/ HitWaitsForItself(t)
    \/ PrewarmWaitsForItself
    \/ SnapshotElsewhere

GateSpec == GateInit /\ [][GateNext]_gateVars

\* A queued thread that can take the mutex takes a step, and time passes.
\* A thread that can no longer take it owes nothing, nor does a generation
\* owe an end or a caller a new request.
GateFairSpec ==
    /\ GateSpec
    /\ \A t \in Requests :
          /\ WF_gateVars(t \in InQueue /\ Snapshot(t))
          /\ WF_gateVars(Admit(t) \/ Sleep(t) \/ GiveUp(t))
          /\ WF_gateVars(WaitElapses(t))

-----------------------------------------------------------------------------
(* Properties *)

\* The variables have the types of their Rust fields.
GateTypeOK ==
    /\ active \in Nat
    /\ queued \in Nat
    /\ at \in [Requests -> GateLocations]
    /\ expired \in SUBSET Requests
    /\ runnersHeld \in BOOLEAN
    /\ gateHeld \in BOOLEAN

\* Neither counter drifts from the threads it counts, whatever order of
\* admissions, timeouts and permit drops: saturating_sub hides no mismatch.
CountersMatchThreads ==
    /\ active = Cardinality(Serving)
    /\ queued = Cardinality(InQueue)

\* The limits hold at every instant although the admission test and the
\* promotion from queued to active are two critical sections.
GateBounds ==
    /\ active <= MaxConcurrent
    /\ active + queued <= MaxConcurrent + MaxQueueDepth

\* No wakeup is lost: when threads sleep on gate_cv, every free place is
\* matched by a woken thread that will test the guard, although notify_one
\* may pick a thread whose wait has expired and newcomers may barge in.
NoStrandedWaiter ==
    At("waiting") # {} => active + Cardinality(At("woken")) >= MaxConcurrent

\* A queued request gets its permit or its timeout even if no running
\* generation ever finishes, and even while the runners are held for ever;
\* only a snapshot that waits for those runners with the gate in its hand
\* keeps the request in the queue.
QueuedRequestReturns ==
    \A t \in Requests :
        t \in InQueue ~> (t \notin InQueue \/ (runnersHeld /\ gateHeld))

\* The gate implements bounded admission; counters are read as sets.
Admission == INSTANCE BoundedAdmission WITH
    serving <- Serving,
    room <- InQueue

ImplementsAdmission == Admission!AdmissionSpec
=============================================================================
