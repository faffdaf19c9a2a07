-------------------------- MODULE BoundedAdmission --------------------------
(***************************************************************************)
(* What the request gate of the local model runtime promises its callers:  *)
(* a bounded service with a bounded waiting room.  It knows nothing of     *)
(* counters, mutexes or condition variables; RequestGate implements it.    *)
(***************************************************************************)
EXTENDS Integers, FiniteSets

CONSTANTS
    Requests,        \* the threads that call generate()
    MaxConcurrent,   \* requests served at once
    MaxQueueDepth    \* requests that may wait beyond those

VARIABLES
    serving,   \* requests that hold a permit
    room       \* requests in the waiting room

avars == <<serving, room>>

AdmissionInit ==
    /\ serving = {}
    /\ room = {}

HasRoom == Cardinality(serving) + Cardinality(room) < MaxConcurrent + MaxQueueDepth
HasPlace == Cardinality(serving) < MaxConcurrent

Arrive(t) ==
    /\ t \notin serving \cup room
    /\ HasRoom
    /\ room' = room \cup {t}
    /\ UNCHANGED serving

Grant(t) ==
    /\ t \in room
    /\ HasPlace
    /\ room' = room \ {t}
    /\ serving' = serving \cup {t}

\* A request leaves the waiting room unserved only while every place is taken.
Abandon(t) ==
    /\ t \in room
    /\ ~HasPlace
    /\ room' = room \ {t}
    /\ UNCHANGED serving

Depart(t) ==
    /\ t \in serving
    /\ serving' = serving \ {t}
    /\ UNCHANGED room

AdmissionNext ==
    \E t \in Requests : Arrive(t) \/ Grant(t) \/ Abandon(t) \/ Depart(t)

AdmissionSpec == AdmissionInit /\ [][AdmissionNext]_avars
=============================================================================
