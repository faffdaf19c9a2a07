---------------------------- MODULE CircuitBreaker ----------------------------
(***************************************************************************)
(* The circuit breaker of ToolUseLoop: one CircuitBreakerState per tool,   *)
(* consulted and updated by execute_tool_call, consulted by the parallel   *)
(* path, and aged at the start of every turn.  A call names its tool       *)
(* exactly or by a misspelling that repair_tool_name corrects; the         *)
(* sequential path asks the breaker before the repair.                     *)
(***************************************************************************)
EXTENDS Integers

CONSTANTS
    Tools,           \* tool names
    ParallelTools,   \* those that may run in the parallel path
    Threshold,       \* CIRCUIT_BREAKER_THRESHOLD (3)
    CooldownTurns,   \* CIRCUIT_BREAKER_COOLDOWN_TURNS (2)
    MaxFailures      \* bound: failures of one tool

ASSUME BreakerAssumption ==
    /\ ParallelTools \subseteq Tools
    /\ Threshold \in Nat \ {0} /\ CooldownTurns \in Nat /\ MaxFailures \in Nat

VARIABLES
    failures,   \* consecutive_failures
    cooldown,   \* cooldown_remaining
    trips,      \* session_trip_count
    permanent,  \* tools with permanently_disabled
    streak,     \* failures in a row, as executed (history variable)
    total       \* failures of the session, as executed (history variable)

vars == <<failures, cooldown, trips, permanent, streak, total>>

Zero == [t \in Tools |-> 0]

Init ==
    /\ failures = Zero /\ cooldown = Zero /\ trips = Zero
    /\ permanent = {}
    /\ streak = Zero /\ total = Zero

\* Cooldowns are decremented once per response of the model.
BeginTurn ==
    /\ cooldown' = [t \in Tools |-> IF cooldown[t] > 0 THEN cooldown[t] - 1 ELSE 0]
    /\ UNCHANGED <<failures, trips, permanent, streak, total>>

CoolingDown(t) == failures[t] >= Threshold /\ cooldown[t] > 0

\* A mistake the checks of this definition must notice: Succeed.
SucceedKeepsFailures(t) ==
    /\ cooldown' = [cooldown EXCEPT ![t] = 0]
    /\ streak' = [streak EXCEPT ![t] = 0]
    /\ UNCHANGED <<failures, trips, permanent, total>>

\* The update after an execution on the sequential path.
Succeed(t) ==
    /\ failures' = [failures EXCEPT ![t] = 0]
    /\ cooldown' = [cooldown EXCEPT ![t] = 0]
    /\ streak' = [streak EXCEPT ![t] = 0]
    /\ UNCHANGED <<trips, permanent, total>>

\* A mistake the checks of this definition must notice: Trip.
TripTooSoon(t) ==
    /\ trips' = [trips EXCEPT ![t] = @ + 1]
    /\ permanent' = IF trips[t] + 2 >= 2 THEN permanent \cup {t} ELSE permanent
    /\ cooldown' = [cooldown EXCEPT ![t] = CooldownTurns]
    /\ failures' = [failures EXCEPT ![t] = 0]

Trip(t) ==
    /\ trips' = [trips EXCEPT ![t] = @ + 1]
    /\ permanent' = IF trips[t] + 1 >= 2 THEN permanent \cup {t} ELSE permanent
    /\ cooldown' = [cooldown EXCEPT ![t] = CooldownTurns]
    /\ failures' = [failures EXCEPT ![t] = 0]

Fail(t) ==
    /\ total[t] < MaxFailures
    /\ IF failures[t] + 1 >= Threshold
       THEN Trip(t)
       ELSE /\ failures' = [failures EXCEPT ![t] = @ + 1]
            /\ UNCHANGED <<cooldown, trips, permanent>>
    /\ streak' = [streak EXCEPT ![t] = @ + 1]
    /\ total' = [total EXCEPT ![t] = @ + 1]

\* The breaker knows the exact name only, a misspelled one passes.
CallByName(t) ==
    /\ t \notin permanent /\ ~CoolingDown(t)
    /\ Succeed(t) \/ Fail(t)

CallByMisspelling(t) == Succeed(t) \/ Fail(t)

\* The parallel path repairs the name first; it asks for the cooldown only
\* and records neither success nor failure.
CallInParallel(t) ==
    /\ t \in ParallelTools
    /\ ~CoolingDown(t)
    /\ UNCHANGED vars

Executes(t) == CallByName(t) \/ CallByMisspelling(t) \/ CallInParallel(t)

Next == BeginTurn \/ \E t \in Tools : Executes(t)

Spec == Init /\ [][Next]_vars

-----------------------------------------------------------------------------
(* Properties *)

\* The variables have the types of their Rust fields.
TypeOK ==
    /\ failures \in [Tools -> Nat] /\ trips \in [Tools -> Nat]
    /\ cooldown \in [Tools -> 0..CooldownTurns]
    /\ permanent \subseteq Tools

\* consecutive_failures is the length of the current run of failures, minus
\* the runs that have tripped the breaker.
FailuresMatchHistory == \A t \in Tools : failures[t] = streak[t] % Threshold

\* A tool is disabled for the session only after two full runs of failures.
PermanentIsEarned ==
    \A t \in Tools :
        /\ t \in permanent <=> trips[t] >= 2
        /\ trips[t] * Threshold <= total[t]
=============================================================================
