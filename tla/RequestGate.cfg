\* Five threads on two places and two queue positions: the gate is full with
\* one thread to spare, so rejection, barging and timeouts all happen.
\* No symmetry: the run checks liveness.
CHECK_DEADLOCK FALSE
SPECIFICATION GateFairSpec
CONSTANTS
    Requests = {r1, r2, r3, r4, r5}
    MaxConcurrent = 2
    MaxQueueDepth = 2
INVARIANTS
    CountersMatchThreads
    NoStrandedWaiter
PROPERTIES
    QueuedRequestReturns
    ImplementsAdmission
