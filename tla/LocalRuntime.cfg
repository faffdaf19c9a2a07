\* Two threads on two models with room for one: every interleaving of two
\* calls, eviction of the other caller's model included.
\* CHECK_DEADLOCK FALSE: the code can stop here. A cache hit that evicts another
\* model waits for the runners mutex its own thread holds, and a waiter of the
\* load lane can miss its notification.
SPECIFICATION Spec
CONSTANTS
    Threads = {t1, t2}
    Models = {m1, m2}
    NoModel = NoModel
    MaxPermits = 2
    MaxLoaded = 1
SYMMETRY Symmetry
INVARIANTS
    RunnersAccountedFor
    ExemptionsHaveWorkers
    LoadsSerialized
    NoDuplicateLoad
CHECK_DEADLOCK FALSE
