\* Every initial phase and every kind of call; the conversation stops when its user turns are used up.
\* CHECK_DEADLOCK FALSE for the same reason.
SPECIFICATION FairSpec
CONSTANTS
    CompactionFloor = 3
    FollowupFloor = 2
    MaxTurns = 2
    MaxNudges = 1
    MaxTruncations = 1
    MaxVerbosity = 1
    ExploreReads = 1
    ExecuteEdits = 2
    ReminderInterval = 2
    RetrievalInterval = 2
    InitialPhases = {"none", "Explore", "Plan", "Execute", "Verify"}
    Kinds = {"read", "write", "query", "delegate", "enterPlan", "exitPlan"}
    MaxBatch = 2
    MaxRuns = 1
    MaxCalls = 3
PROPERTIES
    ImplementsBoundedRun
    PhasesGoForward
CHECK_DEADLOCK FALSE
