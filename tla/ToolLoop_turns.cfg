\* Two user turns of two iterations, three calls in batches of at most two: whatever errors,
\* overflows and compaction of the first turn leave behind, the second continues from it.
\* CHECK_DEADLOCK FALSE: the conversation stops when its MaxRuns user turns are used up.
SPECIFICATION Spec
CONSTANTS
    CompactionFloor = 3
    FollowupFloor = 2
    MaxTurns = 2
    MaxNudges = 0
    MaxTruncations = 0
    MaxVerbosity = 0
    ExploreReads = 1
    ExecuteEdits = 2
    ReminderInterval = 2
    RetrievalInterval = 2
    InitialPhases = {"none"}
    Kinds = {"read", "delegate"}
    MaxBatch = 2
    MaxRuns = 2
    MaxCalls = 3
INVARIANTS
    CallsAnsweredOnce
    NoOrphanResults
CHECK_DEADLOCK FALSE
