\* Three responses of one or two calls: an exact call of a read-only tool and a misspelled one
\* of another tool; the thresholds are 2 so that three responses reach them.
SPECIFICATION GuardsSpec
CONSTANTS
    edit = edit
    read = read
    b = b
    c = c
    x = x
    y = y
    NoCall = NoCall
    Tools <- TwoTools
    ParallelTools = {read}
    Threshold = 2
    CooldownTurns = 1
    MaxFailures = 4
    Calls <- TwoCalls
    ToolOf <- ToolOfCall
    Misspelled = {b}
    Errors <- TwoErrors
    Repetition = 2
    CallWindow = 3
    ErrorWindow = 3
    MaxBatch = 2
    MaxResponses = 3
SYMMETRY Symmetry
INVARIANTS
    RepetitionStops
    FailuresMatchHistory
    PermanentIsEarned
    RecoveryIsCurrent
PROPERTIES
    StuckIsEarned
