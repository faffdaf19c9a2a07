\* Two runs, the second one resumed; two users, three commands, one death.
\* CHECK_DEADLOCK FALSE: the model stops when the runs are over.
SPECIFICATION FairSpec
CONSTANTS
    MaxRuns = 2
    MaxStarts = 1
    Users = {"first", "second"}
    StopFiles <- Stops
    PauseFiles <- Pauses
    NoFile = ""
    DefaultStop = "autopilot.stop"
    PauseOf <- PausePath
    Options <- TwoOptions
    MaxIterations = 1
    MaxConsecutive = 2
    MaxRequests = 3
    MaxCrashes = 1
INVARIANTS
    StopStops
    RowsFollowRun
    TwinsOnlyWhileWaking
PROPERTIES
    StopEnds
CHECK_DEADLOCK FALSE
