\* Two processes that stop, and one failure.
\* CHECK_DEADLOCK FALSE: the model stops when parent, child and users are done.
SPECIFICATION RunSpec
CONSTANTS
    q1 = q1
    q2 = q2
    Stoppers <- TwoStoppers
    MaxOps = 2
    MaxFailures = 1
SYMMETRY Symmetry
INVARIANTS
    RunsSettle
    RecordsAgree
    AnswersStay
PROPERTIES
    StoppedStays
CHECK_DEADLOCK FALSE
