\* Three user turns with six operations, two failed writes, /plan commands at any moment.
\* CHECK_DEADLOCK FALSE: the model stops when the turns are used up.
SPECIFICATION Spec
CONSTANTS
    MaxTurns = 3
    MaxHandlers = 6
    MaxFailures = 2
INVARIANTS
    PhaseMatchesStatus
    ReviewShowsPlan
PROPERTIES
    PlanLeftOnlyByUser
CHECK_DEADLOCK FALSE
