\* Two threads of one process and a thread of another append to one session.
\* CHECK_DEADLOCK FALSE: the model stops when MaxEvents appends are used up.
SPECIFICATION Spec
CONSTANTS
    t1 = t1
    t2 = t2
    t3 = t3
    p1 = p1
    p2 = p2
    Threads = {t1, t2, t3}
    Processes = {p1, p2}
    ProcessOf <- TwoProcesses
    Sessions = {s1}
    NoThread = NoThread
    MaxEvents = 3
    MaxFailures = 1
SYMMETRY Symmetry
INVARIANTS
    UnreadableHasCause
    RowsFollowLog
    StatusFromLastRow
    MissedOnlyByRace
CHECK_DEADLOCK FALSE
