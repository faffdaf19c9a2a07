\* Two processes, two files (one of them a metadata.json at the root).  The workspace
\* begins with content c2; c1 is the content of an emptied file.
\* CHECK_DEADLOCK FALSE: the model stops when the checkpoints and changes are used up.
SPECIFICATION Spec
CONSTANTS
    p1 = p1
    p2 = p2
    f1 = f1
    metadata = metadata
    c1 = c1
    c2 = c2
    Absent = Absent
    Procs <- TwoProcs
    Editors <- OneEditor
    Files <- TwoFiles
    Unlisted <- NotListed
    Elsewhere <- OneEditor
    Contents <- TwoContents
    Blank = c1
    Trees <- OneTree
    MaxIds = 1
    MaxOps = 3
    MaxChanges = 1
INVARIANTS
    RecordedAreComplete
    
    
    EditsUndoable
CHECK_DEADLOCK FALSE
