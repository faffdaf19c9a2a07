\* Two files in nested directories, one of them with two spellings; batches of two reads.
\* CHECK_DEADLOCK FALSE: the model stops when the clock and the writes are used up.
SPECIFICATION CacheSpec
CONSTANTS
    f1 = f1
    f2 = f2
    Files <- TwoFiles
    Names <- TreeNames
    NoName = NoName
    Spells <- TreeSpells
    FileNames <- TreeFileNames
    Parent <- TreeParent
    NameOf <- TreeNameOf
    DirOf <- TreeDirOf
    TTL <- Lifetimes
    MaxEntries = 2
    MaxTime = 2
    MaxWrites = 1
    MaxReads = 2
INVARIANTS
    OwnWritesSeen
CHECK_DEADLOCK FALSE
