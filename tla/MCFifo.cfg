CONSTANTS
    p1 = p1
    p2 = p2
    p3 = p3
    Procs <- MCProcs3
    Modes <- OneEach
    OutOfMemory = FALSE
SPECIFICATION FifoFairSpec
INVARIANT FilesAccounted
PROPERTIES DataKept OpensEnd
