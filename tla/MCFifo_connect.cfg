CONSTANTS
    p1 = p1
    p2 = p2
    p3 = p3
    Procs <- MCProcs2
    Modes <- AllModes
    OutOfMemory = FALSE
SPECIFICATION FifoSpec
INVARIANT BlockingOpenConnects
