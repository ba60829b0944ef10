CONSTANTS
    t1 = t1
    t2 = t2
    Tasks <- MCTasks2
    Fds = {0}
    OFFSET_MAX = 3
    NR_FILE_LOCKS = 3
    Regions <- Inner
SPECIFICATION Spec
INVARIANTS ListCanonical SleepersAnchored
PROPERTY ImplementsByteLocks
