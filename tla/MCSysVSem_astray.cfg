CONSTANTS
    Procs = {p1, p2, p3}
    SEMMNI = 1
    Sems = {0}
    SEMVMX = 1
    Sops <- MCSops
    MaxSeq = 1
    MaxAdj = 1
SPECIFICATION Spec
INVARIANT EntryFound
CHECK_DEADLOCK FALSE
