CONSTANTS
    Procs = {p1, p2}
    SEMMNI = 1
    Sems = {0}
    SEMVMX = 1
    Sops <- MCSops
    MaxSeq = 1
    MaxAdj = 1
SPECIFICATION FairSpec
INVARIANTS UndoBalance NoLostWakeup NoUseAfterFree
PROPERTY RemovalEnds
CONSTRAINT OneAstray
CHECK_DEADLOCK FALSE
