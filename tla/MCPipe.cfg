CONSTANTS
    p1 = p1
    p2 = p2
    p3 = p3
    Procs <- MCProcs
    InitHolds <- Shared
    PIPE_BUF = 2
    Counts = {1, 2, 3}
    MaxCalls = 1
SPECIFICATION FairSpec
INVARIANTS LockExclusion NoLostWakeup FifoOrder WriteContract
PROPERTY HangupReleases
CHECK_DEADLOCK FALSE
