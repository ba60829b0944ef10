CONSTANTS
    MaxSeq = 4
    SendBuf = 3
    CongMax = 2
    RcvBuf = 19
    SkbMem = 6
    MIN_WINDOW = 6
    MAX_WINDOW = 3
    NetCap = 2
SPECIFICATION FairSpec
INVARIANTS NothingForgotten QueueReadable TimerSet
PROPERTIES WindowKept Delivered
CONSTRAINT Followed
CHECK_DEADLOCK FALSE
