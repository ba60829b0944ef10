CONSTANTS
    Procs = {p1, p2}
    Bufs = {b1, b2, b3}
    Blocks = {1, 2, 3}
    Contents = {c1}
    NR_REQUEST = 3
    MaxSectors = 2
    Failing = {}
    MaxRun = 2
    Commands = {"READ", "WRITE"}
    None = None
SPECIFICATION Spec
INVARIANT LockHasOwner
PROPERTY NoStarvation
CHECK_DEADLOCK FALSE
