CONSTANTS
    Procs = {p1, p2}
    Bufs = {b1, b2}
    Blocks = {1, 2}
    Contents = {c1, c2}
    NR_REQUEST = 2
    MaxSectors = 2
    Failing = {"READ"}
    Priorities = {0}
    MinBuffers = 1
    None = None
SPECIFICATION Spec
INVARIANT RefsExact
PROPERTIES FsyncDurable ImplementsStore
SYMMETRY Symmetry
CHECK_DEADLOCK FALSE
