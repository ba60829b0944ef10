CONSTANTS
    Procs = {p1, p2, p3}
    Slots = {s1, s2, s3}
    NR_INODE = 2
    Inos = {1, 2}
    NR_IHASH = 2
    Contents = {c1, c2}
    None = None
SPECIFICATION Spec
INVARIANT NotFromUnderUs
SYMMETRY Symmetry
CHECK_DEADLOCK FALSE
