SPECIFICATION Spec
CONSTANTS
    Threads = {t1, t2}
    Nodes = {n1, n2, n3}
    Inodes = {i1, i2}
    MaxVersion = 3
    None = None
SYMMETRY ThreadsNodes
INVARIANTS RefctrExact WritersCanWrite NothingUnsaved
CHECK_DEADLOCK FALSE
