SPECIFICATION Spec
CONSTANTS
    Threads = {t1, t2}
    Nodes = {n1, n2, n3}
    Inodes = {i1, i2}
    MaxVersion = 1
    None = None
INVARIANT OpenFilesUsed
CHECK_DEADLOCK FALSE
