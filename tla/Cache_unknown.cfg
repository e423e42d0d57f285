SPECIFICATION Spec
CONSTANTS
    Threads = {t1, t2}
    CObjs = {c1, c2}
    Objs = {o1, o2}
    Names = {n1}
    Sizes = {3}
    Limits = {}
    KeepFrees = {}
    FreeSpaces <- OnlyUnknown
    DefaultLimit = 4
    DefaultKeepFree = 1
    MaxOff = 31
    PerNameLock = TRUE
    None = None
PROPERTY UnknownSpaceIsInfinite
CHECK_DEADLOCK FALSE
