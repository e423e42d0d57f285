SPECIFICATION FairSpec
CONSTANTS
    Threads = {t1, t2}
    CObjs = {c1, c2}
    Objs = {o1}
    Names = {n1}
    Sizes = {3}
    Limits = {2}
    KeepFrees = {0}
    FreeSpaces = {7}
    DefaultLimit = 4
    DefaultKeepFree = 1
    MaxOff = 31
    PerNameLock = TRUE
    None = None
INVARIANTS ListMatchesCells RefctrExact UsageIsSum CacheBounded NameIsKey
PROPERTIES OwnEntryKept OperationsEnd
CHECK_DEADLOCK FALSE
