INIT MCInit
NEXT MCNext
CONSTANTS
    Threads = {t1, t2}
    Entries = {e1, e2, e3}
    Names = {n1, n2}
    MaxSeek = 1
    Ns = Ns
    None = None
    VolNames = {n1, n2}
    VolHands = {t1, t2}
    VolFiles = {f1}
    MaxVolEntries = 4
    MaxVolNodes = 3
    MaxVolSize = 1
    FileValues <- TwoContents
    MaxFileLen = 3
    DirEntries <- ThreeEntries
SYMMETRY Interchangeable
INVARIANTS RefctrExact OneEntryPerName WalkComplete VolatileExact OpenFileTrue
CHECK_DEADLOCK FALSE
