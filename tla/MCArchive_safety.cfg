SPECIFICATION MCSpec
CONSTANTS
    Threads = {t1, t2}
    Archs = {a1, a2}
    MaxVersion = 3
    MaxTries = 1
    None = None
    Paths <- AllPaths
    TarMembers <- SomeTarMembers
    MaxTarMembers = 3
    TarBlock = 2
    TarSparseSize = 7
    TarReads <- SomeReads
    ZipMembers <- SomeZipMembers
    MaxZipMembers = 3
    ZipBefore = {0, 1, 3}
    SearchLen = 3
    ArMembers <- SomeArMembers
    MaxArMembers = 3
    RarMembers <- SomeRarMembers
    MaxRarMembers = 2
    RarBefore <- BeforeMarker
    RarCalls = {t1, t2}
    ExtfsLines <- SomeLines
    MaxLines = 3
    ExtfsCalls = {t1, t2}
    MaxExtfsBase = 2
    MaxExtfsTmp = 4
    LsNames <- SomeNames
    LsDates <- SomeDates
INVARIANTS RefctrExact PresentTree BaseFileShared ModulesTrue
PROPERTY GetEnds
CHECK_DEADLOCK FALSE
