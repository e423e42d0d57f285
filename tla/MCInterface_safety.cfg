SPECIFICATION InterfaceSpec
CONSTANTS
    Threads = {t1, t2, t3}
    Files = {f1, f2}
    Fds <- FewFds
    TableStep = 1
    None = None
    MaxSegs = 2
    MaxMounts = 3
    MaxLinks = 1
    MaxOpen = 1
INVARIANTS RefsExact DriverCalls VentriesBalanced LinkSame
PROPERTIES SlotKept ImplementsDescriptors CallsEnd CallAnswers
CHECK_DEADLOCK FALSE
