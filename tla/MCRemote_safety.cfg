INIT MCInit
NEXT MCNext
CONSTANTS
    Threads = {t1, t2}
    Root = r
    Files = {f}
    Dirs = {d}
    Copies = {c1, c2}
    MaxVersion = 2
    None = None
    FtpCalls = {t1, t2}
    FtpDirs = {"d", "e"}
    FtpPasswords = {"p"}
    MaxFtpConns = 2
    MaxFtpFaults = 1
    MaxFtpCalls = 2
    UcNames = {"a", "b"}
    UcUsers = {t1, t2}
    UcFiles = {u1}
    MaxUcEntries = 2
    MaxUcConns = 1
    MaxUcFaults = 1
    Urls = {"u"}
    HttpFiles = {c1, c2}
    MaxBody = 2
    MaxHttpFaults = 2
    DavCalls = {t1, t2}
    DavAccounts = {"a", "b"}
    MaxDavConns = 2
SYMMETRY Interchangeable
INVARIANTS CopiesExact MissingTrue NoCircle ConnectionsFreed TransfersTrue UcListExact
CHECK_DEADLOCK FALSE
