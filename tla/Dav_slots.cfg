INIT DavInit
NEXT DavNext
CONSTANTS
    DavCalls = {t1, t2}
    DavAccounts = {"a", "b"}
    MaxDavConns = 2
INVARIANT SlotExclusive
CHECK_DEADLOCK FALSE
