SPECIFICATION Spec
CONSTANTS
    Threads = {t1, t2}
    Logs = {"request", "wx_request"}
    Ingested = {"report"}
    Keys <- MCKeys
    Expire = 1
    Ttl = 2
    Hold = 1
    Loads <- MCLoads
    Day = 6
    MaxDays = 1
    MaxCallsigns = 2
    Fields = {"temperature"}
    None = None
INVARIANTS WxListBounded MutexHasWorker
PROPERTIES ListingsShowLogged
CHECK_DEADLOCK FALSE
