SPECIFICATION Spec
CONSTANTS
    t1 = t1
    t2 = t2
    k1 = k1
    k2 = k2
    k3 = k3
    None = None
    Torn = Torn
    Threads = {t1}
    Keys = {k1}
    Ops <- Everything
    FileKey <- SameKey
    MaxOpen = 1
    OpenFaults = FALSE
    EncryptFaults = FALSE
    MaxCalls = 3
    MaxCrashes = 1
PROPERTIES HistoryReadable
CHECK_DEADLOCK FALSE
