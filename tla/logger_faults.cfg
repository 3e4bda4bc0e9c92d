SPECIFICATION FairSpec
CONSTANTS
    t1 = t1
    t2 = t2
    k1 = k1
    k2 = k2
    k3 = k3
    None = None
    Torn = Torn
    Threads = {t1, t2}
    Keys = {k1, k2}
    Ops <- WriterAndReader
    FileKey <- Misread
    MaxOpen = 1
    OpenFaults = TRUE
    EncryptFaults = FALSE
    MaxCalls = 2
    MaxCrashes = 1
INVARIANTS OneStream
PROPERTIES EveryCallReturns
CHECK_DEADLOCK FALSE
