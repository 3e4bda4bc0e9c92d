SPECIFICATION Spec
CONSTANTS
    t1 = t1
    t2 = t2
    k1 = k1
    k2 = k2
    k3 = k3
    None = None
    Torn = Torn
    Threads = {t1, t2}
    Keys = {k1, k2}
    Ops <- Everything
    FileKey <- SameKey
    MaxOpen = 1
    OpenFaults = FALSE
    EncryptFaults = TRUE
    MaxCalls = 2
    MaxCrashes = 1
INVARIANTS TypeOK WritesLand NoNullStream
PROPERTIES ImplementsLog
CHECK_DEADLOCK FALSE
