SPECIFICATION Spec
CONSTANTS
    t1 = t1
    t2 = t2
    k1 = k1
    k2 = k2
    k3 = k3
    None = None
    Torn = Torn
    Threads = {t1, t2}
    Keys = {k1, k2}
    Ops <- LogsOnly
    FileKey <- SameKey
    MaxOpen = 2
    OpenFaults = FALSE
    EncryptFaults = FALSE
    MaxCalls = 1
    MaxCrashes = 0
INVARIANTS MutexMapGuarded
CHECK_DEADLOCK FALSE
