SPECIFICATION FairSpec
CONSTANTS
    c1 = c1
    c2 = c2
    k1 = k1
    k2 = k2
    alice = alice
    bob = bob
    regulator = regulator
    nobody = nobody
    ads = ads
    billing = billing
    site = site
    x = x
    y = y
    None = None
    Undecodable = Undecodable
    Users <- MCUsers
    EmptyUser = nobody
    Purposes = {ads, billing}
    Origins = {site}
    Atoms = {x, y}
    RegulatorKey = regulator
    Conns = {c1, c2}
    Keys = {k1, k2}
    Policies <- AuditPolicies
    Workload <- AuditWorkload
    Backend = "rocksdb"
    Encryption = FALSE
    ReadFaults = TRUE
    WriteFaults = FALSE
    MaxQueries <- AuditQueries
    MaxTime = 1
    MaxRestarts = 0
INVARIANTS AuditReflectsStore
PROPERTIES EveryQueryAnswered
CHECK_DEADLOCK FALSE
