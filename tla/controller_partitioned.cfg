SPECIFICATION Spec
CONSTANTS
    c1 = c1
    c2 = c2
    k1 = k1
    k2 = k2
    alice = alice
    bob = bob
    regulator = regulator
    nobody = nobody
    ads = ads
    billing = billing
    site = site
    x = x
    y = y
    None = None
    Undecodable = Undecodable
    Users <- MCUsers
    EmptyUser = nobody
    Purposes = {ads, billing}
    Origins = {site}
    Atoms = {x, y}
    RegulatorKey = regulator
    Conns = {c1, c2}
    Keys = {k1, k2}
    Policies <- PartitionedPolicies
    Workload <- PartitionedWorkload
    Backend = "redis"
    Encryption = TRUE
    ReadFaults = FALSE
    WriteFaults = TRUE
    MaxQueries <- PartitionedQueries
    MaxTime = 3
    MaxRestarts = 1
INVARIANTS TypeOK
PROPERTIES PutKeepsMetadata EffectAuthorised MonitoredChangeAudited ExpiredNeverRevived ImplementsStore
CHECK_DEADLOCK FALSE
