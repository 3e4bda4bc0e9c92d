SPECIFICATION FairSpec
CONSTANTS
    c1 = c1
    c2 = c2
    Conns = {c1, c2}
    Texts <- MCTexts
    max_msg_size <- MaxSize
    Stores <- MCStores
    DbFaults = TRUE
    None = None
    Breaks <- AfterAmpersand
    MaxSends = 2
    MaxLosses = 1
    MaxRestarts = 1
INVARIANTS
    TypeOK
    OneRequest
    StoredPairsWereSent
PROPERTIES
    ImplementsKV
    EveryClientReleased
CHECK_DEADLOCK FALSE
