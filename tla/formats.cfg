SPECIFICATION Spec
CONSTANTS
    Elements <- MCElements
    QueryItems <- MCQueryItems
    PurposeItems <- MCPurposeItems
    RequestItems <- MCRequestItems
    EntryItems <- MCEntryItems
    KeyItems <- MCKeyItems
    Fields <- MCFields
    Changes <- MCChanges
    Values <- MCValues
    LogsDir <- MCLogsDir
    None = None
    MaxWrites = 4
INVARIANTS
    QueryReadsBack
    CutQueryIsShorter
    PurposesReadBack
    RequestReadsBack
    EntryReadsBack
    FileKeyReadsBack
    RecordsAreExact
    ValueReadsBack
CHECK_DEADLOCK FALSE
