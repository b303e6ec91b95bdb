CONSTANTS
    SinkTokens = 1
    WindowTokens = 2
    DenseTailTokens = 2
    QueryTile = 3
    KvTile = 3
    KvHeads = 1
    PageSize = 2
    U32Mod = 16
    GroupSize = 1
    MaxCores = 2
    Residue = 1
    NotWritten = NotWritten
    Requests <- MCEdgeRequests
SPECIFICATION FairSpec
PROPERTIES
    Completes
CHECK_DEADLOCK FALSE
