CONSTANTS
    SinkTokens = 1
    WindowTokens = 2
    DenseTailTokens = 2
    QueryTile = 3
    KvTile = 3
    KvHeads = 2
    PageSize = 2
    U32Mod = 64
    GroupSize = 2
    MaxCores = 2
    Residue = 1
    NotWritten = NotWritten
    Requests <- MCRequests
SPECIFICATION FairSpec
INVARIANTS
    ReadsInsideTable
PROPERTIES
    RefSpec
    Completes
CHECK_DEADLOCK FALSE
