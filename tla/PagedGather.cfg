CONSTANTS
    PageSize = 3
    SubtileKeys = 4
    KvTile = 9
    KvHeads = 2
    HeadDim = 2
    PhysicalPages = 3
    MaxTokens = 11
    U32Mod = 36
    Stale = Stale
SPECIFICATION FairSpec
INVARIANTS
    RowsResolved
    ScoresResolved
PROPERTIES
    Completes
CHECK_DEADLOCK FALSE
