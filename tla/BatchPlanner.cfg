CONSTANTS
    SinkTokens = 1
    WindowTokens = 2
    DenseTailTokens = 2
    QueryTile = 3
    KvTile = 3
    KvHeads = 1
    PageSize = 2
    U32Mod = 64
    Configs <- MCConfigs
    MaxPrompt = 10
    MaxPlans = 3
SPECIFICATION Spec
INVARIANTS
    DirectAloneAndEligible
    DirectAccepted
    SavedIsSkipped
\* The prompt is computed, or the bound on steps reached.
CHECK_DEADLOCK FALSE
