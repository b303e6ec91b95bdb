CONSTANTS
    Reasons <- MCReasons
    Levels = {1, 2, 4}
    RequiredLevels = {1, 2, 4}
    BlockSize = 2
    ChunkBudget = 2
    ModeLists <- MCModeLists
    Layers = 2
    Chunks = 2
    DecodeTokens = 2
    LoneTail = 1
    MaxDeviations <- MCDeviations
SPECIFICATION SmokeSpec
INVARIANTS
    PassIsTrue
    ByRulesPasses
    ReportIsTrue
\* The controller ends with its report.
CHECK_DEADLOCK FALSE
