CONSTANTS
    SinkTokens = 1
    WindowTokens = 2
    DenseTailTokens = 2
    QueryTile = 3
    KvTile = 3
    KvHeads = 1
    PageSize = 2
    U32Mod = 64
    Tensors <- MCTensors
    Calls <- MCCalls
    MaxCalls = 2
SPECIFICATION LayerSpec
INVARIANTS
    VerdictCurrent
    GatesCoverRejections
    OneRouteOutput
\* An error of strict mode, or of an output that cannot be viewed, stops the
\* worker.
CHECK_DEADLOCK FALSE
