CONSTANTS
    Layer = {l1, l2}
    Direct = {d1}
    Other <- MCOther
    Inspected <- MCInspected
    Settings <- MCSettings
SPECIFICATION FairSpec
INVARIANTS
    EnvironmentFollowsStatus
    ReadyIsUsable
PROPERTIES
    ImplementsPresence
    EveryAskAnswered
