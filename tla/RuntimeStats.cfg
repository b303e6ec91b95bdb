CONSTANTS
    t1 = t1
    t2 = t2
    Thread = {t1, t2}
    Plan = {1, 2, 3}
    Batch <- MCBatch
    Intervals = {0, 2}
    RecentCapacities = {0, 2}
    SeenCapacity = 2
    LogCapacity = 2
    EventCapacity = 1
    MaxCalls = 5
SPECIFICATION Spec
INVARIANTS
    LogAccounts
    NoOverdueAtRest
    BoundaryPlansFollowed
    CountedOnce
PROPERTIES
    BoundariesIncrease
SYMMETRY Symmetry
CHECK_DEADLOCK FALSE
