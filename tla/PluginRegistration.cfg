CONSTANTS
    t1 = t1
    t2 = t2
    Thread = {t1, t2}
    Missing = Missing
    NoThread = NoThread
    Snapshots <- MCSnapshots
    MaxCalls = 3
    MaxCopies = 2
SPECIFICATION FairSpec
INVARIANTS
    AllOrNothing
    WrappedOnce
PROPERTIES
    Completes
\* The bound on calls is reached.
CHECK_DEADLOCK FALSE
