CONSTANTS
    v1 = v1
    v2 = v2
    Vectors <- MCVectors
    Cube = Cube
    Work <- MCWork
    Queue <- MCQueue
    EventDepths = {1, 2}
    FlagDepth = 15
    Empty = Empty
SPECIFICATION FairSpec
INVARIANTS
    NoRace
    ReadsOwnTile
    EventsDrained
PROPERTIES
    Completes
    ProtocolSpec
\* The launch returns.
CHECK_DEADLOCK FALSE
