CONSTANTS
    None = None
    Process = {a, b}
    Pid = {i, j}
    CrashPoint <- AnyPlace
    ConcurrentStarts = FALSE
SPECIFICATION FairSpec
INVARIANTS TypeOK WorkersHoldTheLock
PROPERTIES ShutdownEnds OutboundNotStarved
CHECK_DEADLOCK FALSE
