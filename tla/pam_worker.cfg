SPECIFICATION FairSpec
CONSTANTS
    MaxId = 4
    Limit = 3
INVARIANTS
    PendingAreInLine
    NoMissedWork
    ResolvedIfAllPassed
    ShutdownLeavesNothing
PROPERTIES
    ImplementsQueue
    AuthSettles
CHECK_DEADLOCK FALSE
