SPECIFICATION FairSpec
CONSTANTS
    MaxRequests = 3
INVARIANTS
    NoWakeUpLost
PROPERTIES
    SettledOnce
    ImplementsQueue
    RequestsSettle
    ShutdownEnds
