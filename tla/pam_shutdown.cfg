SPECIFICATION FairSpec
CONSTANTS
    MaxId = 2
    Limit = 2
PROPERTIES
    ShutdownCompletes
CHECK_DEADLOCK FALSE
