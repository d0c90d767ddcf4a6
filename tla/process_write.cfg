SPECIFICATION FairSpec
CONSTANTS
    MaxId = 1
    MaxOut = 2
    MaxCalls = 4
    Cap = 1
    Callbacks = {c1}
PROPERTIES
    WriteReturns
