SPECIFICATION FairSpec
CONSTANTS
    session = session
    system = system
    rule1 = rule1
    Buses <- TwoBuses
    Rules <- OneRule
    MaxId = 2
    MaxDials = 2
    MaxConnectCalls = 2
    MaxDepth = 1
INVARIANT RulesInstalled
PROPERTY PromisesSettle
PROPERTY ReconnectCompletes
PROPERTY ShutdownCompletes
