SPECIFICATION Spec
CONSTANTS
    session = session
    system = system
    rule1 = rule1
    Buses <- TwoBuses
    Rules <- NoRules
    MaxId = 2
    MaxDials = 1
    MaxConnectCalls = 2
    MaxDepth = 1
INVARIANT ConnectsToRequestedBus
