SPECIFICATION Spec
CONSTANTS
    session = session
    system = system
    rule1 = rule1
    Buses <- OneBus
    Rules <- NoRules
    MaxId = 4
    MaxDials = 2
    MaxConnectCalls = 2
    MaxDepth = 2
INVARIANT NoStrandedWaiter
INVARIANT PumpUsesLiveConnection
INVARIANT LiveConnectionIsPumped
INVARIANT ShutdownLeavesNothing
INVARIANT ReplyIsForItsCall
INVARIANT AnswerFindsItsCall
PROPERTY ImplementsTable
