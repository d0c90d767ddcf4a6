SPECIFICATION Spec
CONSTANTS
    Keys = {k1, k2}
    MaxCalls = 2
    MaxDials = 2
    MaxDepth = 4
SYMMETRY Symmetry
INVARIANTS
    AnsweredOnce
    NoCallForgotten
    AnswersOnOwnConnection
    OpenCallsAreExported
