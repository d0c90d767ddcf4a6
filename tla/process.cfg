SPECIFICATION Spec
CONSTANTS
    MaxId = 2
    MaxOut = 2
    MaxCalls = 2
    Cap = 1
    Callbacks = {c1, c2}
SYMMETRY Symmetry
INVARIANTS
    HeardInOrder
    ExecSettledTruly
    ShutdownLeavesNothing
PROPERTIES
    NoStraySignal
