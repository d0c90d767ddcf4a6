SPECIFICATION Spec
CONSTANTS
    MaxId = 2
    MaxOut = 1
    MaxCalls = 1
    Cap = 1
    Callbacks = {c1}
INVARIANTS
    ExecOutputIsWhole
