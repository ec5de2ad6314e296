SPECIFICATION Spec
CONSTANTS
    Functions = {f, g}
    Rounds = 2
    MaxCalls = 5
SYMMETRY Symmetry
INVARIANTS RunOnce RunInReverse AllRun
CHECK_DEADLOCK FALSE
