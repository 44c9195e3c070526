SPECIFICATION Spec
CONSTANTS
    Names = {f}
    MaxArgs = 0
    StackReserve = 64
    StackRenewal = 48
    MaxInstalls = 0
    MaxViews = 0
    MaxDepth = 64
INVARIANTS
    ProcessSurvives
CHECK_DEADLOCK FALSE
