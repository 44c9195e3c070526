SPECIFICATION Spec
SYMMETRY Symmetry
CHECK_DEADLOCK FALSE
CONSTANTS
    Names = {f, g}
    MaxArgs = 1
    StackReserve = 6
    StackRenewal = 6
    MaxInstalls = 2
    MaxViews = 2
    MaxDepth = 2
INVARIANTS
    TypeOK
    RunsTheInstalled
    FreedFunctions
    DeadViews
    AbortsAfterFailures
PROPERTIES
    PreambleKept
