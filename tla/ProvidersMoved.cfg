SPECIFICATION Spec
CONSTANTS
    Addresses = {a1, a2, a3}
    Impls = {i1, i2}
    NoObject = NoObject
    Empty = Empty
    MaxInFlight = 2
    MovedFromDies = TRUE
CHECK_DEADLOCK FALSE
INVARIANTS
    NoDanglingCallback
