SPECIFICATION Spec
CONSTANTS
    Addresses = {a1, a2, a3, a4}
    Impls = {i1, i2, i3}
    NoObject = NoObject
    Empty = Empty
    MaxInFlight = 2
    MovedFromDies = FALSE
CHECK_DEADLOCK FALSE
INVARIANTS
    TypeOK
    NoDanglingCallback
    OneOwner
    NothingOutlivesEngine
PROPERTIES
    FinalizationEnds
