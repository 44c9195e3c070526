SPECIFICATION LiveSpec
CONSTANTS
    p1 = p1
    p2 = p2
    b1 = b1
    b2 = b2
    b3 = b3
    NoBuffer = NoBuffer
    Unlocked = Unlocked
    Unfilled = Unfilled
    Requests = {1, 2, 3}
    Providers <- AllProviders
    Buffers = {b1, b2}
    BackendOf <- BackendsOf6
    Calls <- LiveCalls
    LocalBuffers = {}
    Client = Client
    Within <- OneSendsTwo
    MayThrow = TRUE
    PushMayThrow = FALSE
    UncaughtTerminates = FALSE
CHECK_DEADLOCK FALSE
INVARIANTS
    LockReleased
PROPERTIES
    EveryRequestAnswered
