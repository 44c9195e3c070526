SPECIFICATION Spec
CONSTANTS
    p1 = p1
    p2 = p2
    b1 = b1
    b2 = b2
    b3 = b3
    NoBuffer = NoBuffer
    Unlocked = Unlocked
    Unfilled = Unfilled
    Requests = {r1, r2}
    Providers = {p1, p2}
    Buffers = {b1, b2}
    BackendOf <- JavascriptAndNone
    Calls <- RemoteViewCalls
    LocalBuffers = {}
    Client = Client
    Within <- NoNesting
    MayThrow = FALSE
    PushMayThrow = FALSE
    UncaughtTerminates = TRUE
INVARIANTS
    WriteBackVisible
