SPECIFICATION FamilySpec
CONSTANTS
    p1 = p1
    p2 = p2
    b1 = b1
    b2 = b2
    b3 = b3
    NoBuffer = NoBuffer
    Unlocked = Unlocked
    Unfilled = Unfilled
    Requests = {r1, r2, r3}
    Providers <- AllProviders
    Buffers = {b1, b2, b3}
    BackendOf <- BackendsOf6
    Calls <- AllCalls
    LocalBuffers = {b3}
    Client = Client
    Within <- NoNesting
    MayThrow = TRUE
    PushMayThrow = TRUE
    UncaughtTerminates = TRUE
SYMMETRY Symmetry
INVARIANTS
    TypeOK
    MutualExclusion
    LockReleased
    SuccessIsFaithful
    FailedJx9LeavesGlobal
    WriteBackVisible
    NoUnfilledBytes
PROPERTIES
    AnsweredBuffersQuiet
    ServiceSafety
