SPECIFICATION Spec
CONSTANTS
    Values <- MCValues
    IntBits = 3
    WordBits = 5
    DoubleBits = 4
    ByteMax = 2
    ViewCode = 3
CHECK_DEADLOCK FALSE
INVARIANTS
    ArchiveFaithful
    EchoExact
    EchoSettles
    DumpKeepsViews
