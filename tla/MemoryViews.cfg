SPECIFICATION Spec
CONSTANTS
    Handles = {h1, h2, h3}
    Impls = {v1, v2}
    Null = Null
    BulkSize = 3
    Cut = 1
    SizeMod = 8
    OffsetArgs = {0, 1, 2, 3}
    SizeArgs = {1, 2, 7}
    Default = Default
    Sites = {"remote", "contiguous", "fragmented"}
    MayFail = TRUE
    OwnerByte = OwnerByte
    Unfilled = Unfilled
SYMMETRY Symmetry
CHECK_DEADLOCK FALSE
INVARIANTS
    TypeOK
    WindowsFit
    WritesArrive
    UnwrittenBytesKept
PROPERTIES
    OnlyDyingViewsPush
