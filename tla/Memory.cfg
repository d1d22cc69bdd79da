CONSTANTS
    block_count = 6
    Meta = 2
    block_size = 4
    Base = 1
    Clients = {c1, c2, c3}
    HeapClients = {c1, c2, c3}
    ByteSizes = {2, 5, 9}
    Aligns = {1, 8}
    None = none
    Null = none
    NumKeys = 18
    MaxRegions = 8
    MaxForks = 1
    TreeKeys = 9
    NumPages = 9
    NumLevels = 3
    Kernel = {0, 1, 2}
    Sizes = {1, 3}
    SizeMod = 16
    MmapSizes = {1, 2}
    Image <- SmallImage
    KernelStack <- SmallStack
SPECIFICATION MemorySpec
SYMMETRY ClientSymmetry
INVARIANTS
    HeapExact
    OwnBytesKept
    ContainersSound
    PagesOwnedOnce
    LevelsAgree
PROPERTIES
    ExecFresh
CHECK_DEADLOCK FALSE
