CONSTANTS
    NumKeys = 25
    MaxRegions = 9
    MaxForks = 2
    MmapSizes = {1, 2}
    Image <- ImageLarge
    KernelStack <- KernelStackLarge
SPECIFICATION Spec
CHECK_DEADLOCK FALSE
INVARIANT
    ForkCopies
