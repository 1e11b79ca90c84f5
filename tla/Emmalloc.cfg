SPECIFICATION Spec
CONSTANTS
    t1 = t1
    t2 = t2
    Threads <- MCThreads2
    HeapBase = 2
    HeapMax = 36
    Sizes = {1, 24}
    Aligns = {1, 8}
    Pads = {8}
    MaxTries = 1
    SmallBuckets = 2
    MaxBlocks = 2
    MaxForeign = 1
INVARIANTS
    RegionsTile
    NoFreeNeighbours
    FreeListsExact
    ClaimSuffices
PROPERTIES
    ImplementsAllocator
SYMMETRY MCSymmetry
CHECK_DEADLOCK FALSE
