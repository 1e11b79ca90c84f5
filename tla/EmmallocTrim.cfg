SPECIFICATION Spec
CONSTANTS
    t1 = t1
    t2 = t2
    Threads <- MCThreads1
    HeapBase = 2
    HeapMax = 60
    Sizes = {1, 24}
    Aligns = {1, 8}
    Pads = {0}
    MaxTries = 1
    SmallBuckets = 2
    MaxBlocks = 2
    MaxForeign = 1
INVARIANTS
    RegionsTile
CHECK_DEADLOCK FALSE
