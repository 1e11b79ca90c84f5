SPECIFICATION FairSpec
CONSTANTS
    M = M
    p1 = p1
    p2 = p2
    p3 = p3
    w1 = w1
    w2 = w2
    w3 = w3
    None = None
    Main = M
    Ptrs <- MCPtrs2
    Workers <- MCWorkers3
    PoolSize = 1
    PoolStrict = {TRUE, FALSE}
    MaxCreates = 4
    AlsoDetach = FALSE
INVARIANTS
    TypeOK
    OneCleanup
    NoUseAfterFree
    PoolConsistent
PROPERTIES
    JoinReturns
    CreateReturns
    DetachedIsFreed
CHECK_DEADLOCK FALSE
