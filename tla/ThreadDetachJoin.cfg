SPECIFICATION FairSpec
CONSTANTS
    M = M
    p1 = p1
    p2 = p2
    p3 = p3
    w1 = w1
    w2 = w2
    w3 = w3
    None = None
    Main = M
    Ptrs <- MCPtrs1
    Workers <- MCWorkers1
    PoolSize = 1
    PoolStrict = {FALSE}
    MaxCreates = 1
    AlsoDetach = TRUE
PROPERTIES
    JoinReturns
CHECK_DEADLOCK FALSE
