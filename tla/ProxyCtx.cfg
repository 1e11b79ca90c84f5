SPECIFICATION FairSpec
CONSTANTS
    s1 = s1
    s2 = s2
    x1 = x1
    x2 = x2
    k1 = k1
    a1 = a1
    a2 = a2
    Null = Null
    NoTask = NoTask
    Target = T
    Main = s1
    Callers <- MCCallers
    Syncs <- MCSyncs
    Callbacks <- MCCallbacks
    Asyncs <- MCAsyncs
    CallerOf <- MCCallerOf
    InitialCapacity = 3
INVARIANTS
    TypeOK
    NoUseAfterFree
    ActiveListExact
    RingIsQueue
    OutcomeMatches
PROPERTIES
    SyncReturns
    CallbackCtxFreed
CHECK_DEADLOCK FALSE
