SPECIFICATION Spec
CONSTANTS
    T = T
    s1 = s1
    s2 = s2
    q1 = q1
    q2 = q2
    a = a
    b = b
    c = c
    NoJob = NoJob
    Target = T
    Senders <- MCSenders2
    Queues <- MCQueues2
    Tasks <- MCTasks2
    MaxLives = 2
    HasWaitAsync = TRUE
    EarlySends = FALSE
    MayExitInTask = TRUE
INVARIANTS
    TypeOK
    RefcountInv
    HoldersKeepMailboxOpen
    NoUseAfterFree
    OneMessagePerQueue
    NoStrandedTask
    NoLostWakeup
    NoStaleRun
CHECK_DEADLOCK FALSE
