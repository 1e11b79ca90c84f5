SPECIFICATION FairSpec
CONSTANTS
    T = T
    s1 = s1
    s2 = s2
    q1 = q1
    q2 = q2
    a = a
    b = b
    c = c
    NoJob = NoJob
    Target = T
    Senders <- MCSenders2
    Queues <- MCQueues1
    Tasks <- MCTasks2
    MaxLives = 2
    HasWaitAsync = TRUE
    EarlySends = FALSE
    MayExitInTask = FALSE
PROPERTIES
    ImplementsDelivery
    AcceptedIsResolved
    ShutdownCompletes
CHECK_DEADLOCK FALSE
