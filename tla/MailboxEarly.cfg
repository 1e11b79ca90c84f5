SPECIFICATION Spec
CONSTANTS
    T = T
    s1 = s1
    s2 = s2
    q1 = q1
    q2 = q2
    a = a
    b = b
    c = c
    NoJob = NoJob
    Target = T
    Senders <- MCSenders1
    Queues <- MCQueues1
    Tasks <- MCTasks1
    MaxLives = 1
    HasWaitAsync = TRUE
    EarlySends = TRUE
    MayExitInTask = FALSE
INVARIANTS
    NoLostWakeup
CHECK_DEADLOCK FALSE
