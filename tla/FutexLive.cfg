SPECIFICATION FairSpec
CONSTANTS
    n1 = n1
    n2 = n2
    f1 = f1
    f2 = f2
    QLock = QLock
    Heap = Heap
    Mutex = Mutex
    NoAddr = NoAddr
    Programs <- MCLivePrograms
    Others <- MCOthers2
    Flags <- MCFlags1
    MaxPosts = 1
PROPERTIES
    NotifyReturns
    WorkDoneWhileWaiting
    CancelEndsWait
CHECK_DEADLOCK FALSE
