SPECIFICATION Spec
CONSTANTS
    n1 = n1
    n2 = n2
    f1 = f1
    f2 = f2
    QLock = QLock
    Heap = Heap
    Mutex = Mutex
    NoAddr = NoAddr
    Programs <- MCPrograms
    Others <- MCOthers2
    Flags <- MCFlags2
    MaxPosts = 1
INVARIANTS
    TypeOK
    NotificationDelivered
    NoSleepOnWork
    NoSleepOnCancel
    NoSleepOnCrash
    GuardsMatchStack
    
SYMMETRY MCSymmetry
CHECK_DEADLOCK FALSE
