SPECIFICATION Spec
CONSTANTS
    Threads = {low, mid, high}
    NoThread = nothread
    Mutexes = {1, 2}
    NoMutex = nomutex
    RecursiveMutexes = {}
    Priorities = {0, 1, 2}
    InitialPriority <- Ordered
    CondMutex = 2
    MaxDepth = 0
    MaxHeld = 2
    Uses <- LocksOnly
    StrictPriority = FALSE
    low = low
    mid = mid
    high = high
    urgent = urgent
INVARIANTS
    InheritsHighest
CHECK_DEADLOCK FALSE
