SPECIFICATION UsesFairSpec
CONSTANTS
    Threads = {low, mid, high, urgent}
    NoThread = nothread
    Mutexes = {1, 2}
    NoMutex = nomutex
    RecursiveMutexes = {2}
    Priorities = {0, 1, 2, 3}
    InitialPriority <- Ordered
    CondMutex = 2
    MaxDepth = 1
    MaxHeld = 2
    Uses <- Mixed
    StrictPriority = FALSE
    low = low
    mid = mid
    high = high
    urgent = urgent
INVARIANTS
    OwnershipConsistent FrontIsHighest NoPriorityLeak CallsMatchOwnership
    InheritsWithOneMutex
PROPERTIES
    HighestNotInverted
CHECK_DEADLOCK FALSE
