SPECIFICATION FairSpec
CONSTANTS
    Threads = {a, b, c}
    Idle = idle
    Main = a
    PRIORITY_MAX = 2
    InitialPriority <- TwoLow
    MAX_TIME_SLICE = 2
    MaxSleep = 3
    MaxNesting = 2
    Ops = {"sleep", "yield", "pause", "create", "exit"}
    Never = 9
    a = a
    b = b
    c = c
INVARIANTS
    CurrentIsRunnable NoLostPreemption
PROPERTIES
    HighestReadyRuns SleepersWake
