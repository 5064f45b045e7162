\* The CPU may stay asleep: a driver interrupt can be dropped while the idle
\* thread has the kernel paused, and no other interrupt has to come.
CHECK_DEADLOCK FALSE
SPECIFICATION Spec
CONSTANTS
    Threads = {a, b, c}
    Idle = idle
    Main = a
    PRIORITY_MAX = 2
    InitialPriority <- TwoLow
    MAX_TIME_SLICE = 1
    MaxSleep = 2
    MaxNesting = 1
    Ops = {"sleep", "wait", "wakeup", "driver", "pause", "setPriority", "create", "exit"}
    Never = 9
    a = a
    b = b
    c = c
INVARIANTS
    ListsConsistent DueSleeperNotForgotten NoSwitchForgotten
