SPECIFICATION Spec
CONSTANTS
    Threads = {t1, t2, t3, t4}
    NoThread = nothread
    MaxDepth = 1
    Posters = {t1, t2}
    Runners = {t3, t4}
    Users = {t1, t2, t3}
    Waiters = {t1, t2}
    NumBlocks = 32
    Base = 8
    Sizes = {8, 16}
    NoBlock = noblock
INVARIANTS
    InsidePool
