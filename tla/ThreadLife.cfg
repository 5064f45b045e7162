SPECIFICATION Spec
CONSTANTS
    Threads = {main, t1, t2, t3}
    NoThread = null
    Main = main
    Results = {r1}
    Reusable = {t1}
    SecondJoins = TRUE
    MaxGen = 2
    t1 = t1
    t2 = t2
    t3 = t3
INVARIANTS
    JoinerIsAlive NoLeak StuckOnlyByReuse
SYMMETRY Symmetric
CHECK_DEADLOCK FALSE
