SPECIFICATION FairSpec
CONSTANTS
    KThreads = {k1, k2}
    MaxPid = 3
    Calls = {"create", "wait", "waitpid"}
INVARIANTS
    FamilyConsistent WaitersCounted OnlyKernelThreadsRace
PROPERTIES
    WaitpidReturns
