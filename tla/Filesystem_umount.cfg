SPECIFICATION Spec
CONSTANTS
    Users = {user1, user2}
    Openers = {user1}
    Admins = {m}
    NoThread = nothread
    Tables = {tabKernel, tabProcess}
    KernelTable = tabKernel
    TableOf <- OneProcess
    MAX_OPEN_FILES = 4
    Files = {o1, o2}
    NoFile = nofile
    Objects = 1
    NoFs = nofs
    MountPoints <- Tree
    Paths <- ShortPaths
    NamePrefixes <- Siblings
    user1 = user1
    user2 = user2
    tabKernel = tabKernel
    tabProcess = tabProcess
INVARIANTS
    UmountedHasNoFiles
