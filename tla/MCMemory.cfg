CONSTANTS
    c1 = c1
    c2 = c2
    t1 = t1
    t2 = t2
    t3 = t3
    reapList = reapList
    Threads <- ThreeThreads
    ReapList <- reapList
    HeapUnits = 9
    HeaderUnits = 1
    MaxCopy = 16
    Clients <- TwoClients
    Requests = {4, 12}
    Kinds = {"mq", "task", "sem", "mutex"}
    Kind <- SmallKind
    GenModulus = 4
    MaxMine = 1
    PoolBlocks = 3
    BlockSize = 2
SYMMETRY Interchangeable
SPECIFICATION Spec
INVARIANTS
    HeapExact
    NothingLeaked
    StaleHandlesRefused
    StoppedTasksReaped
