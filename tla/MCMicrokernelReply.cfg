\* Three interchangeable tasks; small tables, in three setups.
CONSTANTS
    t1 = t1
    t2 = t2
    t3 = t3
    semList = semList
    noList = noList
    noReceiver = noReceiver
    Tasks <- ThreeTasks
    WaitLists <- Lists
    NoList <- noList
    SemList <- semList
    SemMaxCount = 1
    NoReceiver <- noReceiver
    Names = {n1, n2}
    Setups <- SmallTables
    MaxHandles = 2
SYMMETRY Interchangeable
SPECIFICATION Spec
INVARIANTS
    ReceivedCanBeAnswered
