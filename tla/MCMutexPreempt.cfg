\* Three tasks of different priorities; the last unlock of a mutex that a more
\* urgent task waits for.
CONSTANTS
    low = low
    mid = mid
    high = high
    idle = idle
    none = none
    m1 = m1
    m2 = m2
    w1 = w1
    noList = noList
    Tasks <- AllTasks
    NoTask <- none
    Mutexes <- TwoMutexes
    WaitLists <- AllLists
    NoList <- noList
    Idle <- idle
    BasePriority <- Priority
    TaskOrder <- Order
    NewPriorities = {2}
    Delays = {1}
    MaxPriority = 4
    TickModulus = 4
    SliceTicks = 1
    MaxIsr = 1
    MaxLock = 0
    ChainLimit = 4
    MaxCount = 2
SYMMETRY MutexSymmetry

SPECIFICATION Spec
PROPERTY UnlockPreempts
