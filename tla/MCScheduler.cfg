\* Three interchangeable application tasks and the idle task, one wait list,
\* interrupts that nest once, the scheduler lock, ticks that wrap after four.
CONSTANTS
    t1 = t1
    t2 = t2
    t3 = t3
    idle = idle
    none = none
    w1 = w1
    noList = noList
    Tasks <- ThreeTasks
    NoTask <- none
    WaitLists <- OneList
    NoList <- noList
    Idle <- idle
    MaxPriority = 3
    UserPriorities = {1, 2}
    NewPriorities = {1, 2}
    TickModulus = 4
    SliceTicks = 1
    Delays = {1}
    MaxIsr = 2
    MaxLock = 1
SYMMETRY UserSymmetry
SPECIFICATION Spec
INVARIANTS
    TypeOK
    ReadyQueuesExact
    WaitListsExact
    OnlyCurrentRuns
    DeferredSwitchKept
PROPERTIES
    SwitchToHighest
    PreemptionKept
    TickRestoresPreemption
    ReadyIsFifo
