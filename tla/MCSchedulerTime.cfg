\* Two application tasks, created and deleted again and again, ticks that wrap
\* after six, timeouts of one tick and of the longest length.
CONSTANTS
    t1 = t1
    t2 = t2
    t3 = t3
    idle = idle
    none = none
    w1 = w1
    noList = noList
    Tasks <- TwoTasks
    NoTask <- none
    WaitLists <- OneList
    NoList <- noList
    Idle <- idle
    MaxPriority = 3
    UserPriorities = {1, 2}
    NewPriorities = {}
    TickModulus = 6
    SliceTicks = 1
    Delays = {1, 2}
    MaxIsr = 1
    MaxLock = 1
SPECIFICATION LiveSpec
INVARIANTS
    DeadlinesAhead
PROPERTIES
    SleepIsExact
    ImplementsWaiting
    EveryDeadlineExpires
    NoStarvation
    DeferredSwitchHappens
