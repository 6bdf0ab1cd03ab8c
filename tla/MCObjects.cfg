\* Up to three interchangeable tasks for semaphores and buffers, two for event
\* flags and notifications; one object, created up to twice; two flags;
\* notification values of two bits; three signals; queues and pipes in five setups.
CONSTANTS
    t1 = t1
    t2 = t2
    t3 = t3
    semList = semList
    eventList = eventList
    selfWait = selfWait
    sendWait = sendWait
    recvWait = recvWait
    noList = noList
    noItem = noItem
    f1 = f1
    f2 = f2
    Tasks <- ThreeTasks
    WaitLists <- Lists
    NoList <- noList
    SemList <- semList
    EventList <- eventList
    SelfWait <- selfWait
    SendWait <- sendWait
    RecvWait <- recvWait
    NoItem <- noItem
    Setups <- AllSetups
    IsrCopyMax = 1
    SemMaxCount = 2
    MaxHandles = 2
    Flags <- TwoFlags
    MaxUsers <- Users
    NotifyMax = 3
    NotifyArgs = {0, 1, 3}
    BitAnd <- AndOf
    BitOr <- OrOf
    SignalLimit = 3
SYMMETRY Interchangeable
SPECIFICATION Spec
INVARIANTS
    NoSatisfiedEventWaiter
    NotificationsKept
    SignalsKept
    NoLostWakeup
PROPERTIES
    SemaphoreImplements
    RingImplements
