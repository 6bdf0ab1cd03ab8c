\* As MCObjects.cfg, for event flags: what the requirements say of waits that
\* clear the flags they consume.
CONSTANTS
    t1 = t1
    t2 = t2
    t3 = t3
    semList = semList
    eventList = eventList
    selfWait = selfWait
    sendWait = sendWait
    recvWait = recvWait
    noList = noList
    noItem = noItem
    f1 = f1
    f2 = f2
    Tasks <- ThreeTasks
    WaitLists <- Lists
    NoList <- noList
    SemList <- semList
    EventList <- eventList
    SelfWait <- selfWait
    SendWait <- sendWait
    RecvWait <- recvWait
    NoItem <- noItem
    Setups <- AllSetups
    IsrCopyMax = 1
    SemMaxCount = 2
    MaxHandles = 2
    Flags <- TwoFlags
    MaxUsers <- EventUsers
    NotifyMax = 3
    NotifyArgs = {0, 1, 3}
    BitAnd <- AndOf
    BitOr <- OrOf
    SignalLimit = 1
SPECIFICATION Spec
PROPERTIES
    ConsumedFlagsDelivered
