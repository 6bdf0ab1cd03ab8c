\* Three interchangeable threads, of which two may read at a time; a barrier for
\* two, passed up to twice; two names and two entries of the table; one key for
\* two threads or two keys for one; mutexes locked up to twice.  Behaviours
\* end where a bound is reached, and where a thread that is over is not created
\* again.
CONSTANTS
    t1 = t1
    t2 = t2
    t3 = t3
    mutexList = mutexList
    readersCond = readersCond
    writersCond = writersCond
    noList = noList
    noOwner = noOwner
    e1 = e1
    e2 = e2
    n1 = n1
    n2 = n2
    noName = noName
    Entries <- TwoEntries
    Names <- TwoNames
    NoName <- noName
    MaxReferences = 2
    Tasks <- ThreeTasks
    WaitLists <- Lists
    NoList <- noList
    MutexList <- mutexList
    Conditions <- TwoConditions
    ReadersCond <- readersCond
    WritersCond <- writersCond
    NoOwner <- noOwner
    SemMaxCount = 3
    ReaderSlots = 2
    CountModulus = 4
    Threshold = 2
    MaxGeneration = 2
    MaxHandles = 2
    KeyCounts = {1, 2}
    DestructorRounds = 2
    LockList <- LockWaiters
    NoThread = noOwner
    MaxDepth = 2
    Kinds = {"condition", "barrier", "rwlock", "thread", "named", "key", "mutex"}
    MaxExcess = 1
CONSTRAINT FewAfterCrossing
SYMMETRY Interchangeable
SPECIFICATION Spec
CHECK_DEADLOCK FALSE
INVARIANTS
    NoSignalLost
    RwlockExact
    RecordsFreedOnce
    NamedExact
    KeyValuesExact
    MutexLayersAgree
