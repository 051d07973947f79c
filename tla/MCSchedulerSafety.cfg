CONSTANTS
    Threads = {t0, t1, t2}
    SystemThread = t0
    NotificationEvents = {n}
    SynchronizationEvents = {e}
    Mutexes = {m, createLock, terminateLock}
    PsCreateThreadCallbackList = createLock
    PsTerminateThreadCallbackList = terminateLock
    PsReadyListHead = readyHead
    PsWaitListHead = waitHead
    NoObject = noObject
    MayExit = {t1, t2}
    MayKill = {t0}
    DelayCounts = {1}
    QuantumIncrements = {0}
    THREAD_NORMAL_QUANTUM = 1
    TickModulus = 2
    QuantumModulus = 65536
SPECIFICATION Spec
SYMMETRY Symmetry
INVARIANTS
    WaitersAreWaiting
    NoSleeperOnSignaledObject
    TakenMutexHasHolder
    ThreadListsWellFormed
    EveryThreadIsListed
PROPERTIES
    OnlyReadyThreadsRun
CHECK_DEADLOCK FALSE
