CONSTANTS
    Threads = {t0, t1, t2}
    SystemThread = t0
    NotificationEvents = {}
    SynchronizationEvents = {}
    Mutexes = {createLock, terminateLock}
    PsCreateThreadCallbackList = createLock
    PsTerminateThreadCallbackList = terminateLock
    PsReadyListHead = readyHead
    PsWaitListHead = waitHead
    NoObject = noObject
    MayExit = {t1}
    MayKill = {}
    DelayCounts = {1}
    QuantumIncrements = {0}
    THREAD_NORMAL_QUANTUM = 2
    TickModulus = 3
    QuantumModulus = 65536
SPECIFICATION FairSpec
PROPERTIES
    ReadyThreadRuns
CHECK_DEADLOCK FALSE
