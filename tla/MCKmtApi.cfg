CONSTANTS
    t1 = t1
    t2 = t2
    t3 = t3
    sem = sem
    other = other
    launchd = launchd
    NULL = NULL
    thread_lock = thread_lock
    semaphore_lock = semaphore_lock
    kernel_memory_lock = kernel_memory_lock
    Threads <- MCThreads
    Sems <- MCSems
    InitialCount <- MCInitialCount
    Locks <- MCLocks
    KERNEL_MAX_THREAD = 3
    NoIndex = 5
    MaxCount <- MCMaxCount
SPECIFICATION ApiSpec
INVARIANTS
    KmtInv
    DispatchSafe
    OverflowCaught
    ProcReadSafe
PROPERTY
    LostByTeardownOnly
SYMMETRY Symmetry
CHECK_DEADLOCK FALSE
