CONSTANTS
    t1 = t1
    t2 = t2
    t3 = t3
    launchd = launchd
    NULL = NULL
    vfs_sem = vfs_sem
    thread_lock = thread_lock
    semaphore_lock = semaphore_lock
    kernel_memory_lock = kernel_memory_lock
    Threads <- MCThreads
    Sems <- MCSems
    InitialCount <- MCInitialCount
    Locks <- MCLocks
    KERNEL_MAX_THREAD = 3
    NoIndex = 5
SPECIFICATION FairSpec
INVARIANTS
    VfsExclusive
    NeverHung
    NoLockWarning
    HolderAlive
    GateInv
PROPERTIES
    RoundRobin
    ImplementsSemaphore
