CONSTANTS
    launchd = launchd
    producer = producer
    consumer = consumer
    NULL = NULL
    empty = empty
    fill = fill
    thread_lock = thread_lock
    semaphore_lock = semaphore_lock
    kernel_memory_lock = kernel_memory_lock
    Threads <- MCThreads
    Sems <- MCSems
    InitialCount <- MCInitialCount
    Locks <- MCLocks
    KERNEL_MAX_THREAD = 3
    NoIndex = 5
    SEM_TEST_MAX_BRACES = 5
SPECIFICATION Spec
INVARIANT
    UnitsConserved
PROPERTY
    Terminates
