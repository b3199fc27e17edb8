CONSTANTS
    boot = boot
    t1 = t1
    t2 = t2
    thread = thread
    memory = memory
    console = console
    nobody = nobody
    Contexts <- MCContexts
    Boot <- boot
    Nobody <- nobody
    Locks <- MCLocks
SPECIFICATION Spec
INVARIANTS
    HolderMasked
    RestoresInterrupts
    SectionInv
PROPERTY
    ImplementsSections
