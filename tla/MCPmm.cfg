CONSTANTS
    Start = 48
    End = 72
    Sizes = {1, 5}
    MaxLive = 3
SPECIFICATION Spec
INVARIANTS
    HeapInv
    Merged
PROPERTIES
    FreshMemory
    ClientMemoryKept
CHECK_DEADLOCK FALSE
