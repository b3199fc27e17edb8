CONSTANTS
    Start = 48
    End = 80
    Sizes = {4}
    MaxLive = 3
SPECIFICATION Spec
PROPERTY
    FreshMemory
CHECK_DEADLOCK FALSE
