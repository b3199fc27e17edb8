SPECIFICATION Spec
CONSTANTS
    cursorxmax = 3
    cursorymax = 2
    Chars = {" ", "a"}
    Blank = " "
    Newline = "n"
    Cursor = "c"
    MaxPrinted = 9
INVARIANTS
    ScreenInv HoldsTail
CHECK_DEADLOCK FALSE
