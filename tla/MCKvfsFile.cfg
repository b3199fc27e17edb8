SPECIFICATION Spec
CONSTANTS
    Files = {f1, f2}
    Threads = {t1, t2}
    Words <- TwoWords
    Counts = {2}
    Offsets = {0, 1}
    Modes <- FileModes
    Zero = "0"
    Newline = "n"
    Junk = "?"
    Blocks = {b1, b2, b3}
    MaxSize = 3
    NULL = NULL
SYMMETRY Symmetry
INVARIANTS
    FileInv MemoryOwned
PROPERTIES
    AppendsKept ImplementsWholeFile
