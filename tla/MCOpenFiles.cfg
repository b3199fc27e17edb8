SPECIFICATION Spec
CONSTANTS
    Threads = {launchd, t1}
    launchd = launchd
    MAX_FILE_PER_THREAD = 5
    Addresses = {a1, a2, a3}
    Kvfs = {txt}
    Proc = {pid}
    Devices = {null, zero}
    null = null
    Counts = {2}
    Lengths = {1, 2}
    Offsets = {0, 1}
    MaxPos = 1
    NULL = NULL
SYMMETRY Symmetry
INVARIANTS
    FilesOwned ReadsFit
PROPERTIES
    LeaksOnly StdoutWhole
