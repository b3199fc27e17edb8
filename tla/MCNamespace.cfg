SPECIFICATION Spec
CONSTANTS
    Names = {"2", "null"}
    Paths <- TreePaths
    kvfs = kvfs
    procfs = procfs
    devfs = devfs
    OtherKvfs = {k1, k2}
    Pids = {"2"}
    Devices = {"null"}
    AclUnset = {"null"}
    Modes <- ReadOnly
    KVFS_MAX_FILE = 2
    MAX_FILE_PER_THREAD = 4
    Threads = {t1}
    MaxDentries = 6
    NULL = NULL
INVARIANTS
    TreeSound MountsExact OneFsPerTree InodesExact WalksLiveMounts TraceSpells MountsApart
PROPERTY
    CoveredUntouched
