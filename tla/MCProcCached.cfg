SPECIFICATION Spec
CONSTANTS
    Names = {"p", "2"}
    Paths <- ProcPaths
    kvfs = kvfs
    procfs = procfs
    devfs = devfs
    OtherKvfs = {}
    Pids = {"2"}
    Devices = {}
    AclUnset = {}
    Modes <- Default
    KVFS_MAX_FILE = 1
    MAX_FILE_PER_THREAD = 4
    Threads = {t1}
    MaxDentries = 7
    NULL = NULL
INVARIANTS
    ProcFollowsPool
CHECK_DEADLOCK FALSE
