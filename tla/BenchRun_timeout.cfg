SPECIFICATION Spec

CONSTANTS
    p1 = p1
    p2 = p2
    p3 = p3
    NoOne = NoOne
    ExecutorType <- MCExecutorType
    DeviceType <- MCDeviceType
    Executors <- MCExecutors
    BenchmarkList <- MCBenchmarkList
    Supports <- MCSupports
    Pipelines = {p1, p2}
    Transport = "adb"
    MaxTimePerLock = 10
    LockTimeout = 2
    RunInterval = 10
    SetupTime = 1
    ItemTime = 1
    MayRaise = FALSE
    MayLosePull = TRUE
    MayOrphan = FALSE
    EarlierFile = FALSE

INVARIANTS
    OthersGetTheDevice

\* Every worker ends.
CHECK_DEADLOCK FALSE
