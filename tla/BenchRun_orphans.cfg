SPECIFICATION Spec

CONSTANTS
    p1 = p1
    p2 = p2
    p3 = p3
    NoOne = NoOne
    ExecutorType <- MCExecutorType
    DeviceType <- MCDeviceType
    Executors <- MCExecutors
    BenchmarkList <- MCBenchmarkList
    Supports <- MCSupports
    Pipelines = {p1, p2, p3}
    Transport = "adb"
    MaxTimePerLock = 2
    LockTimeout = 1
    RunInterval = 10
    SetupTime = 0
    ItemTime = 1
    MayRaise = TRUE
    MayLosePull = FALSE
    MayOrphan = TRUE
    EarlierFile = FALSE

INVARIANTS
    OwnResultsOnly

\* Every worker ends.
CHECK_DEADLOCK FALSE
