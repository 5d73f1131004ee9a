SPECIFICATION Spec

CONSTANTS
    p1 = p1
    p2 = p2
    p3 = p3
    NoOne = NoOne
    ExecutorType <- MCExecutorType
    DeviceType <- MCDeviceType
    Executors <- MCExecutors
    BenchmarkList <- MCBenchmarkList
    Supports <- MCSupports
    Pipelines = {p1, p2}
    Transport = "ssh"
    MaxTimePerLock = 1
    LockTimeout = 2
    RunInterval = 10
    SetupTime = 1
    ItemTime = 1
    MayRaise = TRUE
    MayLosePull = TRUE
    MayOrphan = FALSE
    EarlierFile = TRUE

INVARIANT
    ReportedOnce

PROPERTIES
    LeaseRefinement
    Termination

\* Every worker ends.
CHECK_DEADLOCK FALSE
