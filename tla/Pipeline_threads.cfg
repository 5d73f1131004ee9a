SPECIFICATION Spec

CONSTANTS
    Device <- MCDevice
    Product <- MCProduct
    ExecutorType <- MCExecutorType
    TargetDevices <- MCTargetDevices
    NumAbis = 3
    Available <- MCAvailable
    Usable <- MCUsable
    Namings <- Apart
    AtOnce = {TRUE}
    OldFiles <- MCOldFiles
    OldCopies = {"d1"}
    MaxWindows = 1
    MayRaise = FALSE
    MayLogNothing = FALSE

INVARIANT
    AllBenchmarked

CHECK_DEADLOCK FALSE
