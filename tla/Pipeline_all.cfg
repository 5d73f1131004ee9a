SPECIFICATION Spec

CONSTANTS
    Device <- MCDevice
    Product <- MCProduct
    ExecutorType <- MCExecutorType
    TargetDevices <- MCTargetDevices
    NumAbis = 3
    Available <- MCAvailable
    Usable <- MCUsable
    Namings <- Apart
    AtOnce = {TRUE, FALSE}
    OldFiles <- MCOldFiles
    OldCopies = {"d1"}
    MaxWindows = 2
    MayRaise = TRUE
    MayLogNothing = TRUE

INVARIANTS
    TypeOK
    BuiltForThis
    LabelledRight
    ReportedOnce
    OthersSurvive
    ListedExist

PROPERTIES
    Terminates

\* The program ends.
CHECK_DEADLOCK FALSE
