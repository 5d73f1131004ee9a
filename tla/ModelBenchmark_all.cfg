SPECIFICATION Spec

CONSTANTS
    Options <- MCOptions
    Flagged <- MCBuilt
    Built <- MCBuilt
    OnDevice <- MCOnDevice
    KMinIters = 5
    KMaxIters = 20
    KMinTime = 24
    Durations <- MCDurations
    IntRange = 64
    MaxEntries = 3

INVARIANTS
    TypeOK
    MeanIsRobust
    PrecisionExact
    InferenceChecked

PROPERTIES
    ContractRefinement
    Exits

\* The process ends.
CHECK_DEADLOCK FALSE
