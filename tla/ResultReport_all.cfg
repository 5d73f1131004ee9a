SPECIFICATION Spec

CONSTANTS
    Option = "Precision"
    Model <- MCModel
    Product <- MCProduct
    Joined <- MCJoined
    NumExecutors = 3
    Inputs <- MCInputs

INVARIANTS
    TypeOK
    EveryResultOnce
    EveryRowShows
    RecordsAreLines
    OneRowPerKey

\* The program ends.
CHECK_DEADLOCK FALSE
