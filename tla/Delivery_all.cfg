SPECIFICATION Spec

CONSTANTS
    Pipeline <- MCPipeline
    Model <- MCModel
    Protos <- MCProtos
    Benchmarks <- MCBenchmarks
    Image <- MCImage
    Remote <- MCRemote
    Version <- MCVersion
    Cases <- MCCases
    Freq <- MCFreq
    Readable = {1, 4}
    NumThreads = 4
    MaxWindows = 2
    MaxRestarts = 1

INVARIANTS
    TypeOK
    NothingUnverified
    OwnUnlessTouched
    SetupIntact
    LibrariesThere
    BoundToBigCores
    ListedAsAsked

PROPERTIES
    HostKeepsGood
    QuietOnceDelivered
    Ends

\* Every run of every pipeline ends.
CHECK_DEADLOCK FALSE
