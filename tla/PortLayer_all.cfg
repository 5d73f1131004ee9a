SPECIFICATION Spec

CONSTANTS
    Settings <- MCSettings
    VLevels <- MCVLevels
    Envs = {"android", "linux"}
    MaxFreq <- MCMaxFreq
    PageSize = 4
    Buffers <- MCBuffers
    Frames <- MCFrames
    MaxSteps = 2
    MaxOpen = 1
    MaxCalls = 3

INVARIANTS
    LogRight
    FreesWholePages

\* The process may end, and its calls are bounded.
CHECK_DEADLOCK FALSE
