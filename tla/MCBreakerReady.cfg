CONSTANTS
    MaxLaunch = 2
    MaxInstance = 2
    MaxProcess = 2
    MaxFaults = 2
    MaxFrames = 1
    SameThreshold = 1
    TotalThreshold = 2
    UnexitedMax = 2
    ReadyInOrder = FALSE
SPECIFICATION Spec
CHECK_DEADLOCK FALSE
INVARIANTS
    NoUnknownStart
