SPECIFICATION Spec
CONSTANTS
    NormalCap = 2
    GapInstancesMax = 1
    GapsPerInstanceMax = 2
    CrossMax = 2
    LaunchReserve = 1
    MaxLaunch = 2
    MaxInstance = 2
    MaxSeq = 2
    MaxFaults = 1
    TornRecovery = FALSE
CHECK_DEADLOCK FALSE
INVARIANTS
    OutboxTypeOK
    LossIsRemembered
    NothingSwallowed
    AckMeansSeen
PROPERTIES
    NoBlindStart
