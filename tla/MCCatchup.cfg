SPECIFICATION Spec
CHECK_DEADLOCK FALSE
SYMMETRY LaunchSymmetry
CONSTANTS
    Conversations = {1, 2}
    Launches = {l1, l2}
    NoLaunch = NoLaunch
    MaxSeq = 3
    Inboxes <- MCInboxes
    OwedMax = 1
    MaxCandidates = 1
    MaxChannels = 1
    ChannelRows = 1
    TotalRows = 2
    CommitInOrder = TRUE
INVARIANTS
    CatchupTypeOK
    OwedUntilRendered
    CoverageIsRendered
PROPERTIES
    OwedGoFirst
