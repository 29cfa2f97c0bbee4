SPECIFICATION Spec
CONSTANTS
    a = a
    b = b
    Empty = Empty
    Contiguous = FALSE
    HasFingerprint = TRUE
    Fingerprint <- MCFingerprint
    Fold <- MCFold
    FromSnapshot <- MCFromSnapshot
    AcceptSame <- MCAcceptSame
    InitialState = Empty
    Frames <- MCFrames
    Snapshots <- MCSnapshots
    Differences <- MCDifferences
INVARIANTS ScopeTypeOK
PROPERTIES NoRollback StateNeedsNewVersion
