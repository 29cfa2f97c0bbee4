SPECIFICATION FairSpec
CONSTANTS
    Envelopes <- MCEnvelopes
    MaxQueueRows = 4
    MaxQueueBytes = 4
    MaxBatchRows = 2
    MaxBatchBytes = 2
    MaxBatchAge = 2
    Period = 1
    Backoff = 1
    MaxBackoff = 3
    RetryAfters = {0, 3}
    MaxAccepted = 6
CHECK_DEADLOCK FALSE
INVARIANTS TypeOK LedgerBalances FirstInFirstOut RowsWithinLimits BytesWithinLimits DrainedMeansEmpty NoOversleep
PROPERTIES NothingIsStranded DrainEnds
