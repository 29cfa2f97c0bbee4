SPECIFICATION FairSpec
CONSTANTS
    t1 = t1
    t2 = t2
    old = old
    new = new
    None = None
    Tasks = {t1, t2}
    Replicas = {old, new}
    Kinds = {"reindex", "notify"}
    KindOf <- MCKindOf
    Known <- MCKnown
    MaxAttempts <- MCMaxAttempts
    LeaseMs <- MCLeaseMs
    BackoffMs <- MCBackoffMs
    Retention = 0
    MaxLosses = 1
    Leaving = {old}
INVARIANTS
    TypeOK
    NoSharedAttempt
    BudgetRespected
PROPERTIES
    NoEarlyTakeover
    FinishedIsFinal
    EventuallySettled
