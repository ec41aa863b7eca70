CONSTANTS
    ordinary = ordinary
    second = second
    recovery = recovery
    pool = pool
    c1 = c1
    c2 = c2
    Tasks = {ordinary}
    JobId = {1, 2}
    NoJob = 0
    NoTask = NoTask
    Classes = {pool}
    ClassOf <- MCOneClass
    PriorityOf <- MCOnePriority
    Recovery = 800
    Policies = {}
    NoPolicy = NoPolicy
    BatchSize = 2
    MaxAge = 2
    Controllers = {c1, c2}
    Nobody = Nobody
    LeaseSeconds = 1
    MaxDelay = 1
    Grace = 1
    MaxPass = 1
    MaxUp = 2
    MaxCrashes = 1
    LostReplies = TRUE
SPECIFICATION Spec
SYMMETRY Ids
INVARIANTS
    IInv
    SucceededIsTrue
    UnlaunchedHasNoJob
CHECK_DEADLOCK FALSE
