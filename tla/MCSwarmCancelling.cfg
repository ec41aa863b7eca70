CONSTANTS
    ordinary = ordinary
    second = second
    recovery = recovery
    pool = pool
    c1 = c1
    c2 = c2
    Tasks <- MCOrdinary
    JobId = {1, 2, 3}
    NoJob = 0
    NoTask = NoTask
    Classes = {pool}
    ClassOf <- MCOrdinaryClass
    PriorityOf <- MCOrdinaryPriority
    Recovery = 800
    Policies <- MCPolicies
    NoPolicy = NoPolicy
    BatchSize = 2
    MaxAge = 4
    Controllers = {c1}
    Nobody = Nobody
    LeaseSeconds = 2
    MaxDelay = 1
    Grace = 3
    MaxPass = 1
    MaxUp = 1
    MaxCrashes = 0
    LostReplies = FALSE
SPECIFICATION Spec
PROPERTIES
    ReserveStaysReady
CHECK_DEADLOCK FALSE
