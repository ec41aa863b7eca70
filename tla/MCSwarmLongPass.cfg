CONSTANTS
    ordinary = ordinary
    second = second
    recovery = recovery
    pool = pool
    c1 = c1
    c2 = c2
    Tasks <- MCTasks
    JobId = {1, 2, 3}
    NoJob = 0
    NoTask = NoTask
    Classes = {pool}
    ClassOf <- MCClassOf
    PriorityOf <- MCPriorityOf
    Recovery = 800
    Policies <- MCPolicies
    NoPolicy = NoPolicy
    BatchSize = 2
    MaxAge = 6
    Controllers = {c1}
    Nobody = Nobody
    LeaseSeconds = 4
    MaxDelay = 1
    Grace = 3
    MaxPass = 3
    MaxUp = 1
    MaxCrashes = 1
    LostReplies = FALSE
SPECIFICATION Spec
INVARIANTS
    NoDuplicateJob
CHECK_DEADLOCK FALSE
