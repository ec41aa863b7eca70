CONSTANTS
    ordinary = ordinary
    second = second
    recovery = recovery
    pool = pool
    c1 = c1
    c2 = c2
    Tasks <- MCTasks
    JobId = {1, 2}
    NoJob = 0
    NoTask = NoTask
    Classes = {pool}
    ClassOf <- MCClassOf
    PriorityOf <- MCPriorityOf
    Recovery = 800
    Policies <- MCOneWorker
    NoPolicy = NoPolicy
    BatchSize = 2
    MaxAge = 1
    Controllers = {c1}
    Nobody = Nobody
    LeaseSeconds = 1
    MaxDelay = 0
    Grace = 1
    MaxPass = 0
    MaxUp = 1
    MaxCrashes = 1
    LostReplies = FALSE
SPECIFICATION FairSpec
PROPERTIES
    EveryTaskFinishes
CHECK_DEADLOCK FALSE
