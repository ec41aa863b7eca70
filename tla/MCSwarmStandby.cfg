CONSTANTS
    ordinary = ordinary
    second = second
    recovery = recovery
    pool = pool
    c1 = c1
    c2 = c2
    Tasks <- MCTasks
    JobId = {1, 2, 3}
    NoJob = 0
    NoTask = NoTask
    Classes = {pool}
    ClassOf <- MCClassOf
    PriorityOf <- MCPriorityOf
    Recovery = 800
    Policies <- MCPolicies
    NoPolicy = NoPolicy
    BatchSize = 2
    MaxAge = 4
    Controllers = {c1, c2}
    Nobody = Nobody
    LeaseSeconds = 2
    MaxDelay = 1
    Grace = 3
    MaxPass = 1
    MaxUp = 2
    MaxCrashes = 1
    LostReplies = FALSE
SPECIFICATION Spec
SYMMETRY Ids
INVARIANTS
    TypeOK
    TimelyInv
    CountsJobs
    NoDuplicateJob
    BoundToOwnJob
    ControllerSurvives
PROPERTIES
    AdmissionKeepsReserve
    ImplementsTaskLife
CHECK_DEADLOCK FALSE
