CONSTANTS
    root = root
    child = child
    r0 = r0
    r1 = r1
    r2 = r2
    ch0 = ch0
    ch1 = ch1
    s = s
    c1 = c1
    c2 = c2
    Null = Null
    NoBarrier = Null
    Specified <- MCSpecified
    Desired <- MCRestarting
    Completes <- StaticCompletes
    Fails <- StaticFails
    Keys = {root, child}
    Generations = {0, 1}
    Tasks = {r0, r1, s}
    Shared = {r1, s}
    Controllers = {c1}
    Barriers = {1}
    Overlap = FALSE
    MaxEvents = 0
    MaxFailures = 2
    MaxRestarts = 1
SPECIFICATION FairSpec
INVARIANTS
    ViewIsCurrent
    GenerationsInTurn
    VerdictStands
    PassIsCurrent
PROPERTIES
    EndIsTrue
    EndKnowsTasks
    EndIsFinal
    WorkflowEnds
    TasksLivePlainly
CHECK_DEADLOCK FALSE
