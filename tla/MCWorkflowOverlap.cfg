CONSTANTS
    root = root
    child = child
    r0 = r0
    r1 = r1
    r2 = r2
    ch0 = r1
    ch1 = r2
    s = s
    c1 = c1
    c2 = c2
    Null = Null
    NoBarrier = Null
    Specified <- MCSpecified
    Desired <- MCDesired
    Completes <- MCCompletes
    Fails <- MCFails
    Keys = {root, child}
    Generations = {0, 1, 2}
    Tasks = {r0, r1, r2}
    Shared = {}
    Controllers = {c1, c2}
    Barriers = {1}
    Overlap = TRUE
    MaxEvents = 3
    MaxFailures = 1
    MaxRestarts = 2
SPECIFICATION Spec
SYMMETRY MCSymmetry
INVARIANTS
    IInv
    StateIsReplay
    OnlyDesired
    LastEventIsStatus
PROPERTIES
    GenerationsRise
CHECK_DEADLOCK FALSE
