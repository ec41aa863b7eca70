CONSTANTS
    k1 = k1
    k2 = k2
    t1 = t1
    t2 = t2
    t3 = t3
    u1 = u1
    u2 = u2
    c1 = c1
    Null = Null
    Keys = {k1, k2}
    Tasks = {t1, t2, t3}
    Generations <- MCGenerations
    SequenceNumbers = {1, 2}
    Uris = {u1, u2}
    ControllerUris <- MCControllerUris
SPECIFICATION Spec
SYMMETRY MCSymmetry
INVARIANTS
    IInv
    RefIsNewest
    EventPerCommit
    AnswersAgree
PROPERTIES
    LatestNeverGoesBack
    ImplementsRestorePoints
CHECK_DEADLOCK FALSE
