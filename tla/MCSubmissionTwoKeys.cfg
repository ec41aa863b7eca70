CONSTANTS
    t1 = t1
    t2 = t2
    t3 = t3
    t4 = t4
    g1 = g1
    g2 = g2
    k1 = k1
    k2 = k2
    Ids = {t1, t2, t3, g1, g2}
    Generated = {g1, g2}
    Keys = {k1, k2}
    NoKey = NoKey
    NoId = NoId
    Requests <- MCTwoKeys
SPECIFICATION Spec
INVARIANTS
    Idempotent
CHECK_DEADLOCK FALSE
