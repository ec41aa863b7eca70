CONSTANTS
    c1 = c1
    c2 = c2
    c3 = c3
    Nobody = Nobody
    Controllers <- MCControllers
    LeaseSeconds = 2
    MaxClock = 6
    MaxToken = 4
SPECIFICATION Spec
SYMMETRY Ids
INVARIANTS
    IInv
    LeaseExclusive
    FenceUnique
PROPERTIES
    ImplementsLease
