\* Two connections, whose handlers overlap or take turns.
CONSTANTS
    Conn = {c1, c2}
    Instance = {i1, i2}
    Requested = {1}
    MaxTime = 3
    MaxSessions = 2
SPECIFICATION Spec
SYMMETRY MCSymmetry
CHECK_DEADLOCK FALSE
INVARIANTS
    AdmittedInLease
    PromiseKept
PROPERTIES
    IdentityKept
    ExpiredForGood
