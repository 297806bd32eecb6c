SPECIFICATION Spec
CONSTANTS
    Session = {s1, s2}
    Request = {r1, r2}
    NoToken = NoToken
    AccessTTL = 1
    RefreshTTL = 2
    MaxTime = 3
    MaxVersion = 2
SYMMETRY Symmetry
INVARIANTS
    OneSuccessor
    ClientKeepsUp
    NoOrphanSession
PROPERTIES RevokedForGood
CHECK_DEADLOCK FALSE
