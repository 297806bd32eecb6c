SPECIFICATION Spec
CONSTANTS
    User = {u1, u2}
    Workspace = {a, b}
    Member = {m1, m2}
    Link = {l1}
    Request = {r1, r2}
    Unused = Unused
    Gone = Gone
    None = None
    MaxSeeds = 1
SYMMETRY Symmetry
PROPERTIES
    MembersByRight
    LinksByRight
    RightsAreSeen
CHECK_DEADLOCK FALSE
