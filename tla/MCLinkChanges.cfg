SPECIFICATION ChangesSpec
CONSTANTS
    Call = {c1, c2, c3}
    Link = {l1, l2, l3, l4}
    Code = {k1, k2}
    Old = l1
    OldCode = k1
    Unused = Unused
    Gone = Gone
    None = None
    MaxAttempts = 2
INVARIANTS
    ChangesTypeOK
    AuditTellsTheHistory
    AnswersAreTrue
PROPERTIES
    RecordsOnce
    EverythingSettles
CHECK_DEADLOCK FALSE
