SPECIFICATION AllSpec
CONSTANTS
    Capacity = 2
    Cost = 2
    Ttl = 9
    Second = 3
    MaxTime = 14
    MaxBack = 2
    FLimit = 2
    FWindow = 3
    FMaxTime = 10
    SLimit = 2
    SWindow = 4
    SMilli = 2
    SSecond = 2
    SMaxTime = 14
    Request = {q1, q2, q3, q4}
    GMaxTime = 3
    Allowed <- TwoPerWindow
    MaxFaults = 2
INVARIANTS
    RetryAfterSuffices
    WindowsRetryAfterSuffices
    ClosedStaysBounded
    OpenPaysPerFault
PROPERTIES
    ImplementsBound
    WindowsImplementBound
CHECK_DEADLOCK FALSE
