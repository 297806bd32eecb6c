SPECIFICATION FairSpec
CONSTANTS
    p1 = p1
    p2 = p2
    r1 = r1
    r2 = r2
    w1 = w1
    w2 = w2
    Process = {p1, p2}
    Reader = {r1, r2}
    Writer = {w1}
    ProcessOf <- TwoProcesses
    Edits = {"create", "update", "access", "remove"}
    Null = Null
    Empty = Empty
    NoHolder = NoHolder
    MaxWrites = 2
    MaxFaults = 1
INVARIANTS
    SingleRebuilder
PROPERTIES
    FillsOnlyEmpty
    EventuallyFresh
    EveryCallReturns
