SPECIFICATION FairSpec
CONSTANTS
    Request = {r1, r2}
    Channel = {c1, c2}
    Limit = {1}
    NoLimit = NoLimit
    NoSnapshot = NoSnapshot
    NoKey = NoKey
    Prefetch = 1
    MaxEdits = 1
    MaxFaults = 1
INVARIANTS CountExact LimitedFromTheStart StatsNeverAhead
PROPERTIES EventuallyStored
CHECK_DEADLOCK FALSE
