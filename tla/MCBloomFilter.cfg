SPECIFICATION BloomSpec
CONSTANTS
    Process = {p1, p2}
    Code <- Codes
    Bucket = {0, 1}
    BucketOf <- OddAndEven
    BatchSize = 1
    MaxFaults = 2
    MaxLosses = 1
    MaxDeletes = 1
SYMMETRY Symmetry
INVARIANTS
    HiddenForAReason
CHECK_DEADLOCK FALSE
