SPECIFICATION FairSpec
CONSTANTS
    Call = {c1, c2, c3}
    Enabled = TRUE
    FailureThreshold = 2
    OpenDuration = 2
    MaxLoaderFailures = 1
INVARIANTS
    HalfOpenIsProbing
PROPERTIES
    CooldownNotExtended
    AsksRedisAgain
