SPECIFICATION FairSpec
CONSTANTS
    Call = {c1, c2, c3}
    Enabled = TRUE
    FailureThreshold = 1
    OpenDuration = 2
    MaxLoaderFailures = 1
PROPERTIES HalfOpenEnds
