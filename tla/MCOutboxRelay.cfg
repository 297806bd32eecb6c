SPECIFICATION FairSpec
CONSTANTS
    Worker = {w1, w2}
    NoWorker = NoWorker
    MaxEvent = 2
    BatchSize = 2
    MaxAttempts = 1
    MaxFaults = 1
INVARIANTS FencedClaims AttemptsAccounted
PROPERTIES LeaseRespected ImplementsDelivery EveryEventSettles
