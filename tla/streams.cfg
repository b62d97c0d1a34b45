SPECIFICATION FairSpec
CONSTANTS
    Runs = {r1, r2}
    NoRun = NoRun
    NoKey = NoKey
    k1 = k1
    Keys = {k1}
    Deployments <- AllDeployments
    MaxFile = 2
    TTL = 0
CHECK_DEADLOCK FALSE
INVARIANTS
    NoBatchLost
    NoDuplicateReruns
    SuccessIsComplete
    MetricsComplete
    BatchesUnderLock
PROPERTIES
    ImplementsLease
    EveryStreamEnds
