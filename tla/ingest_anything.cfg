SPECIFICATION FairSpec
CONSTANTS
    Runs = {r1, r2}
    NoRun = NoRun
    NoKey = NoKey
    k1 = k1
    Keys = {k1}
    Plans <- MixedPlans
    Watermarked = TRUE
    Pinned = TRUE
    Bad = {2}
    MaxRow = 2
    Faults = {"error", "late_error", "control", "interrupt", "crash", "slow"}
    TTL = 0
CHECK_DEADLOCK FALSE
INVARIANTS
    NoRowLost
PROPERTIES
    ImplementsLease
    EveryRunEnds
    LockComesFree
