SPECIFICATION Spec
CONSTANTS
    Runs = {r1, r2, r3}
    NoRun = NoRun
    NoKey = NoKey
    k1 = k1
    Keys = {k1}
    Plans <- LockedPlans
    Watermarked = TRUE
    Pinned = TRUE
    Bad = {}
    MaxRow = 2
    Faults = {"late_error", "control", "crash"}
    TTL = 0
SYMMETRY Symmetry
CHECK_DEADLOCK FALSE
INVARIANTS
    TypeOK
    ExclusiveAccess
    SuccessfulRunsDisjoint
    RunLogTruthful
    SkippedWorkIsDone
PROPERTY SuccessNeverRegresses
