SPECIFICATION Spec
CONSTANTS
    Runs = {r1, r2}
    NoRun = NoRun
    NoKey = NoKey
    k1 = k1
    Keys = {k1}
    Plans <- PlainPlans
    Watermarked = TRUE
    Pinned = TRUE
    Bad = {}
    MaxRow = 1
    Faults = {}
    TTL = 0
CHECK_DEADLOCK FALSE
PROPERTY FailureKeepsWatermark
