SPECIFICATION Spec
CONSTANTS
    Keys = {k1, k2}
    k1 = k1
    k2 = k2
    Null = Null
    Values = {1, 2}
    Parts = {p1, p2}
    p1 = p1
    p2 = p2
    Home <- HomeOfKeys
    Plans <- SoundPlans
    MaxPredicateValues = 2
    MaxBatch = 2
    MaxWrites = 3
    Faults = {"error", "conflict", "no_truncate"}
CHECK_DEADLOCK FALSE
INVARIANTS
    OneRowPerKey
    VersionsAreChanges
    TargetIsReplay
PROPERTIES
    WriteIsApplied
    HistoryKept
