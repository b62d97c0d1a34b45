SPECIFICATION Spec
CONSTANTS
    Runs = {r1, r2}
    r1 = r1
    r2 = r2
    Scenarios <- AllScenarios
    Null = Null
    k1 = k1
    FirstAlone = TRUE
    Faults = {"statement", "crash"}
CHECK_DEADLOCK FALSE
INVARIANTS
    SplitIsExact
    MergeInputIsSafe
PROPERTY EvolutionIsPermitted
