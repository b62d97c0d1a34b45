SPECIFICATION Spec
CONSTANTS
    Runs = {r1, r2}
    Day = 2
    TTL = 1
    RetentionDays = 1
    MaxTime = 4
    Faults = {"setup", "work", "retention", "crash"}
SYMMETRY Symmetry
CHECK_DEADLOCK FALSE
INVARIANTS
    TablesAreMigrated
    SomebodyGetsThrough
    NoRepeatWithinRetention
PROPERTY LiveLockStands
