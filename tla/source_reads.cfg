SPECIFICATION FairSpec
CONSTANTS
    Contracts <- AllContracts
    MaxRecords = 3
    Values = {1, 2}
    Matching = {1, 3}
    Moves = FALSE
    MaxFaults = 2
    Faults = {"transient", "permanent", "late_error", "state"}
CHECK_DEADLOCK FALSE
INVARIANTS
    NothingPassedOver
    ReadIsExact
    InactiveIsGone
PROPERTY EveryRecordArrives
