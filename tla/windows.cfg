SPECIFICATION Spec
CONSTANTS
    Executions = {e1, e2}
    Contracts <- AllContracts
    NoKey = NoKey
    k1 = k1
    MaxTime = 5
    Second = 2
SYMMETRY Symmetry
CHECK_DEADLOCK FALSE
INVARIANTS
    NoRowLost
    WindowsPartition
    BackfillIsComplete
    NoWindowTwice
