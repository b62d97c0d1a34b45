SPECIFICATION Spec
CONSTANTS
    Calls = {c1, c2}
    Schedules <- MCSchedules
    reader = reader
    writer = writer
    legacy = legacy
    email = email
    secret = secret
    w1 = w1
    w2 = w2
    Grants = {reader, writer, legacy}
    InitialGrants <- MCInitialGrants
    Columns = {email, secret}
    TableColumns = {email}
    Words = {w1, w2}
    Unset = Unset
    MaxByHand = 1
    Faults = {"statement", "read", "control", "crash"}
SYMMETRY Symmetry
INVARIANTS
    AuditIsTruthful
    AppliedStands
PROPERTIES
    OnlyAskedFor
