SPECIFICATION Spec
CONSTANTS
    Users = {u1, u2}
    Approvers = {a1, a2}
    MaxSessions = 1
    MaxRetries = 0
    MaxMade = 3
    MaxRuns = 2
    MaxPreviews = 1
SYMMETRY Symmetry
INVARIANTS
    TypeOK
    TenantsApart
    PlanRunsOnce
    PausedIsReachable
PROPERTY BusyIsKept
CHECK_DEADLOCK FALSE
