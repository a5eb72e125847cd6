SPECIFICATION Spec
CONSTANTS
    Users = {u1, u2}
    Approvers = {a1}
    MaxSessions = 1
    MaxRetries = 1
    MaxMade = 2
    MaxRuns = 2
    MaxPreviews = 0
INVARIANT RunningIsReal
CHECK_DEADLOCK FALSE
