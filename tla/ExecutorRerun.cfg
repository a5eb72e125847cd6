SPECIFICATION Spec
CONSTANTS
    Callers = {c1}
    NoJob = NoJob
    MaxIterations = 2
    MaxReplans = 1
    MaxRetries = 1
    MaxReflections = 2
    MaxPlan = 2
    MaxItems = 2
    MaxOutside = 0
    MaxRuns = 1
INVARIANT NothingTakesEffectTwice
CHECK_DEADLOCK FALSE
