SPECIFICATION FairSpec
CONSTANTS
    Callers = {c1, c2}
    NoJob = NoJob
    MaxIterations = 2
    MaxReplans = 1
    MaxRetries = 1
    MaxReflections = 2
    MaxPlan = 2
    MaxItems = 2
    MaxOutside = 2
    MaxRuns = 2
INVARIANTS
    TypeOK
    SingleDriver
    BatchIsTheOnePaused
    BudgetsHold
    NothingStranded
PROPERTIES
    CancelIsFinal
    CallsReturn
CHECK_DEADLOCK FALSE
