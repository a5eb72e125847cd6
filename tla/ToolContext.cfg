SPECIFICATION Spec
CONSTANTS
    Roots = {workspace}
    Cwd = cwd
    Pool = {p1}
    None = None
    MaxRuns = 1
    MaxExecutors = 1
    MaxSessions = 1
INVARIANTS
    PathsResolveAtHome
CHECK_DEADLOCK FALSE
