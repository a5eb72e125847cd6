SPECIFICATION Spec
CONSTANTS
    Paths = {a, b}
    Contents = {empty, partial}
    None = None
    Unreadable = Unreadable
    Empty = empty
    Partial = partial
    Faults = {"tear"}
    MaxPending = 3
    MaxExternal = 1
SYMMETRY PathSymmetry
INVARIANT RollbackIsComplete
