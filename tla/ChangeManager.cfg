SPECIFICATION Spec
CONSTANTS
    Paths = {a, b}
    Contents = {empty, partial}
    None = None
    Unreadable = Unreadable
    Empty = empty
    Partial = partial
    Faults = {"tear", "undo", "disturb"}
    MaxPending = 3
    MaxExternal = 1
SYMMETRY PathSymmetry
INVARIANTS
    TypeOK
    NextWriteIsReviewed
    NoEditSilentlyLost
    DiskIsPrefixOfBatch
    FailedApplyRestores
