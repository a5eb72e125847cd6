SPECIFICATION Spec
CONSTANTS
    Paths = {a, b}
    Contents = {empty, partial}
    None = None
    Unreadable = Unreadable
    Empty = empty
    Partial = partial
    Faults = {}
    MaxPending = 3
    MaxExternal = 1
PROPERTY AtomicSpec
