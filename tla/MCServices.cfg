SPECIFICATION Spec
CONSTANTS
    w1 = w1
    w2 = w2
    w3 = w3
    p = p
    q = q
    s = s
    None = None
    Torn = Torn
    Missing = Missing
SYMMETRY Interchangeable
INVARIANTS
    TypeOK
    UndoIsReady
    SessionsAreKept
    NothingForgotten
    WrittenWasDecided
    ModelsAreShared
    ResultsReachTheirStep
    RequestsAreBounded
    StreamIsComplete
PROPERTIES
    RestoresHold
    CondensingShrinks
    NothingOrphaned
CHECK_DEADLOCK FALSE
