SPECIFICATION Spec
CONSTANTS
    None = None
    Absent = Absent
    Bad = Bad
    Space = Space
    Letters = {a, b}
    Calls <- PlannedCalls
    Ids = {s1, s2}
    PlanSize = 3
    MaxDeps = 2
    MaxSteps = 3
    MaxReplans = 1
    Threads = {t1, t2}
    Scripts = {a, b}
    Idents = {"m"}
    MaxWrites = 2
    MaxBuilds = 2
    Limit = 1
    NCtx = 8192
    Response = 1024
    Turns = 2
    Tasks = {40, 8000, 20000, 27000, 28500}
    Messages = {40, 4000, 9000, 20000, 27000}
    Retrieved = {100, 6000, 12000, 24000}
    Templates = {6000, 18000, 24000, 27000}
    Ranker = t1
    Indexed = {"a", "b", "c"}
    Imports <- ImportChain
    Scores = {10, 20}
    Costs = {2, 4}
    MaxFiles = 3
    Budget = 5
    MaxEdits = 1
    Tracked = {"src/a", "lib/a", "b"}
    StemOf <- Stems
    SrcNames <- UnderSrc
    Tests = {"a", "b"}
    MaxPlanned = 2
SYMMETRY Interchangeable
INVARIANTS
    TypeOK
    ScanIsExact
    GraphIsExact
    PlansAreSound
    LookupsAreRight
    EditsAreExact
    BudgetsFit
    RetrievalIsSound
    VerdictIsEarned
CHECK_DEADLOCK FALSE
