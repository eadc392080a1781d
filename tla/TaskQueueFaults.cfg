SPECIFICATION Spec
CONSTANTS
    a1 = a1
    a2 = a2
    Tasks = {t1}
    NoTask = NoTask
    Agents = {a1, a2}
    NoAgent = NoAgent
    Handlers = {h1, h2}
    Rows = {r1}
    NoRow = NoRow
    EligibleSets <- AllOrNone
    SchemaStatuses <- WidenedStatuses
    MaxDeclines = 1
    MaxRetries = 1
    ClaimRounds = 1
    Faulty = TRUE
    MaxInFlight = 1
    DeclineCap = 1
SYMMETRY Perms
PROPERTIES CompletedIsKept HolderIsKept ImplementsTaskLife
CHECK_DEADLOCK FALSE
