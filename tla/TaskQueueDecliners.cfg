SPECIFICATION Spec
CONSTANTS
    a1 = a1
    a2 = a2
    Tasks = {t1}
    NoTask = NoTask
    Agents = {a1, a2}
    NoAgent = NoAgent
    Handlers = {h1, h2}
    Rows = {r1}
    NoRow = NoRow
    EligibleSets <- AllActive
    SchemaStatuses <- ShippedStatuses
    MaxDeclines = 2
    MaxRetries = 1
    ClaimRounds = 2
    Faulty = FALSE
    MaxInFlight = 1
    DeclineCap = 1
SYMMETRY Perms
PROPERTIES RouterSkipsDecliners
CHECK_DEADLOCK FALSE
