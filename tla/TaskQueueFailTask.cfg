SPECIFICATION Spec
CONSTANTS
    a1 = a1
    a2 = a2
    Tasks = {t1}
    NoTask = NoTask
    Agents = {a1, a2}
    NoAgent = NoAgent
    Handlers = {h1, h2}
    Rows = {r1}
    NoRow = NoRow
    EligibleSets <- AllActive
    SchemaStatuses <- ShippedStatuses
    MaxDeclines = 2
    MaxRetries = 1
    ClaimRounds = 1
    Faulty = FALSE
    MaxInFlight = 1
    DeclineCap = 2
SYMMETRY Perms
INVARIANTS FailedTasksAreDeadLettered
CHECK_DEADLOCK FALSE
