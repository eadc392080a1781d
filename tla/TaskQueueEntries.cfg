SPECIFICATION Spec
CONSTANTS
    a1 = a1
    a2 = a2
    Tasks = {t1}
    NoTask = NoTask
    Agents = {a1}
    NoAgent = NoAgent
    Handlers = {h1, h2}
    Rows = {r1, r2}
    NoRow = NoRow
    EligibleSets <- AllOrNone
    SchemaStatuses <- ShippedStatuses
    MaxDeclines = 2
    MaxRetries = 1
    ClaimRounds = 1
    Faulty = FALSE
    MaxInFlight = 1
    DeclineCap = 2
SYMMETRY Perms
INVARIANTS PendingIsCovered DeadLetteredIsRecoverable
CHECK_DEADLOCK FALSE
