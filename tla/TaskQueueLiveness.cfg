SPECIFICATION FairSpec
CONSTANTS
    a1 = a1
    a2 = a2
    Tasks = {t1}
    NoTask = NoTask
    Agents = {a1}
    NoAgent = NoAgent
    Handlers = {h1}
    Rows = {r1, r2}
    NoRow = NoRow
    EligibleSets <- AllOrNone
    SchemaStatuses <- WidenedStatuses
    MaxDeclines = 1
    MaxRetries = 1
    ClaimRounds = 1
    Faulty = FALSE
    MaxInFlight = 1
    DeclineCap = 1
PROPERTIES PendingIsRouted DeadLetteredIsRetried HeldIsReleased
CHECK_DEADLOCK FALSE
