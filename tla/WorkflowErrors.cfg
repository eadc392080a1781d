SPECIFICATION Spec
CONSTANTS
    t1 = t1
    t2 = t2
    t3 = t3
    t4 = t4
    t5 = t5
    Tasks = {t1, t2, t3, t4}
    NoTask = NoTask
    Handlers = {h1, h2}
    NSteps = 3
    Group <- RowGroup
    When <- RowWhen
    NoStep = NoStep
    Retries <- RowRetries
    OnFailure = FALSE
    OnDisk = TRUE
    Answers = {TRUE, FALSE}
    DlqCounts = {}
    Faulty = TRUE
SYMMETRY Perms
INVARIANTS GivesUpAfterRetries
PROPERTIES ResultsAreKept FailedRunIsFinal
CHECK_DEADLOCK FALSE
