SPECIFICATION Spec
CONSTANTS
    t1 = t1
    t2 = t2
    t3 = t3
    t4 = t4
    t5 = t5
    Tasks = {t1, t2, t3}
    NoTask = NoTask
    Handlers = {h1, h2}
    NSteps = 3
    Group <- HeadGroup
    When <- HeadWhen
    NoStep = NoStep
    Retries <- HeadRetries
    OnFailure = FALSE
    OnDisk = TRUE
    Answers = {TRUE}
    DlqCounts = {}
    Faulty = FALSE
SYMMETRY Perms
INVARIANTS NoStepIsMissed
CHECK_DEADLOCK FALSE
