SPECIFICATION Spec
CONSTANTS
    t1 = t1
    t2 = t2
    t3 = t3
    t4 = t4
    t5 = t5
    Tasks = {t1, t2, t3, t4, t5}
    NoTask = NoTask
    Handlers = {h1, h2}
    NSteps = 4
    Group <- ParGroup
    When <- ParWhen
    NoStep = NoStep
    Retries <- ParRetries
    OnFailure = FALSE
    OnDisk = TRUE
    Answers = {TRUE}
    DlqCounts = {}
    Faulty = FALSE
SYMMETRY Perms
INVARIANTS StepsAreCreatedOnce
CHECK_DEADLOCK FALSE
