SPECIFICATION Spec
CONSTANTS
    t1 = t1
    t2 = t2
    t3 = t3
    t4 = t4
    t5 = t5
    Tasks = {t1, t2, t3}
    NoTask = NoTask
    Handlers = {h1, h2}
    NSteps = 3
    Group <- SkipGroup
    When <- SkipWhen
    NoStep = NoStep
    Retries <- SkipRetries
    OnFailure = FALSE
    OnDisk = TRUE
    Answers = {FALSE}
    DlqCounts = {}
    Faulty = FALSE
SYMMETRY Perms
PROPERTIES FalseStepsAreSkipped
CHECK_DEADLOCK FALSE
