SPECIFICATION Spec
CONSTANTS
    t1 = t1
    t2 = t2
    t3 = t3
    t4 = t4
    t5 = t5
    Tasks = {t1, t2}
    NoTask = NoTask
    Handlers = {h1, h2}
    NSteps = 2
    Group <- PairGroup
    When <- PairWhen
    NoStep = NoStep
    Retries <- PairRetries
    OnFailure = TRUE
    OnDisk = TRUE
    Answers = {TRUE}
    DlqCounts = {1}
    Faulty = FALSE
SYMMETRY Perms
INVARIANTS RunIsNotForgotten
CHECK_DEADLOCK FALSE
