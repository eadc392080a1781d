SPECIFICATION Spec
CONSTANTS
    t1 = t1
    t2 = t2
    t3 = t3
    t4 = t4
    t5 = t5
    Tasks = {t1, t2, t3, t4}
    NoTask = NoTask
    Handlers = {h1, h2}
    NSteps = 4
    Group <- HopGroup
    When <- HopWhen
    NoStep = NoStep
    Retries <- HopRetries
    OnFailure = FALSE
    OnDisk = TRUE
    Answers = {FALSE}
    DlqCounts = {}
    Faulty = FALSE
SYMMETRY Perms
INVARIANTS RunIsNotForgotten
CHECK_DEADLOCK FALSE
