SPECIFICATION FairSpec
CONSTANTS
    a = a
    b = b
    c = c
    d = d
    h1 = h1
    h2 = h2
    h3 = h3
    Parent = Parent
    Children = {a, b, c}
    Handlers = {h1, h2}
    SchemaStatuses <- Widened
INVARIANTS ParentIsNotForgotten
PROPERTIES BookkeepingLeavesAgents ParentIsClosed
CHECK_DEADLOCK FALSE
