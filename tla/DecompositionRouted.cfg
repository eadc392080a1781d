SPECIFICATION Spec
CONSTANTS
    a = a
    b = b
    c = c
    d = d
    h1 = h1
    h2 = h2
    h3 = h3
    Parent = Parent
    Children = {a, b}
    Handlers = {h1}
    SchemaStatuses <- Shipped
PROPERTIES SplitIsNotRouted
CHECK_DEADLOCK FALSE
