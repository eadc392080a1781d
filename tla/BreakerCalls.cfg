SPECIFICATION FairSpec
CONSTANTS
    c1 = c1
    c2 = c2
    c3 = c3
    c4 = c4
    Callers = {c1, c2, c3}
    Plans = {"call"}
    Threshold = 2
    MaxFailures = 3
INVARIANTS ProbeIsOwned
PROPERTIES OpenIsTried
