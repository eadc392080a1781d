SPECIFICATION FairSpec
CONSTANTS
    c1 = c1
    c2 = c2
    c3 = c3
    c4 = c4
    Callers = {c1, c2}
    Plans = {"call", "peek"}
    Threshold = 1
    MaxFailures = 1
PROPERTIES OpenIsTried
