SPECIFICATION BudgetFairSpec
CONSTANTS
    c1 = c1
    c2 = c2
    Calls = {c1, c2}
    MaxCost = 2
    Daily = 3
    Grants <- SomeGrants
    StaleCycles = 2
    MaxTimeouts = 1
INVARIANTS OverdraftIsBounded
PROPERTIES SilenceIsNotPaid ExhaustionEnds
