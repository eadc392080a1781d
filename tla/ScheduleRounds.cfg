SPECIFICATION ScheduleFairSpec
CONSTANTS
    e1 = e1
    e2 = e2
    e3 = e3
    Entries = {e1, e2}
    NoEntry = NoEntry
    Periods = {0, 1}
    Limits = {0, 2}
    NoLimit = NoLimit
    BatchSize = 1
    Horizon = 2
    MaxCuts = 1
INVARIANTS PromotionsAreCounted NeverTooOften RhythmIsKept
PROPERTIES DueIsPromoted
CHECK_DEADLOCK FALSE
