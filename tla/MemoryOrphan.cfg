SPECIFICATION MemorySpec
CONSTANTS
    c1 = c1
    c2 = c2
    w1 = w1
    w2 = w2
    Calls = {c1}
    Workers = {w1}
    MaxAttempts = 2
    BatchSize = 2
    MaxStores = 2
    MaxRows = 2
INVARIANTS DeletedIsGone
CHECK_DEADLOCK FALSE
