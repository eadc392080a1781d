SPECIFICATION GateFairSpec
CONSTANTS
    t1 = t1
    t2 = t2
    g1 = g1
    g2 = g2
    g3 = g3
    c1 = c1
    c2 = c2
    Tasks = {t1, t2}
    Gates = {g1, g2}
    Calls = {c1, c2}
    NoTask = NoTask
    NoGate = NoGate
INVARIANTS ParkedIsWatched
PROPERTIES DecisionIsFinal ParkedObeysItsGate ParkedIsDecided
