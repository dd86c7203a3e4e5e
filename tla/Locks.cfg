SPECIFICATION Spec
CONSTANTS
    c1 = c1
    c2 = c2
    s1 = s1
    s2 = s2
    Proc = {c1, c2, w}
    Watcher = w
    Scope = {s1, s2}
    Plans <- MCPlans
    MaxChanges = 1
    MaxCrashes = 1
    Instance = {i1, i2}
    Ttl = 1
    MaxClock = 2
    MaxTakes = 3
INVARIANTS
    ExclusionUnlessRaced
    LostToOverlapOnly
    LeaseExclusive
PROPERTIES
    ChangeIsAnswered
    InterruptIsHeeded
    LoserLearns
CHECK_DEADLOCK FALSE
