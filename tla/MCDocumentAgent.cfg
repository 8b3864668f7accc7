CONSTANTS
    r1 = r1
    r2 = r2
    p1 = p1
    t1 = t1
    r3 = r3
    Runners = {r1, r2, r3}
    People = {p1}
    Tasks = {t1}
    NoOne = NoOne
    NoTask = NoTask
    NoRow = NoRow
    Plans <- MCPlans
    max_calls = 5
    max_revisions = 1
SPECIFICATION FairSpec
INVARIANTS TypeOK CallsReserved PublishedByRight DecidedAsSeen
PROPERTIES WorkIsKept TaskSettles
CHECK_DEADLOCK FALSE
