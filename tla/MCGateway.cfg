CONSTANTS
    s1 = s1
    s2 = s2
    p1 = p1
    Requests = {s1, s2, p1}
    Streams = {s1, s2}
    max_inflight = 2
    MaxEvents = 2
SPECIFICATION FairSpec
INVARIANTS TypeOK SlotsAccounted CountedOnce WireIsWellFormed
PROPERTIES SlotsComeBack
CHECK_DEADLOCK FALSE
