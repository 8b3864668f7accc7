CONSTANTS
    ask = ask
    reword = reword
    near = near
    other = other
    personal = personal
    Requests <- MCRequests
    ScopeOf <- MCScopeOf
    Cacheable <- MCCacheable
    Similarity <- MCSimilarity
    Policies = {"exact", "similarity", "verified"}
    Verdicts <- MCVerdicts
    Dimensions = {1, 2}
    FreshResults = {"complete", "raises"}
    threshold = 85
    margin = 5
    ttl_seconds = 1
    Sizes = {1, 3}
    StreamLength = 3
    MaxClock = 1
    MaxEntries = 2
    MaxBytes = 2
    MaxSize = 3
SPECIFICATION BenchmarkSpec
INVARIANTS EvidenceHolds
CHECK_DEADLOCK FALSE
