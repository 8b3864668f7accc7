CONSTANTS
    c1 = c1
    c2 = c2
    c3 = c3
    k1 = k1
    k2 = k2
    t1 = t1
    t2 = t2
    p1 = p1
    p2 = p2
    Callers = {c1, c2, c3}
    Keys = {k1, k2}
    Tenants = {t1, t2}
    Processes = {p1, p2}
    ProcessOf <- MCProcessOf
    Locks = {p1, p2}
    TenantOf <- MCTenantOf
    LockOf <- MCLockOf
    NoKey = NoKey
    NoCaller = NoCaller
    MaxEntries = 2
    MaxBytes = 2
    TTL = 1
    Sizes = {1, 2}
    MaxSize = 2
    MaxClock = 1
    MaxEpoch = 1
    MaxCrashes = 1
    MaxRequests = 3
SPECIFICATION Spec
SYMMETRY MCSymmetry
INVARIANTS NoStaleRow TableBounded CoalescedInProcess
PROPERTIES StoredIsCached ImplementsContract
CHECK_DEADLOCK FALSE
