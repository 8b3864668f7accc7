CONSTANTS
    c1 = c1
    c2 = c2
    k1 = k1
    k2 = k2
    k3 = k3
    t1 = t1
    t2 = t2
    s1 = s1
    s2 = s2
    Callers = {c1, c2}
    Keys = {k1, k2, k3}
    Tenants = {t1, t2}
    Locks = {s1, s2}
    TenantOf <- MCTenantOf
    LockOf <- MCLockOf
    NoKey = NoKey
    NoCaller = NoCaller
    MaxEntries = 2
    MaxBytes = 3
    TTL = 1
    Sizes = {1, 2, 4}
    MaxSize = 4
    MaxClock = 1
    MaxEpoch = 1
    MaxRequests = 3
SPECIFICATION FairSpec
INVARIANTS TypeOK NoStaleEntry StorageBounded MissesCoalesced
PROPERTIES StoredIsCached RequestsFinish ImplementsContract
CHECK_DEADLOCK FALSE
