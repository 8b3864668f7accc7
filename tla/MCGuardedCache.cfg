CONSTANTS
    c1 = c1
    c2 = c2
    t1 = t1
    t2 = t2
    q1 = q1
    q2 = q2
    s1 = s1
    s2 = s2
    text = text
    Callers = {c1, c2}
    Tenants = {t1, t2}
    Queries = {q1, q2}
    Requests <- MCRequests
    Scopes = {s1, s2}
    InitialScope = s1
    Default = Default
    Texts = {text}
    SizeOf <- MCSizeOf
    Score <- MCScore
    Threshold = 85
    Margin = 5
    TTL = 1
    Nothing = Nothing
    MaxEntries = 2
    MaxBytes = 4
    MaxSize = 2
    MaxClock = 1
    MaxEpoch = 1
    MaxRequests = 3
SPECIFICATION Spec
SYMMETRY MCSymmetry
INVARIANTS TypeOK KnowledgeCurrent IndexFresh IndexBounded
PROPERTIES SemanticHitIsValid
CHECK_DEADLOCK FALSE
