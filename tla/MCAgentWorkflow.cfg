CONSTANTS
    Runs = {r1, r2, r3}
    Keys = {k1, k2}
    Caches = {"exact", "guarded"}
    max_provider_calls = 2
    max_inflight = 2
SPECIFICATION WorkflowSpec
INVARIANTS CallsAccounted
CHECK_DEADLOCK FALSE
