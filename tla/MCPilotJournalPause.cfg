CONSTANTS
    p1 = p1
    p2 = p2
    runA = runA
    runB = runB
    Processes = {p1, p2}
    Runs = {runA, runB}
    NoRun = NoRun
    NoRow = NoRow
    Calls = 3
    max_calls = 2
    daily_limit = 2
    minute_limit = 3
    DayLength = 2
    Minute = 2
    MaxClock = 2
SPECIFICATION JournalSpec
INVARIANTS RateLimitBlocks
CHECK_DEADLOCK FALSE
