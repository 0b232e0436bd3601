CONSTANTS
    None = None
    Requests = {r1, r2, r3, r4, r5}
    Scopes = {"coverage-run", "coverage-replay"}
    Callers = {u1}
    Second = 2
    Minute = 2
    Limit = 2
    Cap = 1
    Stall = 2
    MaxTime = 8
SPECIFICATION Spec
SYMMETRY LimiterSymmetry
CHECK_DEADLOCK FALSE
INVARIANTS
    TypeOK
    LimitIsExact
    WindowsApart
    WaitingHelps
    KeepsRecentOnly
