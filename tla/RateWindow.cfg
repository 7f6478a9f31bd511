SPECIFICATION Spec
CONSTANTS
    Requests = {r1, r2}
    DailyLimit = 10
    RateLimit = 2
    Window = 2
    CacheTTL = 1
    DayLength = 2
    MaxTime = 1
    MaxRequests = 3
INVARIANT
    RatePerWindow
CHECK_DEADLOCK FALSE
