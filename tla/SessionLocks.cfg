SPECIFICATION FairSpec
CONSTANTS
    None = None
    Sessions = {s1}
    Calls = {c1, c2}
    Turns = {t1}
    Providers = {"claude"}
    Ops = {"create", "send", "pause", "delete", "drain"}
    MaxSessions = 0
PROPERTIES
    TurnsEnd
    CallsReturn
    RunningEnds
CHECK_DEADLOCK FALSE
