SPECIFICATION Spec
CONSTANTS
    None = None
    Sessions = {s1}
    Calls = {c1}
    Turns = {t1, t2, t3}
    Providers = {"claude"}
    Ops = {"create", "send"}
    MaxSessions = 0
SYMMETRY SymCallsTurns
INVARIANT
    AtMostOneTurn
CHECK_DEADLOCK FALSE
