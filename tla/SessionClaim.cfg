SPECIFICATION Spec
CONSTANTS
    None = None
    Sessions = {s1}
    Calls = {c1, c2}
    Turns = {t1, t2}
    Providers = {"codex", "cursor"}
    Ops <- ClaimSafeOps
    MaxSessions = 0
SYMMETRY SymCallsTurns
INVARIANTS
    TypeOK
    AtMostOneTurn
    RunningHasTurn
PROPERTY
    ClaimIsLock

