SPECIFICATION SpecAll
CONSTANTS
    Calls = {c1, c2}
    Tasks = {t1}
    Agents = {a1, a2}
    Phases = {p1}
    Urgent = {}
    Logged = {t1}
    Keys = {k1}
    Null = Null
    Targets = {"ready", "active", "needs_review", "in_review",
               "needs_qa", "in_qa", "needs_secondary", "done"}
    MaxEvents = 2
    Kinds = {"active", "needs_approval", "code_review", "qa"}
    Callers = {d1}
    CheckpointEvery = 2
    MaxAppends = 5
    MaxCrashes = 2
    User = User
    MaxCommits = 2
    MaxRestarts = 1
SYMMETRY SymCallsAgents
INVARIANTS
    AllTypesOK
    RetryAndResumeSafe
    DoneWasReviewed
    RecoveryIsExact
    CommitsKept
    MergedWasMerged
PROPERTIES
    AuditLogIsAppendOnly
    ClaimNeverStolen
CHECK_DEADLOCK FALSE
