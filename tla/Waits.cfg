SPECIFICATION FairSpecAll
CONSTANTS
    Callers = {c1, c2, c3, c4}
    FailureThreshold = 3
    SuccessThreshold = 2
    Timeout = 2
    Jobs = {j1, j2, j3}
    Workers = {w1, w2, w3, w4}
    NoJob = NoJob
    Ingest = {j1, w1}
    Learn = {j3, w4}
    Urgent = {j2}
    MaxRetries = 1
    EmbedMax = 0
    MaxFaults = 1
    Procs = {p1, p2, p3, p4, p5}
    Users = {u1, u2}
    Size = 2
    MaxText = 4
    ChunkCap = 1
    OutCap = 2
    Approvals = {r1, r2}
    Humans = {h1}
    Waiters = {x1}
    EventCap = 1
INVARIANTS
    AllTypesOK
    CountersBelowThresholds
    JobsRunAsCounted
    ShellsAccountedFor
    StreamIsFaithful
PROPERTIES
    FailFastWhileOpen
    OpenIsTemporary
    EveryJobSettles
    StopReturns
    StreamSettles
    DecisionWakes
CHECK_DEADLOCK FALSE
