SPECIFICATION Spec
CONSTANTS
    Conns = {c1}
    Sessions = {s1, s2}
    Writers = {w1}
    Cap = 2
    MaxWrites = 4
    RemoteConns = {c1, c2, c3}
    ConnLimit = 1
    RpcLimit = 1
    RpcWindow = 2
    MaxMinutes = 5
    MaxRpcs = 3
    ChannelCap = 2
    MaxClients = 2
    MaxCalls = 2
    MaxEvents = 3
    MaxDrops = 1
    Requests = {r1, r2}
    DailyLimit = 1
    RateLimit = 1
    Window = 2
    TrustTTL = 2
    DayLength = 1
    MaxTime = 2
    MaxRequests = 3
    Validators = {v1, v2, v3}
    KeyTTL = 2
    MaxKeyTime = 4
    MaxKeys = 2
    Pins = {p1}
    PairConns = {n1, n2}
    Devices = {d1, d2}
    PinTTL = 2
    MaxPinTime = 3
    MaxIssued = 2
    UpdateConns = {u1, u2}
    ExeFollows = TRUE
    ChecksPerLife = 2
    MaxLives = 3
    CheckConns = {c1}
    Daemon = Daemon
    Grace = 2
    MaxLicenseTime = 8
    MaxCrashes = 1
INVARIANTS
    TypeOK
    CaughtUpIsCurrent
    LimitsHold
    PinPairsOnce
    BinaryKept
PROPERTIES
    SessionAgreed
    CachesExpire
CHECK_DEADLOCK FALSE
