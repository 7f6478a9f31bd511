---------------------------- MODULE RequestGates ----------------------------
(***************************************************************************)
(* The gates of the public API of clawde-intelligence: withGates           *)
(* (internal/api/server.go) with the workspace resolver                    *)
(* (auth/workspace_resolver.go), the daily quota (auth/quota.go), the      *)
(* policy and trust gates (api/policy_engine.go) and the rate limit.  The  *)
(* first gate, the validation of the token, is KeyCache.                   *)
(*                                                                         *)
(* Requests run in goroutines of their own.  What one reads (the clock, a  *)
(* row, the registry) may be old when it is used: every step here is one   *)
(* statement or one exchange with Redis.                                   *)
(* The tokens name an owner and no workspace, and are of the free tier; a  *)
(* tier without limits skips the quota and the rate limit.                 *)
(***************************************************************************)
EXTENDS Naturals, FiniteSets, Functions

CONSTANTS
    Requests,   \* goroutines that serve requests
    DailyLimit, \* Tier.DailyLimit
    RateLimit,  \* rateLimitForTier: requests per Window
    Window,     \* rateWindow
    CacheTTL,   \* trustCacheTTL
    DayLength,  \* the clock's ticks in a day
    MaxTime,    \* bounds the clock
    MaxRequests \* bounds the requests

VARIABLES
    now,      \* the clock
    ws,       \* clawde_workspaces: the rows of the owner
    quota,    \* clawde_quota: daily_count and window_start
    removed,  \* when a workspace left np_clawde_trusted_workspaces, or Never
    cache,    \* TrustRegistry.cache: expiresAt, and how long the query took
    zset,     \* the sorted set of Redis: the milliseconds in it
    req,      \* the requests
    begun,    \* how many requests there have been
    spent,    \* history: requests that passed the quota, by window_start
    judged    \* history: requests that Redis let pass, by their millisecond

world == <<now, removed>>
stores == <<ws, quota, cache, zset>>
vars == <<world, stores, req, begun, spent, judged>>

Times == 0 .. MaxTime
Never == MaxTime + 1

\* Each request makes at most one workspace, and only while there is none.
Workspaces == 1 .. Cardinality(Requests)

Day(t) == t - (t % DayLength)

Idle == [pc |-> "idle"]

TypeOK ==
    /\ now \in Times
    /\ ws \subseteq Workspaces
    /\ quota \in [Workspaces -> [count : Nat, start : Times]]
    /\ removed \in [Workspaces -> Times \cup {Never}]
    /\ cache \in [Workspaces -> [until : 0 .. MaxTime + CacheTTL, took : Times]]
    /\ zset \in [Workspaces -> SUBSET Times]
    /\ DOMAIN req = Requests /\ begun \in 0 .. MaxRequests
    /\ spent \in [Workspaces -> [Times -> Nat]]
    /\ judged \in [Workspaces -> [Times -> Nat]]

Init ==
    /\ now = 0
    /\ ws = {}
    /\ quota = [w \in Workspaces |-> [count |-> 0, start |-> 0]]
    /\ removed = [w \in Workspaces |-> Never]
    /\ cache = [w \in Workspaces |-> [until |-> 0, took |-> 0]]
    /\ zset = [w \in Workspaces |-> {}]
    /\ req = [r \in Requests |-> Idle] /\ begun = 0
    /\ spent = [w \in Workspaces |-> [t \in Times |-> 0]]
    /\ judged = [w \in Workspaces |-> [t \in Times |-> 0]]

Goto(r, q) == req' = [req EXCEPT ![r] = q]
Answer(r) == Goto(r, Idle)

-----------------------------------------------------------------------------
(***************************************************************************)
(* The world: time passes, an operator removes a workspace from the trust  *)
(* registry, a request with a valid token comes in                         *)
(***************************************************************************)

Tick ==
    /\ now < MaxTime
    /\ now' = now + 1
    /\ UNCHANGED <<removed, stores, req, begun, spent, judged>>

Distrust(w) ==
    /\ removed[w] = Never
    /\ removed' = [removed EXCEPT ![w] = now]
    /\ UNCHANGED <<now, stores, req, begun, spent, judged>>

Begin(r) ==
    /\ req[r] = Idle /\ begun < MaxRequests
    /\ begun' = begun + 1
    /\ Goto(r, [pc |-> "lookup"])
    /\ UNCHANGED <<world, stores, spent, judged>>

-----------------------------------------------------------------------------
(***************************************************************************)
(* Gate 2: Resolve.  The lookup by owner (LIMIT 1, in no order) and the    *)
(* INSERT are two statements, and owner_id is not unique.                  *)
(***************************************************************************)

Lookup(r) ==
    /\ req[r].pc = "lookup"
    /\ \/ ws = {} /\ Goto(r, [pc |-> "create"])
       \/ \E w \in ws : Goto(r, [pc |-> "quota", w |-> w])
    /\ UNCHANGED <<world, stores, begun, spent, judged>>

CreateWorkspace(r) ==
    /\ req[r].pc = "create"
    /\ LET w == Cardinality(ws) + 1 IN ws' = ws \cup {w} /\ Goto(r, [pc |-> "quota", w |-> w])
    /\ UNCHANGED <<world, quota, cache, zset, begun, spent, judged>>

-----------------------------------------------------------------------------
(***************************************************************************)
(* Gate 3: CheckAndIncrement.  The day is read first; the upsert that      *)
(* counts may run after another request's upsert of the next day.          *)
(***************************************************************************)

QuotaDay(r) ==
    /\ req[r].pc = "quota"
    /\ Goto(r, [pc |-> "upsert", w |-> req[r].w, day |-> Day(now)])
    /\ UNCHANGED <<world, stores, begun, spent, judged>>

\* The window becomes the day of whichever request came last.
RestartsForOtherDay(r) == quota[req[r].w].start # req[r].day

\* CASE WHEN clawde_quota.window_start < $3: only a later day resets the count.
Restarts(r) == quota[req[r].w].start < req[r].day

Upsert(r) ==
    LET w == req[r].w
        q == IF Restarts(r) THEN [count |-> 1, start |-> req[r].day]
                        ELSE [quota[w] EXCEPT !.count = @ + 1]
    IN  /\ req[r].pc = "upsert"
        /\ quota' = [quota EXCEPT ![w] = q]
        /\ IF q.count > DailyLimit
           THEN Answer(r) /\ UNCHANGED spent
           ELSE /\ Goto(r, [pc |-> "trust", w |-> w])
                /\ spent' = [spent EXCEPT ![w][q.start] = @ + 1]
        /\ UNCHANGED <<world, ws, cache, zset, begun, judged>>

-----------------------------------------------------------------------------
(***************************************************************************)
(* Gates 4 to 6: the policy service agrees, the trust registry is asked    *)
(* through a cache of its positive answers, the path is in the allowlist   *)
(***************************************************************************)

\* An error of a store or of a service, and the policy's no, refuse the request.
Refuse(r) ==
    /\ req[r].pc \in {"lookup", "create", "upsert", "trust", "registry"}
    /\ Answer(r)
    /\ UNCHANGED <<world, stores, begun, spent, judged>>

\* A hit keeps the entry for another CacheTTL.
TrustCachedRenewed(r) ==
    /\ req[r].pc = "trust"
    /\ LET w == req[r].w IN
       IF now < cache[w].until
       THEN /\ Goto(r, [pc |-> "clock", w |-> w])
            /\ cache' = [cache EXCEPT ![w].until = now + CacheTTL]
       ELSE /\ Goto(r, [pc |-> "registry", w |-> w, asked |-> now])
            /\ cache' = [cache EXCEPT ![w] = [until |-> 0, took |-> 0]]
    /\ UNCHANGED <<world, ws, quota, zset, begun, spent, judged>>

\* An expired entry is evicted; a newer one, stored since the load, goes with it.
TrustCached(r) ==
    /\ req[r].pc = "trust"
    /\ LET w == req[r].w IN
       IF now < cache[w].until
       THEN Goto(r, [pc |-> "clock", w |-> w]) /\ UNCHANGED cache
       ELSE /\ Goto(r, [pc |-> "registry", w |-> w, asked |-> now])
            /\ cache' = [cache EXCEPT ![w] = [until |-> 0, took |-> 0]]
    /\ UNCHANGED <<world, ws, quota, zset, begun, spent, judged>>

TrustQuery(r) ==
    /\ req[r].pc = "registry"
    /\ IF removed[req[r].w] = Never THEN Goto(r, [req[r] EXCEPT !.pc = "found"]) ELSE Answer(r)
    /\ UNCHANGED <<world, stores, begun, spent, judged>>

TrustStore(r) ==
    /\ req[r].pc = "found"
    /\ cache' = [cache EXCEPT ![req[r].w] = [until |-> now + CacheTTL, took |-> now - req[r].asked]]
    /\ Goto(r, [pc |-> "clock", w |-> req[r].w])
    /\ UNCHANGED <<world, ws, quota, zset, begun, spent, judged>>

-----------------------------------------------------------------------------
(***************************************************************************)
(* Gate 7: checkRateLimit.  The millisecond is read first; one pipeline    *)
(* drops what has left the window, counts, and adds the millisecond, for   *)
(* an admitted and a refused request alike.                                *)
(***************************************************************************)

RateClock(r) ==
    /\ req[r].pc = "clock"
    /\ Goto(r, [pc |-> "rate", w |-> req[r].w, at |-> now])
    /\ UNCHANGED <<world, stores, begun, spent, judged>>

RatePipeline(r) ==
    /\ req[r].pc = "rate"
    /\ LET w == req[r].w
           t == req[r].at
           kept == {m \in zset[w] : m + Window > t}
       IN  /\ zset' = [zset EXCEPT ![w] = kept \cup {t}]
           /\ judged' = IF Cardinality(kept) >= RateLimit THEN judged
                        ELSE [judged EXCEPT ![w][t] = @ + 1]
    /\ Answer(r)
    /\ UNCHANGED <<world, ws, quota, cache, begun, spent>>

\* Redis does not answer: the request passes, uncounted.
RateFails(r) ==
    /\ req[r].pc = "rate"
    /\ Answer(r)
    /\ UNCHANGED <<world, stores, begun, spent, judged>>

-----------------------------------------------------------------------------

Gates(r) ==
    \/ Begin(r) \/ Lookup(r) \/ CreateWorkspace(r) \/ QuotaDay(r) \/ Upsert(r)
    \/ Refuse(r) \/ TrustCached(r) \/ TrustQuery(r) \/ TrustStore(r)
    \/ RateClock(r) \/ RatePipeline(r) \/ RateFails(r)

Next ==
    \/ Tick
    \/ \E w \in Workspaces : Distrust(w)
    \/ \E r \in Requests : Gates(r)

Spec == Init /\ [][Next]_vars

-----------------------------------------------------------------------------
(***************************************************************************)
(* Properties                                                              *)
(***************************************************************************)

\* CheckAndIncrement lets at most the tier's daily limit of requests pass on one
\* day, also when a request that read the clock before midnight counts after
\* one that read it after.
QuotaPerDay ==
    \A w \in Workspaces, d \in Times : spent[w][d] <= DailyLimit

\* A workspace that has left the registry passes the trust gate for less than
\* the cache's TTL, not counting the time the query took: requests that hit
\* the cache do not keep the entry alive.
RemovedWorkspaceExpires ==
    [][\A r \in Requests :
         req[r].pc \in {"trust", "found"} /\ req'[r].pc = "clock" =>
            LET w == req[r].w
            IN  removed[w] = Never \/ now - removed[w] < CacheTTL + cache'[w].took]_vars

\* "Redis sliding window for rate limiting" (server.go:27), "free=10 req/min": in no
\* window does checkRateLimit let more requests pass than the limit.  The set has one
\* member for all the requests of a millisecond, and a request that comes late to
\* Redis may find members gone that it would have had to count.
RatePerWindow ==
    \A w \in Workspaces, t \in Times :
        SumFunctionOnSet(judged[w], {m \in Times : m <= t /\ m + Window > t}) <= RateLimit
=============================================================================
