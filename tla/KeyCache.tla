------------------------------ MODULE KeyCache ------------------------------
(***************************************************************************)
(* JWTValidator of clawde-intelligence (internal/auth/jwt_validator.go):   *)
(* the key set of the issuer, cached for jwksCacheTTL under a read-write   *)
(* lock, and the verdict on a token.                                       *)
(*                                                                         *)
(* A request looks at the cache under the read lock, gives it up, takes    *)
(* the write lock, looks again and fetches while it holds the lock.  A     *)
(* token is abstracted to the generation of the key it is signed with; one *)
(* that is malformed or has another algorithm is refused at once.          *)
(***************************************************************************)
EXTENDS Naturals, FiniteSets

CONSTANTS
    Requests, \* goroutines that validate tokens
    CacheTTL, \* jwksCacheTTL
    MaxTime,  \* bounds the clock
    MaxKeys   \* bounds the generations of the signing key

VARIABLES
    now,      \* the clock
    key,      \* the generation of the key at the JWKS endpoint
    retired,  \* when each generation was replaced
    keySet,   \* keySet, keySetFetch, and how long the fetch had taken
    mu,       \* the request that holds the write lock
    req       \* the requests

vars == <<now, key, retired, keySet, mu, req>>

Times == 0 .. MaxTime
Keys == 1 .. MaxKeys

Idle == [pc |-> "idle"]

TypeOK ==
    /\ now \in Times
    /\ key \in Keys /\ retired \in [Keys -> Times]
    /\ keySet \in [gen : Keys \cup {0}, at : Times, took : Times]
    /\ mu \subseteq Requests /\ Cardinality(mu) <= 1
    /\ DOMAIN req = Requests

Init ==
    /\ now = 0
    /\ key = 1 /\ retired = [k \in Keys |-> 0]
    /\ keySet = [gen |-> 0, at |-> 0, took |-> 0]
    /\ mu = {}
    /\ req = [r \in Requests |-> Idle]

Goto(r, q) == req' = [req EXCEPT ![r] = q]

Tick == now < MaxTime /\ now' = now + 1 /\ UNCHANGED <<key, retired, keySet, mu, req>>

\* The issuer replaces its key.
Rotate ==
    /\ key < MaxKeys
    /\ key' = key + 1
    /\ retired' = [retired EXCEPT ![key] = now]
    /\ UNCHANGED <<now, keySet, mu, req>>

Fresh == keySet.gen # 0 /\ now - keySet.at < CacheTTL

\* A request with a token of some generation arrives.
Begin(r) ==
    /\ req[r] = Idle
    /\ \E g \in 1 .. key : Goto(r, [pc |-> "keys", gen |-> g])
    /\ UNCHANGED <<now, key, retired, keySet, mu>>

\* jwt.Parse with a key set: the signature matches, or the token is refused.
Verify(r, gen) ==
    Goto(r, IF req[r].gen = gen THEN [pc |-> "valid", gen |-> gen] ELSE Idle)

\* The look under the read lock, for which a writer has to finish.
KeysCached(r) ==
    /\ req[r].pc = "keys" /\ mu = {}
    /\ IF Fresh THEN Verify(r, keySet.gen) ELSE Goto(r, [req[r] EXCEPT !.pc = "lock"])
    /\ UNCHANGED <<now, key, retired, keySet, mu>>

\* The look under the write lock.
KeysLocked(r) ==
    /\ req[r].pc = "lock" /\ mu = {}
    /\ IF Fresh
       THEN Verify(r, keySet.gen) /\ mu' = mu
       ELSE mu' = {r} /\ Goto(r, [pc |-> "fetch", gen |-> req[r].gen, asked |-> now])
    /\ UNCHANGED <<now, key, retired, keySet>>

\* jwk.Fetch: the endpoint answers with the key of this moment.
FetchAnswer(r) ==
    /\ req[r].pc = "fetch"
    /\ Goto(r, [pc |-> "store", gen |-> req[r].gen, asked |-> req[r].asked, got |-> key])
    /\ UNCHANGED <<now, key, retired, keySet, mu>>

\* The answer is stored, with the time of the storing.
FetchStore(r) ==
    /\ req[r].pc = "store"
    /\ keySet' = [gen |-> req[r].got, at |-> now, took |-> now - req[r].asked]
    /\ mu' = {}
    /\ Verify(r, req[r].got)
    /\ UNCHANGED <<now, key, retired>>

\* The old key set is used when the endpoint does not answer.
FetchFailStale(r) ==
    /\ req[r].pc = "fetch"
    /\ mu' = {}
    /\ Verify(r, keySet.gen)
    /\ UNCHANGED <<now, key, retired, keySet>>

\* JWKS unavailable: refused, whatever the cache still holds.
FetchFail(r) ==
    /\ req[r].pc = "fetch"
    /\ mu' = {}
    /\ Goto(r, Idle)
    /\ UNCHANGED <<now, key, retired, keySet>>

\* The claims are returned and the request goes on to the next gate.
Return(r) ==
    /\ req[r].pc = "valid"
    /\ Goto(r, Idle)
    /\ UNCHANGED <<now, key, retired, keySet, mu>>

Validate(r) ==
    \/ Begin(r) \/ KeysCached(r) \/ KeysLocked(r)
    \/ FetchAnswer(r) \/ FetchStore(r) \/ FetchFail(r) \/ Return(r)

Next == Tick \/ Rotate \/ \E r \in Requests : Validate(r)

Spec == Init /\ [][Next]_vars

-----------------------------------------------------------------------------
(***************************************************************************)
(* Properties                                                              *)
(***************************************************************************)

\* A token signed with a replaced key is accepted for less than the TTL after
\* the replacement, not counting the time that the last fetch took: keySetFor
\* never falls back on a key set past its TTL, and a request that waited for
\* the lock of another's failed fetch does not either.
ReplacedKeyExpires ==
    \A r \in Requests :
        req[r].pc # "valid" /\ req'[r].pc = "valid" =>
            LET g == req[r].gen
            IN  g = key \/ now - retired[g] < CacheTTL + keySet'.took

\* The requests that wait for the lock while one of them fetches use what it
\* fetched: no request fetches while the cache is fresh.
FetchOnlyWhenStale == \A r \in Requests : req[r].pc = "fetch" => ~Fresh

\* The key set is used for its TTL: neither longer nor shorter.
KeySetKept == [][FetchOnlyWhenStale' /\ ReplacedKeyExpires]_vars
=============================================================================
