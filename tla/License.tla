------------------------------- MODULE License ------------------------------
(***************************************************************************)
(* The license of the daemon: verify_and_cache and its cache in SQLite     *)
(* (license/mod.rs), called when the daemon starts and every 24 hours      *)
(* after (commands/server.rs), and by the RPC license.check.               *)
(*                                                                         *)
(* A license token is configured; without one the tier is always free.  A  *)
(* tier is "paid" or "free".  A call has ten seconds for its answer and    *)
(* so straddles at most one unit of the clock.  The row's HMAC, which      *)
(* fails only for a row written elsewhere or by another version, is left   *)
(* out: it makes the cache less often valid.                               *)
(***************************************************************************)
EXTENDS Naturals

CONSTANTS
    Conns,       \* connections that call license.check
    Daemon,      \* the daemon's own start and refresh
    Grace,       \* 24 h: how long a row is valid, and between two refreshes
    MaxTime,     \* bounds the clock
    MaxCrashes   \* bounds the restarts

VARIABLES
    now,       \* Utc::now
    backend,   \* the tier that /daemon/verify answers with
    paidAt,    \* when it last answered "paid"; 0 before
    row,       \* license_cache: tier and valid_until
    license,   \* the license in memory
    daemon,    \* "down", "starting" or "up"
    next,      \* the next tick of the refresh
    call,      \* calls of verify_and_cache: pc, start, and the LicenseInfo
    crashes

vars == <<now, backend, paidAt, row, license, daemon, next, call, crashes>>

Tiers == {"paid", "free"}
Callers == Conns \cup {Daemon}

TypeOK ==
    /\ now \in 1 .. MaxTime /\ paidAt \in 0 .. now
    /\ backend \in Tiers /\ license \in Tiers
    /\ row \in [tier : Tiers, until : 0 .. MaxTime + Grace]
    /\ daemon \in {"down", "starting", "up"}
    /\ next \in 1 .. MaxTime + Grace
    /\ call \in [Callers -> [pc : {"idle", "verify", "write", "read", "set"},
                             since : 0 .. MaxTime, got : Tiers]]
    /\ crashes \in 0 .. MaxCrashes

Idle == [pc |-> "idle", since |-> 0, got |-> "free"]
Asking == [pc |-> "verify", since |-> now, got |-> "free"]

Init ==
    /\ now = 1 /\ backend = "paid" /\ paidAt = 0
    /\ row = [tier |-> "free", until |-> 0]
    /\ license = "free" /\ daemon = "starting" /\ next = 1 + Grace
    /\ call = [c \in Callers |-> IF c = Daemon THEN Asking ELSE Idle]
    /\ crashes = 0

Goto(c, pc) == call' = [call EXCEPT ![c].pc = pc]

-----------------------------------------------------------------------------
(***************************************************************************)
(* The clock, the backend, and the daemon's life                           *)
(***************************************************************************)

\* No call outlasts its timeout, and the refresh begins at its tick.
Tick ==
    /\ now < MaxTime
    /\ \A c \in Callers : call[c].pc # "idle" => call[c].since = now
    /\ daemon = "up" => now < next
    /\ now' = now + 1
    /\ UNCHANGED <<backend, paidAt, row, license, daemon, next, call, crashes>>

\* The subscription ends or begins.
Change ==
    /\ backend' \in Tiers \ {backend}
    /\ UNCHANGED <<now, paidAt, row, license, daemon, next, call, crashes>>

Crash ==
    /\ daemon # "down" /\ crashes < MaxCrashes
    /\ daemon' = "down" /\ license' = "free"
    /\ call' = [c \in Callers |-> Idle]
    /\ crashes' = crashes + 1
    /\ UNCHANGED <<now, backend, paidAt, row, next>>

\* The start awaits verify_and_cache before anything is served.
Start ==
    /\ daemon = "down" /\ daemon' = "starting"
    /\ call' = [call EXCEPT ![Daemon] = Asking]
    /\ UNCHANGED <<now, backend, paidAt, row, license, next, crashes>>

\* The interval ticks.
Refresh ==
    /\ daemon = "up" /\ now = next /\ call[Daemon].pc = "idle"
    /\ next' = next + Grace
    /\ call' = [call EXCEPT ![Daemon] = Asking]
    /\ UNCHANGED <<now, backend, paidAt, row, license, daemon, crashes>>

\* license.check.
Check(c) ==
    /\ daemon = "up" /\ c # Daemon /\ call[c].pc = "idle"
    /\ call' = [call EXCEPT ![c] = Asking]
    /\ UNCHANGED <<now, backend, paidAt, row, license, daemon, next, crashes>>

-----------------------------------------------------------------------------
(***************************************************************************)
(* verify_and_cache                                                        *)
(***************************************************************************)

\* call_verify: the backend's answer is on its way from here on, or there is
\* none.
Verified(c) ==
    /\ call[c].pc = "verify"
    /\ call' = [call EXCEPT ![c].pc = "write", ![c].got = backend]
    /\ paidAt' = IF backend = "paid" THEN now ELSE paidAt
    /\ UNCHANGED <<now, backend, row, license, daemon, next, crashes>>

VerifyFails(c) ==
    /\ call[c].pc = "verify"
    /\ Goto(c, "read")
    /\ UNCHANGED <<now, backend, paidAt, row, license, daemon, next, crashes>>

\* write_cache; an error is logged and the answer used all the same.
WriteCache(c) ==
    /\ call[c].pc = "write"
    /\ \/ row' = [tier |-> call[c].got, until |-> now + Grace]
       \/ row' = row
    /\ Goto(c, "set")
    /\ UNCHANGED <<now, backend, paidAt, license, daemon, next, crashes>>

\* The cached license is cached anew when it is used.
ReadCacheRenewed(c) ==
    /\ call[c].pc = "read"
    /\ LET valid == now < row.until IN
       /\ row' = IF valid THEN [row EXCEPT !.until = now + Grace] ELSE row
       /\ call' = [call EXCEPT ![c].pc = "set",
                               ![c].got = IF valid THEN row.tier ELSE "free"]
    /\ UNCHANGED <<now, backend, paidAt, license, daemon, next, crashes>>

\* read_cache_grace: the row while it is valid, if it can be read.
ReadCacheGrace(c) ==
    /\ call[c].pc = "read"
    /\ \E tier \in {"free", IF now < row.until THEN row.tier ELSE "free"} :
           call' = [call EXCEPT ![c].pc = "set", ![c].got = tier]
    /\ UNCHANGED <<now, backend, paidAt, row, license, daemon, next, crashes>>

\* The license in memory is replaced; after the first time the daemon serves.
SetLicense(c) ==
    /\ call[c].pc = "set"
    /\ license' = call[c].got
    /\ call' = [call EXCEPT ![c] = Idle]
    /\ daemon' = "up"
    /\ next' = IF daemon = "starting" THEN now + Grace ELSE next
    /\ UNCHANGED <<now, backend, paidAt, row, crashes>>

-----------------------------------------------------------------------------
Next ==
    \/ Tick \/ Change \/ Crash \/ Start \/ Refresh
    \/ \E c \in Callers :
           \/ Check(c) \/ Verified(c) \/ VerifyFails(c)
           \/ WriteCache(c) \/ ReadCacheGrace(c) \/ SetLicense(c)

Spec == Init /\ [][Next]_vars

-----------------------------------------------------------------------------
(***************************************************************************)
(* Properties                                                              *)
(***************************************************************************)

\* However checks fail, overlap and answer late, and whenever the daemon is
\* started again, a paid license is used for at most two grace periods (one in
\* the cache and one in memory) and the duration of two calls after the backend
\* last confirmed it.
LicenseLapses ==
    license = "paid" => now <= paidAt + 2 * Grace + 2
=============================================================================
