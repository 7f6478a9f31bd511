------------------------------ MODULE MCEdges -------------------------------
(***************************************************************************)
(* Where the system meets the world outside, in one model-checking         *)
(* instance: the daemon's WebSocket connections and their rate limits, its *)
(* relay connection, its pairing, its license and its updates, and the     *)
(* gates and the key cache of the intelligence service.  They share no     *)
(* state, so a behaviour is one of one of them, chosen in Init; the others *)
(* rest in their initial states.                                           *)
(***************************************************************************)
EXTENDS Naturals, Sequences, FiniteSets

CONSTANTS
    Conns, Sessions, Writers, Cap, MaxWrites,
    RemoteConns, ConnLimit, RpcLimit, RpcWindow, MaxMinutes, MaxRpcs,
    ChannelCap, MaxClients, MaxCalls, MaxEvents, MaxDrops,
    Requests, DailyLimit, RateLimit, Window, TrustTTL, DayLength, MaxTime,
    MaxRequests,
    Validators, KeyTTL, MaxKeyTime, MaxKeys,
    Pins, PairConns, Devices, PinTTL, MaxPinTime, MaxIssued,
    UpdateConns, ExeFollows, ChecksPerLife, MaxLives,
    CheckConns, Daemon, Grace, MaxLicenseTime, MaxCrashes

ASSUME IpcAssumption ==
    IsFiniteSet(Writers) /\ Cap \in Nat /\ MaxWrites \in Nat

ASSUME LimitsAssumption ==
    /\ IsFiniteSet(RemoteConns) /\ ConnLimit \in Nat /\ RpcLimit \in Nat
    /\ RpcWindow \in Nat \ {0} /\ MaxMinutes \in Nat

ASSUME RelayAssumption ==
    /\ ChannelCap \in Nat /\ MaxClients \in Nat /\ MaxCalls \in Nat
    /\ MaxEvents \in Nat /\ MaxDrops \in Nat

ASSUME GatesAssumption ==
    /\ IsFiniteSet(Requests) /\ DailyLimit \in Nat /\ RateLimit \in Nat
    /\ Window \in Nat \ {0} /\ TrustTTL \in Nat \ {0}
    /\ DayLength \in Nat \ {0} /\ MaxTime \in Nat /\ MaxRequests \in Nat

ASSUME KeysAssumption ==
    KeyTTL \in Nat \ {0} /\ MaxKeyTime \in Nat /\ MaxKeys \in Nat \ {0}

ASSUME PairAssumption ==
    /\ IsFiniteSet(PairConns) /\ IsFiniteSet(Devices)
    /\ PinTTL \in Nat /\ MaxPinTime \in Nat /\ MaxIssued \in Nat

ASSUME UpdateAssumption ==
    ChecksPerLife \in Nat /\ MaxLives \in Nat \ {0}

ASSUME LicenseAssumption ==
    Grace \in Nat /\ MaxLicenseTime \in Nat \ {0} /\ MaxCrashes \in Nat

VARIABLES
    which,    \* the component of this behaviour
    store, writer, wsEvents, wsConn,
    minute, stamps, remote,
    up, out, e2e, est, inb, fwd, events, backoff, conn, client, hellos, nEvents,
    drops,
    now, ws, quota, removed, cache, zset, req, begun, spent, judged,
    clock, key, retired, keySet, mu, val,
    pinTime, pins, devices, pairCall, issued, paired,
    file, sentinel, proc, exe, policy, pending, writing, apply, checks, lives, crashed, meddled,
    day, backend, paidAt, row, license, daemon, next, licenseCall, crashes

Ipc == INSTANCE IpcEvents WITH
            events <- wsEvents, conn <- wsConn

Limits == INSTANCE IpcLimits WITH
            Conns <- RemoteConns, Window <- RpcWindow, MaxTime <- MaxMinutes,
            MaxCalls <- MaxRpcs, now <- minute, conn <- remote

Rel == INSTANCE Relay

Gates == INSTANCE RequestGates WITH
            CacheTTL <- TrustTTL

Keys == INSTANCE KeyCache WITH
            Requests <- Validators, CacheTTL <- KeyTTL, MaxTime <- MaxKeyTime,
            now <- clock, req <- val

Pair == INSTANCE Pairing WITH
            Calls <- PairConns, TTL <- PinTTL, MaxTime <- MaxPinTime,
            now <- pinTime, call <- pairCall

Update == INSTANCE SelfUpdate WITH
            Calls <- UpdateConns

Lic == INSTANCE License WITH
            Conns <- CheckConns, MaxTime <- MaxLicenseTime, now <- day,
            call <- licenseCall

ipcVars == <<store, writer, wsEvents, wsConn>>
limitsVars == <<minute, stamps, remote>>
relayVars == <<up, out, e2e, est, inb, fwd, events, backoff, conn, client, hellos,
               nEvents, drops>>
gatesVars == <<now, ws, quota, removed, cache, zset, req, begun, spent, judged>>
keysVars == <<clock, key, retired, keySet, mu, val>>
pairVars == <<pinTime, pins, devices, pairCall, issued, paired>>
updateVars == <<file, sentinel, proc, exe, policy, pending, writing, apply, checks,
                lives, crashed, meddled>>
licenseVars == <<day, backend, paidAt, row, license, daemon, next, licenseCall,
                 crashes>>
vars == <<which, ipcVars, limitsVars, relayVars, gatesVars, keysVars, pairVars,
          updateVars, licenseVars>>

Init ==
    /\ which \in {"ipc", "limits", "relay", "gates", "keys", "pairing", "update",
                  "license"}
    /\ Ipc!Init /\ Limits!Init /\ Rel!Init /\ Gates!Init /\ Keys!Init
    /\ Pair!Init /\ Update!Init /\ Lic!Init

Next ==
    /\ UNCHANGED which
    /\ \/ /\ which = "ipc" /\ Ipc!Next
          /\ UNCHANGED <<limitsVars, relayVars, gatesVars, keysVars, pairVars,
                         updateVars, licenseVars>>
       \/ /\ which = "limits" /\ Limits!Next
          /\ UNCHANGED <<ipcVars, relayVars, gatesVars, keysVars, pairVars,
                         updateVars, licenseVars>>
       \/ /\ which = "relay" /\ Rel!Next
          /\ UNCHANGED <<ipcVars, limitsVars, gatesVars, keysVars, pairVars,
                         updateVars, licenseVars>>
       \/ /\ which = "gates" /\ Gates!Next
          /\ UNCHANGED <<ipcVars, limitsVars, relayVars, keysVars, pairVars,
                         updateVars, licenseVars>>
       \/ /\ which = "keys" /\ Keys!Next
          /\ UNCHANGED <<ipcVars, limitsVars, relayVars, gatesVars, pairVars,
                         updateVars, licenseVars>>
       \/ /\ which = "pairing" /\ Pair!Next
          /\ UNCHANGED <<ipcVars, limitsVars, relayVars, gatesVars, keysVars,
                         updateVars, licenseVars>>
       \/ /\ which = "update" /\ Update!Next
          /\ UNCHANGED <<ipcVars, limitsVars, relayVars, gatesVars, keysVars,
                         pairVars, licenseVars>>
       \/ /\ which = "license" /\ Lic!Next
          /\ UNCHANGED <<ipcVars, limitsVars, relayVars, gatesVars, keysVars,
                         pairVars, updateVars>>

Spec == Init /\ [][Next]_vars

-----------------------------------------------------------------------------
(***************************************************************************)
(* Properties; each component's module states what they say of the code    *)
(***************************************************************************)

\* The state of every component has its type.
TypeOK ==
    /\ which = "ipc" => Ipc!TypeOK
    /\ which = "limits" => Limits!TypeOK
    /\ which = "relay" => Rel!TypeOK
    /\ which = "gates" => Gates!TypeOK
    /\ which = "keys" => Keys!TypeOK
    /\ which = "pairing" => Pair!TypeOK
    /\ which = "update" => Update!TypeOK
    /\ which = "license" => Lic!TypeOK

\* A client of the WebSocket server that has caught up knows what the store has.
CaughtUpIsCurrent == which = "ipc" => Ipc!CaughtUpIsCurrent

\* The limits that hold: the daemon's connections of an address and RPCs of a
\* connection in every minute, the service's requests of a workspace on every day.
LimitsHold ==
    /\ which = "limits" => Limits!RatesHold
    /\ which = "gates" => Gates!QuotaPerDay

\* The two ends of a relay session agree on its key and the daemon's counter.
SessionAgreed == Rel!SessionAgreed

\* What is cached is used for as long as it may be: the JWKS key set for its TTL,
\* neither longer nor shorter; the trust of a workspace, after its removal from
\* the registry, no longer than the TTL of a verdict; and a license for two grace
\* periods after it was confirmed.
CachesExpire ==
    /\ Gates!RemovedWorkspaceExpires
    /\ Keys!KeySetKept
    /\ [](which = "license" => Lic!LicenseLapses)

\* A PIN pairs one device each time it is given out.
PinPairsOnce == which = "pairing" => Pair!PinPairsOnce

\* A whole binary of the daemon is kept, and nothing unverified runs.
BinaryKept == which = "update" => Update!BinaryKept
=============================================================================
