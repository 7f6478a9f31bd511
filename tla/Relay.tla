------------------------------- MODULE Relay --------------------------------
(***************************************************************************)
(* The daemon's outbound relay client (relay/mod.rs, relay/crypto.rs) and  *)
(* the remote client at the other end of the relay.                        *)
(*                                                                         *)
(* One connection to the relay runs three futures: handle_inbound,         *)
(* forward_broadcasts and handle_outbound.  The first two share the E2E    *)
(* session behind a mutex and the channel out; a frame gets its counter    *)
(* under the mutex and enters the channel after it, and each await may     *)
(* let another future go first.  The relay delivers in order and tells the *)
(* daemon when another client has connected.  A key is the number of the   *)
(* handshake that made it.                                                 *)
(***************************************************************************)
EXTENDS Naturals, Sequences

CONSTANTS
    ChannelCap,  \* capacity of the channel out: mpsc::channel(128)
    MaxClients,  \* bounds the clients that connect through the relay
    MaxCalls,    \* bounds the requests of one client
    MaxEvents,   \* bounds the push events of the daemon
    MaxDrops     \* bounds the losses of the daemon's connection

VARIABLES
    up,       \* frames on their way to the daemon
    out,      \* the channel out and the frames on their way to the client
    e2e,      \* the shared E2E session, NoSession before a handshake
    est,      \* handle_inbound's e2e_established
    inb,      \* where handle_inbound stands
    fwd,      \* where forward_broadcasts stands
    events,   \* push events not yet received by forward_broadcasts
    backoff,  \* backoff_secs
    conn,     \* the daemon's connection: "up" or "down"
    client,   \* the client: number, key, counters, and whether it is in step
    hellos,   \* how many handshakes the daemon has done
    nEvents,  \* how many push events there have been
    drops     \* how often the connection has been lost

daemon == <<e2e, est, inb, fwd, events, backoff, conn, hellos, nEvents, drops>>
vars == <<up, out, daemon, client>>

NoSession == [key |-> 0, n |-> 0, send |-> 0, recv |-> 0]
Read == [pc |-> "read"]
NoClient == [n |-> 0, key |-> 0, send |-> 0, recv |-> 0, waiting |-> FALSE, ok |-> TRUE]

Backoffs == {2, 4, 8, 16, 32, 60}

TypeOK ==
    /\ e2e \in [key : 0 .. hellos, n : 0 .. MaxClients, send : Nat, recv : 0 .. MaxCalls]
    /\ est \in BOOLEAN
    /\ inb.pc \in {"read", "hello", "activate", "dispatch", "respond", "send"}
    /\ fwd.pc \in {"read", "send"}
    /\ events \in 0 .. MaxEvents /\ nEvents \in 0 .. MaxEvents
    /\ backoff \in Backoffs /\ conn \in {"up", "down"}
    /\ client.n \in 0 .. MaxClients /\ client.key \in 0 .. hellos
    /\ Len(out) <= ChannelCap
    /\ drops \in 0 .. MaxDrops

Init ==
    /\ up = <<>> /\ out = <<>>
    /\ e2e = NoSession /\ est = FALSE
    /\ inb = Read /\ fwd = Read
    /\ events = 0 /\ nEvents = 0
    /\ backoff = 2 /\ conn = "up"
    /\ client = NoClient
    /\ hellos = 0 /\ drops = 0

-----------------------------------------------------------------------------
(***************************************************************************)
(* The remote client (relay_crypto.dart): it says hello, takes the         *)
(* daemon's key from the answer, numbers what it sends and rejects a frame *)
(* whose counter is not the next                                           *)
(***************************************************************************)

\* A client connects, perhaps in place of another, and says hello.
ClientConnects ==
    /\ conn = "up" /\ client.n < MaxClients
    /\ client' = [NoClient EXCEPT !.n = client.n + 1]
    /\ up' = up \o <<[type |-> "client_connected"], [type |-> "e2e_hello", n |-> client.n + 1]>>
    /\ UNCHANGED <<out, daemon>>

ClientCalls ==
    /\ conn = "up" /\ client.key # 0 /\ client.ok /\ ~client.waiting /\ client.send < MaxCalls
    /\ up' = Append(up, [type |-> "e2e", key |-> client.key, counter |-> client.send])
    /\ client' = [client EXCEPT !.send = @ + 1, !.waiting = TRUE]
    /\ UNCHANGED <<out, daemon>>

\* What the client does with a frame f: a hello for it makes the session, a
\* frame with the next counter and the right key is accepted, and any other
\* frame that comes when there is a session puts the client out of step.
Take(f) ==
    CASE f.type = "e2e_hello" ->
            IF f.n = client.n THEN [client EXCEPT !.key = f.key] ELSE client
      [] f.type = "e2e" /\ client.key # 0 ->
            IF f.key = client.key /\ f.counter = client.recv
            THEN [client EXCEPT !.recv = @ + 1, !.waiting = @ /\ ~f.response]
            ELSE [client EXCEPT !.ok = FALSE]
      [] OTHER -> client

\* handle_outbound and the relay bring the next frame of the channel.
Deliver ==
    /\ out # <<>>
    /\ client' = Take(Head(out))
    /\ out' = Tail(out)
    /\ UNCHANGED <<up, daemon>>

-----------------------------------------------------------------------------
(***************************************************************************)
(* handle_inbound: one frame at a time                                     *)
(***************************************************************************)

\* Where a frame that has been read leads, by its type.  A hello before the
\* handshake is answered; an e2e frame is decrypted under the mutex, if there
\* is a session and the counter is the expected one, which advances it.
InReadWith(advance) ==
    /\ conn = "up" /\ inb = Read /\ up # <<>>
    /\ up' = Tail(up)
    /\ LET f == Head(up) IN
       \/ /\ f.type = "client_connected"
          /\ e2e' = NoSession /\ est' = FALSE
          /\ UNCHANGED <<inb, hellos>>
       \/ /\ f.type = "e2e_hello"
          /\ hellos' = hellos + 1
          /\ inb' = [pc |-> "hello", n |-> f.n, key |-> hellos + 1]
          /\ UNCHANGED <<e2e, est>>
       \/ /\ f.type = "e2e" /\ est
          /\ IF e2e.recv = f.counter
             THEN /\ e2e' = [e2e EXCEPT !.recv = @ + advance]
                  /\ inb' = IF e2e.key = f.key THEN [pc |-> "dispatch"] ELSE inb
             ELSE UNCHANGED <<e2e, inb>>
          /\ UNCHANGED <<est, hellos>>
       \/ f.type = "e2e" /\ ~est /\ UNCHANGED <<e2e, est, inb, hellos>>
    /\ UNCHANGED <<out, fwd, events, backoff, conn, nEvents, drops, client>>

\* The expected counter stays as it is.
InReadStuck == InReadWith(0)

InRead == InReadWith(1)

\* The unencrypted hello enters the channel first.
InHello ==
    /\ inb.pc = "hello" /\ Len(out) < ChannelCap
    /\ out' = Append(out, [type |-> "e2e_hello", n |-> inb.n, key |-> inb.key])
    /\ inb' = [inb EXCEPT !.pc = "activate"]
    /\ UNCHANGED <<up, e2e, est, fwd, events, backoff, conn, hellos, nEvents, drops, client>>

\* The session is activated after sending the hello.
InActivate ==
    /\ inb.pc = "activate"
    /\ e2e' = [key |-> inb.key, n |-> inb.n, send |-> 0, recv |-> 0] /\ est' = TRUE
    /\ inb' = Read
    /\ UNCHANGED <<up, out, fwd, events, backoff, conn, hellos, nEvents, drops, client>>

\* dispatch_text answers the request.
InDispatch ==
    /\ inb.pc = "dispatch"
    /\ inb' = [pc |-> "respond"]
    /\ UNCHANGED <<up, out, e2e, est, fwd, events, backoff, conn, hellos, nEvents, drops, client>>

\* The frame that encrypt makes: the session's key and its next counter.
Frame(response) ==
    [type |-> "e2e", key |-> e2e.key, n |-> e2e.n, counter |-> e2e.send, response |-> response]

\* The response is encrypted under the mutex, if there is a session.
InRespond ==
    /\ inb.pc = "respond"
    /\ e2e' = [e2e EXCEPT !.send = @ + 1]
    /\ inb' = [pc |-> "send", frame |-> Frame(TRUE)]
    /\ UNCHANGED <<up, out, est, fwd, events, backoff, conn, hellos, nEvents, drops, client>>

InSend ==
    /\ inb.pc = "send" /\ Len(out) < ChannelCap
    /\ out' = Append(out, inb.frame)
    /\ inb' = Read
    /\ UNCHANGED <<up, e2e, est, fwd, events, backoff, conn, hellos, nEvents, drops, client>>

-----------------------------------------------------------------------------
(***************************************************************************)
(* forward_broadcasts: an event is encrypted, or dropped when there is no  *)
(* session; a forwarder that lags skips events                             *)
(***************************************************************************)

Broadcast ==
    /\ conn = "up" /\ nEvents < MaxEvents
    /\ nEvents' = nEvents + 1
    /\ events' = events + 1
    /\ UNCHANGED <<up, out, e2e, est, inb, fwd, backoff, conn, hellos, drops, client>>

FwdRead ==
    /\ fwd = Read /\ events > 0
    /\ events' = events - 1
    /\ IF e2e.key # 0
       THEN e2e' = [e2e EXCEPT !.send = @ + 1] /\ fwd' = [pc |-> "send", frame |-> Frame(FALSE)]
       ELSE UNCHANGED <<e2e, fwd>>
    /\ UNCHANGED <<up, out, est, inb, backoff, conn, hellos, nEvents, drops, client>>

FwdLagged ==
    /\ fwd = Read /\ events > 0
    /\ events' = events - 1
    /\ UNCHANGED <<up, out, e2e, est, inb, fwd, backoff, conn, hellos, nEvents, drops, client>>

FwdSend ==
    /\ fwd.pc = "send" /\ Len(out) < ChannelCap
    /\ out' = Append(out, fwd.frame)
    /\ fwd' = Read
    /\ UNCHANGED <<up, e2e, est, inb, events, backoff, conn, hellos, nEvents, drops, client>>

-----------------------------------------------------------------------------
(***************************************************************************)
(* relay_loop: the connection ends with the first of its three futures,    *)
(* and everything of it with it; the next attempt follows a sleep          *)
(***************************************************************************)

\* Without the limit of a minute.
NextBackoffUncapped == 2 * backoff

NextBackoff == IF 2 * backoff < 60 THEN 2 * backoff ELSE 60

\* The relay may tell the client, or leave it with its session.
Drop ==
    /\ conn = "up" /\ drops < MaxDrops
    /\ drops' = drops + 1
    /\ conn' = "down" /\ backoff' = NextBackoff
    /\ up' = <<>> /\ out' = <<>>
    /\ e2e' = NoSession /\ est' = FALSE
    /\ inb' = Read /\ fwd' = Read /\ events' = 0
    /\ client' \in {client, [NoClient EXCEPT !.n = client.n]}
    /\ UNCHANGED <<hellos, nEvents>>

\* connect_async, and the register message: the backoff begins again.
Reconnect ==
    /\ conn = "down"
    /\ conn' = "up" /\ backoff' = 2
    /\ UNCHANGED <<up, out, e2e, est, inb, fwd, events, hellos, nEvents, drops, client>>

ConnectFails ==
    /\ conn = "down"
    /\ backoff' = NextBackoff
    /\ UNCHANGED <<up, out, e2e, est, inb, fwd, events, conn, hellos, nEvents, drops, client>>

-----------------------------------------------------------------------------

Next ==
    \/ ClientConnects \/ ClientCalls \/ Deliver
    \/ InRead \/ InHello \/ InActivate \/ InDispatch \/ InRespond \/ InSend
    \/ Broadcast \/ FwdRead \/ FwdLagged \/ FwdSend
    \/ Drop \/ Reconnect \/ ConnectFails

Spec == Init /\ [][Next]_vars

-----------------------------------------------------------------------------
(***************************************************************************)
(* Properties                                                              *)
(***************************************************************************)

\* handle_inbound activates a session only after its hello is in the channel:
\* no frame encrypted for a client reaches it before the key it needs.
HelloFirst ==
    \A f \in {Head(out) : x \in {1} \cap DOMAIN out} :
        out' = Tail(out) /\ f.type = "e2e" /\ f.n = client.n => client.key = f.key

\* The daemon expects exactly the counters that the client of its session has
\* still under way, which are the first frames it will read: no request is refused
\* as a replay, however clients replace one another and the connection is lost.
DaemonInStep ==
    \A i \in DOMAIN up :
        up[i].type = "e2e" /\ up[i].key = e2e.key => up[i].counter = e2e.recv + i - 1

\* The two ends of a session agree on its key and on the daemon's counter, after
\* every step of either.
SessionAgreed == [][DaemonInStep' /\ HelloFirst]_vars
=============================================================================
