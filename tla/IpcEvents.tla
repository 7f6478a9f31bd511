----------------------------- MODULE IpcEvents ------------------------------
(***************************************************************************)
(* The WebSocket connections of clawd (ipc/mod.rs, ipc/event.rs): the      *)
(* challenge that opens one, the RPCs it serves and the events it forwards *)
(* from the broadcast channel, as a client sees them that asks for the     *)
(* sessions once and keeps its view up to date from session.statusChanged. *)
(*                                                                         *)
(* Writers stand for the session operations (session/mod.rs): a status is  *)
(* written to the store and broadcast afterwards.  One task serves a       *)
(* connection, so what it sends arrives in the order it was sent.          *)
(***************************************************************************)
EXTENDS Naturals, FiniteSets, Sequences

CONSTANTS
    Conns,    \* connections
    Writers,  \* tasks that change the status of sessions
    Sessions, \* sessions
    Cap,      \* the capacity of the broadcast channel, 4096 in the code
    MaxWrites \* bounds the changes of status

VARIABLES
    store,    \* the status of each session, counted up
    writer,   \* the change each writer has written and not yet broadcast
    events,   \* everything broadcast so far
    conn      \* the connections, each with its client

vars == <<store, writer, events, conn>>

Versions == 0 .. MaxWrites
NoChange == [version |-> 0]
Closed == [pc |-> "closed"]

TypeOK ==
    /\ store \in [Sessions -> Versions]
    /\ DOMAIN writer = Writers
    /\ Len(events) <= MaxWrites
    /\ \A c \in Conns : conn[c].pc \in {"closed", "auth", "subscribe", "serve", "send"}

Init ==
    /\ store = [s \in Sessions |-> 0]
    /\ writer = [w \in Writers |-> NoChange]
    /\ events = <<>>
    /\ conn = [c \in Conns |-> Closed]

Goto(c, q) == conn' = [conn EXCEPT ![c] = q]

-----------------------------------------------------------------------------
(***************************************************************************)
(* The session operations                                                  *)
(***************************************************************************)

Written == Len(events) + Cardinality({w \in Writers : writer[w] # NoChange})

\* update_session_status ...
Write(w, s) ==
    /\ writer[w] = NoChange /\ Written < MaxWrites
    /\ store' = [store EXCEPT ![s] = @ + 1]
    /\ writer' = [writer EXCEPT ![w] = [session |-> s, version |-> store[s] + 1]]
    /\ UNCHANGED <<events, conn>>

\* ... and then the broadcast of session.statusChanged.
Broadcast(w) ==
    /\ writer[w] # NoChange
    /\ events' = Append(events, writer[w])
    /\ writer' = [writer EXCEPT ![w] = NoChange]
    /\ UNCHANGED <<store, conn>>

-----------------------------------------------------------------------------
(***************************************************************************)
(* handle_connection                                                       *)
(***************************************************************************)

\* A connection is accepted and waits for daemon.auth.
Accept(c) ==
    /\ conn[c] = Closed
    /\ Goto(c, [pc |-> "auth"])
    /\ UNCHANGED <<store, writer, events>>

\* No answer within 10 seconds, no daemon.auth, or a wrong token.
Refuse(c) ==
    /\ conn[c].pc = "auth"
    /\ Goto(c, Closed)
    /\ UNCHANGED <<store, writer, events>>

\* The right token: the client is told so before the task subscribes.
Authenticate(c) ==
    /\ conn[c].pc = "auth"
    /\ Goto(c, [pc |-> "subscribe"])
    /\ UNCHANGED <<store, writer, events>>

\* seen: the events behind the receiver; view: what the client knows.
Subscribe(c) ==
    /\ conn[c].pc = "subscribe"
    /\ Goto(c, [pc |-> "serve", seen |-> Len(events), lagged |-> FALSE, view |-> <<>>])
    /\ UNCHANGED <<store, writer, events>>

\* An RPC is dispatched: session.list reads the store.
Dispatch(c) ==
    /\ conn[c].pc = "serve" /\ conn[c].view = <<>>
    /\ Goto(c, [conn[c] EXCEPT !.pc = "send", !.view = store])
    /\ UNCHANGED <<store, writer, events>>

\* The task subscribes once the first request has been served.
RespondSubscribing(c) ==
    /\ conn[c].pc = "send"
    /\ Goto(c, [conn[c] EXCEPT !.pc = "serve", !.seen = Len(events)])
    /\ UNCHANGED <<store, writer, events>>

\* The response is on its way; only now can events follow it.
Respond(c) ==
    /\ conn[c].pc = "send"
    /\ Goto(c, [conn[c] EXCEPT !.pc = "serve"])
    /\ UNCHANGED <<store, writer, events>>

Behind(c) == Len(events) - conn[c].seen

\* The client takes the status an event carries; before its first answer it
\* has nothing to bring up to date.
Applied(view, e) == IF view = <<>> THEN view ELSE [view EXCEPT ![e.session] = e.version]

\* broadcast_rx.recv is Ok: the event is forwarded.
Forward(c) ==
    /\ conn[c].pc = "serve" /\ Behind(c) \in 1 .. Cap
    /\ Goto(c, [conn[c] EXCEPT !.seen = @ + 1, !.view = Applied(@, events[conn[c].seen + 1])])
    /\ UNCHANGED <<store, writer, events>>

\* broadcast_rx.recv is Lagged: the oldest events are gone, the task goes on.
Lag(c) ==
    /\ conn[c].pc = "serve" /\ Behind(c) > Cap
    /\ Goto(c, [conn[c] EXCEPT !.seen = Len(events) - Cap, !.lagged = TRUE])
    /\ UNCHANGED <<store, writer, events>>

\* The peer closes, or a send fails.
Disconnect(c) ==
    /\ conn[c].pc \in {"serve", "send"}
    /\ Goto(c, Closed)
    /\ UNCHANGED <<store, writer, events>>

Next ==
    \/ \E w \in Writers : \/ \E s \in Sessions : Write(w, s)
                          \/ Broadcast(w)
    \/ \E c \in Conns : \/ Accept(c) \/ Refuse(c) \/ Authenticate(c) \/ Subscribe(c)
                        \/ Dispatch(c) \/ Respond(c)
                        \/ Forward(c) \/ Lag(c)
                        \/ Disconnect(c)

Spec == Init /\ [][Next]_vars

-----------------------------------------------------------------------------
(***************************************************************************)
(* Properties                                                              *)
(***************************************************************************)

\* A client that has its answer and every event behind it, and that never
\* lagged, knows the status of every session as the store has it, whatever
\* the order in which the subscription, the read of the store and the
\* broadcasts met; an event broadcast before the answer may set the view back
\* only until the later ones arrive.  One writer at a time is assumed, for all
\* sessions: it writes the row and broadcasts before the next one writes.
CaughtUpIsCurrent ==
    \A c \in Conns :
        /\ conn[c].pc = "serve" /\ conn[c].view # <<>>
        /\ Behind(c) = 0 /\ ~ conn[c].lagged
        /\ \A w \in Writers : writer[w] = NoChange
        => conn[c].view = store
=============================================================================
