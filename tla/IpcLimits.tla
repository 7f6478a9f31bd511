----------------------------- MODULE IpcLimits ------------------------------
(***************************************************************************)
(* The rate limits of clawd's WebSocket server (ipc/mod.rs) for one remote *)
(* address: ConnectionRateLimiter, a sliding window over the connections   *)
(* the accept loop admits, and RpcRateLimiter, a tumbling window over the  *)
(* RPCs of one connection.  The loopback address passes both and is left   *)
(* out.                                                                    *)
(***************************************************************************)
EXTENDS Integers, Sequences, FiniteSets

CONSTANTS
    Conns,     \* connections of the address, each used once
    ConnLimit, \* max_connections_per_minute_per_ip
    RpcLimit,  \* max_rpc_calls_per_minute_per_ip
    Window,    \* the minute
    MaxTime,   \* bounds the clock
    MaxCalls   \* bounds the RPCs of a connection

VARIABLES
    now,       \* Instant::now
    stamps,    \* ConnectionRateLimiter.connections of the address: the
               \* connections whose instant it holds
    conn       \* the connections: when each was admitted, its RpcRateLimiter,
               \* and when its RPCs were dispatched

vars == <<now, stamps, conn>>

Times == 0 .. MaxTime
Unused == [used |-> FALSE]
Used == [used : {TRUE}, at : Times, count : Nat, start : Times, calls : Seq(Times)]

TypeOK ==
    /\ now \in Times
    /\ stamps \subseteq {c \in Conns : conn[c].used}
    /\ conn \in [Conns -> {Unused} \cup Used]

Init ==
    /\ now = 0
    /\ stamps = {}
    /\ conn = [c \in Conns |-> Unused]

Tick == now < MaxTime /\ now' = now + 1 /\ UNCHANGED <<stamps, conn>>

\* check_and_record keeps the stamps of the last minute.
Retained == {c \in stamps : conn[c].at > now - Window}

\* The accept loop: the connection is dropped, or served with a new
\* RpcRateLimiter.
Connect(c) ==
    /\ ~ conn[c].used
    /\ IF Cardinality(Retained) >= ConnLimit
       THEN /\ stamps' = Retained
            /\ UNCHANGED conn
       ELSE /\ stamps' = Retained \cup {c}
            /\ conn' = [conn EXCEPT ![c] =
                          [used |-> TRUE, at |-> now, count |-> 0, start |-> now, calls |-> <<>>]]
    /\ UNCHANGED now

\* A window that is over is emptied but does not start again.
CountedFromStart(q) ==
    IF now - q.start >= Window THEN [q EXCEPT !.count = 1]
                               ELSE [q EXCEPT !.count = @ + 1]

\* RpcRateLimiter.check: a window that is over starts again with this RPC.
Counted(q) ==
    IF now - q.start >= Window THEN [q EXCEPT !.count = 1, !.start = now]
                               ELSE [q EXCEPT !.count = @ + 1]

\* An RPC arrives on an open connection.
Rpc(c) ==
    LET q == Counted(conn[c]) IN
    /\ conn[c].used /\ Len(conn[c].calls) < MaxCalls
    /\ q.count <= RpcLimit + 1  \* bound: counting further refuses as well
    /\ conn' = [conn EXCEPT ![c] =
                  IF q.count <= RpcLimit THEN [q EXCEPT !.calls = Append(@, now)] ELSE q]
    /\ UNCHANGED <<now, stamps>>

Next ==
    \/ Tick
    \/ \E c \in Conns : Connect(c) \/ Rpc(c)

Spec == Init /\ [][Next]_vars

-----------------------------------------------------------------------------
(***************************************************************************)
(* Properties                                                              *)
(***************************************************************************)

\* The connections admitted, and the RPCs of a connection dispatched, in the minute
\* that ends at t.
Admitted(t) == {c \in Conns : conn[c].used /\ conn[c].at \in t - Window + 1 .. t}
Dispatched(calls, t) == {i \in DOMAIN calls : calls[i] \in t - Window + 1 .. t}

\* In no minute, wherever it begins, are more connections of one address
\* admitted than the limit, or more RPCs of one connection dispatched than
\* twice the limit: two windows of RpcRateLimiter may meet in it.  (The config
\* promises more, "Max RPC method calls per IP per minute", config/mod.rs:127: an
\* address has as many RPCs as its connections have together.)
RatesHold ==
    \A t \in Times :
        /\ Cardinality(Admitted(t)) <= ConnLimit
        /\ \A c \in Conns : conn[c].used => Cardinality(Dispatched(conn[c].calls, t)) <= 2 * RpcLimit
=============================================================================
