--------------------------- MODULE GatewayStream ----------------------------
(***************************************************************************)
(* One streamed completion in the intelligence service.  A provider's      *)
(* goroutine (gateway/anthropic.go, gateway/openai_compat.go) reads the    *)
(* upstream and sends chunks into a channel, blocking while it is full.    *)
(* They are consumed in one of two ways: by the handler StreamComplete     *)
(* (server/handler.go), which passes each one on to the client and returns *)
(* at the first send that fails, or by the pipeline gateway.StreamComplete *)
(* (gateway/stream.go), which puts them in a second channel without ever   *)
(* blocking and gives up when a slow reader has let it fill.               *)
(***************************************************************************)
EXTENDS Naturals, Sequences

CONSTANTS
    MaxText,  \* bounds the deltas that the upstream sends
    Cap,      \* capacity of the provider's channel
    OutCap    \* maxBufferTokens

VARIABLES
    mode,      \* which consumer there is
    sent,      \* how many deltas the upstream has sent
    upstream,  \* how the upstream's stream stands
    producer,  \* the provider's goroutine, and the chunk it is sending
    ch,        \* the provider's channel
    canceled,  \* whether the request's context is canceled
    consumer,  \* the consuming goroutine, and the chunk it has in hand; "left" when
               \* it has returned before the provider's last chunk
    out,       \* the pipeline's channel
    gone,      \* whether the handler's client has gone
    got        \* what the client has received

vars == <<mode, sent, upstream, producer, ch, canceled, consumer, out, gone, got>>

\* A chunk is a delta, numbered by its position in the text, or a verdict.
Delta(n) == [kind |-> "delta", n |-> n]
Verdict(v) == [kind |-> v, n |-> 0]
IsVerdict(x) == x.kind # "delta"

TypeOK ==
    /\ mode \in {"handler", "pipeline"}
    /\ sent \in 0 .. MaxText
    /\ upstream \in {"open", "ended", "broken"}
    /\ producer.pc \in {"read", "push", "closed"}
    /\ consumer.pc \in {"recv", "pass", "overflow", "returned", "left"}
    /\ Len(ch) <= Cap /\ Len(out) <= OutCap
    /\ canceled \in BOOLEAN /\ gone \in BOOLEAN
    /\ \A i \in DOMAIN got : got[i].kind \in {"delta", "done", "error", "overflow"}

Init ==
    /\ mode \in {"handler", "pipeline"}
    /\ sent = 0 /\ upstream = "open"
    /\ producer = [pc |-> "read"]
    /\ ch = <<>> /\ out = <<>> /\ got = <<>>
    /\ canceled = FALSE /\ gone = FALSE
    /\ consumer = [pc |-> "recv"]

-----------------------------------------------------------------------------
(***************************************************************************)
(* The provider's goroutine                                                *)
(***************************************************************************)

Push(x) == producer' = [pc |-> "push", chunk |-> x]

ReadDelta ==
    /\ producer.pc = "read" /\ upstream = "open" /\ sent < MaxText
    /\ sent' = sent + 1
    /\ Push(Delta(sent'))
    /\ UNCHANGED <<mode, upstream, ch, canceled, consumer, out, gone, got>>

\* The upstream finishes, or fails, or the request is canceled.
ReadEnd ==
    /\ producer.pc = "read"
    /\ \/ upstream' = "ended" /\ Push(Verdict("done"))
       \/ upstream' = "broken" /\ Push(Verdict("error"))
    /\ UNCHANGED <<mode, sent, ch, canceled, consumer, out, gone, got>>

\* The channel left open after the last chunk.
PushChunkUnclosed ==
    /\ producer.pc = "push" /\ Len(ch) < Cap
    /\ ch' = Append(ch, producer.chunk)
    /\ producer' = [pc |-> IF IsVerdict(producer.chunk) THEN "exited" ELSE "read"]
    /\ UNCHANGED <<mode, sent, upstream, canceled, consumer, out, gone, got>>

\* The send blocks while the channel is full, whatever becomes of the context;
\* the last chunk is followed by the deferred close.
PushChunk ==
    /\ producer.pc = "push" /\ Len(ch) < Cap
    /\ ch' = Append(ch, producer.chunk)
    /\ producer' = [pc |-> IF IsVerdict(producer.chunk) THEN "closed" ELSE "read"]
    /\ UNCHANGED <<mode, sent, upstream, canceled, consumer, out, gone, got>>

-----------------------------------------------------------------------------
(***************************************************************************)
(* Both consumers range over the channel                                   *)
(***************************************************************************)

Receive ==
    /\ consumer.pc = "recv" /\ ch # <<>>
    /\ consumer' = [pc |-> "pass", chunk |-> Head(ch)]
    /\ ch' = Tail(ch)
    /\ UNCHANGED <<mode, sent, upstream, producer, canceled, out, gone, got>>

\* The end of the handler's request cancels its context.
Return == consumer' = [pc |-> "returned"] /\ canceled' = (canceled \/ mode = "handler")

ReceiveClosed ==
    /\ consumer.pc = "recv" /\ ch = <<>> /\ producer.pc = "closed"
    /\ Return
    /\ UNCHANGED <<mode, sent, upstream, producer, ch, out, gone, got>>

\* A return without draining the channel, whose next chunks have nowhere to go.
Leave == consumer' = [pc |-> "left"] /\ canceled' = (canceled \/ mode = "handler")

\* handler.StreamComplete: after an error chunk it goes on to the close.
HandlerSend ==
    /\ mode = "handler" /\ consumer.pc = "pass"
    /\ IF gone
       THEN Leave /\ UNCHANGED got
       ELSE /\ got' = Append(got, consumer.chunk)
            /\ IF consumer.chunk.kind = "done" THEN Return
               ELSE consumer' = [pc |-> "recv"] /\ UNCHANGED canceled
    /\ UNCHANGED <<mode, sent, upstream, producer, ch, out, gone>>

ClientGone ==
    /\ mode = "handler" /\ ~gone /\ consumer.pc \notin {"returned", "left"}
    /\ gone' = TRUE /\ canceled' = TRUE
    /\ UNCHANGED <<mode, sent, upstream, producer, ch, consumer, out, got>>

-----------------------------------------------------------------------------
(***************************************************************************)
(* gateway.StreamComplete and its reader                                   *)
(***************************************************************************)

\* A chunk that finds the channel full is dropped, and the loop goes on.
EmitOrDrop ==
    /\ mode = "pipeline" /\ consumer.pc = "pass"
    /\ out' = IF Len(out) < OutCap THEN Append(out, consumer.chunk) ELSE out
    /\ consumer' = [pc |-> IF IsVerdict(consumer.chunk) THEN "returned" ELSE "recv"]
    /\ UNCHANGED <<mode, sent, upstream, producer, ch, canceled, gone, got>>

\* tryEmit for an error and emitOrOverflow for the rest: the first select.
Emit ==
    /\ mode = "pipeline" /\ consumer.pc = "pass"
    /\ IF Len(out) < OutCap
       THEN /\ out' = Append(out, consumer.chunk)
            /\ consumer' = [pc |-> IF IsVerdict(consumer.chunk) THEN "returned" ELSE "recv"]
       ELSE /\ consumer' = [pc |-> IF consumer.chunk.kind = "error" THEN "returned" ELSE "overflow"]
            /\ UNCHANGED out
    /\ UNCHANGED <<mode, sent, upstream, producer, ch, canceled, gone, got>>

\* The second select: the overflow chunk too needs room.
EmitOverflow ==
    /\ consumer.pc = "overflow"
    /\ out' = IF Len(out) < OutCap THEN Append(out, Verdict("overflow")) ELSE out
    /\ consumer' = [pc |-> "left"]
    /\ UNCHANGED <<mode, sent, upstream, producer, ch, canceled, gone, got>>

Drain ==
    /\ out # <<>>
    /\ got' = Append(got, Head(out))
    /\ out' = Tail(out)
    /\ UNCHANGED <<mode, sent, upstream, producer, ch, canceled, consumer, gone>>

CallerCancels ==
    /\ mode = "pipeline" /\ ~canceled
    /\ canceled' = TRUE
    /\ UNCHANGED <<mode, sent, upstream, producer, ch, consumer, out, gone, got>>

-----------------------------------------------------------------------------
Produce == ReadDelta \/ ReadEnd \/ PushChunk
Consume == Receive \/ ReceiveClosed \/ HandlerSend \/ Emit \/ EmitOverflow

Next == Produce \/ Consume \/ Drain \/ ClientGone \/ CallerCancels

\* The goroutines run, the upstream answers (its client has timeouts) and the
\* reader drains its channel in the end.
Fairness == WF_vars(Produce) /\ WF_vars(Consume) /\ WF_vars(Drain)

Spec == Init /\ [][Next]_vars
FairSpec == Spec /\ Fairness

-----------------------------------------------------------------------------
(***************************************************************************)
(* Properties                                                              *)
(***************************************************************************)

\* What a client sees is always a beginning of the upstream's text: over two
\* channels, a slow reader and an overflow, no delta is skipped, repeated or
\* swapped, and nothing follows the verdict.
ReaderSeesPrefix ==
    \A i \in DOMAIN got : IF IsVerdict(got[i]) THEN i = Len(got) ELSE got[i].n = i

\* A client told that the answer is complete has all of it, and the upstream did
\* finish it.
DoneMeansAll ==
    \A i \in DOMAIN got : got[i].kind = "done" => upstream = "ended" /\ i - 1 = sent

\* A client that stays is told how the stream ended before the handler returns.
HandlerGivesVerdict ==
    mode = "handler" /\ consumer.pc = "returned" /\ ~gone =>
        got # <<>> /\ got[Len(got)].kind \in {"done", "error"}

\* The consumer returns, and the provider's goroutine ends, unless the consumer left
\* without draining the channel and the channel is full: the goroutine then stays in
\* its send, also of a canceled request, against "cancelling ctx stops the stream"
\* (gateway.go:119).
Leaked == consumer.pc = "left" /\ Len(ch) = Cap
Settled ==
    /\ consumer.pc \in {"returned", "left"}
    /\ producer.pc = "closed" \/ Leaked

\* Every stream settles: nothing but a consumer that leaves keeps a provider's
\* goroutine for ever.
StreamSettles == <>[]Settled

\* What a client is given of the upstream's answer is true, in its text and in
\* its verdict.
StreamIsFaithful == ReaderSeesPrefix /\ DoneMeansAll /\ HandlerGivesVerdict
=============================================================================
