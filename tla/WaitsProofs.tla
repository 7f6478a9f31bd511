---------------------------- MODULE WaitsProofs -----------------------------
(***************************************************************************)
(* Proofs about the components of MCWaits: for every set of callers,       *)
(* threshold and timeout, that the circuit breaker keeps its counters in   *)
(* range, that an Open circuit can always time out and admits nobody; for  *)
(* channels of any capacity, that a streamed answer reaches its client     *)
(* whole and in order; and that what JobLedgerProofs and PtyPoolProofs     *)
(* prove of the job ledger and the shell pool holds of them here.          *)
(***************************************************************************)
EXTENDS MCWaits, FiniteSetTheorems, SequenceTheorems, TLAPS

-----------------------------------------------------------------------------
(***************************************************************************)
(* The circuit breaker                                                     *)
(***************************************************************************)

\* The two safety invariants are inductive together with the types.
Inv == TypeOK /\ OpenHasFailureTime /\ CountersBelowThresholds

\* BreakerInner::new establishes the invariant.
LEMMA InitInv == Init => Inv
  BY ConfigAssumption
  DEF Init, Inv, TypeOK, OpenHasFailureTime, CountersBelowThresholds, States, Pcs, None

\* Every operation of the breaker, and the passing of time, preserves the
\* invariant.
LEMMA NextInv == Inv /\ [Next]_vars => Inv'
<1> SUFFICES ASSUME Inv, [Next]_vars PROVE Inv'
  OBVIOUS
<1> USE ConfigAssumption
    DEF Inv, TypeOK, OpenHasFailureTime, CountersBelowThresholds, States, Pcs, None, inner
<1>1. CASE ForceClose
  BY <1>1 DEF ForceClose, Close
<1>2. CASE Tick
  BY <1>2 DEF Tick
<1>3. ASSUME NEW c \in Callers, Call(c) PROVE Inv'
  <2>1. CASE IsAllowedFast(c)
    BY <2>1 DEF IsAllowedFast, Admit
  <2>2. CASE IsAllowedUpgrade(c)
    BY <2>2 DEF IsAllowedUpgrade, Admit, TimedOut
  <2>3. CASE RecordSuccess(c)
    BY <2>3 DEF RecordSuccess, Close
  <2>4. CASE RecordFailure(c)
    BY <2>4 DEF RecordFailure
  <2>. QED
    BY <1>3, <2>1, <2>2, <2>3, <2>4 DEF Call
<1>4. CASE UNCHANGED vars
  BY <1>4 DEF vars
<1>. QED
  BY <1>1, <1>2, <1>3, <1>4 DEF Next

(***************************************************************************)
(* The breaker's fields and its callers stay within their types.           *)
(***************************************************************************)
THEOREM BreakerTypeCorrect == Spec => []TypeOK
<1>1. Inv => TypeOK
  BY DEF Inv
<1>. QED
  BY InitInv, NextInv, <1>1, PTL DEF Spec

(***************************************************************************)
(* The counters of every reachable state are below their thresholds, so    *)
(* the u32 fields of BreakerInner never overflow.                          *)
(***************************************************************************)
THEOREM CountersNeverOverflow == Spec => []CountersBelowThresholds
<1>1. Inv => CountersBelowThresholds
  BY DEF Inv
<1>. QED
  BY InitInv, NextInv, <1>1, PTL DEF Spec

(***************************************************************************)
(* The branch of is_allowed for an Open circuit without a failure time is  *)
(* dead code: no reachable state takes it.                                 *)
(***************************************************************************)
THEOREM OpenAlwaysTimed == Spec => []OpenHasFailureTime
<1>1. Inv => OpenHasFailureTime
  BY DEF Inv
<1>. QED
  BY InitInv, NextInv, <1>1, PTL DEF Spec

(***************************************************************************)
(* is_allowed admits nobody to an Open circuit before the timeout has      *)
(* elapsed, whatever happens between its two locks.                        *)
(***************************************************************************)
THEOREM FailsFast == Spec => FailFastWhileOpen
<1>1. Inv /\ [Next]_vars =>
        [\A c \in Callers : pc[c] # "calling" /\ pc'[c] = "calling" =>
           /\ state' # "Open"
           /\ state = "Open" => lastFailure >= Timeout]_vars
  <2> SUFFICES ASSUME Inv, Next, NEW c \in Callers,
                      pc[c] # "calling", pc'[c] = "calling"
               PROVE  state' # "Open" /\ (state = "Open" => lastFailure >= Timeout)
    OBVIOUS
  <2> USE DEF Inv, TypeOK, inner
  <2>1. CASE ForceClose \/ Tick
    BY <2>1 DEF ForceClose, Tick
  <2>2. ASSUME NEW d \in Callers, Call(d)
        PROVE  state' # "Open" /\ (state = "Open" => lastFailure >= Timeout)
    <3>1. CASE IsAllowedFast(d)
      BY <3>1 DEF IsAllowedFast, Admit
    <3>2. CASE IsAllowedUpgrade(d)
      BY <3>2 DEF IsAllowedUpgrade, Admit, TimedOut
    <3>3. CASE RecordSuccess(d) \/ RecordFailure(d)
      BY <3>3 DEF RecordSuccess, RecordFailure
    <3>. QED
      BY <2>2, <3>1, <3>2, <3>3 DEF Call
  <2>. QED
    BY <2>1, <2>2 DEF Next
<1>. QED
  BY InitInv, NextInv, <1>1, PTL DEF Spec, FailFastWhileOpen

-----------------------------------------------------------------------------
(***************************************************************************)
(* The job ledger and the shell pool                                       *)
(***************************************************************************)

LedgerProofs == INSTANCE JobLedgerProofs WITH
                  Priority <- [j \in Jobs |-> IF j \in Urgent THEN 1 ELSE 5],
                  Handled <- {"ingest", "embed"}, None <- NoJob,
                  status <- jobStatus, canceled <- stopped

PoolProofs == INSTANCE PtyPoolProofs

\* The steps of MCWaits are steps of each component, or leave it alone.
LEMMA StepsOfComponents ==
    [NextAll]_allVars => /\ [Ledger!Next]_(Ledger!vars)
                         /\ [Pool!Next]_(Pool!vars)
                         /\ [Stream!Next]_(Stream!vars)
                         /\ [Router!Next]_(Router!vars)
BY DEF NextAll, allVars, breakerVars, jobVars, poolVars, streamVars, routerVars,
    Ledger!vars, Ledger!ledger, Ledger!pool, Pool!vars, Pool!procs, Stream!vars, Router!vars

\* The theorem of JobLedgerProofs, of the instance in MCWaits.
LEMMA LedgerTheorem == Ledger!Spec => [](Ledger!TypeOK /\ Ledger!JobsRunAsCounted)
<1>1. LedgerProofs!LedgerAssumption
  BY WaitsAssumption DEF LedgerProofs!LedgerAssumption, LedgerProofs!IsFiniteSet, IsFiniteSet
<1>2. LedgerProofs!Spec => [](LedgerProofs!TypeOK /\ LedgerProofs!JobsRunAsCounted)
  BY <1>1, LedgerProofs!RunsAreCounted
<1>. QED
  BY <1>2, PTL DEF
      Ledger!Cardinality, LedgerProofs!Cardinality, Ledger!IsFiniteSet, LedgerProofs!IsFiniteSet,
      Ledger!Spec, LedgerProofs!Spec, Ledger!Init, LedgerProofs!Init, Ledger!Next,
      LedgerProofs!Next, Ledger!vars, LedgerProofs!vars, Ledger!ledger, LedgerProofs!ledger,
      Ledger!pool, LedgerProofs!pool, Ledger!Statuses, LedgerProofs!Statuses, Ledger!Free,
      LedgerProofs!Free, Ledger!TypeOK, LedgerProofs!TypeOK, Ledger!Set, LedgerProofs!Set,
      Ledger!Fault, LedgerProofs!Fault, Ledger!QueueDepth, LedgerProofs!QueueDepth,
      Ledger!Enqueue, LedgerProofs!Enqueue, Ledger!BecomeVisible, LedgerProofs!BecomeVisible,
      Ledger!Ready, LedgerProofs!Ready, Ledger!Older, LedgerProofs!Older, Ledger!Before,
      LedgerProofs!Before, Ledger!MayRead, LedgerProofs!MayRead, Ledger!Dispatch,
      LedgerProofs!Dispatch, Ledger!Read, LedgerProofs!Read, Ledger!HandlerReturns,
      LedgerProofs!HandlerReturns, Ledger!Ack, LedgerProofs!Ack, Ledger!Fail,
      LedgerProofs!Fail, Ledger!SettleFails, LedgerProofs!SettleFails, Ledger!MonitorCount,
      LedgerProofs!MonitorCount, Ledger!MonitorSet, LedgerProofs!MonitorSet, Ledger!Stop,
      LedgerProofs!Stop, Ledger!Restart, LedgerProofs!Restart, Ledger!WorkerStep,
      LedgerProofs!WorkerStep, Ledger!MonitorStep, LedgerProofs!MonitorStep, Ledger!Busy,
      LedgerProofs!Busy, Ledger!OneWorkerPerJob, LedgerProofs!OneWorkerPerJob,
      Ledger!SucceedsOnce, LedgerProofs!SucceedsOnce, Ledger!DeadAfterAllAttempts,
      LedgerProofs!DeadAfterAllAttempts, Ledger!JobsRunAsCounted,
      LedgerProofs!JobsRunAsCounted

\* The theorem of PtyPoolProofs, of the instance in MCWaits.
LEMMA PoolTheorem == Pool!Spec => [](Pool!TypeOK /\ Pool!ShellsAccountedFor)
<1>1. PoolProofs!PoolAssumption
  BY WaitsAssumption DEF PoolProofs!PoolAssumption, PoolProofs!IsFiniteSet, IsFiniteSet
<1>2. PoolProofs!Spec => [](PoolProofs!TypeOK /\ PoolProofs!ShellsAccountedFor)
  BY <1>1, PoolProofs!ShellsAreAccountedFor
<1>3. Pool!ReaperStep <=> PoolProofs!ReaperStep
  BY Zenon DEF
      Pool!ReaperStep, PoolProofs!ReaperStep, Pool!ReaperTick, PoolProofs!ReaperTick,
      Pool!ReaperCollect, PoolProofs!ReaperCollect, Pool!ReaperKill, PoolProofs!ReaperKill,
      Pool!ReaperRenew, PoolProofs!ReaperRenew, Pool!ReaperSend, PoolProofs!ReaperSend,
      Pool!ReaperDone, PoolProofs!ReaperDone, Pool!ReaperExit, PoolProofs!ReaperExit,
      Pool!procs, PoolProofs!procs, Pool!Kill, PoolProofs!Kill, Pool!New, PoolProofs!New,
      Pool!Idle, PoolProofs!Idle
<1>. QED
  BY <1>2, <1>3, PTL DEF
      Pool!Cardinality, PoolProofs!Cardinality, Pool!IsFiniteSet, PoolProofs!IsFiniteSet,
      Pool!Spec, PoolProofs!Spec, Pool!Init, PoolProofs!Init, Pool!Next, PoolProofs!Next,
      Pool!vars, PoolProofs!vars, Pool!procs, PoolProofs!procs, Pool!Idle, PoolProofs!Idle,
      Pool!SeqSet, PoolProofs!SeqSet, Pool!TypeOK, PoolProofs!TypeOK, Pool!Kill,
      PoolProofs!Kill, Pool!New, PoolProofs!New, Pool!Goto, PoolProofs!Goto,
      Pool!AcquireBegin, PoolProofs!AcquireBegin, Pool!AcquireSlot, PoolProofs!AcquireSlot,
      Pool!AcquireFails, PoolProofs!AcquireFails, Pool!ReleaseKill, PoolProofs!ReleaseKill,
      Pool!ReleaseRenew, PoolProofs!ReleaseRenew, Pool!ReleaseSend, PoolProofs!ReleaseSend,
      Pool!StopClose, PoolProofs!StopClose, Pool!StopWait, PoolProofs!StopWait,
      Pool!StopDrain, PoolProofs!StopDrain, Pool!UserStep, PoolProofs!UserStep, Pool!Held,
      PoolProofs!Held, Pool!ReaperHeld, PoolProofs!ReaperHeld, Pool!SlotsHeldOnce,
      PoolProofs!SlotsHeldOnce, Pool!RoomForAll, PoolProofs!RoomForAll, Pool!DrainSeesAll,
      PoolProofs!DrainSeesAll, Pool!ShellsAccountedFor, PoolProofs!ShellsAccountedFor

\* The ledger gives a job to one worker at a time, a handler that has succeeded
\* never runs again, and a job is given up after exactly 1 + MaxRetries runs.
THEOREM RunsAreCounted == FairSpecAll => []JobsRunAsCounted
<1>1. Ledger!JobsRunAsCounted => JobsRunAsCounted
  BY DEF JobsRunAsCounted
<1>. QED
  BY <1>1, StepsOfComponents, LedgerTheorem, PTL DEF FairSpecAll, InitAll, Ledger!Spec

\* No shell is shared, lost or more than the pool's channel has room for.
THEOREM ShellsAreAccountedFor == FairSpecAll => []ShellsAccountedFor
<1>1. Pool!ShellsAccountedFor => ShellsAccountedFor
  BY DEF ShellsAccountedFor
<1>. QED
  BY <1>1, StepsOfComponents, PoolTheorem, PTL DEF FairSpecAll, InitAll, Pool!Spec

-----------------------------------------------------------------------------
(***************************************************************************)
(* The streams                                                             *)
(***************************************************************************)

Chunk == [kind : {"delta", "done", "error", "overflow"}, n : Nat]

\* How many chunks have been passed on, and the chunks in the goroutines' hands.
Passed == Len(got) + Len(out)
InHand == IF consumer.pc = "pass" THEN 1 ELSE 0
Pushing == IF producer.pc = "push" THEN 1 ELSE 0
Ended == IF upstream = "open" THEN 0 ELSE 1

StreamTypes ==
    /\ mode \in {"handler", "pipeline"}
    /\ sent \in 0 .. MaxText
    /\ upstream \in {"open", "ended", "broken"}
    /\ producer \in [pc : {"read", "closed"}] \cup [pc : {"push"}, chunk : Chunk]
    /\ consumer \in [pc : {"recv", "overflow", "returned", "left"}] \cup [pc : {"pass"}, chunk : Chunk]
    /\ ch \in Seq(Chunk) /\ Len(ch) <= ChunkCap
    /\ out \in Seq(Chunk) /\ Len(out) <= OutCap
    /\ got \in Seq(Chunk)
    /\ canceled \in BOOLEAN /\ gone \in BOOLEAN

\* The provider's goroutine reads while the upstream is open, and its last chunk
\* is the verdict.
VerdictIsLast ==
    /\ producer.pc = "read" => upstream = "open"
    /\ producer.pc = "closed" => upstream # "open"
    /\ producer.pc = "push" => (Stream!IsVerdict(producer.chunk) <=> upstream # "open")

\* Only the pipeline has a second channel.
OneConsumer == mode = "handler" => out = <<>> /\ consumer.pc # "overflow"

\* x is the chunk that the upstream's text has at position k.
IsAt(x, k) ==
    \/ x.kind = "delta" /\ x.n = k /\ k <= sent
    \/ x.kind = "done" /\ upstream = "ended" /\ k = sent + 1
    \/ x.kind = "error" /\ upstream = "broken" /\ k = sent + 1

\* A chunk passed on at position k is the upstream's, or tells of an overflow; and
\* a verdict is the last.
PassedAt(x, k) ==
    /\ IsAt(x, k) \/ (x.kind = "overflow" /\ consumer.pc = "left" /\ mode = "pipeline")
    /\ x.kind # "delta" => k = Passed /\ consumer.pc # "overflow"

Delivered ==
    /\ \A i \in DOMAIN got : PassedAt(got[i], i)
    /\ \A i \in DOMAIN out : PassedAt(out[i], Len(got) + i)

\* Until the consumer gives up, every chunk of the upstream is in one place on its
\* way, in order: none is lost, repeated or overtaken.
InOrder ==
    consumer.pc \in {"recv", "pass"} =>
        /\ sent + Ended = Passed + InHand + Len(ch) + Pushing
        /\ consumer.pc = "pass" => IsAt(consumer.chunk, Passed + 1)
        /\ \A i \in DOMAIN ch : IsAt(ch[i], Passed + InHand + i)
        /\ producer.pc = "push" => IsAt(producer.chunk, Passed + InHand + Len(ch) + 1)

StreamInv ==
    /\ StreamTypes /\ VerdictIsLast /\ OneConsumer
    /\ Delivered /\ InOrder /\ Stream!HandlerGivesVerdict

\* What the fields of a chunk are.
LEMMA ChunkFields ==
    /\ \A x \in Chunk : x.kind \in {"delta", "done", "error", "overflow"}
    /\ \A n \in Nat : Stream!Delta(n) \in Chunk
    /\ \A v \in {"done", "error", "overflow"} : Stream!Verdict(v) \in Chunk
BY DEF Chunk, Stream!Delta, Stream!Verdict

\* The elements of a sequence to which one is appended.
LEMMA AppendAt ==
    ASSUME NEW S, NEW s \in Seq(S), NEW x \in S
    PROVE  /\ Append(s, x) \in Seq(S) /\ Len(Append(s, x)) = Len(s) + 1
           /\ Append(s, x)[Len(s) + 1] = x
           /\ \A i \in DOMAIN Append(s, x) :
                i \in 1 .. Len(s) + 1 /\ (i # Len(s) + 1 => i \in DOMAIN s /\ Append(s, x)[i] = s[i])
OBVIOUS

\* The elements of a sequence whose first is removed.
LEMMA TailAt ==
    ASSUME NEW S, NEW s \in Seq(S), s # <<>>
    PROVE  /\ Head(s) \in S /\ Head(s) = s[1] /\ 1 \in DOMAIN s
           /\ Tail(s) \in Seq(S) /\ Len(Tail(s)) = Len(s) - 1
           /\ \A i \in DOMAIN Tail(s) :
                i \in Nat /\ i + 1 \in DOMAIN s /\ Tail(s)[i] = s[i + 1]
OBVIOUS

\* The initial states satisfy the stream's invariant.
LEMMA StreamInit == Stream!Init => StreamInv
<1> SUFFICES ASSUME Stream!Init PROVE StreamInv
  OBVIOUS
<1>1. StreamTypes
  <2>1. producer \in [pc : {"read", "closed"}] /\ consumer \in [pc : {"recv", "overflow", "returned", "left"}]
    BY DEF Stream!Init
  <2>2. /\ ch \in Seq(Chunk) /\ out \in Seq(Chunk) /\ got \in Seq(Chunk)
        /\ Len(ch) <= ChunkCap /\ Len(out) <= OutCap
    BY WaitsAssumption DEF Stream!Init
  <2>3. sent \in 0 .. MaxText /\ mode \in {"handler", "pipeline"} /\ upstream = "open"
    BY WaitsAssumption DEF Stream!Init
  <2>4. canceled \in BOOLEAN /\ gone \in BOOLEAN
    BY DEF Stream!Init
  <2>. QED
    BY <2>1, <2>2, <2>3, <2>4, Zenon DEF StreamTypes
<1>2. VerdictIsLast /\ OneConsumer /\ Delivered /\ InOrder /\ Stream!HandlerGivesVerdict
  BY DEF Stream!Init, VerdictIsLast, OneConsumer, Delivered, InOrder,
         Stream!HandlerGivesVerdict, Passed, InHand, Pushing, Ended
<1>. QED
  BY <1>1, <1>2 DEF StreamInv

\* While the consumer has a chunk in hand, no verdict has been passed on.
LEMMA NoVerdictYet ==
    ASSUME StreamInv, consumer.pc = "pass"
    PROVE  /\ \A i \in DOMAIN got : IsAt(got[i], i) /\ got[i].kind = "delta"
           /\ \A i \in DOMAIN out : IsAt(out[i], Len(got) + i) /\ out[i].kind = "delta"
<1>1. Passed \in Nat /\ Len(ch) \in Nat /\ Pushing \in 0 .. 1 /\ Ended \in 0 .. 1 /\ sent \in Nat
  BY DEF StreamInv, StreamTypes, Passed, Pushing, Ended
<1>2. sent >= Passed
  BY <1>1 DEF StreamInv, InOrder, InHand
<1>3. ASSUME NEW x, NEW k, PassedAt(x, k) PROVE IsAt(x, k) /\ x.kind = "delta"
  BY <1>1, <1>2, <1>3 DEF PassedAt, IsAt
<1>. QED
  BY <1>3 DEF StreamInv, Delivered

\* Every step of the goroutines, the reader and the callers preserves it.
LEMMA StreamNext == StreamInv /\ [Stream!Next]_(Stream!vars) => StreamInv'
<1> SUFFICES ASSUME StreamInv, [Stream!Next]_(Stream!vars) PROVE StreamInv'
  OBVIOUS
<1> USE WaitsAssumption, ChunkFields DEF StreamInv
<1>1. CASE Stream!ReadDelta
  <2>1. StreamTypes'
    BY <1>1, SMTT(60) DEF Stream!ReadDelta, StreamTypes, Stream!Push
  <2>2. VerdictIsLast' /\ OneConsumer'
    BY <1>1 DEF Stream!ReadDelta, Stream!Push, Stream!Delta, StreamTypes, VerdictIsLast, OneConsumer, Stream!IsVerdict
  <2>3. Delivered'
    BY <1>1 DEF Stream!ReadDelta, Stream!Push, Stream!Delta, StreamTypes, VerdictIsLast, OneConsumer, Delivered, InOrder, PassedAt,
                 IsAt, Passed, InHand, Pushing, Ended, Stream!IsVerdict
  <2>4. InOrder'
    <3> SUFFICES ASSUME consumer.pc \in {"recv", "pass"} PROVE InOrder'
      BY <1>1 DEF Stream!ReadDelta, InOrder
    <3>1. UNCHANGED <<Passed, InHand, ch, consumer>>
      BY <1>1 DEF Stream!ReadDelta, Passed, InHand
    <3>2. /\ upstream = "open" /\ upstream' = "open" /\ sent' = sent + 1 /\ producer.pc = "read"
          /\ producer'.pc = "push" /\ producer'.chunk.kind = "delta" /\ producer'.chunk.n = sent'
      BY <1>1 DEF Stream!ReadDelta, Stream!Push, Stream!Delta
    <3>3. sent = Passed + InHand + Len(ch)
      BY <3>2 DEF InOrder, Ended, Pushing, Passed, InHand, StreamTypes
    <3>4. Passed \in Nat /\ InHand \in Nat /\ Len(ch) \in Nat /\ sent \in Nat
      BY DEF StreamTypes, Passed, InHand
    <3>5. \A x, k : IsAt(x, k) /\ k \in Nat => IsAt(x, k)'
      BY <3>2, <3>4 DEF IsAt
    <3>6. IsAt(producer.chunk, Passed + InHand + Len(ch) + 1)'
      BY <3>1, <3>2, <3>3, <3>4 DEF IsAt
    <3>7. consumer.pc = "pass" => IsAt(consumer.chunk, Passed + 1)'
      BY <3>1, <3>4, <3>5 DEF InOrder
    <3>8. \A i \in DOMAIN ch : IsAt(ch[i], Passed + InHand + i)'
      <4>1. \A i \in DOMAIN ch : Passed + InHand + i \in Nat
        BY <3>4 DEF StreamTypes
      <4>2. \A i \in DOMAIN ch : IsAt(ch[i], Passed + InHand + i)
        BY DEF InOrder
      <4>. QED
        BY <3>1, <3>2, <3>4, <4>1, <4>2 DEF IsAt
    <3>. QED
      BY <3>1, <3>2, <3>3, <3>4, <3>6, <3>7, <3>8 DEF InOrder, Ended, Pushing
  <2>5. Stream!HandlerGivesVerdict'
    BY <1>1 DEF Stream!ReadDelta, Stream!Push, Stream!Delta, StreamTypes, VerdictIsLast, OneConsumer, Delivered, InOrder, PassedAt,
                 IsAt, Passed, InHand, Pushing, Ended, Stream!HandlerGivesVerdict
  <2>. QED
    BY <2>1, <2>2, <2>3, <2>4, <2>5
<1>2. CASE Stream!ReadEnd
  <2>1. StreamTypes'
    BY <1>2 DEF Stream!ReadEnd, StreamTypes, Stream!Push
  <2>2. VerdictIsLast' /\ OneConsumer'
    BY <1>2 DEF Stream!ReadEnd, Stream!Push, Stream!Verdict, StreamTypes, VerdictIsLast, OneConsumer, Stream!IsVerdict
  <2>3. Delivered'
    BY <1>2 DEF Stream!ReadEnd, Stream!Push, Stream!Verdict, StreamTypes, VerdictIsLast, OneConsumer, Delivered, InOrder, PassedAt,
                 IsAt, Passed, InHand, Pushing, Ended, Stream!IsVerdict
  <2>4. InOrder'
    <3> SUFFICES ASSUME consumer.pc \in {"recv", "pass"} PROVE InOrder'
      BY <1>2 DEF Stream!ReadEnd, InOrder
    <3>1. UNCHANGED <<Passed, InHand, ch, consumer, sent>>
      BY <1>2 DEF Stream!ReadEnd, Passed, InHand
    <3>2. /\ producer.pc = "read" /\ upstream = "open" /\ producer'.pc = "push"
          /\ \/ upstream' = "ended" /\ producer'.chunk.kind = "done"
             \/ upstream' = "broken" /\ producer'.chunk.kind = "error"
      BY <1>2 DEF Stream!ReadEnd, Stream!Push, Stream!Verdict, VerdictIsLast
    <3>3. /\ sent = Passed + InHand + Len(ch)
          /\ Passed \in Nat /\ InHand \in Nat /\ Len(ch) \in Nat /\ sent \in Nat
      BY <3>2 DEF InOrder, Ended, Pushing, Passed, InHand, StreamTypes
    <3>4. \A x, k : IsAt(x, k) => IsAt(x, k)'
      BY <3>1, <3>2 DEF IsAt
    <3>5. /\ consumer.pc = "pass" => IsAt(consumer.chunk, Passed + 1)'
          /\ \A i \in DOMAIN ch : IsAt(ch[i], Passed + InHand + i)'
      BY <3>1, <3>4 DEF InOrder
    <3>6. IsAt(producer.chunk, Passed + InHand + Len(ch) + 1)'
      BY <3>1, <3>2, <3>3 DEF IsAt
    <3>7. (sent + Ended = Passed + InHand + Len(ch) + Pushing)'
      BY <3>1, <3>2, <3>3 DEF Ended, Pushing
    <3>. QED
      BY <3>1, <3>5, <3>6, <3>7 DEF InOrder
  <2>5. Stream!HandlerGivesVerdict'
    BY <1>2 DEF Stream!ReadEnd, Stream!Push, Stream!Verdict, StreamTypes, VerdictIsLast, OneConsumer, Delivered, InOrder, PassedAt,
                 IsAt, Passed, InHand, Pushing, Ended, Stream!HandlerGivesVerdict
  <2>. QED
    BY <2>1, <2>2, <2>3, <2>4, <2>5
<1>3. CASE Stream!PushChunk
  <2>1. StreamTypes'
    BY <1>3 DEF Stream!PushChunk, StreamTypes
  <2>2. VerdictIsLast' /\ OneConsumer'
    BY <1>3 DEF Stream!PushChunk, StreamTypes, VerdictIsLast, OneConsumer, Stream!IsVerdict
  <2>3. Delivered'
    BY <1>3 DEF Stream!PushChunk, StreamTypes, VerdictIsLast, OneConsumer, Delivered, InOrder, PassedAt,
                 IsAt, Passed, InHand, Pushing, Ended, Stream!IsVerdict
  <2>4. InOrder'
    <3>1. /\ ch' = Append(ch, producer.chunk) /\ producer.pc = "push" /\ producer.chunk \in Chunk
          /\ producer'.pc # "push" /\ UNCHANGED <<consumer, got, out, sent, upstream>>
      BY <1>3 DEF Stream!PushChunk, StreamTypes
    <3>2. ch \in Seq(Chunk) /\ Len(ch) \in Nat
      BY DEF StreamTypes
    <3>3. /\ Len(ch') = Len(ch) + 1 /\ ch'[Len(ch) + 1] = producer.chunk
          /\ \A i \in DOMAIN ch' :
                i \in 1 .. Len(ch) + 1 /\ (i # Len(ch) + 1 => i \in DOMAIN ch /\ ch'[i] = ch[i])
      BY ONLY <3>1, <3>2, AppendAt
    <3>4. /\ Passed \in Nat /\ InHand \in Nat /\ Pushing = 1 /\ Pushing' = 0
          /\ UNCHANGED <<Passed, InHand, Ended>> /\ \A x, k : IsAt(x, k)' <=> IsAt(x, k)
      BY <3>1 DEF StreamTypes, Passed, InHand, Pushing, Ended, IsAt
    <3>5. Passed + InHand + Len(ch) + 1 = Passed + InHand + (Len(ch) + 1)
      BY <3>2, <3>4
    <3>6. consumer.pc \in {"recv", "pass"} => \A i \in DOMAIN ch' : IsAt(ch'[i], Passed + InHand + i)
      BY <3>1, <3>2, <3>3, <3>5 DEF InOrder
    <3>. QED
      <4> SUFFICES ASSUME consumer'.pc \in {"recv", "pass"}
                   PROVE  /\ sent' + Ended' = Passed' + InHand' + Len(ch') + Pushing'
                          /\ consumer'.pc = "pass" => IsAt(consumer.chunk, Passed + 1)'
                          /\ \A i \in DOMAIN ch' : IsAt(ch[i], Passed + InHand + i)'
        BY <3>1 DEF InOrder
      <4>1. /\ sent + Ended = Passed + InHand + Len(ch) + 1
            /\ consumer.pc = "pass" => IsAt(consumer.chunk, Passed + 1)
            /\ \A i \in DOMAIN ch' : IsAt(ch'[i], Passed + InHand + i)
        BY <3>1, <3>4, <3>6 DEF InOrder
      <4>2. sent' + Ended' = Passed' + InHand' + Len(ch') + Pushing'
        BY ONLY <3>1, <3>2, <3>3, <3>4, <4>1
      <4>3. consumer'.pc = "pass" => IsAt(consumer.chunk, Passed + 1)'
        BY <3>1, <3>4, <4>1 DEF IsAt
      <4>4. ASSUME NEW i \in DOMAIN ch' PROVE IsAt(ch[i], Passed + InHand + i)'
        <5>1. IsAt(ch'[i], Passed + InHand + i)
          BY <4>1
        <5> QED
          BY <3>1, <3>4, <5>1 DEF IsAt
      <4> QED
        BY ONLY <4>2, <4>3, <4>4
  <2>5. Stream!HandlerGivesVerdict'
    BY <1>3 DEF Stream!PushChunk, StreamTypes, VerdictIsLast, OneConsumer, Delivered, InOrder, PassedAt,
                 IsAt, Passed, InHand, Pushing, Ended, Stream!HandlerGivesVerdict
  <2>. QED
    BY <2>1, <2>2, <2>3, <2>4, <2>5
<1>4. CASE Stream!Receive
  <2>1. StreamTypes'
    BY <1>4 DEF Stream!Receive, StreamTypes
  <2>2. VerdictIsLast' /\ OneConsumer'
    BY <1>4 DEF Stream!Receive, StreamTypes, VerdictIsLast, OneConsumer, Stream!IsVerdict
  <2>3. Delivered'
    BY <1>4 DEF Stream!Receive, StreamTypes, VerdictIsLast, OneConsumer, Delivered, InOrder, PassedAt,
                 IsAt, Passed, InHand, Pushing, Ended, Stream!IsVerdict
  <2>4. InOrder'
    <3>1. /\ ch # <<>> /\ ch' = Tail(ch) /\ consumer.pc = "recv" /\ consumer'.pc = "pass"
          /\ consumer'.chunk = Head(ch) /\ UNCHANGED <<producer, got, out, sent, upstream>>
      BY <1>4 DEF Stream!Receive
    <3>2. ch \in Seq(Chunk) /\ Len(ch) \in Nat
      BY DEF StreamTypes
    <3>3. /\ Head(ch) = ch[1] /\ 1 \in DOMAIN ch /\ Len(ch') = Len(ch) - 1
          /\ \A i \in DOMAIN ch' : i \in Nat /\ i + 1 \in DOMAIN ch /\ ch'[i] = ch[i + 1]
      BY ONLY <3>1, <3>2, TailAt
    <3>4. /\ Passed \in Nat /\ InHand = 0 /\ InHand' = 1 /\ Pushing \in Nat
          /\ UNCHANGED <<Passed, Pushing, Ended>> /\ \A x, k : IsAt(x, k)' <=> IsAt(x, k)
      BY <3>1 DEF StreamTypes, Passed, InHand, Pushing, Ended, IsAt
    <3>5. Passed + InHand + 1 = Passed + 1
      BY <3>4
    <3>6. \A i \in Nat : Passed + InHand + (i + 1) = Passed + InHand' + i
      BY <3>4
    <3>. QED
      <4> SUFFICES /\ sent' + Ended' = Passed' + InHand' + Len(ch') + Pushing'
                   /\ IsAt(consumer.chunk, Passed + 1)'
                   /\ \A i \in DOMAIN ch' : IsAt(ch[i], Passed + InHand + i)'
                   /\ producer'.pc = "push" =>
                        IsAt(producer.chunk, Passed + InHand + Len(ch) + 1)'
        BY DEF InOrder
      <4>1. /\ sent + Ended = Passed + InHand + Len(ch) + Pushing
            /\ \A i \in DOMAIN ch : IsAt(ch[i], Passed + InHand + i)
            /\ producer.pc = "push" => IsAt(producer.chunk, Passed + InHand + Len(ch) + 1)
        BY <3>1 DEF InOrder
      <4>2. Passed' + InHand' + Len(ch') = Passed + InHand + Len(ch)
        BY ONLY <3>2, <3>3, <3>4
      <4>3. sent' + Ended' = Passed' + InHand' + Len(ch') + Pushing'
        BY ONLY <3>1, <3>4, <4>1, <4>2
      <4>4. IsAt(consumer.chunk, Passed + 1)'
        <5>1. IsAt(ch[1], Passed + 1)
          BY <3>3, <3>5, <4>1
        <5> QED
          BY <3>1, <3>3, <3>4, <5>1 DEF IsAt
      <4>5. ASSUME NEW i \in DOMAIN ch' PROVE IsAt(ch[i], Passed + InHand + i)'
        <5>1. IsAt(ch'[i], Passed + InHand' + i)
          <6>1. IsAt(ch[i + 1], Passed + InHand + (i + 1))
            BY <3>3, <4>1
          <6> QED
            BY <3>3, <3>6, <6>1
        <5> QED
          BY <3>1, <3>4, <5>1 DEF IsAt
      <4>6. ASSUME producer'.pc = "push"
            PROVE  IsAt(producer.chunk, Passed + InHand + Len(ch) + 1)'
        <5>1. IsAt(producer.chunk, Passed + InHand + Len(ch) + 1)
          BY <3>1, <4>1, <4>6
        <5> QED
          BY <3>1, <4>2, <5>1 DEF IsAt
      <4> QED
        BY ONLY <4>3, <4>4, <4>5, <4>6
  <2>5. Stream!HandlerGivesVerdict'
    BY <1>4 DEF Stream!Receive, StreamTypes, VerdictIsLast, OneConsumer, Delivered, InOrder, PassedAt,
                 IsAt, Passed, InHand, Pushing, Ended, Stream!HandlerGivesVerdict
  <2>. QED
    BY <2>1, <2>2, <2>3, <2>4, <2>5
<1>5. CASE Stream!ReceiveClosed
  <2>1. StreamTypes'
    BY <1>5 DEF Stream!ReceiveClosed, StreamTypes, Stream!Return
  <2>2. VerdictIsLast' /\ OneConsumer'
    BY <1>5 DEF Stream!ReceiveClosed, Stream!Return, StreamTypes, VerdictIsLast, OneConsumer, Stream!IsVerdict
  <2>3. Delivered'
    BY <1>5 DEF Stream!ReceiveClosed, Stream!Return, StreamTypes, VerdictIsLast, OneConsumer, Delivered, InOrder, PassedAt,
                 IsAt, Passed, InHand, Pushing, Ended, Stream!IsVerdict
  <2>4. InOrder'
    BY <1>5 DEF Stream!ReceiveClosed, Stream!Return, StreamTypes, VerdictIsLast, OneConsumer, InOrder, IsAt, Passed,
                 InHand, Pushing, Ended, Stream!IsVerdict
  <2>5. Stream!HandlerGivesVerdict'
    BY <1>5 DEF Stream!ReceiveClosed, Stream!Return, StreamTypes, VerdictIsLast, OneConsumer, Delivered, InOrder, PassedAt,
                 IsAt, Passed, InHand, Pushing, Ended, Stream!HandlerGivesVerdict
  <2>. QED
    BY <2>1, <2>2, <2>3, <2>4, <2>5
<1>6. CASE Stream!HandlerSend
  <2>1. StreamTypes'
    <3>1. consumer.chunk \in Chunk /\ out \in Seq(Chunk) /\ got \in Seq(Chunk)
      BY <1>6 DEF Stream!HandlerSend, StreamTypes
    <3>2. Append(got, consumer.chunk) \in Seq(Chunk)
      BY ONLY <3>1, AppendAt
    <3>3. got' \in Seq(Chunk) /\ out' \in Seq(Chunk) /\ Len(out') <= OutCap
      BY <1>6, <3>1, <3>2 DEF Stream!HandlerSend, StreamTypes
    <3>4. consumer' \in [pc : {"recv", "overflow", "returned", "left"}]
      BY <1>6 DEF Stream!HandlerSend, Stream!Return, Stream!Leave
    <3>5. canceled' \in BOOLEAN
      BY <1>6, Zenon DEF Stream!HandlerSend, Stream!Return, Stream!Leave, StreamTypes
    <3>. QED
      BY <1>6, <3>3, <3>4, <3>5 DEF Stream!HandlerSend, StreamTypes
  <2>2. VerdictIsLast' /\ OneConsumer'
    BY <1>6 DEF Stream!HandlerSend, Stream!Return, Stream!Leave, StreamTypes, VerdictIsLast, OneConsumer, Stream!IsVerdict
  <2>3. Delivered'
    <3>1. consumer.pc = "pass" /\ consumer.chunk \in Chunk /\ got \in Seq(Chunk) /\ Len(got) \in Nat
      BY <1>6 DEF Stream!HandlerSend, StreamTypes
    <3>2. UNCHANGED <<sent, upstream, out, mode>>
      BY <1>6 DEF Stream!HandlerSend
    <3>3. \A x, k : IsAt(x, k)' <=> IsAt(x, k)
      BY <3>2 DEF IsAt
    <3>4. CASE ~gone
      <4>1. got' = Append(got, consumer.chunk) /\ consumer'.pc \in {"recv", "returned", "left"}
        BY <1>6, <3>4 DEF Stream!HandlerSend, Stream!Return, Stream!Leave
      <4>2. /\ Len(got') = Len(got) + 1 /\ got'[Len(got) + 1] = consumer.chunk
            /\ \A i \in DOMAIN got' :
                  i \in 1 .. Len(got) + 1 /\ (i # Len(got) + 1 => i \in DOMAIN got /\ got'[i] = got[i])
        BY ONLY <3>1, <4>1, AppendAt
      <4>3. Passed' = Passed + 1 /\ IsAt(consumer.chunk, Passed + 1)
        BY <3>1, <3>2, <4>2 DEF Passed, InOrder, StreamTypes
      <4>4. out = <<>> /\ Len(out) = 0 /\ Passed + 1 = Len(got) + 1 /\ DOMAIN out' = {}
        BY <3>1, <3>2, <1>6 DEF Stream!HandlerSend, OneConsumer, Passed
      <4>5. \A i \in DOMAIN got' : PassedAt(got[i], i)'
        BY <3>1, <3>3, <4>1, <4>2, <4>3, <4>4, NoVerdictYet DEF PassedAt
      <4>. QED
        BY <4>4, <4>5 DEF Delivered
    <3>5. CASE ~ (~gone)
      <4>1. UNCHANGED <<got, out>>
        BY <1>6, <3>5 DEF Stream!HandlerSend
      <4>. QED
        BY <3>1, <3>3, <4>1, NoVerdictYet DEF Delivered, PassedAt
    <3>. QED
      BY <3>4, <3>5
  <2>4. InOrder'
    <3>1. /\ consumer.pc = "pass" /\ consumer.chunk \in Chunk /\ got \in Seq(Chunk)
          /\ UNCHANGED <<sent, upstream, producer, ch, out>>
      BY <1>6 DEF Stream!HandlerSend, StreamTypes
    <3>2. consumer'.pc \in {"recv", "pass"} =>
            got' = Append(got, consumer.chunk) /\ consumer'.pc = "recv"
      BY <1>6 DEF Stream!HandlerSend, Stream!Return, Stream!Leave
    <3>3. Len(Append(got, consumer.chunk)) = Len(got) + 1
      BY ONLY <3>1, AppendAt
    <3>7. Len(got) \in Nat /\ Len(out) \in Nat
      BY DEF StreamTypes
    <3>4. /\ Passed \in Nat /\ Len(ch) \in Nat /\ Pushing \in Nat /\ InHand = 1
          /\ UNCHANGED <<Pushing, Ended>> /\ \A x, k : IsAt(x, k)' <=> IsAt(x, k)
      BY <3>1 DEF Passed, InHand, Pushing, Ended, IsAt, StreamTypes
    <3>5. consumer'.pc \in {"recv", "pass"} => Passed' = Passed + 1 /\ InHand' = 0
      <4> SUFFICES ASSUME consumer'.pc \in {"recv", "pass"} PROVE Passed' = Passed + 1 /\ InHand' = 0
        OBVIOUS
      <4>1. Len(got') + Len(out') = Len(got) + Len(out) + 1
        BY ONLY <3>1, <3>2, <3>3, <3>7, consumer'.pc \in {"recv", "pass"}
      <4>. QED
        BY <3>2, <4>1 DEF Passed, InHand
    <3>6. \A i \in DOMAIN ch : Passed + 1 + 0 + i = Passed + 1 + i
      BY <3>4 DEF StreamTypes
    <3>. QED
      <4> SUFFICES ASSUME consumer'.pc \in {"recv", "pass"}
                   PROVE  /\ sent' + Ended' = Passed' + InHand' + Len(ch') + Pushing'
                          /\ consumer'.pc = "recv"
                          /\ \A i \in DOMAIN ch' : IsAt(ch[i], Passed + InHand + i)'
                          /\ producer'.pc = "push" =>
                               IsAt(producer.chunk, Passed + InHand + Len(ch) + 1)'
        BY DEF InOrder
      <4>1. /\ sent + Ended = Passed + 1 + Len(ch) + Pushing
            /\ \A i \in DOMAIN ch : IsAt(ch[i], Passed + 1 + i)
            /\ producer.pc = "push" => IsAt(producer.chunk, Passed + 1 + Len(ch) + 1)
        BY <3>1, <3>4 DEF InOrder
      <4>2. Passed' = Passed + 1 /\ InHand' = 0 /\ consumer'.pc = "recv"
        BY <3>2, <3>5
      <4>3. Passed' + InHand' = Passed + 1
        BY ONLY <3>4, <4>2
      <4>4. sent' + Ended' = Passed' + InHand' + Len(ch') + Pushing'
        BY ONLY <3>1, <3>4, <4>1, <4>3
      <4>5. ASSUME NEW i \in DOMAIN ch' PROVE IsAt(ch[i], Passed + InHand + i)'
        <5>1. IsAt(ch[i], Passed + 1 + i)
          BY <3>1, <4>1
        <5> QED
          BY <3>1, <4>3, <5>1 DEF IsAt
      <4>6. ASSUME producer'.pc = "push"
            PROVE  IsAt(producer.chunk, Passed + InHand + Len(ch) + 1)'
        <5>1. IsAt(producer.chunk, Passed + 1 + Len(ch) + 1)
          BY <3>1, <4>1, <4>6
        <5> QED
          BY <3>1, <4>3, <5>1 DEF IsAt
      <4> QED
        BY ONLY <4>2, <4>4, <4>5, <4>6
  <2>5. Stream!HandlerGivesVerdict'
    BY <1>6 DEF Stream!HandlerSend, Stream!Return, Stream!Leave, StreamTypes, VerdictIsLast, OneConsumer, Delivered, InOrder, PassedAt,
                 IsAt, Passed, InHand, Pushing, Ended, Stream!HandlerGivesVerdict
  <2>. QED
    BY <2>1, <2>2, <2>3, <2>4, <2>5
<1>7. CASE Stream!Emit
  <2>1. StreamTypes'
    <3>1. consumer.chunk \in Chunk /\ out \in Seq(Chunk) /\ got \in Seq(Chunk)
      BY <1>7 DEF Stream!Emit, StreamTypes
    <3>2. /\ Append(out, consumer.chunk) \in Seq(Chunk) /\ Len(out) \in Nat
          /\ Len(Append(out, consumer.chunk)) = Len(out) + 1
      BY ONLY <3>1, AppendAt
    <3>6. Len(out) \in Nat /\ Len(out) <= OutCap
      BY DEF StreamTypes
    <3>3. got' \in Seq(Chunk) /\ out' \in Seq(Chunk) /\ Len(out') <= OutCap
      <4>1. CASE Len(out) < OutCap
        <5>1. out' = Append(out, consumer.chunk) /\ got' = got
          BY <1>7, <4>1 DEF Stream!Emit
        <5>. QED
          BY <4>1, <5>1, <3>1, <3>2, <3>6
      <4>2. CASE ~ (Len(out) < OutCap)
        <5>1. out' = out /\ got' = got
          BY <1>7, <4>2 DEF Stream!Emit
        <5>. QED
          BY <5>1, <3>1, <3>6
      <4>. QED
        BY <4>1, <4>2
    <3>4. consumer' \in [pc : {"recv", "overflow", "returned", "left"}]
      BY <1>7 DEF Stream!Emit, Stream!Return
    <3>5. canceled' \in BOOLEAN
      BY <1>7, Zenon DEF Stream!Emit, Stream!Return, StreamTypes
    <3>. QED
      BY <1>7, <3>3, <3>4, <3>5 DEF Stream!Emit, StreamTypes
  <2>2. VerdictIsLast' /\ OneConsumer'
    BY <1>7 DEF Stream!Emit, StreamTypes, VerdictIsLast, OneConsumer, Stream!IsVerdict
  <2>3. Delivered'
    <3>1. consumer.pc = "pass" /\ consumer.chunk \in Chunk /\ out \in Seq(Chunk) /\ Len(out) \in Nat
      BY <1>7 DEF Stream!Emit, StreamTypes
    <3>2. UNCHANGED <<sent, upstream, got, mode>>
      BY <1>7 DEF Stream!Emit
    <3>3. \A x, k : IsAt(x, k)' <=> IsAt(x, k)
      BY <3>2 DEF IsAt
    <3>4. CASE Len(out) < OutCap
      <4>1. out' = Append(out, consumer.chunk) /\ consumer'.pc \in {"recv", "returned", "left"}
        BY <1>7, <3>4 DEF Stream!Emit, Stream!Return
      <4>2. /\ Len(out') = Len(out) + 1 /\ out'[Len(out) + 1] = consumer.chunk
            /\ \A i \in DOMAIN out' :
                  i \in 1 .. Len(out) + 1 /\ (i # Len(out) + 1 => i \in DOMAIN out /\ out'[i] = out[i])
        BY ONLY <3>1, <4>1, AppendAt
      <4>3. Passed' = Passed + 1 /\ IsAt(consumer.chunk, Passed + 1)
        BY <3>1, <3>2, <4>2 DEF Passed, InOrder, StreamTypes
      <4>4. Passed + 1 = Len(got) + (Len(out) + 1)
        BY <3>1 DEF Passed, StreamTypes
      <4>5. \A i \in DOMAIN out' : PassedAt(out[i], Len(got) + i)'
        <5> SUFFICES ASSUME NEW i \in DOMAIN out' PROVE PassedAt(out[i], Len(got) + i)'
          OBVIOUS
        <5>1. CASE i = Len(out) + 1
          BY <3>2, <3>3, <4>1, <4>2, <4>3, <4>4, <5>1 DEF PassedAt
        <5>2. CASE i # Len(out) + 1
          BY <3>1, <3>2, <3>3, <4>2, <5>2, NoVerdictYet DEF PassedAt
        <5>. QED
          BY <5>1, <5>2
      <4>6. \A i \in DOMAIN got' : PassedAt(got[i], i)'
        BY <3>1, <3>2, <3>3, <4>1, NoVerdictYet DEF PassedAt
      <4>. QED
        BY <4>5, <4>6 DEF Delivered
    <3>5. CASE ~ (Len(out) < OutCap)
      <4>1. UNCHANGED <<got, out>>
        BY <1>7, <3>5 DEF Stream!Emit
      <4>. QED
        BY <3>1, <3>3, <4>1, NoVerdictYet DEF Delivered, PassedAt
    <3>. QED
      BY <3>4, <3>5
  <2>4. InOrder'
    <3>1. /\ consumer.pc = "pass" /\ consumer.chunk \in Chunk /\ out \in Seq(Chunk)
          /\ UNCHANGED <<sent, upstream, producer, ch, got>>
      BY <1>7 DEF Stream!Emit, StreamTypes
    <3>2. consumer'.pc \in {"recv", "pass"} =>
            out' = Append(out, consumer.chunk) /\ consumer'.pc = "recv"
      BY <1>7 DEF Stream!Emit, Stream!Return
    <3>3. Len(Append(out, consumer.chunk)) = Len(out) + 1
      BY ONLY <3>1, AppendAt
    <3>7. Len(got) \in Nat /\ Len(out) \in Nat
      BY DEF StreamTypes
    <3>4. /\ Passed \in Nat /\ Len(ch) \in Nat /\ Pushing \in Nat /\ InHand = 1
          /\ UNCHANGED <<Pushing, Ended>> /\ \A x, k : IsAt(x, k)' <=> IsAt(x, k)
      BY <3>1 DEF Passed, InHand, Pushing, Ended, IsAt, StreamTypes
    <3>5. consumer'.pc \in {"recv", "pass"} => Passed' = Passed + 1 /\ InHand' = 0
      <4> SUFFICES ASSUME consumer'.pc \in {"recv", "pass"} PROVE Passed' = Passed + 1 /\ InHand' = 0
        OBVIOUS
      <4>1. Len(got') + Len(out') = Len(got) + Len(out) + 1
        BY ONLY <3>1, <3>2, <3>3, <3>7, consumer'.pc \in {"recv", "pass"}
      <4>. QED
        BY <3>2, <4>1 DEF Passed, InHand
    <3>6. \A i \in DOMAIN ch : Passed + 1 + 0 + i = Passed + 1 + i
      BY <3>4 DEF StreamTypes
    <3>. QED
      <4> SUFFICES ASSUME consumer'.pc \in {"recv", "pass"}
                   PROVE  /\ sent' + Ended' = Passed' + InHand' + Len(ch') + Pushing'
                          /\ consumer'.pc = "recv"
                          /\ \A i \in DOMAIN ch' : IsAt(ch[i], Passed + InHand + i)'
                          /\ producer'.pc = "push" =>
                               IsAt(producer.chunk, Passed + InHand + Len(ch) + 1)'
        BY DEF InOrder
      <4>1. /\ sent + Ended = Passed + 1 + Len(ch) + Pushing
            /\ \A i \in DOMAIN ch : IsAt(ch[i], Passed + 1 + i)
            /\ producer.pc = "push" => IsAt(producer.chunk, Passed + 1 + Len(ch) + 1)
        BY <3>1, <3>4 DEF InOrder
      <4>2. Passed' = Passed + 1 /\ InHand' = 0 /\ consumer'.pc = "recv"
        BY <3>2, <3>5
      <4>3. Passed' + InHand' = Passed + 1
        BY ONLY <3>4, <4>2
      <4>4. sent' + Ended' = Passed' + InHand' + Len(ch') + Pushing'
        BY ONLY <3>1, <3>4, <4>1, <4>3
      <4>5. ASSUME NEW i \in DOMAIN ch' PROVE IsAt(ch[i], Passed + InHand + i)'
        <5>1. IsAt(ch[i], Passed + 1 + i)
          BY <3>1, <4>1
        <5> QED
          BY <3>1, <4>3, <5>1 DEF IsAt
      <4>6. ASSUME producer'.pc = "push"
            PROVE  IsAt(producer.chunk, Passed + InHand + Len(ch) + 1)'
        <5>1. IsAt(producer.chunk, Passed + 1 + Len(ch) + 1)
          BY <3>1, <4>1, <4>6
        <5> QED
          BY <3>1, <4>3, <5>1 DEF IsAt
      <4> QED
        BY ONLY <4>2, <4>4, <4>5, <4>6
  <2>5. Stream!HandlerGivesVerdict'
    BY <1>7 DEF Stream!Emit, StreamTypes, VerdictIsLast, OneConsumer, Delivered, InOrder, PassedAt,
                 IsAt, Passed, InHand, Pushing, Ended, Stream!HandlerGivesVerdict
  <2>. QED
    BY <2>1, <2>2, <2>3, <2>4, <2>5
<1>8. CASE Stream!EmitOverflow
  <2>1. StreamTypes'
    BY <1>8 DEF Stream!EmitOverflow, StreamTypes
  <2>2. VerdictIsLast' /\ OneConsumer'
    BY <1>8 DEF Stream!EmitOverflow, Stream!Verdict, StreamTypes, VerdictIsLast, OneConsumer, Stream!IsVerdict
  <2>3. Delivered'
    <3>1. /\ consumer.pc = "overflow" /\ consumer'.pc = "left" /\ mode = "pipeline"
          /\ out \in Seq(Chunk) /\ Len(out) \in Nat /\ UNCHANGED <<sent, upstream, got, mode>>
      BY <1>8 DEF Stream!EmitOverflow, StreamTypes, OneConsumer
    <3>2. /\ \A x, k : IsAt(x, k)' <=> IsAt(x, k)
          /\ \A x, k : PassedAt(x, k) => PassedAt(x, k)'
      BY <3>1 DEF IsAt, PassedAt
    <3>3. CASE Len(out) < OutCap
      <4>1. out' = Append(out, Stream!Verdict("overflow")) /\ Stream!Verdict("overflow") \in Chunk
        BY <1>8, <3>3 DEF Stream!EmitOverflow
      <4>2. /\ Len(out') = Len(out) + 1 /\ out'[Len(out) + 1] = Stream!Verdict("overflow")
            /\ \A i \in DOMAIN out' :
                  i \in 1 .. Len(out) + 1 /\ (i # Len(out) + 1 => i \in DOMAIN out /\ out'[i] = out[i])
        BY ONLY <3>1, <4>1, AppendAt
      <4>3. PassedAt(Stream!Verdict("overflow"), Passed)'
        BY <3>1 DEF PassedAt, Stream!Verdict
      <4>4. Passed' = Len(got) + (Len(out) + 1)
        BY <3>1, <4>2 DEF Passed, StreamTypes
      <4>5. \A i \in DOMAIN out' : PassedAt(out[i], Len(got) + i)'
        BY <3>1, <3>2, <4>2, <4>3, <4>4 DEF Delivered
      <4>6. \A i \in DOMAIN got' : PassedAt(got[i], i)'
        BY <3>1, <3>2 DEF Delivered
      <4>. QED
        BY <4>5, <4>6 DEF Delivered
    <3>4. CASE ~ (Len(out) < OutCap)
      BY <1>8, <3>1, <3>2, <3>4 DEF Stream!EmitOverflow, Delivered
    <3>. QED
      BY <3>3, <3>4
  <2>4. InOrder'
    BY <1>8 DEF Stream!EmitOverflow, Stream!Verdict, StreamTypes, VerdictIsLast, OneConsumer, InOrder, IsAt, Passed,
                 InHand, Pushing, Ended, Stream!IsVerdict
  <2>5. Stream!HandlerGivesVerdict'
    BY <1>8 DEF Stream!EmitOverflow, Stream!Verdict, StreamTypes, VerdictIsLast, OneConsumer, Delivered, InOrder, PassedAt,
                 IsAt, Passed, InHand, Pushing, Ended, Stream!HandlerGivesVerdict
  <2>. QED
    BY <2>1, <2>2, <2>3, <2>4, <2>5
<1>9. CASE Stream!Drain
  <2>1. StreamTypes'
    BY <1>9 DEF Stream!Drain, StreamTypes
  <2>2. VerdictIsLast' /\ OneConsumer'
    BY <1>9 DEF Stream!Drain, StreamTypes, VerdictIsLast, OneConsumer, Stream!IsVerdict
  <2>3. Delivered'
    <3>1. /\ out # <<>> /\ out \in Seq(Chunk) /\ got \in Seq(Chunk) /\ Len(out) \in Nat
          /\ Len(got) \in Nat /\ out' = Tail(out) /\ got' = Append(got, Head(out))
          /\ UNCHANGED <<sent, upstream, consumer, mode>>
      BY <1>9 DEF Stream!Drain, StreamTypes
    <3>2. /\ Head(out) \in Chunk /\ Head(out) = out[1] /\ 1 \in DOMAIN out
          /\ Len(out') = Len(out) - 1
          /\ \A i \in DOMAIN out' : i \in Nat /\ i + 1 \in DOMAIN out /\ out'[i] = out[i + 1]
      BY ONLY <3>1, TailAt
    <3>3. /\ Len(got') = Len(got) + 1 /\ got'[Len(got) + 1] = out[1]
          /\ \A i \in DOMAIN got' :
                i \in 1 .. Len(got) + 1 /\ (i # Len(got) + 1 => i \in DOMAIN got /\ got'[i] = got[i])
      BY ONLY <3>1, <3>2, AppendAt
    <3>4. Passed' = Passed
      BY <3>1, <3>2, <3>3 DEF Passed
    <3>5. \A x, k : PassedAt(x, k)' <=> PassedAt(x, k)
      BY <3>1, <3>4 DEF PassedAt, IsAt
    <3>6. \A i \in Nat : Len(got) + (i + 1) = Len(got') + i
      BY <3>1, <3>3
    <3>7. \A i \in DOMAIN out' : PassedAt(out[i], Len(got) + i)'
      BY <3>2, <3>5, <3>6 DEF Delivered
    <3>8. \A i \in DOMAIN got' : PassedAt(got[i], i)'
      <4>1. PassedAt(out[1], Len(got) + 1)
        BY <3>2 DEF Delivered
      <4>2. \A i \in DOMAIN got : PassedAt(got[i], i)
        BY DEF Delivered
      <4>3. \A i \in DOMAIN got' : PassedAt(got'[i], i)
        BY ONLY <3>3, <4>1, <4>2
      <4>. QED
        BY ONLY <3>5, <4>3
    <3>. QED
      BY <3>7, <3>8 DEF Delivered
  <2>4. InOrder'
    <3>1. /\ UNCHANGED <<ch, consumer, producer, sent, upstream>>
          /\ out # <<>> /\ out \in Seq(Chunk) /\ got \in Seq(Chunk)
          /\ out' = Tail(out) /\ got' = Append(got, Head(out))
      BY <1>9 DEF Stream!Drain, StreamTypes
    <3>2. Passed' = Passed
      BY ONLY <3>1, TailAt, AppendAt DEF Passed
    <3>. QED
      BY <3>1, <3>2 DEF InOrder, IsAt, InHand, Pushing, Ended
  <2>5. Stream!HandlerGivesVerdict'
    BY <1>9 DEF Stream!Drain, StreamTypes, VerdictIsLast, OneConsumer, Delivered, InOrder, PassedAt,
                 IsAt, Passed, InHand, Pushing, Ended, Stream!HandlerGivesVerdict
  <2>. QED
    BY <2>1, <2>2, <2>3, <2>4, <2>5
<1>10. CASE Stream!ClientGone
  <2>1. StreamTypes'
    BY <1>10 DEF Stream!ClientGone, StreamTypes
  <2>2. VerdictIsLast' /\ OneConsumer'
    BY <1>10 DEF Stream!ClientGone, StreamTypes, VerdictIsLast, OneConsumer, Stream!IsVerdict
  <2>3. Delivered'
    BY <1>10 DEF Stream!ClientGone, StreamTypes, VerdictIsLast, OneConsumer, Delivered, InOrder, PassedAt,
                 IsAt, Passed, InHand, Pushing, Ended, Stream!IsVerdict
  <2>4. InOrder'
    BY <1>10, ZenonT(60) DEF Stream!ClientGone, StreamTypes, VerdictIsLast, OneConsumer, InOrder, IsAt, Passed,
                 InHand, Pushing, Ended, Stream!IsVerdict
  <2>5. Stream!HandlerGivesVerdict'
    BY <1>10 DEF Stream!ClientGone, StreamTypes, VerdictIsLast, OneConsumer, Delivered, InOrder, PassedAt,
                 IsAt, Passed, InHand, Pushing, Ended, Stream!HandlerGivesVerdict
  <2>. QED
    BY <2>1, <2>2, <2>3, <2>4, <2>5
<1>11. CASE Stream!CallerCancels
  <2>1. StreamTypes'
    BY <1>11 DEF Stream!CallerCancels, StreamTypes
  <2>2. VerdictIsLast' /\ OneConsumer'
    BY <1>11 DEF Stream!CallerCancels, StreamTypes, VerdictIsLast, OneConsumer, Stream!IsVerdict
  <2>3. Delivered'
    BY <1>11 DEF Stream!CallerCancels, StreamTypes, VerdictIsLast, OneConsumer, Delivered, InOrder, PassedAt,
                 IsAt, Passed, InHand, Pushing, Ended, Stream!IsVerdict
  <2>4. InOrder'
    BY <1>11 DEF Stream!CallerCancels, StreamTypes, VerdictIsLast, OneConsumer, InOrder, IsAt, Passed,
                 InHand, Pushing, Ended, Stream!IsVerdict
  <2>5. Stream!HandlerGivesVerdict'
    BY <1>11 DEF Stream!CallerCancels, StreamTypes, VerdictIsLast, OneConsumer, Delivered, InOrder, PassedAt,
                 IsAt, Passed, InHand, Pushing, Ended, Stream!HandlerGivesVerdict
  <2>. QED
    BY <2>1, <2>2, <2>3, <2>4, <2>5
<1>12. CASE UNCHANGED Stream!vars
  BY <1>12 DEF Stream!vars, StreamTypes, VerdictIsLast, OneConsumer, Delivered, InOrder,
               PassedAt, IsAt, Passed, InHand, Pushing, Ended, Stream!HandlerGivesVerdict
<1>. QED
  BY <1>1, <1>2, <1>3, <1>4, <1>5, <1>6, <1>7, <1>8, <1>9, <1>10, <1>11, <1>12
  DEF Stream!Next, Stream!Produce, Stream!Consume

\* The invariant says what the client is given.
LEMMA StreamInvGives == StreamInv => Stream!TypeOK /\ Stream!StreamIsFaithful
<1> SUFFICES ASSUME StreamInv PROVE Stream!TypeOK /\ Stream!StreamIsFaithful
  OBVIOUS
<1> USE DEF StreamInv, StreamTypes
<1>1. Stream!TypeOK
  BY ChunkFields DEF Stream!TypeOK
<1>2. Stream!ReaderSeesPrefix
  BY DEF Stream!ReaderSeesPrefix, Delivered, PassedAt, IsAt, Passed, Stream!IsVerdict
<1>3. Stream!DoneMeansAll
  BY DEF Stream!DoneMeansAll, Delivered, PassedAt, IsAt
<1>. QED
  BY <1>1, <1>2, <1>3 DEF Stream!StreamIsFaithful

\* What a client is given is a beginning of the upstream's text, with nothing
\* skipped, repeated or swapped over the two channels, and with a true verdict.
THEOREM StreamsAreFaithful == FairSpecAll => []StreamIsFaithful
<1>1. Stream!StreamIsFaithful => StreamIsFaithful
  BY DEF StreamIsFaithful
<1>. QED
  BY <1>1, StepsOfComponents, StreamInit, StreamNext, StreamInvGives, PTL
  DEF FairSpecAll, InitAll

-----------------------------------------------------------------------------
(***************************************************************************)
(* The approvals                                                           *)
(***************************************************************************)

RouterTypes ==
    /\ decision \in [Approvals -> Router!Statuses]
    /\ told \in Seq(Approvals)
    /\ human \in [Humans -> {"idle"} \cup Approvals]
    /\ DOMAIN wait = Waiters
    /\ said \in [Approvals -> {"none"} \cup Router!Decisions]

\* Only a pending request is decided, so that it is decided once at most.
Undecided == \A r \in Approvals : decision[r] \in {"none", "pending"} => said[r] = "none"

\* A decision is announced once, by the human who made it.
AnnouncedOnce ==
    /\ \A i, j \in DOMAIN told : told[i] = told[j] => i = j
    /\ \A i \in DOMAIN told : said[told[i]] # "none"
    /\ \A h \in Humans : human[h] # "idle" =>
          /\ said[human[h]] # "none"
          /\ \A i \in DOMAIN told : told[i] # human[h]
          /\ \A g \in Humans : human[g] = human[h] => g = h

RouterInv == RouterTypes /\ Undecided /\ AnnouncedOnce

\* The initial state satisfies the router's invariant.
LEMMA RouterInit == Router!Init => RouterInv
BY DEF Router!Init, RouterInv, RouterTypes, Undecided, AnnouncedOnce, Router!Statuses,
       Router!Decisions

\* Every step of the humans and of the waits preserves it.
LEMMA RouterNext == RouterInv /\ [Router!Next]_(Router!vars) => RouterInv'
<1> SUFFICES ASSUME RouterInv, [Router!Next]_(Router!vars) PROVE RouterInv'
  OBVIOUS
<1> USE WaitsAssumption
    DEF RouterInv, RouterTypes, Undecided, AnnouncedOnce, Router!Statuses, Router!Decisions
<1>1. ASSUME NEW r \in Approvals, Router!RequestApproval(r) PROVE RouterInv'
  BY <1>1 DEF Router!RequestApproval
<1>2. ASSUME NEW h \in Humans, NEW r \in Approvals, NEW d \in Router!Decisions,
             Router!Decide(h, r, d)
      PROVE  RouterInv'
  BY <1>2 DEF Router!Decide
<1>3. ASSUME NEW h \in Humans, Router!Announce(h) PROVE RouterInv'
  BY <1>3 DEF Router!Announce
<1>4. ASSUME NEW w \in Waiters, NEW r \in Approvals, Router!Start(w, r) PROVE RouterInv'
  BY <1>4 DEF Router!Start, Router!Goto
<1>5. ASSUME NEW w \in Waiters, Router!Elapse(w) PROVE RouterInv'
  BY <1>5 DEF Router!Elapse, Router!Goto
<1>6. ASSUME NEW w \in Waiters, Router!Look(w) PROVE RouterInv'
  BY <1>6 DEF Router!Look, Router!Goto, Router!Return
<1>7. ASSUME NEW w \in Waiters, Router!GiveUp(w) PROVE RouterInv'
  BY <1>7 DEF Router!GiveUp, Router!Goto, Router!Return
<1>8. ASSUME NEW w \in Waiters, Router!Await(w) PROVE RouterInv'
  BY <1>8 DEF Router!Await, Router!Goto
<1>9. ASSUME NEW w \in Waiters, Router!Receive(w) PROVE RouterInv'
  BY <1>9 DEF Router!Receive, Router!Goto
<1>10. ASSUME NEW w \in Waiters, Router!TimedOut(w) PROVE RouterInv'
  BY <1>10 DEF Router!TimedOut, Router!Goto, Router!Return
<1>11. CASE UNCHANGED Router!vars
  BY <1>11 DEF Router!vars
<1>. QED
  BY <1>1, <1>2, <1>3, <1>4, <1>5, <1>6, <1>7, <1>8, <1>9, <1>10, <1>11 DEF Router!Next

\* No more decisions are announced than there are requests.
LEMMA RouterInvTypes == RouterInv => Router!TypeOK
<1> SUFFICES ASSUME RouterInv PROVE Router!TypeOK
  OBVIOUS
<1>1. told \in Seq(Approvals) /\ DOMAIN told = 1 .. Len(told) /\ Len(told) \in Nat
  BY DEF RouterInv, RouterTypes
<1>2. told \in Injection(1 .. Len(told), Approvals)
  <2>1. told \in [1 .. Len(told) -> Approvals]
    BY <1>1
  <2>. QED
    BY <2>1 DEF RouterInv, AnnouncedOnce, Injection, IsInjective
<1>3. Cardinality(1 .. Len(told)) <= Cardinality(Approvals)
  BY <1>2, FS_Injection, WaitsAssumption
<1>4. Cardinality(1 .. Len(told)) = Len(told)
  BY <1>1, FS_Interval
<1>5. Len(told) <= Cardinality(Approvals)
  BY <1>3, <1>4
<1>. QED
  BY <1>5 DEF RouterInv, RouterTypes, Router!TypeOK, Router!Cardinality, Cardinality

-----------------------------------------------------------------------------
(***************************************************************************)
(* Every component                                                         *)
(***************************************************************************)

\* The fields of the breaker, the rows of the jobs, the shells and channels of the
\* pool, the chunks of a stream and the decisions of the router stay within
\* their types.
THEOREM AllTypesCorrect == FairSpecAll => []AllTypesOK
<1>1. TypeOK /\ Ledger!TypeOK /\ Pool!TypeOK /\ Stream!TypeOK /\ Router!TypeOK => AllTypesOK
  BY DEF AllTypesOK
<1>2. [NextAll]_allVars => [Next]_vars
  BY DEF NextAll, allVars, vars, inner, breakerVars
<1>. QED
  BY <1>1, <1>2, StepsOfComponents, BreakerTypeCorrect, LedgerTheorem, PoolTheorem,
     StreamInit, StreamNext, StreamInvGives, RouterInit, RouterNext, RouterInvTypes, PTL
  DEF FairSpecAll, InitAll, Spec, Ledger!Spec, Pool!Spec
=============================================================================
