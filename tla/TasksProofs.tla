---------------------------- MODULE TasksProofs -----------------------------
(***************************************************************************)
(* Proofs, for any number of connections, tasks, agents and keys, that the *)
(* te_events of the task engine implement an append-only log, and that the *)
(* races between its unguarded statements do no harm to claims, reviews,   *)
(* retries and checkpoints; that a replay of a task's event log from its   *)
(* newest checkpoint is exact; and that what WorktreesProofs proves of the *)
(* worktrees holds of them in MCTasks.                                     *)
(***************************************************************************)
EXTENDS MCTasks, FiniteSetTheorems, SequenceTheorems, WellFoundedInduction, TLAPS

\* What a request has in hand at each of its statements.
CallOK(q) ==
    /\ q.pc = "claim" => \E a \in Agents : \E s : q = [pc |-> "claim", a |-> a, cands |-> s]
    /\ q.pc = "write" => q.t \in Tasks /\ q.to \in Targets
    /\ q.pc = "number" => /\ q.t \in Tasks
                          /\ q.type \in {"transition", "note"}
                          /\ q.key \in Keys \cup {Null}
    /\ q.pc = "insert" => q.t \in Tasks /\ q.e \in Event
    /\ q.pc = "checkpoint" => q.t \in Tasks /\ q.last \in 0 .. MaxEvents - 1

CallsOK ==
    /\ call = [c \in Calls |-> call[c]]
    /\ \A c \in Calls : CallOK(call[c])

LogsOK ==
    /\ events \in [Tasks -> SUBSET Event]
    /\ checkpoints \in [Tasks -> SUBSET (0 .. MaxEvents - 1)]

\* The events of a task are numbered 0, 1, ..., n - 1, each number once.
NumberedUpTo(E, n) ==
    /\ IsFiniteSet(E) /\ Cardinality(E) = n
    /\ \A e \in E : e.seq \in 0 .. n - 1
    /\ \A i \in 0 .. n - 1 : \E e \in E : e.seq = i
    /\ \A e, f \in E : e.seq = f.seq => e = f

Numbered == \A t \in Tasks : \E n \in 0 .. MaxEvents : NumberedUpTo(events[t], n)

\* The number of an event about to be inserted was the next one when it was read:
\* by now it may be taken, but it leaves no gap.
NumbersRead ==
    \A c \in Calls : call[c].pc = "insert" =>
        call[c].e.seq <= Cardinality(events[call[c].t])

TypeInv == TypeOK /\ LogsOK /\ CallsOK /\ Numbered /\ NumbersRead

-----------------------------------------------------------------------------
(***************************************************************************)
(* The number of the last event                                            *)
(***************************************************************************)

\* MAX(event_seq) of a log numbered without a gap.
LEMMA MaxSeqOfNumbered ==
    ASSUME NEW t \in Tasks, NEW n \in Nat, NEW d,
           events[t] \in SUBSET Event, NumberedUpTo(events[t], n)
    PROVE  MaxSeq(t, d) = IF n = 0 THEN d ELSE n - 1
<1> DEFINE S == {e.seq : e \in events[t]}
           P(k) == \A e \in events[t] : e.seq <= k
<1>1. CASE n = 0
  <2>1. events[t] = {}
    BY <1>1 DEF NumberedUpTo
  <2>. QED
    BY <1>1, <2>1 DEF MaxSeq
<1>2. CASE n # 0
  <2>1. n - 1 \in S /\ P(n - 1)
    BY <1>2 DEF NumberedUpTo
  <2>2. events[t] # {}
    BY <2>1
  <2>3. \A k \in S : k \in Int
    BY DEF NumberedUpTo
  <2>4. \A k \in S : P(k) => k = n - 1
    <3>1. ASSUME NEW k \in S, P(k) PROVE k = n - 1
      <4>1. k <= n - 1 /\ n - 1 <= k
        BY <2>1, <3>1
      <4>2. k \in Int
        BY <2>3
      <4>. QED
        BY <4>1, <4>2
    <3>. QED
      BY <3>1
  <2>5. (CHOOSE k \in S : P(k)) = n - 1
    BY <2>1, <2>4
  <2>. QED
    BY <1>2, <2>2, <2>5 DEF MaxSeq
<1>. QED
  BY <1>1, <1>2

-----------------------------------------------------------------------------
(***************************************************************************)
(* Types and numbers                                                       *)
(***************************************************************************)

\* The next statement of a request keeps the requests well formed.
LEMMA GotoKeepsCalls ==
    ASSUME NEW c \in Calls, NEW q, CallsOK, CallOK(q), Goto(c, q)
    PROVE  CallsOK' /\ call'[c] = q /\ \A d \in Calls \ {c} : call'[d] = call[d]
BY DEF CallsOK, Goto

\* A request that ends, likewise.
LEMMA IdleOK == CallOK(Idle) /\ Idle.pc # "insert"
BY DEF CallOK, Idle

\* While the events stay as they are, so do their numbers, and those read earlier.
LEMMA KeepsNumbers ==
    ASSUME TypeInv, NEW c \in Calls, NEW q, CallOK(q), Goto(c, q), UNCHANGED events,
           q.pc = "insert" => q.e.seq <= Cardinality(events[q.t])
    PROVE  CallsOK' /\ Numbered' /\ NumbersRead'
<1>1. CallsOK' /\ call'[c] = q /\ \A d \in Calls \ {c} : call'[d] = call[d]
  BY GotoKeepsCalls DEF TypeInv
<1>2. Numbered'
  BY DEF TypeInv, Numbered
<1>3. NumbersRead'
  BY <1>1 DEF TypeInv, NumbersRead
<1>. QED
  BY <1>1, <1>2, <1>3

\* The empty tables are well typed.
LEMMA InitTypeInv == Init => TypeInv
<1> SUFFICES ASSUME Init PROVE TypeInv
  OBVIOUS
<1> USE EngineAssumption DEF Init
<1>1. TypeOK /\ LogsOK
  BY DEF TypeOK, LogsOK
<1>2. CallsOK
  BY IdleOK DEF CallsOK
<1>3. NumberedUpTo({}, 0)
  BY FS_EmptySet DEF NumberedUpTo
<1>4. Numbered
  BY <1>3 DEF Numbered
<1>5. NumbersRead
  BY IdleOK DEF NumbersRead
<1>. QED
  BY <1>1, <1>2, <1>4, <1>5 DEF TypeInv

\* A status written keeps the statuses and the gates passed well typed.
LEMMA WriteTypes ==
    ASSUME TypeOK, NEW T, NEW s \in TaskStatuses, Write(T, s)
    PROVE  /\ status' \in [Tasks -> TaskStatuses \cup {"absent"}]
           /\ passed' \in [Tasks -> SUBSET Gates]
BY DEF TypeOK, Write

\* Requests that begin: they read rows, and write none.
LEMMA BeginTypeInv ==
    ASSUME TypeInv, NEW c \in Calls, Begin(c)
    PROVE  TypeInv'
<1> USE EngineAssumption
<1>0. UNCHANGED <<rows, logs, passed>>
  BY DEF Begin, DeregisterMark, ClaimNextRead, ClaimStart, TransitionRead, EventLog,
         CheckpointRead
<1>1. TypeOK' /\ LogsOK'
  BY <1>0 DEF TypeInv, TypeOK, LogsOK, rows, logs
<1>2. SUFFICES \E q : CallOK(q) /\ q.pc # "insert" /\ Goto(c, q)
  BY <1>0, <1>1, KeepsNumbers DEF TypeInv, logs
<1>3. ASSUME NEW a \in Agents, DeregisterMark(c, a)
      PROVE  \E q : CallOK(q) /\ q.pc # "insert" /\ Goto(c, q)
  <2> WITNESS [pc |-> "release", a |-> a]
  <2>. QED
    BY <1>3 DEF DeregisterMark, CallOK
<1>4. ASSUME NEW a \in Agents, NEW s, Goto(c, [pc |-> "claim", a |-> a, cands |-> s])
      PROVE  \E q : CallOK(q) /\ q.pc # "insert" /\ Goto(c, q)
  <2> WITNESS [pc |-> "claim", a |-> a, cands |-> s]
  <2>. QED
    BY <1>4 DEF CallOK
<1>5. ASSUME NEW t \in Tasks, NEW s \in Targets, TransitionRead(c, t, s)
      PROVE  \E q : CallOK(q) /\ q.pc # "insert" /\ Goto(c, q)
  <2> WITNESS [pc |-> "write", t |-> t, to |-> s]
  <2>. QED
    BY <1>5 DEF TransitionRead, CallOK
<1>6. ASSUME NEW t \in Logged, NEW k \in Keys \cup {Null}, EventLog(c, t, k)
      PROVE  \E q : CallOK(q) /\ q.pc # "insert" /\ Goto(c, q)
  <2> WITNESS [pc |-> "number", t |-> t, type |-> "note", key |-> k]
  <2>. QED
    BY <1>6 DEF EventLog, CallOK
<1>7. ASSUME NEW t \in Logged, CheckpointRead(c, t)
      PROVE  \E q : CallOK(q) /\ q.pc # "insert" /\ Goto(c, q)
  <2>1. t \in Tasks
    OBVIOUS
  <2>2. PICK n \in 0 .. MaxEvents : NumberedUpTo(events[t], n)
    BY <2>1 DEF TypeInv, Numbered
  <2>3. MaxSeq(t, 0) = IF n = 0 THEN 0 ELSE n - 1
    BY <2>1, <2>2, MaxSeqOfNumbered DEF TypeInv, LogsOK
  <2>4. MaxSeq(t, 0) \in 0 .. MaxEvents - 1
    BY <2>3
  <2> WITNESS [pc |-> "checkpoint", t |-> t, last |-> MaxSeq(t, 0)]
  <2>. QED
    BY <1>7, <2>1, <2>4 DEF CheckpointRead, CallOK
<1>. QED
  BY <1>3, <1>4, <1>5, <1>6, <1>7 DEF Begin, ClaimNextRead, ClaimStart

\* An event whose number is free, and was the next one or an earlier one when it
\* was read, takes the next number.
LEMMA InsertTakesNext ==
    ASSUME NEW E, NEW n \in Nat, NumberedUpTo(E, n), NEW e, e.seq \in 0 .. n,
           ~ \E f \in E : f.seq = e.seq
    PROVE  e.seq = n /\ NumberedUpTo(E \cup {e}, n + 1)
<1>1. e.seq = n /\ e \notin E
  BY DEF NumberedUpTo
<1>2. IsFiniteSet(E \cup {e}) /\ Cardinality(E \cup {e}) = n + 1
  BY <1>1, FS_AddElement DEF NumberedUpTo
<1>3. \A f \in E \cup {e} : f.seq \in 0 .. n
  BY <1>1 DEF NumberedUpTo
<1>4. \A i \in 0 .. n : \E f \in E \cup {e} : f.seq = i
  BY <1>1 DEF NumberedUpTo
<1>5. \A f, g \in E \cup {e} : f.seq = g.seq => f = g
  BY DEF NumberedUpTo
<1>. QED
  BY <1>1, <1>2, <1>3, <1>4, <1>5 DEF NumberedUpTo

\* What INSERT OR IGNORE does to the events of the request's task: nothing, or it
\* adds the next event.
LEMMA InsertEffect ==
    ASSUME TypeInv, NEW c \in Calls, AppendInsert(c)
    PROVE  /\ Goto(c, Idle)
           /\ \/ UNCHANGED events
              \/ \E n \in 0 .. MaxEvents - 1 :
                    LET t == call[c].t
                        e == call[c].e
                    IN  /\ t \in Tasks /\ e \in Event /\ ~KeyTaken(e)
                        /\ e.seq = n
                        /\ NumberedUpTo(events[t], n)
                        /\ NumberedUpTo(events[t] \cup {e}, n + 1)
                        /\ events' = [events EXCEPT ![t] = @ \cup {e}]
<1> DEFINE t == call[c].t
           e == call[c].e
<1>0. Goto(c, Idle)
  BY DEF AppendInsert, Return
<1>1. t \in Tasks /\ e \in Event
  BY DEF AppendInsert, TypeInv, CallsOK, CallOK
<1>2. CASE NumberTaken(t, e) \/ KeyTaken(e)
  BY <1>0, <1>2 DEF AppendInsert
<1>3. CASE ~(NumberTaken(t, e) \/ KeyTaken(e))
  <2>1. events' = [events EXCEPT ![t] = @ \cup {e}]
    BY <1>3 DEF AppendInsert
  <2>2. PICK n \in 0 .. MaxEvents : NumberedUpTo(events[t], n)
    BY <1>1 DEF TypeInv, Numbered
  <2>3. e.seq \in 0 .. n
    BY <1>1, <2>2 DEF TypeInv, NumbersRead, AppendInsert, NumberedUpTo, Event
  <2>a. n \in Nat /\ ~ \E f \in events[t] : f.seq = e.seq
    BY <1>3, EngineAssumption DEF NumberTaken
  <2>4. e.seq = n /\ NumberedUpTo(events[t] \cup {e}, n + 1)
    BY <2>2, <2>3, <2>a, InsertTakesNext
  <2>5. n \in 0 .. MaxEvents - 1
    BY <1>1, <2>4, EngineAssumption DEF Event
  <2>. QED
    BY <1>0, <1>1, <1>3, <2>1, <2>2, <2>4, <2>5
<1>. QED
  BY <1>2, <1>3

\* The insert keeps the numbers without a gap, also for the events that other
\* requests have numbered and not yet inserted.
LEMMA InsertTypeInv ==
    ASSUME TypeInv, NEW c \in Calls, AppendInsert(c)
    PROVE  TypeInv'
<1> USE EngineAssumption
<1>1. UNCHANGED <<rows, checkpoints, passed>>
  BY DEF AppendInsert
<1>2. CASE UNCHANGED events
  <2>1. TypeOK' /\ LogsOK'
    BY <1>1, <1>2 DEF TypeInv, TypeOK, LogsOK, rows
  <2>2. CallsOK' /\ Numbered' /\ NumbersRead'
    BY <1>2, IdleOK, InsertEffect, KeepsNumbers
  <2>. QED
    BY <2>1, <2>2 DEF TypeInv
<1>3. CASE events' # events
  <2> DEFINE t == call[c].t
             e == call[c].e
  <2>1. PICK n \in 0 .. MaxEvents - 1 :
              /\ t \in Tasks /\ e \in Event /\ e.seq = n
              /\ NumberedUpTo(events[t], n)
              /\ NumberedUpTo(events[t] \cup {e}, n + 1)
              /\ events' = [events EXCEPT ![t] = @ \cup {e}]
    BY <1>3, InsertEffect
  <2>2. events' \in [Tasks -> SUBSET Event]
    BY <2>1 DEF TypeInv, LogsOK
  <2>3. TypeOK' /\ LogsOK'
    BY <1>1, <2>2 DEF TypeInv, TypeOK, LogsOK, rows
  <2>4. CallsOK' /\ call'[c] = Idle /\ \A d \in Calls \ {c} : call'[d] = call[d]
    BY IdleOK, InsertEffect, GotoKeepsCalls DEF TypeInv
  <2>5. Numbered'
    <3>1. \A u \in Tasks : events'[u] = IF u = t THEN events[t] \cup {e} ELSE events[u]
      BY <2>1 DEF TypeInv, LogsOK
    <3>2. n + 1 \in 0 .. MaxEvents
      OBVIOUS
    <3>. QED
      BY <2>1, <3>1, <3>2 DEF TypeInv, Numbered
  <2>6. NumbersRead'
    <3>1. SUFFICES ASSUME NEW d \in Calls, call'[d].pc = "insert"
                   PROVE  call'[d].e.seq <= Cardinality(events'[call'[d].t])
      BY DEF NumbersRead
    <3>2. d # c /\ call'[d] = call[d]
      BY <2>4, <3>1, IdleOK
    <3> DEFINE u == call[d].t
    <3>3. u \in Tasks /\ call[d].e.seq \in Int /\ call[d].e.seq <= Cardinality(events[u])
      BY <3>1, <3>2 DEF TypeInv, CallsOK, CallOK, NumbersRead, Event
    <3>4. CASE u = t
      <4>1. Cardinality(events[t]) = n /\ Cardinality(events'[t]) = n + 1
        BY <2>1, ZenonT(60) DEF NumberedUpTo, TypeInv, LogsOK
      <4>. QED
        BY <3>2, <3>3, <3>4, <4>1
    <3>5. CASE u # t
      BY <2>1, <3>2, <3>3, <3>5 DEF TypeInv, LogsOK
    <3>. QED
      BY <3>4, <3>5
  <2>. QED
    BY <2>3, <2>4, <2>5, <2>6 DEF TypeInv
<1>. QED
  BY <1>2, <1>3

\* The statements that follow a request's first one.
LEMMA ContinueTypeInv ==
    ASSUME TypeInv, NEW c \in Calls, Continue(c)
    PROVE  TypeInv'
<1> USE EngineAssumption
<1>1. CASE DeregisterRelease(c)
  <2>1. \E T : Write(T, "queued") /\ claimedBy' =
              [t \in Tasks |-> IF t \in T THEN Null ELSE claimedBy[t]]
    BY <1>1 DEF DeregisterRelease
  <2>2. TypeOK' /\ LogsOK'
    BY <1>1, <2>1, WriteTypes DEF DeregisterRelease, TypeInv, TypeOK, LogsOK, logs, TaskStatuses
  <2>. QED
    BY <1>1, <2>2, IdleOK, KeepsNumbers DEF DeregisterRelease, Return, TypeInv, logs
<1>2. CASE ClaimUpdate(c)
  <2>0. PICK a \in Agents : \E s : call[c] = [pc |-> "claim", a |-> a, cands |-> s]
    BY <1>2 DEF ClaimUpdate, TypeInv, CallsOK, CallOK
  <2>s. PICK s : call[c] = [pc |-> "claim", a |-> a, cands |-> s]
    BY <2>0
  <2>1. CASE Claimable(Head(call[c].cands))
    <3>1. Write({Head(s)}, "claimed") /\ claimedBy' = [claimedBy EXCEPT ![Head(s)] = a]
      BY <1>2, <2>s, <2>1 DEF ClaimUpdate
    <3>2. TypeOK' /\ LogsOK'
      BY <1>2, <3>1, WriteTypes DEF ClaimUpdate, TypeInv, TypeOK, LogsOK, logs, TaskStatuses
    <3>. QED
      BY <1>2, <2>1, <3>2, IdleOK, KeepsNumbers DEF ClaimUpdate, Return, TypeInv, logs
  <2>2. CASE ~Claimable(Head(call[c].cands))
    <3>1. UNCHANGED <<rows, logs, passed>>
      BY <1>2, <2>2 DEF ClaimUpdate, rows
    <3>2. TypeOK' /\ LogsOK'
      BY <3>1 DEF TypeInv, TypeOK, LogsOK, rows, logs
    <3> DEFINE q == [pc |-> "claim", a |-> a, cands |-> Tail(s)]
    <3>a. \A x : [call[c] EXCEPT !.cands = x] = [pc |-> "claim", a |-> a, cands |-> x]
      BY <2>s
    <3>b. call[c].cands = s
      BY <2>s
    <3>3. [call[c] EXCEPT !.cands = Tail(@)] = q
      BY <3>a, <3>b
    <3>4. Goto(c, q) /\ CallOK(q)
      BY <1>2, <2>2, <3>3 DEF ClaimUpdate, CallOK
    <3>. QED
      BY <3>1, <3>2, <3>4, KeepsNumbers DEF TypeInv, logs
  <2>. QED
    BY <2>1, <2>2
<1>3. CASE ClaimNone(c)
  <2>1. TypeOK' /\ LogsOK'
    BY <1>3 DEF ClaimNone, TypeInv, TypeOK, LogsOK, rows, logs
  <2>. QED
    BY <1>3, <2>1, IdleOK, KeepsNumbers DEF ClaimNone, Return, TypeInv, logs
<1>4. CASE TransitionWrite(c)
  <2> DEFINE q == [pc |-> "number", t |-> call[c].t, type |-> "transition", key |-> Null]
  <2>1. call[c].t \in Tasks /\ call[c].to \in TaskStatuses
    BY <1>4 DEF TransitionWrite, TypeInv, CallsOK, CallOK
  <2>2. TypeOK' /\ LogsOK'
    BY <1>4, <2>1, WriteTypes DEF TransitionWrite, TypeInv, TypeOK, LogsOK, logs
  <2>3. Goto(c, q) /\ CallOK(q)
    BY <1>4, <2>1 DEF TransitionWrite, CallOK
  <2>. QED
    BY <1>4, <2>2, <2>3, KeepsNumbers DEF TransitionWrite, TypeInv, logs
<1>5. CASE AppendNumber(c)
  <2> DEFINE t == call[c].t
             m == MaxSeq(t, -1) + 1
             q == [pc |-> "insert", t |-> t,
                   e |-> [seq |-> m, type |-> call[c].type, key |-> call[c].key]]
  <2>1. t \in Tasks /\ call[c].type \in {"transition", "note"}
          /\ call[c].key \in Keys \cup {Null}
    BY <1>5 DEF AppendNumber, TypeInv, CallsOK, CallOK
  <2>2. PICK n \in 0 .. MaxEvents : NumberedUpTo(events[t], n)
    BY <2>1 DEF TypeInv, Numbered
  <2>3. m = n
    BY <2>1, <2>2, MaxSeqOfNumbered DEF TypeInv, LogsOK
  <2>4. Goto(c, q) /\ CallOK(q)
    BY <1>5, <2>1, <2>3 DEF AppendNumber, CallOK, Event
  <2>5. q.e.seq <= Cardinality(events[q.t])
    BY <2>2, <2>3 DEF NumberedUpTo
  <2>6. TypeOK' /\ LogsOK'
    BY <1>5 DEF AppendNumber, TypeInv, TypeOK, LogsOK, rows, logs
  <2>. QED
    BY <1>5, <2>4, <2>5, <2>6, KeepsNumbers DEF AppendNumber, TypeInv, logs
<1>6. CASE AppendInsert(c)
  BY <1>6, InsertTypeInv
<1>7. CASE CheckpointWrite(c)
  <2>1. call[c].t \in Tasks /\ call[c].last \in 0 .. MaxEvents - 1
    BY <1>7 DEF CheckpointWrite, TypeInv, CallsOK, CallOK
  <2>2. checkpoints' \in [Tasks -> SUBSET (0 .. MaxEvents - 1)]
    BY <1>7, <2>1 DEF CheckpointWrite, TypeInv, LogsOK
  <2>3. TypeOK' /\ LogsOK'
    BY <1>7, <2>2 DEF CheckpointWrite, TypeInv, TypeOK, LogsOK, rows
  <2>. QED
    BY <1>7, <2>3, IdleOK, KeepsNumbers DEF CheckpointWrite, Return, TypeInv
<1>. QED
  BY <1>1, <1>2, <1>3, <1>4, <1>5, <1>6, <1>7 DEF Continue

\* Every step keeps the tables well typed and the events numbered.
LEMMA NextTypeInv == TypeInv /\ [Next]_vars => TypeInv'
<1> SUFFICES ASSUME TypeInv, [Next]_vars PROVE TypeInv'
  OBVIOUS
<1>1. ASSUME UNCHANGED <<logs, call>>, TypeOK' PROVE TypeInv'
  BY <1>1 DEF TypeInv, LogsOK, CallsOK, Numbered, NumbersRead, logs
<1>2. ASSUME NEW p \in Phases, CreatePhase(p) PROVE TypeInv'
  BY <1>1, <1>2 DEF CreatePhase, TypeInv, TypeOK, logs
<1>3. ASSUME NEW t \in Tasks, NEW p \in Phases, CreateTask(t, p) PROVE TypeInv'
  BY <1>1, <1>3, WriteTypes DEF CreateTask, TypeInv, TypeOK, logs, TaskStatuses
<1>4. ASSUME NEW a \in Agents, RegisterAgent(a) PROVE TypeInv'
  BY <1>1, <1>4 DEF RegisterAgent, TypeInv, TypeOK, logs
<1>5. ASSUME NEW c \in Calls, Begin(c) PROVE TypeInv'
  BY <1>5, BeginTypeInv
<1>6. ASSUME NEW c \in Calls, Continue(c) PROVE TypeInv'
  BY <1>6, ContinueTypeInv
<1>7. ASSUME NEW c \in Calls, Abort(c) PROVE TypeInv'
  <2>1. TypeOK' /\ LogsOK'
    BY <1>7 DEF Abort, TypeInv, TypeOK, LogsOK, rows, logs
  <2>. QED
    BY <1>7, <2>1, IdleOK, KeepsNumbers DEF Abort, Return, TypeInv, logs
<1>8. CASE UNCHANGED vars
  BY <1>1, <1>8 DEF vars, rows, logs, TypeInv, TypeOK
<1>. QED
  BY <1>2, <1>3, <1>4, <1>5, <1>6, <1>7, <1>8 DEF Next

\* Every reachable state satisfies the invariant above.
LEMMA AlwaysTypeInv == Spec => []TypeInv
BY InitTypeInv, NextTypeInv, PTL DEF Spec

(***************************************************************************)
(* Every reachable row satisfies the constraints of the te_* tables,       *)
(* whatever requests race.                                                 *)
(***************************************************************************)
THEOREM TypeCorrect == Spec => []TypeOK
<1>1. TypeInv => TypeOK
  BY DEF TypeInv
<1>. QED
  BY <1>1, AlwaysTypeInv, PTL

-----------------------------------------------------------------------------
(***************************************************************************)
(* Claims                                                                  *)
(***************************************************************************)

(***************************************************************************)
(* A claim is never taken over: whatever claims race, and whatever         *)
(* unguarded transitions put a claimed task back to queued meanwhile,      *)
(* claimed_by changes from one agent to another only through NULL.         *)
(***************************************************************************)
THEOREM ClaimsHeld == Spec => ClaimNeverStolen
<1>1. ASSUME TypeInv, [Next]_vars
      PROVE  [\A t \in Tasks : claimedBy[t] # Null => claimedBy'[t] \in {claimedBy[t], Null}]_vars
  <2>1. SUFFICES ASSUME NEW t \in Tasks, claimedBy[t] # Null
                 PROVE  claimedBy'[t] \in {claimedBy[t], Null}
    OBVIOUS
  <2>2. claimedBy \in [Tasks -> Agents \cup {Null}]
    BY <1>1 DEF TypeInv, TypeOK
  <2>3. CASE UNCHANGED claimedBy
    BY <2>3
  <2>4. ASSUME NEW c \in Calls, DeregisterRelease(c)
        PROVE  claimedBy'[t] \in {claimedBy[t], Null}
    BY <2>4 DEF DeregisterRelease
  <2>5. ASSUME NEW c \in Calls, ClaimUpdate(c)
        PROVE  claimedBy'[t] \in {claimedBy[t], Null}
    BY <2>1, <2>2, <2>5 DEF ClaimUpdate, Claimable
  <2>6. ASSUME NEW c \in Calls, Begin(c) PROVE UNCHANGED claimedBy
    BY <2>6 DEF Begin, DeregisterMark, ClaimNextRead, ClaimStart, TransitionRead, EventLog,
                CheckpointRead, rows
  <2>7. ASSUME NEW c \in Calls, ClaimNone(c) \/ TransitionWrite(c) \/ AppendNumber(c)
                 \/ AppendInsert(c) \/ CheckpointWrite(c) \/ Abort(c)
        PROVE  UNCHANGED claimedBy
    BY <2>7 DEF ClaimNone, TransitionWrite, AppendNumber, AppendInsert, CheckpointWrite,
                Abort, rows
  <2>8. ASSUME NEW p \in Phases,
               CreatePhase(p) \/ \E u \in Tasks : CreateTask(u, p)
        PROVE  UNCHANGED claimedBy
    BY <2>8 DEF CreatePhase, CreateTask
  <2>9. ASSUME NEW a \in Agents, RegisterAgent(a) PROVE UNCHANGED claimedBy
    BY <2>9 DEF RegisterAgent
  <2>10. CASE UNCHANGED vars
    BY <2>10 DEF vars, rows
  <2>. QED
    BY <1>1, <2>3, <2>4, <2>5, <2>6, <2>7, <2>8, <2>9, <2>10 DEF Next, Continue
<1>. QED
  BY <1>1, AlwaysTypeInv, PTL DEF Spec, ClaimNeverStolen

-----------------------------------------------------------------------------
(***************************************************************************)
(* Reviews                                                                 *)
(***************************************************************************)

\* The gates that a task in a status has been through.
Needs(s) ==
    IF s \in {"active", "paused", "blocked", "needs_review"} THEN {"active"}
    ELSE IF s \in {"in_review", "review_failed", "needs_qa"} THEN {"active", "in_review"}
    ELSE IF s \in {"in_qa", "qa_failed", "needs_secondary", "done"} THEN Gates
    ELSE {}

\* A task has been through the gates of its status, and also through those of a
\* status that some request is about to write, which it has validated against a row
\* that may be another by now.  What makes the stale check harmless is that
\* a gate passed stays passed.
GatesPassed ==
    /\ \A t \in Tasks : Needs(status[t]) \subseteq passed[t]
    /\ \A c \in Calls : call[c].pc = "write" =>
            Needs(call[c].to) \ {call[c].to} \subseteq passed[call[c].t]

\* A transition that valid_transition accepts leads through one gate at most.
LEMMA OneGateAtATime ==
    ASSUME NEW s, NEW u, ValidTransition(s, u)
    PROVE  Needs(u) \ {u} \subseteq Needs(s)
<1>1. CASE u \in {"canceled", "failed"}
  BY <1>1 DEF Needs
<1>2. CASE u \notin {"canceled", "failed"}
  BY <1>2 DEF ValidTransition, Needs, Gates
<1>. QED
  BY <1>1, <1>2

\* A status written when the gates of it, but itself, have been passed.
LEMMA WriteGates ==
    ASSUME TypeInv, GatesPassed, NEW T, NEW s, Write(T, s),
           \A t \in T \cap Tasks : Needs(s) \ {s} \subseteq passed[t]
    PROVE  /\ \A t \in Tasks : Needs(status'[t]) \subseteq passed'[t]
           /\ \A t \in Tasks : passed[t] \subseteq passed'[t]
<1>1. Needs(s) \cap {s} \subseteq Gates
  BY DEF Needs, Gates
<1>. QED
  BY <1>1 DEF GatesPassed, Write

\* Every step keeps to the gates.
LEMMA NextGates == TypeInv /\ GatesPassed /\ [Next]_vars => GatesPassed'
<1> SUFFICES ASSUME TypeInv, GatesPassed, [Next]_vars PROVE GatesPassed'
  OBVIOUS
<1>0. call = [c \in Calls |-> call[c]]
  BY DEF TypeInv, CallsOK
<1>1. ASSUME NEW c \in Calls, NEW q, q.pc # "write", Goto(c, q),
             \A t \in Tasks : Needs(status'[t]) \subseteq passed'[t],
             \A t \in Tasks : passed[t] \subseteq passed'[t]
      PROVE  GatesPassed'
  <2>1. ASSUME NEW d \in Calls, call'[d].pc = "write"
        PROVE  Needs(call'[d].to) \ {call'[d].to} \subseteq passed'[call'[d].t]
    <3>1. call'[d] = call[d]
      BY <1>0, <1>1, <2>1 DEF Goto
    <3>2. call[d].t \in Tasks
      BY <2>1, <3>1 DEF TypeInv, CallsOK, CallOK
    <3>. QED
      BY <1>1, <2>1, <3>1, <3>2 DEF GatesPassed
  <2>. QED
    BY <1>1, <2>1 DEF GatesPassed
<1>2. ASSUME NEW c \in Calls, NEW q, q.pc # "write", Goto(c, q), UNCHANGED <<status, passed>>
      PROVE  GatesPassed'
  BY <1>1, <1>2 DEF GatesPassed
<1>3. ASSUME UNCHANGED <<status, passed, call>> PROVE GatesPassed'
  BY <1>3 DEF GatesPassed
<1>4. ASSUME NEW c \in Calls, DeregisterRelease(c) PROVE GatesPassed'
  <2>1. PICK T : Write(T, "queued")
    BY <1>4 DEF DeregisterRelease
  <2>2. Needs("queued") = {}
    BY DEF Needs
  <2>. QED
    BY <1>1, <1>4, <2>1, <2>2, WriteGates DEF DeregisterRelease, Return, Idle
<1>5. ASSUME NEW c \in Calls, ClaimUpdate(c) PROVE GatesPassed'
  <2>1. Needs("claimed") = {}
    BY DEF Needs
  <2>2. CASE Claimable(Head(call[c].cands))
    <3>1. PICK T : Write(T, "claimed")
      BY <1>5, <2>2 DEF ClaimUpdate
    <3>. QED
      BY <1>1, <1>5, <2>1, <2>2, <3>1, WriteGates DEF ClaimUpdate, Return, Idle
  <2>3. CASE ~Claimable(Head(call[c].cands))
    <3>1. PICK a, s : call[c] = [pc |-> "claim", a |-> a, cands |-> s]
      BY <1>5 DEF ClaimUpdate, TypeInv, CallsOK, CallOK
    <3>2. \A x : [call[c] EXCEPT !.cands = x].pc = "claim"
      BY <3>1
    <3>. QED
      BY <1>2, <1>5, <2>3, <3>2 DEF ClaimUpdate
  <2>. QED
    BY <2>2, <2>3
<1>6. ASSUME NEW c \in Calls, TransitionWrite(c) PROVE GatesPassed'
  <2>1. Needs(call[c].to) \ {call[c].to} \subseteq passed[call[c].t]
    BY <1>6 DEF TransitionWrite, GatesPassed
  <2>2. Write({call[c].t}, call[c].to)
    BY <1>6 DEF TransitionWrite
  <2>3. /\ \A t \in Tasks : Needs(status'[t]) \subseteq passed'[t]
        /\ \A t \in Tasks : passed[t] \subseteq passed'[t]
    BY <2>1, <2>2, WriteGates
  <2>. QED
    BY <1>1, <1>6, <2>3 DEF TransitionWrite
<1>7. ASSUME NEW c \in Calls, NEW t \in Tasks, NEW s \in Targets, TransitionRead(c, t, s)
      PROVE  GatesPassed'
  <2>1. Needs(s) \ {s} \subseteq passed[t]
    BY <1>7, OneGateAtATime DEF TransitionRead, GatesPassed
  <2>2. \A d \in Calls : call'[d] = IF d = c THEN [pc |-> "write", t |-> t, to |-> s] ELSE call[d]
    BY <1>0, <1>7 DEF TransitionRead, Goto
  <2>3. UNCHANGED <<status, passed>>
    BY <1>7 DEF TransitionRead, rows
  <2>. QED
    BY <2>1, <2>2, <2>3 DEF GatesPassed
<1>8. ASSUME NEW c \in Calls, NEW a \in Agents,
             DeregisterMark(c, a) \/ ClaimNextRead(c, a) \/ \E t \in Tasks : ClaimStart(c, a, t)
      PROVE  GatesPassed'
  BY <1>2, <1>8 DEF DeregisterMark, ClaimNextRead, ClaimStart, rows
<1>9. ASSUME NEW c \in Calls, NEW t \in Logged,
             CheckpointRead(c, t) \/ \E k \in Keys \cup {Null} : EventLog(c, t, k)
      PROVE  GatesPassed'
  BY <1>2, <1>9 DEF CheckpointRead, EventLog, rows
<1>10. ASSUME NEW c \in Calls, ClaimNone(c) \/ AppendNumber(c) \/ AppendInsert(c)
                \/ CheckpointWrite(c) \/ Abort(c)
       PROVE  GatesPassed'
  BY <1>2, <1>10 DEF ClaimNone, AppendNumber, AppendInsert, CheckpointWrite, Abort, rows,
                     Return, Idle
<1>11. ASSUME NEW t \in Tasks, NEW p \in Phases, CreateTask(t, p) PROVE GatesPassed'
  <2>1. Needs("planned") = {}
    BY DEF Needs
  <2>2. /\ \A u \in Tasks : Needs(status'[u]) \subseteq passed'[u]
        /\ \A u \in Tasks : passed[u] \subseteq passed'[u]
        /\ call' = call
    BY <1>11, <2>1, WriteGates DEF CreateTask
  <2>3. \A c \in Calls : call[c].pc = "write" => call[c].t \in Tasks
    BY DEF TypeInv, CallsOK, CallOK
  <2>. QED
    BY <2>2, <2>3 DEF GatesPassed
<1>12. ASSUME NEW p \in Phases, CreatePhase(p) PROVE GatesPassed'
  BY <1>3, <1>12 DEF CreatePhase
<1>13. ASSUME NEW a \in Agents, RegisterAgent(a) PROVE GatesPassed'
  BY <1>3, <1>13 DEF RegisterAgent
<1>14. CASE UNCHANGED vars
  BY <1>3, <1>14 DEF vars, rows
<1>. QED
  BY <1>4, <1>5, <1>6, <1>7, <1>8, <1>9, <1>10, <1>11, <1>12, <1>13, <1>14
  DEF Next, Begin, Continue

(***************************************************************************)
(* A task that is done has been worked on, reviewed and tested, although   *)
(* te.task.transition validates against one read of the row and writes     *)
(* with another statement that has no guard.                               *)
(***************************************************************************)
THEOREM DoneReviewed == Spec => []DoneWasReviewed
<1>1. Init => GatesPassed
  BY DEF Init, GatesPassed, Needs, Idle
<1>2. TypeInv /\ GatesPassed => DoneWasReviewed
  BY DEF TypeInv, TypeOK, GatesPassed, DoneWasReviewed, Needs
<1>. QED
  BY <1>1, <1>2, AlwaysTypeInv, NextGates, PTL DEF Spec

-----------------------------------------------------------------------------
(***************************************************************************)
(* Retries and checkpoints                                                 *)
(***************************************************************************)

\* Only the insert changes the events.
LEMMA EventsChange ==
    ASSUME [Next]_vars
    PROVE  UNCHANGED events \/ \E c \in Calls : AppendInsert(c)
BY DEF Next, vars, rows, logs, CreatePhase, CreateTask, RegisterAgent, Begin, DeregisterMark,
       ClaimNextRead, ClaimStart, TransitionRead, EventLog, CheckpointRead, Continue,
       DeregisterRelease, ClaimUpdate, ClaimNone, TransitionWrite, AppendNumber,
       CheckpointWrite, Abort

\* The events of a task only grow.
LEMMA EventsGrow ==
    ASSUME TypeInv, [Next]_vars, NEW t \in Tasks
    PROVE  events[t] \subseteq events'[t]
<1>1. ASSUME NEW c \in Calls, AppendInsert(c) PROVE events[t] \subseteq events'[t]
  BY <1>1 DEF AppendInsert, TypeInv, LogsOK
<1>. QED
  BY <1>1, EventsChange

\* A key that some event has is refused to every other.
LEMMA NextKeyed == TypeInv /\ KeyedEventOnce /\ [Next]_vars => KeyedEventOnce'
<1> SUFFICES ASSUME TypeInv, KeyedEventOnce, [Next]_vars PROVE KeyedEventOnce'
  OBVIOUS
<1>1. CASE UNCHANGED events
  BY <1>1 DEF KeyedEventOnce
<1>2. ASSUME NEW c \in Calls, AppendInsert(c), events' # events PROVE KeyedEventOnce'
  <2> DEFINE t == call[c].t
             e == call[c].e
  <2>1. t \in Tasks /\ ~KeyTaken(e) /\ events' = [events EXCEPT ![t] = @ \cup {e}]
    BY <1>2, InsertEffect
  <2>2. \A u \in Tasks : events'[u] = IF u = t THEN events[u] \cup {e} ELSE events[u]
    BY <2>1 DEF TypeInv, LogsOK
  <2>. QED
    BY <2>1, <2>2 DEF KeyedEventOnce, KeyTaken
<1>. QED
  BY <1>1, <1>2, EventsChange

\* What a checkpoint refers to, written or about to be, is in the log.
CheckpointsRead ==
    \A c \in Calls : call[c].pc = "checkpoint" =>
        (call[c].last > 0 => \E e \in events[call[c].t] : e.seq = call[c].last)

\* Only its write adds a checkpoint, and only its read begins one.
LEMMA CheckpointsChange ==
    ASSUME TypeInv, [Next]_vars
    PROVE  /\ \/ UNCHANGED checkpoints
              \/ \E c \in Calls : CheckpointWrite(c)
           /\ \A c \in Calls :
                  \/ call'[c].pc # "checkpoint"
                  \/ call'[c] = call[c]
                  \/ \E t \in Logged : CheckpointRead(c, t)
<1>1. call = [c \in Calls |-> call[c]]
  BY DEF TypeInv, CallsOK
<1>2. \/ UNCHANGED checkpoints
      \/ \E c \in Calls : CheckpointWrite(c)
  BY DEF Next, vars, rows, logs, CreatePhase, CreateTask, RegisterAgent, Begin, DeregisterMark,
         ClaimNextRead, ClaimStart, TransitionRead, EventLog, CheckpointRead, Continue,
         DeregisterRelease, ClaimUpdate, ClaimNone, TransitionWrite, AppendNumber, AppendInsert,
         Abort
<1>3. ASSUME NEW c \in Calls PROVE
          \/ call'[c].pc # "checkpoint"
          \/ call'[c] = call[c]
          \/ \E t \in Logged : CheckpointRead(c, t)
  <2>1. ASSUME NEW d \in Calls, NEW q, Goto(d, q), q.pc # "checkpoint"
        PROVE  call'[c].pc # "checkpoint" \/ call'[c] = call[c]
    BY <1>1, <2>1 DEF Goto
  <2>2. ASSUME UNCHANGED call PROVE call'[c] = call[c]
    BY <2>2
  <2>3. ASSUME NEW d \in Calls, ClaimUpdate(d)
        PROVE  call'[c].pc # "checkpoint" \/ call'[c] = call[c]
    <3>1. PICK a, s : call[d] = [pc |-> "claim", a |-> a, cands |-> s]
      BY <2>3 DEF ClaimUpdate, TypeInv, CallsOK, CallOK
    <3>2. \A x : [call[d] EXCEPT !.cands = x].pc = "claim"
      BY <3>1
    <3>. QED
      BY <2>1, <2>3, <3>2 DEF ClaimUpdate, Return, Idle
  <2>4. ASSUME NEW d \in Calls, NEW t \in Logged, CheckpointRead(d, t), d # c
        PROVE  call'[c] = call[c]
    BY <1>1, <2>4 DEF CheckpointRead, Goto
  <2>5. ASSUME NEW d \in Calls,
               DeregisterRelease(d) \/ ClaimNone(d) \/ TransitionWrite(d) \/ AppendNumber(d)
                 \/ AppendInsert(d) \/ CheckpointWrite(d) \/ Abort(d)
        PROVE  call'[c].pc # "checkpoint" \/ call'[c] = call[c]
    BY <2>1, <2>5 DEF DeregisterRelease, ClaimNone, TransitionWrite, AppendNumber, AppendInsert,
                      CheckpointWrite, Abort, Return, Idle
  <2>6. ASSUME NEW d \in Calls, NEW a \in Agents,
               DeregisterMark(d, a) \/ ClaimNextRead(d, a) \/ \E t \in Tasks : ClaimStart(d, a, t)
        PROVE  call'[c].pc # "checkpoint" \/ call'[c] = call[c]
    BY <2>1, <2>6 DEF DeregisterMark, ClaimNextRead, ClaimStart
  <2>7. ASSUME NEW d \in Calls,
               \/ \E t \in Tasks, s \in Targets : TransitionRead(d, t, s)
               \/ \E t \in Logged, k \in Keys \cup {Null} : EventLog(d, t, k)
        PROVE  call'[c].pc # "checkpoint" \/ call'[c] = call[c]
    BY <2>1, <2>7 DEF TransitionRead, EventLog
  <2>. QED
    BY <2>2, <2>3, <2>4, <2>5, <2>6, <2>7
    DEF Next, Begin, Continue, CreatePhase, CreateTask, RegisterAgent, vars
<1>. QED
  BY <1>2, <1>3

\* Every step keeps checkpoints within the log.
LEMMA NextCheckpoints ==
    TypeInv /\ CheckpointsRead /\ CheckpointInLog /\ [Next]_vars
      => CheckpointsRead' /\ CheckpointInLog'
<1> SUFFICES ASSUME TypeInv, CheckpointsRead, CheckpointInLog, [Next]_vars
             PROVE  CheckpointsRead' /\ CheckpointInLog'
  OBVIOUS
<1> USE EngineAssumption
<1>1. CheckpointsRead'
  <2>1. SUFFICES ASSUME NEW c \in Calls, call'[c].pc = "checkpoint", call'[c].last > 0
                 PROVE  \E e \in events'[call'[c].t] : e.seq = call'[c].last
    BY DEF CheckpointsRead
  <2>2. CASE call'[c] = call[c]
    <3>1. call[c].t \in Tasks
      BY <2>1, <2>2 DEF TypeInv, CallsOK, CallOK
    <3>. QED
      BY <2>1, <2>2, <3>1, EventsGrow DEF CheckpointsRead
  <2>3. ASSUME NEW t \in Logged, CheckpointRead(c, t)
        PROVE  \E e \in events'[call'[c].t] : e.seq = call'[c].last
    <3>1. t \in Tasks /\ UNCHANGED events
      BY <2>3 DEF CheckpointRead, logs
    <3>2. call'[c].t = t /\ call'[c].last = MaxSeq(t, 0)
      BY <2>3 DEF CheckpointRead, Goto, TypeInv, CallsOK
    <3>3. PICK n \in 0 .. MaxEvents : NumberedUpTo(events[t], n)
      BY <3>1 DEF TypeInv, Numbered
    <3>4. MaxSeq(t, 0) = IF n = 0 THEN 0 ELSE n - 1
      BY <3>1, <3>3, MaxSeqOfNumbered DEF TypeInv, LogsOK
    <3>5. n # 0 /\ call'[c].last = n - 1
      BY <2>1, <3>2, <3>4
    <3>6. n - 1 \in 0 .. n - 1
      BY <3>5
    <3>7. \E e \in events[t] : e.seq = n - 1
      BY <3>3, <3>6 DEF NumberedUpTo
    <3>. QED
      BY <3>1, <3>2, <3>5, <3>7
  <2>. QED
    BY <2>1, <2>2, <2>3, CheckpointsChange
<1>2. CheckpointInLog'
  <2>1. CASE UNCHANGED checkpoints
    BY <2>1, EventsGrow DEF CheckpointInLog
  <2>2. ASSUME NEW c \in Calls, CheckpointWrite(c) PROVE CheckpointInLog'
    <3>1. call[c].t \in Tasks /\ UNCHANGED events
      BY <2>2 DEF CheckpointWrite, TypeInv, CallsOK, CallOK
    <3>2. \A t \in Tasks : checkpoints'[t] =
              IF t = call[c].t THEN checkpoints[t] \cup {call[c].last} ELSE checkpoints[t]
      BY <2>2, <3>1 DEF CheckpointWrite, TypeInv, LogsOK
    <3>3. call[c].last > 0 => \E e \in events[call[c].t] : e.seq = call[c].last
      BY <2>2 DEF CheckpointWrite, CheckpointsRead
    <3>4. ASSUME NEW t \in Tasks, NEW n \in checkpoints'[t], n > 0
          PROVE  \E e \in events[t] : e.seq = n
      <4>1. CASE n \in checkpoints[t]
        BY <3>4, <4>1 DEF CheckpointInLog
      <4>2. CASE n \notin checkpoints[t]
        BY <3>2, <3>3, <3>4, <4>2
      <4>. QED
        BY <4>1, <4>2
    <3>. QED
      BY <3>1, <3>4 DEF CheckpointInLog
  <2>. QED
    BY <2>1, <2>2, CheckpointsChange
<1>. QED
  BY <1>1, <1>2

(***************************************************************************)
(* A request repeated with its idempotency key leaves one event, on        *)
(* whatever connection and for whatever task it is repeated, and a         *)
(* checkpoint never refers to an event that is still to come.              *)
(***************************************************************************)
THEOREM RetryAndResume == Spec => []RetryAndResumeSafe
<1>1. Init => KeyedEventOnce /\ CheckpointsRead /\ CheckpointInLog
  BY DEF Init, KeyedEventOnce, CheckpointsRead, CheckpointInLog, Idle
<1>2. KeyedEventOnce /\ CheckpointInLog => RetryAndResumeSafe
  BY DEF RetryAndResumeSafe
<1>. QED
  BY <1>1, <1>2, AlwaysTypeInv, NextKeyed, NextCheckpoints, PTL DEF Spec

-----------------------------------------------------------------------------
(***************************************************************************)
(* te_events implements an append-only log                                 *)
(***************************************************************************)

\* The log of a task is a sequence of single events.
LEMMA LogIsSequence ==
    ASSUME NEW t \in Tasks, NEW n \in Nat, events[t] \in SUBSET Event,
           NumberedUpTo(events[t], n)
    PROVE  LogOf(t) \in Seq(SUBSET Event) /\ Len(LogOf(t)) = n
<1>1. LogOf(t) = [i \in 1 .. n |-> {e \in events[t] : e.seq = i - 1}]
  BY DEF LogOf, NumberedUpTo
<1>. QED
  BY <1>1

\* An insert appends one event to the log of its task.
LEMMA InsertAppends ==
    ASSUME TypeInv, NEW c \in Calls, AppendInsert(c)
    PROVE  Audit!Next \/ UNCHANGED [t \in Tasks |-> LogOf(t)]
<1>1. CASE UNCHANGED events
  BY <1>1 DEF LogOf
<1>2. CASE events' # events
  <2>1. PICK n \in 0 .. MaxEvents - 1, t \in Tasks, e \in Event :
              /\ e.seq = n
              /\ NumberedUpTo(events[t], n)
              /\ NumberedUpTo(events[t] \cup {e}, n + 1)
              /\ events' = [events EXCEPT ![t] = @ \cup {e}]
    BY <1>2, InsertEffect
  <2>2. n \in Nat
    BY EngineAssumption
  <2>3. LogOf(t) \in Seq(SUBSET Event) /\ Len(LogOf(t)) = n
    BY <2>1, <2>2, LogIsSequence DEF TypeInv, LogsOK
  <2>4. events'[t] = events[t] \cup {e}
    BY <2>1 DEF TypeInv, LogsOK
  <2>5. LogOf(t)' = [i \in 1 .. n + 1 |-> {f \in events[t] \cup {e} : f.seq = i - 1}]
    <3>1. Cardinality(events'[t]) = n + 1
      BY <2>1, <2>4 DEF NumberedUpTo
    <3>2. LogOf(t)' = [i \in 1 .. Cardinality(events'[t]) |-> {f \in events'[t] : f.seq = i - 1}]
      BY DEF LogOf
    <3>. QED
      BY <2>4, <3>1, <3>2
  <2>6. \A i \in 1 .. n : {f \in events[t] \cup {e} : f.seq = i - 1} = LogOf(t)[i]
    BY <2>1, <2>2 DEF LogOf, NumberedUpTo
  <2>7. {f \in events[t] \cup {e} : f.seq = (n + 1) - 1} = {e}
    BY <2>1, <2>2 DEF NumberedUpTo
  <2>8. LogOf(t)' = Append(LogOf(t), {e})
    <3> DEFINE new == Append(LogOf(t), {e})
    <3>1. new \in Seq(SUBSET Event) /\ Len(new) = n + 1
          /\ (\A i \in 1 .. n : new[i] = LogOf(t)[i]) /\ new[n + 1] = {e}
      <4>1. {e} \in SUBSET Event
        BY <2>1
      <4>. QED
        BY <2>3, <4>1, AppendProperties
    <3>2. LogOf(t)' \in Seq(SUBSET Event) /\ Len(LogOf(t)') = n + 1
      <4>1. \A i \in 1 .. n + 1 : {f \in events[t] \cup {e} : f.seq = i - 1} \in SUBSET Event
        BY <2>1 DEF TypeInv, LogsOK
      <4>. QED
        BY <2>2, <2>5, <4>1
    <3> HIDE DEF new
    <3>3. \A i \in 1 .. n + 1 : LogOf(t)'[i] = new[i]
      <4> DEFINE at(i) == {f \in events[t] \cup {e} : f.seq = i - 1}
      <4>1. /\ LogOf(t)' = [i \in 1 .. n + 1 |-> at(i)]
            /\ \A i \in 1 .. n : at(i) = new[i]
            /\ at(n + 1) = new[n + 1]
        BY <2>5, <2>6, <2>7, <3>1
      <4> HIDE DEF at
      <4>2. \A i \in 1 .. n + 1 : i \in 1 .. n \/ i = n + 1
        BY <2>2
      <4>. QED
        BY <4>1, <4>2
    <3>. QED
      BY <3>1, <3>2, <3>3, SeqEqual DEF new
  <2>9. \A u \in Tasks : u # t => LogOf(u)' = LogOf(u)
    BY <2>1 DEF LogOf, TypeInv, LogsOK
  <2>10. [u \in Tasks |-> LogOf(u)]' = [[u \in Tasks |-> LogOf(u)] EXCEPT ![t] = Append(@, {e})]
    BY <2>1, <2>8, <2>9
  <2>. QED
    BY <2>1, <2>10 DEF Audit!Next, Audit!AppendEntry
<1>. QED
  BY <1>1, <1>2

(***************************************************************************)
(* Every behaviour of the task engine is, for the readers of te_events, a  *)
(* behaviour of AppendLog: the events of a task are numbered without a gap *)
(* and none is ever replaced, although each is numbered in one statement   *)
(* and inserted in another, with nothing held in between.                  *)
(***************************************************************************)
THEOREM AuditLogImplemented == Spec => AuditLogIsAppendOnly
<1>1. Init => Audit!Init
  <2>1. ASSUME Init, NEW t \in Tasks PROVE LogOf(t) = <<>>
    <3>1. Cardinality(events[t]) = 0
      BY <2>1, FS_EmptySet DEF Init
    <3>. QED
      BY <3>1 DEF LogOf
  <2>. QED
    BY <2>1 DEF Audit!Init
<1>2. TypeInv /\ [Next]_vars => [Audit!Next]_([t \in Tasks |-> LogOf(t)])
  <2>1. ASSUME TypeInv, UNCHANGED events PROVE UNCHANGED [t \in Tasks |-> LogOf(t)]
    BY <2>1 DEF LogOf
  <2>. QED
    BY <2>1, EventsChange, InsertAppends
<1>. QED
  BY <1>1, <1>2, AlwaysTypeInv, PTL DEF Spec, AuditLogIsAppendOnly, Audit!Spec

-----------------------------------------------------------------------------
(***************************************************************************)
(* The event log of a task (event_log.rs, checkpoint.rs, replay.rs).       *)
(* First least members and induction: the library states induction for an  *)
(* operator, which the provers cannot instantiate, and the minimal member  *)
(* of a set, which they can.                                               *)
(***************************************************************************)

\* A set of naturals has a least member.
LEMMA LeastOf ==
    ASSUME NEW T, T \subseteq Nat, T # {}
    PROVE  \E x \in T : \A y \in T : x <= y
<1>1. PICK x \in T : \A y \in T : ~ (<<y, x>> \in OpToRel(<, Nat))
  BY WFMin, NatLessThanWellFounded
<1>2. ASSUME NEW y \in T PROVE x <= y
  <2>1. <<y, x>> \in Nat \X Nat /\ x \in Nat /\ y \in Nat
    OBVIOUS
  <2>2. ~ (y < x)
    BY <1>1, <2>1 DEF OpToRel
  <2>. QED
    BY <2>1, <2>2
<1>. QED
  BY <1>2

\* Induction over the naturals, for a set.
LEMMA InductionOn ==
    ASSUME NEW T, 0 \in T, \A n \in Nat : n \in T => n + 1 \in T
    PROVE  Nat \subseteq T
<1>. SUFFICES ASSUME Nat \ T # {} PROVE FALSE
  OBVIOUS
<1>1. PICK x \in Nat \ T : \A y \in Nat \ T : x <= y
  BY LeastOf
<1>2. x # 0 /\ x - 1 \in Nat /\ ~ (x <= x - 1)
  BY <1>1
<1>. QED
  BY <1>1, <1>2

\* Induction over sequences, for a set.
LEMMA SeqInductionOn ==
    ASSUME NEW S, NEW T, <<>> \in T,
           \A s \in Seq(S), e \in S : s \in T => Append(s, e) \in T
    PROVE  Seq(S) \subseteq T
<1>. DEFINE D == {n \in Nat : \A s \in Seq(S) : Len(s) = n => s \in T}
<1>1. 0 \in D
  BY EmptySeq
<1>2. ASSUME NEW n \in Nat, n \in D PROVE n + 1 \in D
  <2>. SUFFICES ASSUME NEW s \in Seq(S), Len(s) = n + 1 PROVE s \in T
    OBVIOUS
  <2>1. PICK r \in Seq(S), e \in S : s = Append(r, e)
    BY SequenceEmptyOrAppend
  <2>2. Len(r) = n
    BY <2>1, AppendProperties
  <2>. QED
    BY <1>2, <2>1, <2>2
<1>3. \A n \in Nat : n \in D => n + 1 \in D
  BY <1>2
<1>. HIDE DEF D
<1>4. Nat \subseteq D
  BY <1>1, <1>3, InductionOn
<1>. QED
  BY <1>4 DEF D

\* The greatest member of a bounded set of naturals.
LEMMA MaxOf ==
    ASSUME NEW n \in Nat, NEW T, T \subseteq 0 .. n, T # {}
    PROVE  Events!Max(T) \in T /\ \A y \in T : y <= Events!Max(T)
<1>. DEFINE D == {n - y : y \in T}
<1>1. D \subseteq Nat /\ D # {}
  <2>1. \A y \in T : n - y \in Nat
    OBVIOUS
  <2>. QED
    BY <2>1
<1>2. PICK d \in D : \A y \in D : d <= y
  BY <1>1, LeastOf
<1>3. PICK x \in T : d = n - x
  BY <1>2
<1>4. \A y \in T : y \in 0 .. n /\ n - y \in D
  OBVIOUS
<1>5. \A y \in T : x >= y
  BY <1>2, <1>3, <1>4
<1>. HIDE DEF D
<1>6. Events!Max(T) \in T /\ \A y \in T : Events!Max(T) >= y
  BY <1>5 DEF Events!Max
<1>. QED
  BY <1>6, <1>4

\* The greatest member of a set of positions that has the last one.
LEMMA MaxOfRange ==
    ASSUME NEW n \in Nat, NEW d \in SUBSET (1 .. n + 1), n + 1 \in d
    PROVE  Events!Max(d) = n + 1
<1>1. d \subseteq 0 .. n + 1 /\ d # {} /\ n + 1 \in Nat
  OBVIOUS
<1>2. Events!Max(d) \in d /\ \A y \in d : y <= Events!Max(d)
  BY <1>1, MaxOf
<1>3. Events!Max(d) \in 1 .. n + 1 /\ n + 1 <= Events!Max(d)
  BY <1>2
<1>. QED
  BY <1>3

-----------------------------------------------------------------------------
(***************************************************************************)
(* Folds.  What FoldLeft computes, for the three loops of replay.rs and    *)
(* event_log.rs.  A prover cannot instantiate a lemma that is about every  *)
(* operator, so the loops are told apart by a name.                        *)
(***************************************************************************)

\* One step of each of the three loops.
FoldStep(loop, n, acc, e) ==
    IF loop = "after" THEN Events!Skipping(acc, e)
    ELSE IF loop = "replay" THEN Events!ReplayStep(acc, e)
    ELSE IF e # Events!Unparsed /\ e.seq >= n THEN Append(acc, e) ELSE acc

\* The function that FoldLeft chooses.
IsFold(loop, n, base, s, k, f) ==
    f = [d \in SUBSET (1 .. k) |->
            IF d = {} THEN base
            ELSE FoldStep(loop, n, f[d \ {Events!Max(d)}], s[Events!Max(d)])]

\* There is such a function.
LEMMA FoldExists ==
    ASSUME NEW loop, NEW n, NEW base, NEW s, NEW k \in Nat
    PROVE  \E f : IsFold(loop, n, base, s, k, f)
<1>. DEFINE T == {m \in Nat : \E f : IsFold(loop, n, base, s, m, f)}
<1>1. 0 \in T
  <2>. DEFINE f == [d \in SUBSET (1 .. 0) |-> base]
  <2>1. SUBSET (1 .. 0) = {{}}
    OBVIOUS
  <2>2. IsFold(loop, n, base, s, 0, f)
    BY <2>1 DEF IsFold
  <2>. HIDE DEF f
  <2>. QED
    BY <2>2
<1>2. ASSUME NEW m \in Nat, m \in T PROVE m + 1 \in T
  <2>1. PICK f : IsFold(loop, n, base, s, m, f)
    BY <1>2
  <2>. DEFINE g == [d \in SUBSET (1 .. m + 1) |->
                     IF m + 1 \in d THEN FoldStep(loop, n, f[d \ {m + 1}], s[m + 1])
                     ELSE f[d]]
  <2>2. ASSUME NEW d \in SUBSET (1 .. m + 1)
        PROVE  g[d] = IF d = {} THEN base
                      ELSE FoldStep(loop, n, g[d \ {Events!Max(d)}], s[Events!Max(d)])
    <3>1. CASE m + 1 \in d
      <4>1. Events!Max(d) = m + 1 /\ d # {}
        BY <3>1, MaxOfRange
      <4>2. d \ {m + 1} \in SUBSET (1 .. m + 1) /\ m + 1 \notin d \ {m + 1}
        OBVIOUS
      <4>3. g[d \ {m + 1}] = f[d \ {m + 1}]
        BY <4>2
      <4>. QED
        BY <3>1, <4>1, <4>3
    <3>2. CASE m + 1 \notin d
      <4>1. d \in SUBSET (1 .. m)
        BY <3>2
      <4>2. d \ {Events!Max(d)} \in SUBSET (1 .. m) /\ m + 1 \notin d \ {Events!Max(d)}
        BY <3>2, <4>1
      <4>3. d \ {Events!Max(d)} \in SUBSET (1 .. m + 1)
        BY <4>2
      <4>4. f[d] = IF d = {} THEN base
                   ELSE FoldStep(loop, n, f[d \ {Events!Max(d)}], s[Events!Max(d)])
        BY <2>1, <4>1 DEF IsFold
      <4>5. g[d] = f[d] /\ g[d \ {Events!Max(d)}] = f[d \ {Events!Max(d)}]
        BY <3>2, <4>2, <4>3
      <4>. QED
        BY <4>4, <4>5
    <3>. QED
      BY <3>1, <3>2
  <2>3. g = [d \in SUBSET (1 .. m + 1) |-> g[d]]
    OBVIOUS
  <2>. HIDE DEF g
  <2>4. IsFold(loop, n, base, s, m + 1, g)
    BY <2>2, <2>3 DEF IsFold
  <2>. QED
    BY <2>4
<1>3. \A m \in Nat : m \in T => m + 1 \in T
  BY <1>2
<1>. HIDE DEF T
<1>4. Nat \subseteq T
  BY <1>1, <1>3, InductionOn
<1>. QED
  BY <1>4 DEF T

\* It goes from the first elements to one element more.
LEMMA FoldChain ==
    ASSUME NEW loop, NEW n, NEW base, NEW s, NEW k \in Nat, NEW f,
           IsFold(loop, n, base, s, k, f)
    PROVE  /\ f[1 .. 0] = base
           /\ \A i \in 1 .. k : f[1 .. i] = FoldStep(loop, n, f[1 .. i - 1], s[i])
<1>1. f[1 .. 0] = base
  BY DEF IsFold
<1>2. ASSUME NEW i \in 1 .. k
      PROVE  f[1 .. i] = FoldStep(loop, n, f[1 .. i - 1], s[i])
  <2>1. 1 .. i \in SUBSET (1 .. i) /\ i \in 1 .. i /\ i - 1 \in Nat /\ i = (i - 1) + 1
    OBVIOUS
  <2>2. Events!Max(1 .. i) = i
    BY <2>1, MaxOfRange
  <2>3. (1 .. i) \ {i} = 1 .. i - 1
    OBVIOUS
  <2>4. 1 .. i # {}
    BY <2>1
  <2>5. 1 .. i \in SUBSET (1 .. k)
    OBVIOUS
  <2>. QED
    BY <2>2, <2>3, <2>4, <2>5 DEF IsFold
<1>. QED
  BY <1>1, <1>2

\* The fold over one element more takes one step more.
LEMMA FoldGrows ==
    ASSUME NEW loop, NEW n, NEW base, NEW s, NEW r, NEW k \in Nat, NEW f, NEW g,
           \A i \in 1 .. k : r[i] = s[i],
           IsFold(loop, n, base, s, k, f),
           IsFold(loop, n, base, r, k + 1, g)
    PROVE  g[1 .. k + 1] = FoldStep(loop, n, f[1 .. k], r[k + 1])
<1>. DEFINE T == {i \in Nat : i <= k => f[1 .. i] = g[1 .. i]}
<1>1. k + 1 \in Nat
  OBVIOUS
<1>2. /\ f[1 .. 0] = base
      /\ \A i \in 1 .. k : f[1 .. i] = FoldStep(loop, n, f[1 .. i - 1], s[i])
  BY <1>1, FoldChain
<1>3. /\ g[1 .. 0] = base
      /\ \A i \in 1 .. k + 1 : g[1 .. i] = FoldStep(loop, n, g[1 .. i - 1], r[i])
  <2>. DEFINE m == k + 1
  <2>1. m \in Nat /\ IsFold(loop, n, base, r, m, g)
    OBVIOUS
  <2>. HIDE DEF m
  <2>2. /\ g[1 .. 0] = base
        /\ \A i \in 1 .. m : g[1 .. i] = FoldStep(loop, n, g[1 .. i - 1], r[i])
    BY <2>1, FoldChain
  <2>. QED
    BY <2>2 DEF m
<1>4. 0 \in T
  BY <1>2, <1>3
<1>5. ASSUME NEW i \in Nat, i \in T PROVE i + 1 \in T
  <2>. SUFFICES ASSUME i + 1 <= k PROVE f[1 .. i + 1] = g[1 .. i + 1]
    OBVIOUS
  <2>1. i + 1 \in 1 .. k /\ i + 1 \in 1 .. k + 1 /\ (i + 1) - 1 = i /\ i <= k
    BY <1>1
  <2>. QED
    BY <1>2, <1>3, <1>5, <2>1
<1>6. f[1 .. k] = g[1 .. k]
  <2>1. \A i \in Nat : i \in T => i + 1 \in T
    BY <1>5
  <2>. HIDE DEF T
  <2>2. Nat \subseteq T
    BY <1>4, <2>1, InductionOn
  <2>. QED
    BY <1>1, <2>2 DEF T
<1>7. k + 1 \in 1 .. k + 1 /\ (k + 1) - 1 = k
  BY <1>1
<1>. QED
  BY <1>3, <1>6, <1>7

-----------------------------------------------------------------------------
\* The three loops are such folds.
LEMMA AfterIsFold ==
    ASSUME NEW base, NEW s, Len(s) \in Nat, DOMAIN s = 1 .. Len(s)
    PROVE  \E f : /\ IsFold("after", 0, base, s, Len(s), f)
                  /\ Events!After(base, s) = f[1 .. Len(s)]
<1>. DEFINE P(f) == f = [d \in SUBSET (1 .. Len(s)) |->
                          IF d = {} THEN base
                          ELSE Events!Skipping(f[d \ {Events!Max(d)}], s[Events!Max(d)])]
            F == CHOOSE f : P(f)
<1>1. \A f : P(f) <=> IsFold("after", 0, base, s, Len(s), f)
  BY DEF IsFold, FoldStep
<1>2. F[1 .. Len(s)] = Events!After(base, s)
  BY DEF Events!After, Events!FoldLeft, Events!MapThenFoldSet
<1>. HIDE DEF P
<1>3. P(F)
  BY <1>1, FoldExists
<1>. HIDE DEF F
<1>. QED
  BY <1>1, <1>2, <1>3

\* replay's loop from a checkpoint on.
LEMMA ReplayOverIsFold ==
    ASSUME NEW base, NEW s, Len(s) \in Nat, DOMAIN s = 1 .. Len(s)
    PROVE  \E f : /\ IsFold("replay", 0, base, s, Len(s), f)
                  /\ Events!ReplayOver(base, s) = f[1 .. Len(s)]
<1>. DEFINE P(f) == f = [d \in SUBSET (1 .. Len(s)) |->
                          IF d = {} THEN base
                          ELSE Events!ReplayStep(f[d \ {Events!Max(d)}], s[Events!Max(d)])]
            F == CHOOSE f : P(f)
<1>1. \A f : P(f) <=> IsFold("replay", 0, base, s, Len(s), f)
  BY DEF IsFold, FoldStep
<1>2. F[1 .. Len(s)] = Events!ReplayOver(base, s)
  BY DEF Events!ReplayOver, Events!FoldLeft, Events!MapThenFoldSet
<1>. HIDE DEF P
<1>3. P(F)
  BY <1>1, FoldExists
<1>. HIDE DEF F
<1>. QED
  BY <1>1, <1>2, <1>3

\* The loop of read_from.
LEMMA ParsedFromIsFold ==
    ASSUME NEW n, NEW s, Len(s) \in Nat, DOMAIN s = 1 .. Len(s)
    PROVE  \E f : /\ IsFold("read", n, <<>>, s, Len(s), f)
                  /\ Events!ParsedFrom(s, n) = f[1 .. Len(s)]
<1>. DEFINE P(f) == f = [d \in SUBSET (1 .. Len(s)) |->
                          IF d = {} THEN <<>>
                          ELSE IF s[Events!Max(d)] # Events!Unparsed /\ s[Events!Max(d)].seq >= n
                               THEN Append(f[d \ {Events!Max(d)}], s[Events!Max(d)])
                               ELSE f[d \ {Events!Max(d)}]]
            F == CHOOSE f : P(f)
<1>1. \A f : P(f) <=> IsFold("read", n, <<>>, s, Len(s), f)
  BY DEF IsFold, FoldStep
<1>2. F[1 .. Len(s)] = Events!ParsedFrom(s, n)
  BY DEF Events!ParsedFrom, Events!FoldLeft, Events!MapThenFoldSet
<1>. HIDE DEF P
<1>3. P(F)
  BY <1>1, FoldExists
<1>. HIDE DEF F
<1>. QED
  BY <1>1, <1>2, <1>3

\* Over no element, and over one element more.
LEMMA FoldOfEmpty ==
    ASSUME NEW loop, NEW n, NEW base, NEW f, NEW s, Len(s) = 0,
           IsFold(loop, n, base, s, Len(s), f)
    PROVE  f[1 .. Len(s)] = base
<1>1. 1 .. Len(s) = {} /\ {} \in SUBSET (1 .. Len(s))
  OBVIOUS
<1>. QED
  BY <1>1 DEF IsFold

\* A fold over one element more.
LEMMA FoldOfAppend ==
    ASSUME NEW loop, NEW n, NEW base, NEW s, NEW r, Len(s) \in Nat, Len(r) = Len(s) + 1,
           \A i \in 1 .. Len(s) : r[i] = s[i], NEW f, NEW g,
           IsFold(loop, n, base, s, Len(s), f), IsFold(loop, n, base, r, Len(r), g)
    PROVE  g[1 .. Len(r)] = FoldStep(loop, n, f[1 .. Len(s)], r[Len(r)])
<1>. DEFINE k == Len(s)
<1>1. k \in Nat /\ Len(r) = k + 1 /\ \A i \in 1 .. k : r[i] = s[i]
  OBVIOUS
<1>2. IsFold(loop, n, base, s, k, f) /\ IsFold(loop, n, base, r, k + 1, g)
  BY <1>1
<1>. HIDE DEF k
<1>3. g[1 .. k + 1] = FoldStep(loop, n, f[1 .. k], r[k + 1])
  BY ONLY <1>1, <1>2, FoldGrows
<1>. QED
  BY <1>1, <1>3 DEF k

\* The three loops, over no element and over one element more.
LEMMA AfterEmpty ==
    ASSUME NEW base
    PROVE  Events!After(base, <<>>) = base
<1>1. ASSUME NEW s, s = <<>> PROVE Events!After(base, s) = base
  <2>1. Len(s) = 0 /\ Len(s) \in Nat /\ DOMAIN s = 1 .. Len(s)
    BY <1>1
  <2>2. PICK f : IsFold("after", 0, base, s, Len(s), f) /\ Events!After(base, s) = f[1 .. Len(s)]
    BY <2>1, AfterIsFold
  <2>. QED
    BY ONLY <2>1, <2>2, FoldOfEmpty
<1>. QED
  BY <1>1

LEMMA AfterAppend ==
    ASSUME NEW base, NEW S, NEW s \in Seq(S), NEW e \in S
    PROVE  Events!After(base, Append(s, e)) = Events!Skipping(Events!After(base, s), e)
<1>1. ASSUME NEW r, r = Append(s, e)
      PROVE  Events!After(base, r) = Events!Skipping(Events!After(base, s), e)
  <2>1. /\ Len(s) \in Nat /\ DOMAIN s = 1 .. Len(s)
        /\ Len(r) \in Nat /\ DOMAIN r = 1 .. Len(r)
        /\ Len(r) = Len(s) + 1 /\ r[Len(r)] = e /\ \A i \in 1 .. Len(s) : r[i] = s[i]
    BY <1>1, AppendProperties, LenProperties
  <2>2. PICK f : IsFold("after", 0, base, s, Len(s), f) /\ Events!After(base, s) = f[1 .. Len(s)]
    BY <2>1, AfterIsFold
  <2>3. PICK g : IsFold("after", 0, base, r, Len(r), g) /\ Events!After(base, r) = g[1 .. Len(r)]
    BY <2>1, AfterIsFold
  <2>4. Events!After(base, r) = FoldStep("after", 0, Events!After(base, s), e)
    BY ONLY <2>1, <2>2, <2>3, FoldOfAppend
  <2>. QED
    BY <2>4 DEF FoldStep
<1>. QED
  BY <1>1

LEMMA ReplayOverEmpty ==
    ASSUME NEW base
    PROVE  Events!ReplayOver(base, <<>>) = base
<1>1. ASSUME NEW s, s = <<>> PROVE Events!ReplayOver(base, s) = base
  <2>1. Len(s) = 0 /\ Len(s) \in Nat /\ DOMAIN s = 1 .. Len(s)
    BY <1>1
  <2>2. PICK f : /\ IsFold("replay", 0, base, s, Len(s), f)
                /\ Events!ReplayOver(base, s) = f[1 .. Len(s)]
    BY <2>1, ReplayOverIsFold
  <2>. QED
    BY ONLY <2>1, <2>2, FoldOfEmpty
<1>. QED
  BY <1>1

LEMMA ReplayOverAppend ==
    ASSUME NEW base, NEW S, NEW s \in Seq(S), NEW e \in S
    PROVE  Events!ReplayOver(base, Append(s, e)) =
           Events!ReplayStep(Events!ReplayOver(base, s), e)
<1>1. ASSUME NEW r, r = Append(s, e)
      PROVE  Events!ReplayOver(base, r) = Events!ReplayStep(Events!ReplayOver(base, s), e)
  <2>1. /\ Len(s) \in Nat /\ DOMAIN s = 1 .. Len(s)
        /\ Len(r) \in Nat /\ DOMAIN r = 1 .. Len(r)
        /\ Len(r) = Len(s) + 1 /\ r[Len(r)] = e /\ \A i \in 1 .. Len(s) : r[i] = s[i]
    BY <1>1, AppendProperties, LenProperties
  <2>2. PICK f : /\ IsFold("replay", 0, base, s, Len(s), f)
                /\ Events!ReplayOver(base, s) = f[1 .. Len(s)]
    BY <2>1, ReplayOverIsFold
  <2>3. PICK g : /\ IsFold("replay", 0, base, r, Len(r), g)
                /\ Events!ReplayOver(base, r) = g[1 .. Len(r)]
    BY <2>1, ReplayOverIsFold
  <2>4. Events!ReplayOver(base, r) = FoldStep("replay", 0, Events!ReplayOver(base, s), e)
    BY ONLY <2>1, <2>2, <2>3, FoldOfAppend
  <2>. QED
    BY <2>4 DEF FoldStep
<1>. QED
  BY <1>1

LEMMA ParsedFromEmpty ==
    ASSUME NEW n
    PROVE  Events!ParsedFrom(<<>>, n) = <<>>
<1>1. ASSUME NEW s, s = <<>> PROVE Events!ParsedFrom(s, n) = <<>>
  <2>1. Len(s) = 0 /\ Len(s) \in Nat /\ DOMAIN s = 1 .. Len(s)
    BY <1>1
  <2>2. PICK f : IsFold("read", n, <<>>, s, Len(s), f) /\ Events!ParsedFrom(s, n) = f[1 .. Len(s)]
    BY <2>1, ParsedFromIsFold
  <2>. QED
    BY ONLY <2>1, <2>2, FoldOfEmpty
<1>. QED
  BY <1>1

LEMMA ParsedFromAppend ==
    ASSUME NEW n, NEW S, NEW s \in Seq(S), NEW e \in S
    PROVE  Events!ParsedFrom(Append(s, e), n) =
           IF e # Events!Unparsed /\ e.seq >= n THEN Append(Events!ParsedFrom(s, n), e)
           ELSE Events!ParsedFrom(s, n)
<1>1. ASSUME NEW r, r = Append(s, e)
      PROVE  Events!ParsedFrom(r, n) = IF e # Events!Unparsed /\ e.seq >= n
                                        THEN Append(Events!ParsedFrom(s, n), e)
                                        ELSE Events!ParsedFrom(s, n)
  <2>1. /\ Len(s) \in Nat /\ DOMAIN s = 1 .. Len(s)
        /\ Len(r) \in Nat /\ DOMAIN r = 1 .. Len(r)
        /\ Len(r) = Len(s) + 1 /\ r[Len(r)] = e /\ \A i \in 1 .. Len(s) : r[i] = s[i]
    BY <1>1, AppendProperties, LenProperties
  <2>2. PICK f : IsFold("read", n, <<>>, s, Len(s), f) /\ Events!ParsedFrom(s, n) = f[1 .. Len(s)]
    BY <2>1, ParsedFromIsFold
  <2>3. PICK g : IsFold("read", n, <<>>, r, Len(r), g) /\ Events!ParsedFrom(r, n) = g[1 .. Len(r)]
    BY <2>1, ParsedFromIsFold
  <2>4. Events!ParsedFrom(r, n) = FoldStep("read", n, Events!ParsedFrom(s, n), e)
    BY ONLY <2>1, <2>2, <2>3, FoldOfAppend
  <2>. QED
    BY <2>4 DEF FoldStep
<1>. QED
  BY <1>1

-----------------------------------------------------------------------------
(***************************************************************************)
(* What read_from returns                                                  *)
(***************************************************************************)

\* An event, a line of the log, a MaterializedTask, and what load_latest returns.
EventSet == [seq : Nat, kind : Events!AllKinds, id : Nat]
LineSet == EventSet \cup {Events!Unparsed}
TaskSet == [state : Events!States, claimed : BOOLEAN, approval : BOOLEAN, seq : Nat]
MaybeTask == TaskSet \cup {Events!NoTask}

\* A line that does not parse is no event.
LEMMA EventsParse == Events!Unparsed \notin EventSet
<1>1. "bad" \in DOMAIN Events!Unparsed
  BY DEF Events!Unparsed
<1>2. ASSUME NEW e \in EventSet PROVE "bad" \notin DOMAIN e
  BY DEF EventSet
<1>. QED
  BY <1>1, <1>2

\* No task, and a checkpoint that does not parse, are told from a task.
LEMMA TasksAreThere == Events!NoTask \notin TaskSet /\ Events!Corrupt \notin TaskSet
<1>1. Events!NoTask \notin TaskSet
  BY DEF Events!NoTask, TaskSet, Events!States
<1>2. "corrupt" \in DOMAIN Events!Corrupt
  BY DEF Events!Corrupt
<1>3. ASSUME NEW t \in TaskSet PROVE "corrupt" \notin DOMAIN t
  BY DEF TaskSet
<1>. QED
  BY <1>1, <1>2, <1>3

-----------------------------------------------------------------------------
\* The beginning of a longer sequence.
LEMMA PrefixOfAppend ==
    ASSUME NEW S, NEW s \in Seq(S), NEW e \in S, NEW n \in 0 .. Len(s)
    PROVE  SubSeq(Append(s, e), 1, n) = SubSeq(s, 1, n)
OBVIOUS

\* The end of a longer sequence.
LEMMA TailOfAppend ==
    ASSUME NEW S, NEW s \in Seq(S), NEW e \in S, NEW m \in 1 .. Len(s) + 1
    PROVE  SubSeq(Append(s, e), m, Len(s) + 1) = Append(SubSeq(s, m, Len(s)), e)
OBVIOUS

\* A beginning, one element longer.
LEMMA OneFurther ==
    ASSUME NEW S, NEW s \in Seq(S), NEW k \in 0 .. Len(s) - 1, NEW m \in 1 .. k + 1
    PROVE  SubSeq(s, m, k + 1) = Append(SubSeq(s, m, k), s[k + 1])
OBVIOUS

-----------------------------------------------------------------------------
\* What read_from returns.
ParsedOK(s, n) ==
    /\ Events!ParsedFrom(s, n) \in Seq(EventSet)
    /\ Len(Events!ParsedFrom(s, n)) <= Len(s)
    /\ \A k \in DOMAIN Events!ParsedFrom(s, n) :
          \E i \in DOMAIN s : s[i] = Events!ParsedFrom(s, n)[k]

\* read_from gives events that are lines of the log, each from the seq on.
LEMMA ParsedType ==
    ASSUME NEW n \in Nat
    PROVE  \A s \in Seq(LineSet) : ParsedOK(s, n)
<1>. DEFINE T == {s \in Seq(LineSet) : ParsedOK(s, n)}
<1>1. <<>> \in T
  <2>1. Events!ParsedFrom(<<>>, n) = <<>> /\ <<>> \in Seq(LineSet)
    BY ParsedFromEmpty
  <2>2. <<>> \in Seq(EventSet) /\ Len(<<>>) <= Len(<<>>) /\ DOMAIN <<>> = {}
    OBVIOUS
  <2>3. ParsedOK(<<>>, n)
    BY <2>1, <2>2 DEF ParsedOK
  <2>. HIDE DEF ParsedOK
  <2>. QED
    BY <2>1, <2>3
<1>2. ASSUME NEW s \in Seq(LineSet), NEW l \in LineSet, s \in T PROVE Append(s, l) \in T
  <2>. DEFINE p == Events!ParsedFrom(s, n)
              r == Append(s, l)
              q == Events!ParsedFrom(r, n)
  <2>1. /\ p \in Seq(EventSet) /\ Len(p) <= Len(s) /\ Len(p) \in Nat
        /\ \A k \in DOMAIN p : \E i \in DOMAIN s : s[i] = p[k]
    BY <1>2 DEF ParsedOK
  <2>2. /\ r \in Seq(LineSet) /\ Len(r) = Len(s) + 1 /\ r[Len(s) + 1] = l
        /\ Len(s) \in Nat /\ DOMAIN s = 1 .. Len(s) /\ DOMAIN r = 1 .. Len(s) + 1
        /\ \A i \in 1 .. Len(s) : r[i] = s[i]
    BY AppendProperties, LenProperties
  <2>3. q = IF l # Events!Unparsed /\ l.seq >= n THEN Append(p, l) ELSE p
    BY ParsedFromAppend
  <2>. HIDE DEF p, q, r
  <2>4. \A k \in DOMAIN p : \E i \in DOMAIN r : r[i] = p[k]
    BY <2>1, <2>2
  <2>5. ASSUME q = p PROVE ParsedOK(r, n)
    BY <2>1, <2>2, <2>4, <2>5 DEF ParsedOK, q
  <2>6. ASSUME q = Append(p, l), l \in EventSet PROVE ParsedOK(r, n)
    <3>1. /\ q \in Seq(EventSet) /\ Len(q) = Len(p) + 1 /\ DOMAIN q = 1 .. Len(p) + 1
          /\ DOMAIN p = 1 .. Len(p) /\ q[Len(p) + 1] = l /\ \A k \in 1 .. Len(p) : q[k] = p[k]
      BY <2>1, <2>6, AppendProperties, LenProperties
    <3>2. ASSUME NEW k \in DOMAIN q PROVE \E i \in DOMAIN r : r[i] = q[k]
      <4>1. CASE k = Len(p) + 1
        BY <2>2, <3>1, <4>1
      <4>2. CASE k \in 1 .. Len(p)
        BY <2>4, <3>1, <4>2
      <4>. QED
        BY <2>1, <3>1, <4>1, <4>2
    <3>3. Len(q) <= Len(r)
      BY <2>1, <2>2, <3>1
    <3>. QED
      BY <3>1, <3>2, <3>3 DEF ParsedOK, q
  <2>7. ParsedOK(r, n)
    BY <2>3, <2>5, <2>6 DEF LineSet
  <2>. QED
    BY <2>2, <2>7 DEF r
<1>3. \A s \in Seq(LineSet), l \in LineSet : s \in T => Append(s, l) \in T
  BY <1>2
<1>. HIDE DEF T
<1>4. Seq(LineSet) \subseteq T
  BY <1>1, <1>3, SeqInductionOn
<1>. QED
  BY <1>4 DEF T

\* The seqs of a log without a gap.
Gapless(E) == \A k \in DOMAIN E : E[k].seq = k - 1

\* In a log without a gap, read_from skips as many events as the seq says.
LEMMA ParsedTail ==
    ASSUME NEW n \in Nat
    PROVE  \A s \in Seq(LineSet) :
              Gapless(Events!ParsedFrom(s, 0)) =>
              Events!ParsedFrom(s, n) =
              SubSeq(Events!ParsedFrom(s, 0), n + 1, Len(Events!ParsedFrom(s, 0)))
<1>. DEFINE P(s) == Events!ParsedFrom(s, 0)
            Q(s) == Events!ParsedFrom(s, n)
            IsTail(s) == Gapless(P(s)) => Q(s) = SubSeq(P(s), n + 1, Len(P(s)))
            T == {s \in Seq(LineSet) : IsTail(s)}
<1>1. <<>> \in T
  <2>1. P(<<>>) = <<>> /\ Q(<<>>) = <<>> /\ <<>> \in Seq(LineSet)
    BY ParsedFromEmpty
  <2>2. SubSeq(<<>>, n + 1, Len(<<>>)) = <<>>
    OBVIOUS
  <2>. HIDE DEF P, Q
  <2>. QED
    BY <2>1, <2>2
<1>2. ASSUME NEW s \in Seq(LineSet), NEW l \in LineSet, s \in T PROVE Append(s, l) \in T
  <2>. DEFINE E == P(s)
              D == Q(s)
              r == Append(s, l)
  <2>1. E \in Seq(EventSet) /\ D \in Seq(EventSet) /\ Len(E) \in Nat /\ DOMAIN E = 1 .. Len(E)
    BY ParsedType, LenProperties DEF ParsedOK
  <2>2. P(r) = IF l # Events!Unparsed /\ l.seq >= 0 THEN Append(E, l) ELSE E
    BY ParsedFromAppend
  <2>3. Q(r) = IF l # Events!Unparsed /\ l.seq >= n THEN Append(D, l) ELSE D
    BY ParsedFromAppend
  <2>4. r \in Seq(LineSet)
    BY AppendProperties
  <2>5. Gapless(E) => D = SubSeq(E, n + 1, Len(E))
    BY <1>2
  <2>6. l = Events!Unparsed \/ (l \in EventSet /\ l.seq \in Nat /\ l.seq >= 0)
    BY DEF LineSet, EventSet
  <2>. HIDE DEF E, D, r, P, Q
  <2>7. ASSUME l = Events!Unparsed PROVE IsTail(r)
    BY <2>2, <2>3, <2>5, <2>7
  <2>8. ASSUME l # Events!Unparsed PROVE IsTail(r)
    <3>. SUFFICES ASSUME Gapless(P(r)) PROVE Q(r) = SubSeq(P(r), n + 1, Len(P(r)))
      OBVIOUS
    <3>1. P(r) = Append(E, l) /\ l \in EventSet
      BY <2>2, <2>6, <2>8
    <3>2. /\ Len(P(r)) = Len(E) + 1 /\ DOMAIN P(r) = 1 .. Len(E) + 1
          /\ P(r)[Len(E) + 1] = l /\ \A k \in 1 .. Len(E) : P(r)[k] = E[k]
      BY <2>1, <3>1, AppendProperties, LenProperties
    <3>3. l.seq = Len(E) /\ Gapless(E)
      BY <2>1, <3>2 DEF Gapless
    <3>4. D = SubSeq(E, n + 1, Len(E))
      BY <2>5, <3>3
    <3>5. CASE n <= Len(E)
      <4>1. Q(r) = Append(D, l)
        BY <2>3, <2>8, <3>3, <3>5, <2>1
      <4>2. n + 1 \in 1 .. Len(E) + 1
        BY <2>1, <3>5
      <4>. QED
        BY <2>1, <3>1, <3>2, <3>4, <4>1, <4>2, TailOfAppend
    <3>6. CASE Len(E) < n
      <4>1. Q(r) = D
        BY <2>3, <3>3, <3>6, <2>1
      <4>2. SubSeq(E, n + 1, Len(E)) = <<>>
        BY <2>1, <3>6
      <4>3. P(r) \in Seq(EventSet) /\ SubSeq(P(r), n + 1, Len(E) + 1) = <<>>
        BY <2>1, <3>1, <3>6, AppendProperties
      <4>. QED
        BY <3>2, <3>4, <4>1, <4>2, <4>3
    <3>. QED
      BY <2>1, <3>5, <3>6
  <2>. HIDE DEF IsTail
  <2>. QED
    BY <2>4, <2>7, <2>8 DEF r
<1>3. \A s \in Seq(LineSet), l \in LineSet : s \in T => Append(s, l) \in T
  BY <1>2
<1>. HIDE DEF T
<1>4. Seq(LineSet) \subseteq T
  BY <1>1, <1>3, SeqInductionOn
<1>. QED
  BY <1>4 DEF T

-----------------------------------------------------------------------------
(***************************************************************************)
(* What the reducer and replay return                                      *)
(***************************************************************************)

\* The task that reduce gives.
LEMMA ReduceType ==
    ASSUME NEW t \in TaskSet, NEW e \in EventSet
    PROVE  /\ Events!Reduce(t, e) \in TaskSet
           /\ Events!Reduce(t, e).seq = e.seq
           /\ Events!Skipping(t, e) \in TaskSet
<1>1. t.state \in Events!States /\ t.claimed \in BOOLEAN /\ t.approval \in BOOLEAN /\ t.seq \in Nat
  BY DEF TaskSet
<1>2. e.kind \in Events!AllKinds /\ e.seq \in Nat
  BY DEF EventSet
<1>3. Events!Goes(t.state, e.kind) \in Events!States
  <2>1. CASE e.kind \in {"claimed", "granted", "denied"}
    BY <1>1, <2>1 DEF Events!Goes, Events!States
  <2>2. CASE e.kind \in Events!States
    <3>1. e.kind \notin {"claimed", "granted", "denied"}
      BY <2>2 DEF Events!States
    <3>2. Events!Goes(t.state, e.kind) = e.kind
      BY <3>1 DEF Events!Goes
    <3>. QED
      BY <2>2, <3>2
  <2>. QED
    BY <1>2, <2>1, <2>2 DEF Events!AllKinds
<1>. DEFINE claimed == t.claimed \/ e.kind = "claimed"
            approval == CASE e.kind \in {"active", "granted", "denied"} -> FALSE
                          [] e.kind = "needs_approval" -> TRUE
                          [] OTHER -> t.approval
<1>4. claimed \in BOOLEAN
  OBVIOUS
<1>5. approval \in BOOLEAN
  BY <1>1
<1>6. Events!Reduce(t, e) = [state |-> Events!Goes(t.state, e.kind), claimed |-> claimed,
                             approval |-> approval, seq |-> e.seq]
  BY DEF Events!Reduce
<1>. HIDE DEF claimed, approval
<1>7. Events!Reduce(t, e) \in TaskSet /\ Events!Reduce(t, e).seq = e.seq
  BY <1>2, <1>3, <1>4, <1>5, <1>6 DEF TaskSet
<1>. QED
  BY <1>7 DEF Events!Skipping

\* The task that replay starts from without a checkpoint.
LEMMA InitialType == Events!Initial \in TaskSet
BY DEF Events!Initial, TaskSet, Events!States

\* The task after any events.
LEMMA AfterType ==
    ASSUME NEW t \in TaskSet
    PROVE  \A s \in Seq(EventSet) : Events!After(t, s) \in TaskSet
<1>. DEFINE T == {s \in Seq(EventSet) : Events!After(t, s) \in TaskSet}
<1>1. <<>> \in T
  BY AfterEmpty, EmptySeq
<1>2. ASSUME NEW s \in Seq(EventSet), NEW e \in EventSet, s \in T PROVE Append(s, e) \in T
  <2>1. Events!After(t, Append(s, e)) = Events!Skipping(Events!After(t, s), e)
    BY AfterAppend
  <2>2. Events!After(t, Append(s, e)) \in TaskSet
    BY <1>2, <2>1, ReduceType
  <2>. QED
    BY <2>2, AppendProperties
<1>3. \A s \in Seq(EventSet), e \in EventSet : s \in T => Append(s, e) \in T
  BY <1>2
<1>. HIDE DEF T
<1>4. Seq(EventSet) \subseteq T
  BY <1>1, <1>3, SeqInductionOn
<1>. QED
  BY <1>4 DEF T

-----------------------------------------------------------------------------
\* Checkpoint files up to a seq.
FilesOK(files, m) ==
    /\ DOMAIN files \subseteq 0 .. m
    /\ \A n \in DOMAIN files : files[n] = Events!Corrupt \/ files[n] \in TaskSet

\* save writes a file within the range.
LEMMA SavedOK ==
    ASSUME NEW files, NEW m \in Nat, FilesOK(files, m), NEW n \in 0 .. m, NEW t,
           t = Events!Corrupt \/ t \in TaskSet
    PROVE  FilesOK(Events!Saved(files, n, t), m)
BY DEF FilesOK, Events!Saved

\* What replay's loop holds.
AccOK(acc, m) ==
    /\ acc = [task |-> acc.task, since |-> acc.since, files |-> acc.files]
    /\ acc.task \in TaskSet /\ acc.since \in Nat /\ FilesOK(acc.files, m)

\* One event of replay's loop.
LEMMA ReplayStepOK ==
    ASSUME NEW m \in Nat, NEW acc, AccOK(acc, m), NEW e \in EventSet, e.seq <= m
    PROVE  AccOK(Events!ReplayStep(acc, e), m)
<1>. DEFINE t == Events!Reduce(acc.task, e)
<1>1. t \in TaskSet /\ e.seq \in 0 .. m
  BY ReduceType DEF AccOK, EventSet
<1>2. FilesOK(Events!Saved(acc.files, e.seq, t), m)
  BY <1>1, SavedOK DEF AccOK
<1>3. \/ Events!ReplayStep(acc, e) = acc
      \/ Events!ReplayStep(acc, e) =
            [task |-> t, since |-> 0, files |-> Events!Saved(acc.files, e.seq, t)]
      \/ Events!ReplayStep(acc, e) = [task |-> t, since |-> acc.since + 1, files |-> acc.files]
  BY DEF Events!ReplayStep
<1>. HIDE DEF t
<1>4. CASE Events!ReplayStep(acc, e) = acc
  BY <1>4
<1>5. CASE Events!ReplayStep(acc, e) =
            [task |-> t, since |-> 0, files |-> Events!Saved(acc.files, e.seq, t)]
  BY <1>1, <1>2, <1>5 DEF AccOK
<1>6. CASE Events!ReplayStep(acc, e) = [task |-> t, since |-> acc.since + 1, files |-> acc.files]
  BY <1>1, <1>6 DEF AccOK
<1>. QED
  BY <1>3, <1>4, <1>5, <1>6

\* replay's loop, over any events.
LEMMA ReplayOverOK ==
    ASSUME NEW m \in Nat, NEW acc, AccOK(acc, m)
    PROVE  \A s \in Seq(EventSet) :
              (\A k \in DOMAIN s : s[k].seq <= m) => AccOK(Events!ReplayOver(acc, s), m)
<1>. DEFINE Low(s) == \A k \in DOMAIN s : s[k].seq <= m
            T == {s \in Seq(EventSet) : Low(s) => AccOK(Events!ReplayOver(acc, s), m)}
<1>1. <<>> \in T
  BY ReplayOverEmpty, EmptySeq
<1>2. ASSUME NEW s \in Seq(EventSet), NEW e \in EventSet, s \in T PROVE Append(s, e) \in T
  <2>1. Events!ReplayOver(acc, Append(s, e)) =
        Events!ReplayStep(Events!ReplayOver(acc, s), e)
    BY ReplayOverAppend
  <2>2. ASSUME NEW r, r = Append(s, e), Low(r)
        PROVE  Low(s) /\ e.seq <= m
    <3>1. /\ DOMAIN s = 1 .. Len(s) /\ DOMAIN r = 1 .. Len(s) + 1 /\ Len(s) \in Nat
          /\ r[Len(s) + 1] = e /\ \A k \in 1 .. Len(s) : r[k] = s[k]
      BY <2>2, AppendProperties, LenProperties
    <3>. QED
      BY <2>2, <3>1
  <2>. HIDE DEF Low
  <2>3. Low(Append(s, e)) => AccOK(Events!ReplayOver(acc, Append(s, e)), m)
    BY <1>2, <2>1, <2>2, ReplayStepOK
  <2>. QED
    BY <2>3, AppendProperties
<1>3. \A s \in Seq(EventSet), e \in EventSet : s \in T => Append(s, e) \in T
  BY <1>2
<1>. HIDE DEF T
<1>4. Seq(EventSet) \subseteq T
  BY <1>1, <1>3, SeqInductionOn
<1>. QED
  BY <1>4 DEF T

-----------------------------------------------------------------------------
(***************************************************************************)
(* The types of the event log, for any number of calls at the same time    *)
(***************************************************************************)

\* The log, its checkpoints and the counters: the event on line i has a seq
\* below i.
EventLogOK ==
    /\ log \in Seq(LineSet)
    /\ \A i \in DOMAIN log : log[i] = Events!Unparsed \/ log[i].seq < i
    /\ torn \in BOOLEAN /\ (torn => log # <<>>)
    /\ garbled \in BOOLEAN /\ lost \in BOOLEAN

\* A call, while the log has at most m lines and k ids are handed out.
EventCallOK(q, m, k) ==
    \/ q = Events!Idle
    \/ /\ q.pc = "replay" /\ q.kind \in Events!AllKinds /\ q.cp \in MaybeTask
    \/ /\ q.pc = "count" /\ q.kind \in Events!AllKinds /\ q.task \in MaybeTask
    \/ /\ q.pc \in {"write", "back"} /\ q.event \in EventSet /\ q.task \in MaybeTask
       /\ q.event.seq <= m /\ q.event.id \in 1 .. k
       /\ q.pc = "back" => q.task \in TaskSet
       /\ q = [pc |-> q.pc, task |-> q.task, event |-> q.event]
    \/ /\ q.pc = "save" /\ q.seq \in 0 .. m /\ q.task \in TaskSet

\* The inductive invariant of the types.
EventTypeInv ==
    /\ EventLogOK /\ FilesOK(cps, Len(log))
    /\ DOMAIN evCall = Callers
    /\ \A c \in Callers : EventCallOK(evCall[c], Len(log), next)
    /\ next \in 0 .. MaxAppends /\ crashes \in 0 .. MaxCrashes
    /\ acked \subseteq 1 .. next

\* A call is a record with the fields of its statement.
LEMMA CallShapes ==
    ASSUME NEW q, NEW m, NEW k, EventCallOK(q, m, k)
    PROVE  /\ q.pc = "replay" => q.kind \in Events!AllKinds /\ q.cp \in MaybeTask
           /\ q.pc = "count" => q.kind \in Events!AllKinds /\ q.task \in MaybeTask
           /\ q.pc \in {"write", "back"} =>
                 /\ q.event \in EventSet /\ q.task \in MaybeTask
                 /\ q.event.seq <= m /\ q.event.id \in 1 .. k
                 /\ q.pc = "back" => q.task \in TaskSet
                 /\ q = [pc |-> q.pc, task |-> q.task, event |-> q.event]
           /\ q.pc = "save" => q.seq \in 0 .. m /\ q.task \in TaskSet
<1>1. Events!Idle.pc = "idle"
  BY DEF Events!Idle
<1>. QED
  BY <1>1 DEF EventCallOK

\* A longer log and more ids leave a call as it is.
LEMMA CallsStay ==
    ASSUME NEW q, NEW m \in Nat, NEW k \in Nat, NEW m1 \in Nat, NEW k1 \in Nat, m <= m1, k <= k1,
           EventCallOK(q, m, k)
    PROVE  EventCallOK(q, m1, k1)
<1>1. CASE q = Events!Idle
  BY <1>1 DEF EventCallOK
<1>2. CASE q.pc \in {"replay", "count"}
  BY <1>2 DEF EventCallOK
<1>3. CASE q.pc \in {"write", "back"}
  <2>1. q.event.seq \in Nat
    BY <1>3, CallShapes DEF EventSet
  <2>. QED
    BY <1>3, <2>1, CallShapes DEF EventCallOK
<1>4. CASE q.pc = "save"
  BY <1>4, CallShapes DEF EventCallOK
<1>. QED
  BY <1>1, <1>2, <1>3, <1>4 DEF EventCallOK

-----------------------------------------------------------------------------
\* What read_from returns of the log.
LEMMA ReadFromType ==
    ASSUME EventLogOK, NEW n \in Nat
    PROVE  /\ Events!ReadFrom(n) \in Seq(EventSet)
           /\ Len(Events!ReadFrom(n)) \in Nat /\ Len(Events!ReadFrom(n)) <= Len(log)
           /\ \A k \in DOMAIN Events!ReadFrom(n) :
                 /\ Events!ReadFrom(n)[k].seq <= Len(log)
                 /\ \E i \in DOMAIN log : log[i] = Events!ReadFrom(n)[k]
<1>. DEFINE E == Events!ReadFrom(n)
<1>1. /\ E \in Seq(EventSet) /\ Len(E) <= Len(log)
      /\ \A k \in DOMAIN E : \E i \in DOMAIN log : log[i] = E[k]
  BY ParsedType DEF EventLogOK, ParsedOK, Events!ReadFrom
<1>2. ASSUME NEW k \in DOMAIN E PROVE E[k].seq <= Len(log)
  <2>1. PICK i \in DOMAIN log : log[i] = E[k]
    BY <1>1
  <2>2. E[k] \in EventSet
    BY <1>1
  <2>3. log[i].seq < i /\ log[i].seq \in Nat
    BY <2>1, <2>2, EventsParse DEF EventLogOK, EventSet
  <2>4. i \in 1 .. Len(log) /\ Len(log) \in Nat
    BY LenProperties DEF EventLogOK
  <2>. QED
    BY <2>1, <2>3, <2>4
<1>. QED
  BY <1>1, <1>2, LenProperties

\* What load_latest returns: no task, or the task of a file.
LEMMA LoadLatestType ==
    ASSUME NEW m \in Nat, FilesOK(cps, m)
    PROVE  /\ Events!LoadLatest \in MaybeTask
           /\ Events!LoadLatest # Events!NoTask =>
                 \E n \in Events!Usable : Events!LoadLatest = cps[n] /\ cps[n] \in TaskSet
<1>1. CASE Events!Usable = {}
  BY <1>1 DEF Events!LoadLatest, MaybeTask
<1>2. CASE Events!Usable # {}
  <2>1. Events!Usable \subseteq 0 .. m
    BY DEF Events!Usable, FilesOK
  <2>2. Events!Max(Events!Usable) \in Events!Usable
    BY <1>2, <2>1, MaxOf
  <2>3. \A n \in Events!Usable : cps[n] \in TaskSet
    BY DEF Events!Usable, FilesOK
  <2>. QED
    BY <1>2, <2>2, <2>3 DEF Events!LoadLatest, MaybeTask
<1>. QED
  BY <1>1, <1>2

\* What replay returns and saves.
LEMMA ReplayType ==
    ASSUME EventLogOK, FilesOK(cps, Len(log)), NEW cp \in MaybeTask
    PROVE  /\ Events!Replayed(cp) \in MaybeTask
           /\ cp \in TaskSet => AccOK(Events!ReplayTail(cp), Len(log))
<1>0. Len(log) \in Nat
  BY LenProperties DEF EventLogOK
<1>1. Events!FoldLog \in MaybeTask
  <2>1. Events!ReadFrom(0) \in Seq(EventSet)
    BY ReadFromType
  <2>2. Events!After(Events!Initial, Events!ReadFrom(0)) \in TaskSet
    BY <2>1, AfterType, InitialType
  <2>. QED
    BY <2>2 DEF Events!FoldLog, MaybeTask
<1>2. ASSUME cp \in TaskSet PROVE AccOK(Events!ReplayTail(cp), Len(log))
  <2>. DEFINE acc == [task |-> cp, since |-> 0, files |-> cps]
              s == Events!ReplayFrom(cp)
  <2>1. AccOK(acc, Len(log))
    BY <1>2 DEF AccOK
  <2>2. cp.seq + 1 \in Nat
    BY <1>2 DEF TaskSet
  <2>3. s \in Seq(EventSet) /\ \A k \in DOMAIN s : s[k].seq <= Len(log)
    BY <2>2, ReadFromType DEF Events!ReplayFrom
  <2>. HIDE DEF acc, s
  <2>4. AccOK(Events!ReplayOver(acc, s), Len(log))
    BY <1>0, <2>1, <2>3, ReplayOverOK
  <2>. QED
    BY <2>4 DEF acc, s, Events!ReplayTail
<1>3. cp \in TaskSet => Events!Replayed(cp) \in TaskSet
  BY <1>2, TasksAreThere DEF Events!Replayed, AccOK
<1>. QED
  BY <1>1, <1>2, <1>3 DEF Events!Replayed, MaybeTask

\* The type invariant holds of an empty log, ...
LEMMA InitEventTypeInv == Events!Init => EventTypeInv
<1>. SUFFICES ASSUME Events!Init PROVE EventTypeInv
  OBVIOUS
<1>1. EventLogOK
  <2>1. log = <<>> /\ torn = FALSE /\ garbled = FALSE /\ lost = FALSE
    BY DEF Events!Init
  <2>2. log \in Seq(LineSet) /\ DOMAIN log = {}
    BY <2>1
  <2>. QED
    BY <2>1, <2>2 DEF EventLogOK
<1>2. FilesOK(cps, Len(log))
  BY DEF Events!Init, FilesOK
<1>3. DOMAIN evCall = Callers /\ \A c \in Callers : EventCallOK(evCall[c], Len(log), next)
  BY DEF Events!Init, EventCallOK
<1>. QED
  BY <1>1, <1>2, <1>3, EventsAssumption DEF EventTypeInv, Events!Init

\* A step of one call that hands it on as q.
LEMMA GotoOK ==
    ASSUME EventTypeInv, NEW c \in Callers, NEW q, Events!Goto(c, q),
           Len(log)' \in Nat, Len(log) <= Len(log)', next' \in Nat, next <= next',
           EventCallOK(q, Len(log)', next')
    PROVE  /\ DOMAIN evCall' = Callers
           /\ \A d \in Callers : EventCallOK(evCall'[d], Len(log)', next')
<1>1. Len(log) \in Nat /\ next \in Nat
  BY LenProperties DEF EventTypeInv, EventLogOK
<1>2. evCall' = [evCall EXCEPT ![c] = q] /\ DOMAIN evCall = Callers
  BY DEF Events!Goto, EventTypeInv
<1>3. ASSUME NEW d \in Callers PROVE EventCallOK(evCall'[d], Len(log)', next')
  <2>1. CASE d = c
    BY <1>2, <2>1
  <2>2. CASE d # c
    <3>1. evCall'[d] = evCall[d] /\ EventCallOK(evCall[d], Len(log), next)
      BY <1>2, <2>2 DEF EventTypeInv
    <3>. QED
      BY <1>1, <3>1, CallsStay
  <2>. QED
    BY <2>1, <2>2
<1>. QED
  BY <1>2, <1>3

\* A call that has ended.
LEMMA EventIdleOK == ASSUME NEW m, NEW k PROVE EventCallOK(Events!Idle, m, k)
BY DEF EventCallOK

\* What a step that leaves the log alone keeps.
LEMMA LogStays ==
    ASSUME EventTypeInv, UNCHANGED <<log, torn, garbled, lost>>
    PROVE  /\ EventLogOK' /\ Len(log)' = Len(log) /\ Len(log)' \in Nat /\ Len(log) <= Len(log)'
           /\ next \in Nat
BY LenProperties DEF EventTypeInv, EventLogOK

\* ... and each statement of the RPCs keeps it.
LEMMA CreateFromSpecType ==
    ASSUME EventTypeInv, NEW c \in Callers, Events!CreateFromSpec(c)
    PROVE  EventTypeInv'
<1>. DEFINE q == [pc |-> "count", kind |-> "pending", task |-> Events!NoTask]
<1>1. Events!Goto(c, q) /\ UNCHANGED <<log, torn, garbled, lost, cps, next, crashes, acked>>
  BY DEF Events!CreateFromSpec, Events!file
<1>2. EventCallOK(q, Len(log)', next')
  BY DEF EventCallOK, MaybeTask, Events!AllKinds, Events!States
<1>. HIDE DEF q
<1>3. DOMAIN evCall' = Callers /\ \A d \in Callers : EventCallOK(evCall'[d], Len(log)', next')
  BY <1>1, <1>2, LogStays, GotoOK
<1>. QED
  BY <1>1, <1>3, LogStays DEF EventTypeInv

LEMMA TransitionType ==
    ASSUME EventTypeInv, NEW c \in Callers, NEW kind \in Kinds, Events!Transition(c, kind)
    PROVE  EventTypeInv'
<1>. DEFINE q == [pc |-> "replay", kind |-> kind, cp |-> Events!LoadLatest]
<1>1. Events!Goto(c, q) /\ UNCHANGED <<log, torn, garbled, lost, cps, next, crashes, acked>>
  BY DEF Events!Transition, Events!file
<1>2. kind \in Events!AllKinds /\ Events!LoadLatest \in MaybeTask
  BY EventsAssumption, LogStays, LenProperties, LoadLatestType DEF EventTypeInv, EventLogOK
<1>3. EventCallOK(q, Len(log)', next')
  BY <1>2 DEF EventCallOK
<1>. HIDE DEF q
<1>4. DOMAIN evCall' = Callers /\ \A d \in Callers : EventCallOK(evCall'[d], Len(log)', next')
  BY <1>1, <1>3, LogStays, GotoOK
<1>. QED
  BY <1>1, <1>4, LogStays DEF EventTypeInv

LEMMA ReplayActionType ==
    ASSUME EventTypeInv, NEW c \in Callers, Events!Replay(c)
    PROVE  EventTypeInv'
<1>. DEFINE q == evCall[c]
            r == IF Events!Replayed(q.cp) = Events!NoTask THEN Events!Idle
                 ELSE [pc |-> "count", kind |-> q.kind, task |-> Events!Replayed(q.cp)]
<1>1. /\ q.pc = "replay" /\ Events!Goto(c, r)
      /\ cps' = IF q.cp = Events!NoTask THEN cps ELSE Events!ReplayTail(q.cp).files
      /\ UNCHANGED <<log, torn, garbled, lost, next, crashes, acked>>
  BY DEF Events!Replay, Events!file
<1>2. q.kind \in Events!AllKinds /\ q.cp \in MaybeTask
  BY <1>1, CallShapes DEF EventTypeInv
<1>3. /\ Events!Replayed(q.cp) \in MaybeTask
      /\ q.cp \in TaskSet => AccOK(Events!ReplayTail(q.cp), Len(log))
  BY <1>2, ReplayType DEF EventTypeInv
<1>4. EventCallOK(r, Len(log)', next')
  BY <1>2, <1>3 DEF EventCallOK
<1>5. FilesOK(cps', Len(log)')
  BY <1>1, <1>2, <1>3 DEF AccOK, MaybeTask, EventTypeInv
<1>. HIDE DEF q, r
<1>6. DOMAIN evCall' = Callers /\ \A d \in Callers : EventCallOK(evCall'[d], Len(log)', next')
  BY <1>1, <1>4, LogStays, GotoOK
<1>. QED
  BY <1>1, <1>5, <1>6, LogStays DEF EventTypeInv

LEMMA ReadFailsType ==
    ASSUME EventTypeInv, NEW c \in Callers, Events!ReadFails(c)
    PROVE  EventTypeInv'
<1>1. Events!Goto(c, Events!Idle) /\ UNCHANGED <<log, torn, garbled, lost, cps, next, crashes, acked>>
  BY DEF Events!ReadFails, Events!file
<1>2. DOMAIN evCall' = Callers /\ \A d \in Callers : EventCallOK(evCall'[d], Len(log)', next')
  BY <1>1, EventIdleOK, LogStays, GotoOK
<1>. QED
  BY <1>1, <1>2, LogStays DEF EventTypeInv

LEMMA AppendCountType ==
    ASSUME EventTypeInv, NEW c \in Callers, Events!AppendCount(c)
    PROVE  EventTypeInv'
<1>. DEFINE q == evCall[c]
            e == [seq |-> Events!EventCount, kind |-> q.kind, id |-> next + 1]
            r == [pc |-> "write", task |-> q.task, event |-> e]
<1>1. /\ q.pc = "count" /\ next < MaxAppends /\ next' = next + 1 /\ Events!Goto(c, r)
      /\ UNCHANGED <<log, torn, garbled, lost, cps, crashes, acked>>
  BY DEF Events!AppendCount, Events!file
<1>2. q.kind \in Events!AllKinds /\ q.task \in MaybeTask
  BY <1>1, CallShapes DEF EventTypeInv
<1>3. Events!EventCount \in Nat /\ Events!EventCount <= Len(log)
  BY ReadFromType DEF Events!EventCount, EventTypeInv
<1>4. next' \in 0 .. MaxAppends /\ next <= next' /\ next' \in Nat /\ next' \in 1 .. next'
      /\ acked \subseteq 1 .. next'
  BY <1>1, EventsAssumption DEF EventTypeInv
<1>5. EventCallOK(r, Len(log)', next')
  <2>1. e \in EventSet /\ e.seq <= Len(log)' /\ e.id \in 1 .. next'
    BY <1>1, <1>2, <1>3, <1>4 DEF EventSet
  <2>. HIDE DEF e
  <2>. QED
    BY <1>2, <2>1 DEF EventCallOK
<1>. HIDE DEF q, r
<1>6. DOMAIN evCall' = Callers /\ \A d \in Callers : EventCallOK(evCall'[d], Len(log)', next')
  BY <1>1, <1>4, <1>5, LogStays, GotoOK
<1>. QED
  BY <1>1, <1>4, <1>6, LogStays DEF EventTypeInv

\* The log after a write, complete or cut short.
LEMMA Grown ==
    ASSUME EventLogOK, NEW l \in LineSet, l = Events!Unparsed \/ l.seq <= Len(log)
    PROVE  /\ Append(log, l) \in Seq(LineSet) /\ Len(Append(log, l)) = Len(log) + 1
           /\ Append(log, l)[Len(log) + 1] = l /\ Append(log, l) # <<>>
           /\ \A i \in DOMAIN Append(log, l) :
                 Append(log, l)[i] = Events!Unparsed \/ Append(log, l)[i].seq < i
<1>. DEFINE r == Append(log, l)
<1>1. /\ r \in Seq(LineSet) /\ Len(r) = Len(log) + 1 /\ r[Len(log) + 1] = l
      /\ Len(log) \in Nat /\ DOMAIN log = 1 .. Len(log) /\ DOMAIN r = 1 .. Len(log) + 1
      /\ \A i \in 1 .. Len(log) : r[i] = log[i]
  BY AppendProperties, LenProperties DEF EventLogOK
<1>2. l = Events!Unparsed \/ l.seq < Len(log) + 1
  BY <1>1 DEF LineSet, EventSet
<1>. HIDE DEF r
<1>3. ASSUME NEW i \in DOMAIN r PROVE r[i] = Events!Unparsed \/ r[i].seq < i
  <2>1. CASE i = Len(log) + 1
    BY <1>1, <1>2, <2>1
  <2>2. CASE i \in 1 .. Len(log)
    BY <1>1, <2>2 DEF EventLogOK
  <2>. QED
    BY <1>1, <2>1, <2>2
<1>4. r # <<>>
  BY <1>1
<1>. QED
  BY <1>1, <1>3, <1>4 DEF r

\* A sequence with another last element.
LEMMA LastReplaced ==
    ASSUME NEW S, NEW s \in Seq(S), s # <<>>, NEW e \in S
    PROVE  /\ [s EXCEPT ![Len(s)] = e] \in Seq(S)
           /\ Len([s EXCEPT ![Len(s)] = e]) = Len(s)
           /\ DOMAIN [s EXCEPT ![Len(s)] = e] = DOMAIN s
<1>1. Len(s) \in 1 .. Len(s)
  BY EmptySeq, LenProperties
<1>. QED
  BY <1>1, ExceptSeq, LenProperties

LEMMA LastOfAppend ==
    ASSUME NEW S, NEW s \in Seq(S), NEW e \in S, NEW u \in S
    PROVE  [Append(s, e) EXCEPT ![Len(s) + 1] = u] = Append(s, u)
<1>. DEFINE a == [Append(s, e) EXCEPT ![Len(s) + 1] = u]
            b == Append(s, u)
<1>1. /\ Append(s, e) \in Seq(S) /\ Len(Append(s, e)) = Len(s) + 1 /\ Len(s) \in Nat
      /\ DOMAIN Append(s, e) = 1 .. Len(s) + 1
      /\ \A i \in 1 .. Len(s) : Append(s, e)[i] = s[i]
  BY AppendProperties, LenProperties
<1>2. /\ b \in Seq(S) /\ Len(b) = Len(s) + 1 /\ b[Len(s) + 1] = u
      /\ \A i \in 1 .. Len(s) : b[i] = s[i]
  BY AppendProperties
<1>3. Len(s) + 1 \in 1 .. Len(Append(s, e))
  BY <1>1
<1>4. /\ a \in Seq(S) /\ Len(a) = Len(s) + 1
      /\ \A i \in 1 .. Len(s) + 1 : a[i] = IF i = Len(s) + 1 THEN u ELSE Append(s, e)[i]
  <2>1. PICK r \in Seq(S) : r = Append(s, e)
    BY <1>1
  <2>2. PICK k \in 1 .. Len(r) : k = Len(s) + 1
    BY <1>3, <2>1
  <2>3. /\ [r EXCEPT ![k] = u] \in Seq(S) /\ Len([r EXCEPT ![k] = u]) = Len(r)
        /\ \A j \in 1 .. Len(r) : [r EXCEPT ![k] = u][j] = IF j = k THEN u ELSE r[j]
    BY ExceptSeq
  <2>. QED
    BY <1>1, <2>1, <2>2, <2>3
<1>. HIDE DEF a, b
<1>5. \A i \in 1 .. Len(a) : a[i] = b[i]
  BY <1>1, <1>2, <1>4
<1>. QED
  BY <1>2, <1>4, <1>5, SeqEqual DEF a, b

\* A line goes to the end of the log, or into a last line without an end.
LEMMA WriteOK ==
    ASSUME EventLogOK, NEW l \in LineSet, l = Events!Unparsed \/ l.seq <= Len(log),
           Events!WriteLine(l)
    PROVE  /\ log' \in Seq(LineSet) /\ log' # <<>> /\ lost' \in BOOLEAN
           /\ \A i \in DOMAIN log' : log'[i] = Events!Unparsed \/ log'[i].seq < i
           /\ Len(log') \in Nat /\ Len(log) <= Len(log')
<1>1. log' = Events!Written(l) /\ lost' = (lost \/ Events!Spoils)
  BY DEF Events!WriteLine
<1>2. lost' \in BOOLEAN
  BY <1>1 DEF EventLogOK, Events!Spoils
<1>3. Len(log) \in Nat /\ DOMAIN log = 1 .. Len(log)
  BY LenProperties DEF EventLogOK
<1>4. CASE torn
  <2>1. log' = [log EXCEPT ![Len(log)] = Events!Unparsed]
    BY <1>1, <1>4 DEF Events!Written
  <2>2. log' \in Seq(LineSet) /\ Len(log') = Len(log) /\ DOMAIN log' = DOMAIN log
    <3>1. Events!Unparsed \in LineSet /\ log \in Seq(LineSet) /\ log # <<>>
      BY <1>4 DEF LineSet, EventLogOK
    <3>. QED
      BY <2>1, <3>1, LastReplaced
  <2>3. log' # <<>>
    BY <1>3, <1>4, <2>2, EmptySeq DEF EventLogOK
  <2>4. \A i \in DOMAIN log' : log'[i] = Events!Unparsed \/ log'[i].seq < i
    BY <1>3, <2>1, <2>2 DEF EventLogOK
  <2>. QED
    BY <1>2, <1>3, <2>2, <2>3, <2>4
<1>5. CASE ~ torn
  <2>1. log' = Append(log, l)
    BY <1>1, <1>5 DEF Events!Written
  <2>. QED
    BY <1>2, <1>3, <2>1, Grown
<1>. QED
  BY <1>4, <1>5 DEF EventLogOK

\* A longer log leaves the checkpoints within their range.
LEMMA FilesStay ==
    ASSUME NEW files, NEW m \in Nat, NEW m1 \in Nat, m <= m1, FilesOK(files, m)
    PROVE  FilesOK(files, m1)
BY DEF FilesOK

LEMMA AppendWriteType ==
    ASSUME EventTypeInv, NEW c \in Callers, Events!AppendWrite(c)
    PROVE  EventTypeInv'
<1>. DEFINE q == evCall[c]
            r == IF q.task = Events!NoTask THEN Events!Idle ELSE [q EXCEPT !.pc = "back"]
<1>1. /\ q.pc = "write" /\ Events!WriteLine(q.event) /\ torn' = FALSE /\ Events!Goto(c, r)
      /\ UNCHANGED <<garbled, cps, next, crashes, acked>>
  BY DEF Events!AppendWrite
<1>2. /\ q.event \in EventSet /\ q.task \in MaybeTask
      /\ q.event.seq <= Len(log) /\ q.event.id \in 1 .. next
      /\ q = [pc |-> q.pc, task |-> q.task, event |-> q.event]
  BY <1>1, CallShapes DEF EventTypeInv
<1>3. EventLogOK /\ Len(log) \in Nat /\ next \in Nat
  BY LenProperties DEF EventTypeInv, EventLogOK
<1>4. EventLogOK' /\ Len(log)' \in Nat /\ Len(log) <= Len(log)'
  <2>1. q.event \in LineSet
    BY <1>2 DEF LineSet
  <2>2. /\ log' \in Seq(LineSet) /\ lost' \in BOOLEAN /\ ~ torn' /\ garbled' \in BOOLEAN
        /\ \A i \in DOMAIN log' : log'[i] = Events!Unparsed \/ log'[i].seq < i
        /\ Len(log') \in Nat /\ Len(log) <= Len(log')
    BY <1>1, <1>2, <1>3, <2>1, WriteOK DEF EventLogOK
  <2>. QED
    BY <1>1, <2>2 DEF EventLogOK
<1>5. EventCallOK(r, Len(log)', next')
  <2>1. CASE q.task = Events!NoTask
    BY <2>1, EventIdleOK
  <2>2. CASE q.task # Events!NoTask
    <3>1. r = [pc |-> "back", task |-> q.task, event |-> q.event]
      BY <1>2, <2>2
    <3>2. q.event.seq <= Len(log)' /\ q.event.seq \in Nat /\ q.event.id \in 1 .. next'
      BY <1>1, <1>2, <1>3, <1>4 DEF EventSet
    <3>3. q.task \in TaskSet
      BY <1>2, <2>2 DEF MaybeTask
    <3>. HIDE DEF q, r
    <3>. QED
      BY <1>2, <3>1, <3>2, <3>3 DEF EventCallOK
  <2>. QED
    BY <2>1, <2>2
<1>6. FilesOK(cps', Len(log)')
  BY <1>1, <1>3, <1>4, FilesStay DEF EventTypeInv
<1>. HIDE DEF q, r
<1>7. DOMAIN evCall' = Callers /\ \A d \in Callers : EventCallOK(evCall'[d], Len(log)', next')
  BY <1>1, <1>3, <1>4, <1>5, GotoOK
<1>. QED
  BY <1>1, <1>4, <1>6, <1>7 DEF EventTypeInv

\* The event read back is an event of the log with the seq that was looked for.
LEMMA FoundEvent ==
    ASSUME EventLogOK, NEW q, q.event \in EventSet, Events!Found(q) # {}
    PROVE  LET s == q.event.seq
               i == Events!Min(Events!Found(q)) IN
           /\ i \in DOMAIN Events!ReadFrom(s)
           /\ Events!ReadFrom(s)[i] \in EventSet /\ Events!ReadFrom(s)[i].seq = s
<1>. DEFINE s == q.event.seq
            E == Events!ReadFrom(s)
            F == Events!Found(q)
<1>1. s \in Nat
  BY DEF EventSet
<1>2. E \in Seq(EventSet) /\ DOMAIN E \subseteq Nat
  <2>1. E \in Seq(EventSet)
    BY <1>1, ReadFromType
  <2>2. DOMAIN E = 1 .. Len(E) /\ Len(E) \in Nat
    BY <2>1, LenProperties
  <2>. QED
    BY <2>1, <2>2
<1>3. F = {i \in DOMAIN E : E[i].seq = s}
  BY DEF Events!Found
<1>. HIDE DEF E, F, s
<1>4. PICK x \in F : \A y \in F : x <= y
  <2>1. F # {} /\ F \subseteq Nat
    BY <1>2, <1>3 DEF F
  <2>. QED
    BY <2>1, LeastOf
<1>5. Events!Min(F) \in F
  BY <1>4 DEF Events!Min
<1>6. Events!Min(F) \in DOMAIN E /\ E[Events!Min(F)] \in EventSet /\ E[Events!Min(F)].seq = s
  BY <1>2, <1>3, <1>5
<1>. QED
  BY <1>6 DEF E, F, s

LEMMA ReadBackType ==
    ASSUME EventTypeInv, NEW c \in Callers, Events!ReadBack(c)
    PROVE  EventTypeInv'
<1>. DEFINE q == evCall[c]
            e == Events!ReadFrom(q.event.seq)[Events!Min(Events!Found(q))]
            r == IF Events!Accepts(q.task, e) /\ Events!ShouldCheckpoint(1, e)
                 THEN [pc |-> "save", seq |-> q.event.seq, task |-> Events!Reduce(q.task, e)]
                 ELSE Events!Idle
<1>1. /\ q.pc = "back" /\ UNCHANGED <<log, torn, garbled, lost, cps, next, crashes>>
      /\ \/ /\ Events!Found(q) = {} /\ Events!Goto(c, Events!Idle) /\ acked' = acked
         \/ /\ Events!Found(q) # {} /\ Events!Goto(c, r)
            /\ acked' = acked \/ acked' = acked \cup {q.event.id}
  BY DEF Events!ReadBack, Events!Answer, Events!file
<1>2. /\ q.event \in EventSet /\ q.task \in TaskSet
      /\ q.event.seq <= Len(log) /\ q.event.id \in 1 .. next
  BY <1>1, CallShapes DEF EventTypeInv
<1>3. acked' \subseteq 1 .. next'
  BY <1>1, <1>2 DEF EventTypeInv
<1>4. ASSUME Events!Found(q) # {} PROVE EventCallOK(r, Len(log)', next')
  <2>1. e \in EventSet
    BY <1>2, <1>4, FoundEvent DEF EventTypeInv
  <2>2. Events!Reduce(q.task, e) \in TaskSet
    BY <1>2, <2>1, ReduceType
  <2>3. q.event.seq \in 0 .. Len(log)' /\ Len(log)' = Len(log)
    BY <1>1, <1>2, LogStays DEF EventSet
  <2>. HIDE DEF e, q
  <2>. QED
    BY <2>2, <2>3 DEF EventCallOK
<1>. HIDE DEF q, r
<1>5. DOMAIN evCall' = Callers /\ \A d \in Callers : EventCallOK(evCall'[d], Len(log)', next')
  BY <1>1, <1>4, EventIdleOK, LogStays, GotoOK
<1>. QED
  BY <1>1, <1>3, <1>5, LogStays DEF EventTypeInv

LEMMA SaveCheckpointType ==
    ASSUME EventTypeInv, NEW c \in Callers, Events!SaveCheckpoint(c)
    PROVE  EventTypeInv'
<1>. DEFINE q == evCall[c]
<1>1. /\ q.pc = "save" /\ cps' = Events!Saved(cps, q.seq, q.task) /\ Events!Goto(c, Events!Idle)
      /\ UNCHANGED <<log, torn, garbled, lost, next, crashes, acked>>
  BY DEF Events!SaveCheckpoint, Events!file
<1>2. q.seq \in 0 .. Len(log) /\ q.task \in TaskSet
  BY <1>1, CallShapes DEF EventTypeInv
<1>3. FilesOK(cps', Len(log)')
  BY <1>1, <1>2, LogStays, SavedOK DEF EventTypeInv
<1>. HIDE DEF q
<1>4. DOMAIN evCall' = Callers /\ \A d \in Callers : EventCallOK(evCall'[d], Len(log)', next')
  BY <1>1, EventIdleOK, LogStays, GotoOK
<1>. QED
  BY <1>1, <1>3, <1>4, LogStays DEF EventTypeInv

LEMMA CrashType ==
    ASSUME EventTypeInv, Events!Crash
    PROVE  EventTypeInv'
<1>1. /\ crashes' \in 0 .. MaxCrashes /\ UNCHANGED <<next, acked>>
      /\ evCall' = [c \in Callers |-> Events!Idle]
  BY EventsAssumption DEF Events!Crash, EventTypeInv
<1>2. DOMAIN evCall' = Callers /\ \A d \in Callers : EventCallOK(evCall'[d], Len(log)', next')
  BY <1>1, EventIdleOK
<1>3. EventLogOK /\ Len(log) \in Nat /\ FilesOK(cps, Len(log))
  BY LenProperties DEF EventTypeInv, EventLogOK
<1>4. EventLogOK' /\ FilesOK(cps', Len(log)')
  <2>1. CASE UNCHANGED <<log, torn, garbled, lost, cps>>
    BY <1>3, <2>1 DEF EventLogOK
  <2>2. ASSUME NEW c \in Callers, Events!CutShort(c) PROVE EventLogOK' /\ FilesOK(cps', Len(log)')
    <3>1. PICK l \in {Events!Unparsed, evCall[c].event} :
             /\ Events!WriteLine(l) /\ torn' = TRUE
             /\ garbled' \in {garbled, garbled \/ l = Events!Unparsed}
      BY <2>2 DEF Events!CutShort
    <3>2. evCall[c].pc = "write" /\ cps' = cps
      BY <2>2 DEF Events!CutShort
    <3>3. evCall[c].event \in EventSet /\ evCall[c].event.seq <= Len(log)
      BY <3>2, CallShapes DEF EventTypeInv
    <3>4. l \in LineSet /\ (l = Events!Unparsed \/ l.seq <= Len(log))
      BY <3>1, <3>3 DEF LineSet
    <3>5. /\ log' \in Seq(LineSet) /\ log' # <<>> /\ lost' \in BOOLEAN
          /\ \A i \in DOMAIN log' : log'[i] = Events!Unparsed \/ log'[i].seq < i
          /\ Len(log') \in Nat /\ Len(log) <= Len(log')
      BY <1>3, <3>1, <3>4, WriteOK
    <3>6. garbled' \in BOOLEAN
      BY <1>3, <3>1 DEF EventLogOK
    <3>7. EventLogOK'
      BY <3>1, <3>5, <3>6 DEF EventLogOK
    <3>. QED
      BY <1>3, <3>2, <3>5, <3>7, FilesStay
  <2>3. CASE /\ UNCHANGED <<log, torn, garbled, lost>>
             /\ \E c \in Callers : /\ evCall[c].pc = "save"
                                   /\ cps' = Events!Saved(cps, evCall[c].seq, Events!Corrupt)
    <3>1. PICK c \in Callers : /\ evCall[c].pc = "save"
                               /\ cps' = Events!Saved(cps, evCall[c].seq, Events!Corrupt)
      BY <2>3
    <3>2. evCall[c].seq \in 0 .. Len(log)
      BY <3>1, CallShapes DEF EventTypeInv
    <3>3. FilesOK(cps', Len(log))
      BY <1>3, <3>1, <3>2, SavedOK
    <3>. QED
      BY <2>3, <3>3, LogStays
  <2>. QED
    BY <2>1, <2>2, <2>3 DEF Events!Crash, Events!file
<1>. QED
  BY <1>1, <1>2, <1>4 DEF EventTypeInv

\* Every step keeps the type invariant, ...
LEMMA NextEventTypeInv == EventTypeInv /\ [Events!Next]_(Events!vars) => EventTypeInv'
<1>. SUFFICES ASSUME EventTypeInv, [Events!Next]_(Events!vars) PROVE EventTypeInv'
  OBVIOUS
<1>1. CASE UNCHANGED Events!vars
  BY <1>1 DEF Events!vars, Events!file, EventTypeInv, EventLogOK
<1>2. CASE Events!Next
  BY <1>2, CreateFromSpecType, TransitionType, ReplayActionType, ReadFailsType,
     AppendCountType,
     AppendWriteType, ReadBackType, SaveCheckpointType, CrashType DEF Events!Next
<1>. QED
  BY <1>1, <1>2

\* ... so it holds for ever, ...
LEMMA AlwaysEventTypeInv == Events!Spec => []EventTypeInv
BY InitEventTypeInv, NextEventTypeInv, PTL DEF Events!Spec

\* ... and the types follow from it.
LEMMA EventTypes == EventTypeInv => Events!TypeOK
<1>. SUFFICES ASSUME EventTypeInv PROVE Events!TypeOK
  OBVIOUS
<1>1. \A n \in DOMAIN cps : cps[n] = Events!Corrupt \/ cps[n].state \in Events!States
  BY DEF EventTypeInv, FilesOK, TaskSet
<1>2. /\ \A i \in DOMAIN log : log[i] = Events!Unparsed \/ log[i].seq < i
      /\ torn \in BOOLEAN /\ (torn => log # <<>>)
      /\ garbled \in BOOLEAN /\ lost \in BOOLEAN
  BY DEF EventTypeInv, EventLogOK
<1>. QED
  BY <1>1, <1>2 DEF EventTypeInv, Events!TypeOK

-----------------------------------------------------------------------------
(***************************************************************************)
(* Recovery.  What a restart reads is exact as long as the appends to the  *)
(* log come one at a time; the run TaskReplay shows two that do not.       *)
(***************************************************************************)

\* The task after the first n events.
TaskAt(E, n) == Events!After(Events!Initial, SubSeq(E, 1, n))

\* The task of a checkpoint at seq n is the one after the event of that seq.
ExactAt(E, n, task) == n \in 0 .. Len(E) - 1 /\ task = TaskAt(E, n + 1) /\ task.seq = n

\* Every checkpoint that parses is exact.
FilesExact(E, files) ==
    \A n \in DOMAIN files : files[n] = Events!Corrupt \/ ExactAt(E, n, files[n])

\* What an append goes on from: no task and TaskCreated, or the task of the log.
Current(E, kind, task) ==
    \/ task = Events!NoTask /\ kind = "pending"
    \/ E # <<>> /\ task = TaskAt(E, Len(E))

\* The event at work of a call has the seq of the next event and an id that no one
\* has acknowledged, or it is the last event, or its line is lost.
CallNumbered(E, q, ids, cut) ==
    /\ q.pc = "write" => q.event.seq = Len(E) /\ q.event.id \notin ids
    /\ q.pc = "back" => /\ ~ cut
                        /\ \/ q.event.seq >= Len(E)
                           \/ /\ Len(E) # 0 /\ q.event.seq = Len(E) - 1
                              /\ E[Len(E)] = q.event

\* What a call has in hand agrees with the events that are in the log: the task it
\* replayed, the one it appends to and the checkpoint it saves.
CallExact(E, q) ==
    /\ q.pc = "replay" => q.cp = Events!NoTask \/ ExactAt(E, q.cp.seq, q.cp)
    /\ q.pc = "count" => Current(E, q.kind, q.task)
    /\ q.pc = "write" => Current(E, q.event.kind, q.task)
    /\ q.pc = "back" => (q.event.seq < Len(E) => q.task = TaskAt(E, Len(E) - 1))
    /\ q.pc = "save" => ExactAt(E, q.seq, q.task)

\* The first event is TaskCreated.
Begun(E) == E # <<>> => E[1].kind = "pending"

\* Nobody has acknowledged the event of a line without an end.
CutIsOpen(lines, ids, cut) ==
    cut /\ lines[Len(lines)] # Events!Unparsed => lines[Len(lines)].id \notin ids

\* The seqs of the log and of the calls agree, ...
CallsNumbered(E) ==
    /\ Gapless(E) /\ CutIsOpen(log, acked, torn)
    /\ \A c \in Callers : CallNumbered(E, evCall[c], acked, torn)

\* ... and so do the log, its checkpoints and the calls, ...
Exact(E) ==
    /\ Begun(E) /\ FilesExact(E, cps)
    /\ \A c \in Callers : CallExact(E, evCall[c])

\* ... the latter while no event has been written into.
ExactInv ==
    /\ CallsNumbered(Events!ParsedFrom(log, 0)) /\ Events!AckedIsLogged
    /\ ~ lost => Exact(Events!ParsedFrom(log, 0))

\* No two calls append to the log at the same time: "concurrent appends from
\* multiple tasks are safe at the file-system level (different files per task)"
\* (event_log.rs:46).  Replays may go on beside an append.
Appending == {"count", "write", "back"}
OneAppendAtATime ==
    \A c, d \in Callers : evCall[c].pc \in Appending /\ evCall[d].pc \in Appending => c = d

-----------------------------------------------------------------------------
\* The task after all events.
LEMMA TaskAtLen ==
    ASSUME NEW E \in Seq(EventSet)
    PROVE  TaskAt(E, Len(E)) = Events!After(Events!Initial, E)
<1>1. SubSeq(E, 1, Len(E)) = E
  BY SubSeqFull
<1>. QED
  BY <1>1 DEF TaskAt

\* It is a task.
LEMMA TaskAtType ==
    ASSUME NEW E \in Seq(EventSet), NEW n \in 0 .. Len(E)
    PROVE  TaskAt(E, n) \in TaskSet
<1>1. SubSeq(E, 1, n) \in Seq(EventSet)
  OBVIOUS
<1>. QED
  BY <1>1, AfterType, InitialType DEF TaskAt

\* One event further.
LEMMA TaskAtNext ==
    ASSUME NEW E \in Seq(EventSet), NEW k \in 0 .. Len(E) - 1
    PROVE  TaskAt(E, k + 1) = Events!Skipping(TaskAt(E, k), E[k + 1])
<1>1. SubSeq(E, 1, k + 1) = Append(SubSeq(E, 1, k), E[k + 1])
  BY OneFurther
<1>2. SubSeq(E, 1, k) \in Seq(EventSet) /\ E[k + 1] \in EventSet
  OBVIOUS
<1>3. ASSUME NEW s \in Seq(EventSet), NEW e \in EventSet
      PROVE  Events!After(Events!Initial, Append(s, e)) =
             Events!Skipping(Events!After(Events!Initial, s), e)
  BY AfterAppend
<1>4. Events!After(Events!Initial, Append(SubSeq(E, 1, k), E[k + 1])) =
      Events!Skipping(Events!After(Events!Initial, SubSeq(E, 1, k)), E[k + 1])
  BY ONLY <1>2, <1>3
<1>. QED
  BY <1>1, <1>4 DEF TaskAt

\* One event more leaves the tasks before it as they are.
LEMMA TaskAtStays ==
    ASSUME NEW E \in Seq(EventSet), NEW e \in EventSet, NEW n \in 0 .. Len(E)
    PROVE  TaskAt(Append(E, e), n) = TaskAt(E, n)
BY PrefixOfAppend DEF TaskAt

\* One event more leaves an exact checkpoint exact.
LEMMA ExactStays ==
    ASSUME NEW E \in Seq(EventSet), NEW e \in EventSet, NEW n, NEW t, ExactAt(E, n, t)
    PROVE  ExactAt(Append(E, e), n, t)
<1>1. Len(Append(E, e)) = Len(E) + 1 /\ Len(E) \in Nat
  BY AppendProperties, LenProperties
<1>2. n \in 0 .. Len(E) - 1 /\ n + 1 \in 0 .. Len(E) /\ t = TaskAt(E, n + 1) /\ t.seq = n
  BY <1>1 DEF ExactAt
<1>3. TaskAt(Append(E, e), n + 1) = TaskAt(E, n + 1)
  BY <1>2, TaskAtStays
<1>. QED
  BY <1>1, <1>2, <1>3 DEF ExactAt

-----------------------------------------------------------------------------
\* replay's loop from an exact checkpoint on.
LEMMA ReplayOverExact ==
    ASSUME NEW E \in Seq(EventSet), Gapless(E), NEW files, FilesExact(E, files),
           NEW m \in 0 .. Len(E) - 1, NEW acc,
           acc = [task |-> TaskAt(E, m + 1), since |-> 0, files |-> files],
           NEW over, over = Events!ReplayOver(acc, SubSeq(E, m + 2, Len(E)))
    PROVE  over.task = TaskAt(E, Len(E)) /\ FilesExact(E, over.files)
<1>0. Len(E) \in Nat /\ DOMAIN E = 1 .. Len(E) /\ m \in Nat /\ m + 2 \in Nat
  BY LenProperties
<1>. DEFINE Over(k) == Events!ReplayOver(acc, SubSeq(E, m + 2, k))
            Good(k) == Over(k).task = TaskAt(E, k) /\ FilesExact(E, Over(k).files)
            T == {j \in Nat : m + 1 + j <= Len(E) => Good(m + 1 + j)}
<1>1. 0 \in T
  <2>1. SubSeq(E, m + 2, m + 1) = <<>>
    BY <1>0
  <2>2. Over(m + 1) = acc
    BY <2>1, ReplayOverEmpty
  <2>3. acc.task = TaskAt(E, m + 1) /\ acc.files = files
    OBVIOUS
  <2>. HIDE DEF Over
  <2>4. Good(m + 1)
    BY <2>2, <2>3
  <2>5. m + 1 + 0 = m + 1
    BY <1>0
  <2>. HIDE DEF Good
  <2>. QED
    BY <2>4, <2>5
<1>2. ASSUME NEW j \in Nat, j \in T PROVE j + 1 \in T
  <2>. DEFINE k == m + 1 + j
              e == E[k + 1]
  <2>. SUFFICES ASSUME k + 1 <= Len(E) PROVE Good(k + 1)
    <3>1. m + 1 + (j + 1) = k + 1 /\ j + 1 \in Nat
      BY <1>0
    <3>. HIDE DEF Good, k
    <3>. QED
      BY <3>1
  <2>1. k \in Nat /\ k \in 0 .. Len(E) - 1 /\ m + 2 \in 1 .. k + 1 /\ k + 1 \in DOMAIN E
        /\ k <= Len(E) /\ k \in 0 .. Len(E)
    BY <1>0
  <2>2. Good(k)
    <3>. HIDE DEF Good
    <3>. QED
      BY <1>2, <2>1
  <2>. HIDE DEF k
  <2>3. e \in EventSet /\ e.seq = k
    BY <2>1 DEF Gapless
  <2>4. SubSeq(E, m + 2, k + 1) = Append(SubSeq(E, m + 2, k), e)
    BY <2>1, OneFurther
  <2>5. SubSeq(E, m + 2, k) \in Seq(EventSet)
    BY <1>0, <2>1
  <2>6. Over(k + 1) = Events!ReplayStep(Over(k), e)
    <3>0. ASSUME NEW s \in Seq(EventSet), NEW x \in EventSet
          PROVE  Events!ReplayOver(acc, Append(s, x)) =
                 Events!ReplayStep(Events!ReplayOver(acc, s), x)
      BY ReplayOverAppend
    <3>1. Events!ReplayOver(acc, Append(SubSeq(E, m + 2, k), e)) =
          Events!ReplayStep(Events!ReplayOver(acc, SubSeq(E, m + 2, k)), e)
      BY ONLY <2>3, <2>5, <3>0
    <3>. QED
      BY <2>4, <3>1
  <2>7. TaskAt(E, k + 1) = Events!Skipping(TaskAt(E, k), e)
    BY <2>1, TaskAtNext
  <2>8. TaskAt(E, k) \in TaskSet
    BY <2>1, TaskAtType
  <2>. DEFINE a == Over(k)
              b == Over(k + 1)
              t == Events!Reduce(a.task, e)
  <2>9. a.task = TaskAt(E, k) /\ FilesExact(E, a.files) /\ b = Events!ReplayStep(a, e)
    BY <2>2, <2>6
  <2>. HIDE DEF Over, a, b, e
  <2>10. b.task = TaskAt(E, k + 1) /\ FilesExact(E, b.files)
    <3>1. CASE ~ Events!Accepts(a.task, e)
      BY <2>7, <2>9, <3>1 DEF Events!ReplayStep, Events!Skipping
    <3>2. CASE Events!Accepts(a.task, e)
      <4>1. t = TaskAt(E, k + 1) /\ t.seq = k
        BY <2>3, <2>7, <2>8, <2>9, <3>2, ReduceType DEF Events!Skipping
      <4>2. ExactAt(E, k, t)
        BY <2>1, <4>1 DEF ExactAt
      <4>3. FilesExact(E, Events!Saved(a.files, e.seq, t))
        BY <2>3, <2>9, <4>2 DEF FilesExact, Events!Saved
      <4>4. \/ b = [task |-> t, since |-> 0, files |-> Events!Saved(a.files, e.seq, t)]
            \/ b = [task |-> t, since |-> a.since + 1, files |-> a.files]
        BY <2>9, <3>2 DEF Events!ReplayStep
      <4>. HIDE DEF t
      <4>. QED
        BY <2>9, <4>1, <4>3, <4>4
    <3>. QED
      BY <3>1, <3>2
  <2>. QED
    BY <2>10 DEF b
<1>3. Good(Len(E))
  <2>1. \A j \in Nat : j \in T => j + 1 \in T
    BY <1>2
  <2>. HIDE DEF T
  <2>2. Nat \subseteq T
    BY <1>1, <2>1, InductionOn
  <2>3. PICK j \in Nat : m + 1 + j = Len(E)
    <3>1. Len(E) - (m + 1) \in Nat /\ m + 1 + (Len(E) - (m + 1)) = Len(E)
      BY <1>0
    <3>. QED
      BY <3>1
  <2>. HIDE DEF Good
  <2>4. m + 1 + j <= Len(E) => Good(m + 1 + j)
    BY <2>2 DEF T
  <2>. QED
    BY <1>0, <2>3, <2>4
<1>. QED
  BY <1>3

\* The events of the log.
LEMMA LogEvents ==
    ASSUME EventTypeInv
    PROVE  /\ Events!ParsedFrom(log, 0) \in Seq(EventSet) /\ Len(Events!ParsedFrom(log, 0)) \in Nat
           /\ Events!ReadFrom(0) = Events!ParsedFrom(log, 0) /\ log \in Seq(LineSet)
BY ReadFromType DEF EventTypeInv, EventLogOK, Events!ReadFrom

\* The task of the whole log, when the log begins with TaskCreated.
LEMMA FoldLogExact ==
    ASSUME EventTypeInv, NEW E, E = Events!ParsedFrom(log, 0), Begun(E)
    PROVE  /\ E = <<>> => Events!FoldLog = Events!NoTask
           /\ E # <<>> => Events!FoldLog = TaskAt(E, Len(E))
<1>1. E \in Seq(EventSet) /\ Events!ReadFrom(0) = E
  BY LogEvents
<1>2. TaskAt(E, Len(E)) = Events!After(Events!Initial, E)
  BY <1>1, TaskAtLen
<1>. QED
  BY <1>1, <1>2 DEF Events!FoldLog, Begun

\* A replay gives the task of the whole log, and its checkpoints are exact.
LEMMA ReplayExact ==
    ASSUME EventTypeInv, NEW E, E = Events!ParsedFrom(log, 0), Gapless(E), Begun(E),
           FilesExact(E, cps), NEW cp,
           cp = Events!NoTask \/ (cp \in TaskSet /\ ExactAt(E, cp.seq, cp))
    PROVE  /\ Events!Replayed(cp) = Events!FoldLog
           /\ cp # Events!NoTask => FilesExact(E, Events!ReplayTail(cp).files)
<1>1. CASE cp = Events!NoTask
  BY <1>1 DEF Events!Replayed
<1>2. CASE cp # Events!NoTask
  <2>. DEFINE m == cp.seq
              acc == [task |-> cp, since |-> 0, files |-> cps]
              over == Events!ReplayTail(cp)
  <2>1. E \in Seq(EventSet) /\ Len(E) \in Nat /\ log \in Seq(LineSet)
    BY LogEvents
  <2>2. m \in 0 .. Len(E) - 1 /\ cp = TaskAt(E, m + 1) /\ m + 1 \in Nat
    BY <1>2, <2>1 DEF ExactAt
  <2>3. Events!ReplayFrom(cp) = SubSeq(E, m + 2, Len(E))
    <3>1. Events!ReplayFrom(cp) = Events!ParsedFrom(log, m + 1)
      BY DEF Events!ReplayFrom, Events!ReadFrom
    <3>2. Events!ParsedFrom(log, m + 1) = SubSeq(E, (m + 1) + 1, Len(E))
      BY <2>1, <2>2, ParsedTail
    <3>3. (m + 1) + 1 = m + 2
      BY <2>2
    <3>. QED
      BY <3>1, <3>2, <3>3
  <2>4. over = Events!ReplayOver(acc, SubSeq(E, m + 2, Len(E)))
    BY <2>3 DEF Events!ReplayTail
  <2>5. acc = [task |-> TaskAt(E, m + 1), since |-> 0, files |-> cps]
    BY <2>2
  <2>. HIDE DEF over, acc, m
  <2>6. over.task = TaskAt(E, Len(E)) /\ FilesExact(E, over.files)
    BY <2>1, <2>2, <2>4, <2>5, ReplayOverExact
  <2>7. E # <<>>
    BY <2>1, <2>2
  <2>. QED
    BY <1>2, <2>6, <2>7, FoldLogExact DEF Events!Replayed, over
<1>. QED
  BY <1>1, <1>2

\* What load_latest finds is exact.
LEMMA LoadLatestExact ==
    ASSUME EventTypeInv, NEW E, FilesExact(E, cps)
    PROVE  \/ Events!LoadLatest = Events!NoTask
           \/ /\ Events!LoadLatest \in TaskSet
              /\ ExactAt(E, Events!LoadLatest.seq, Events!LoadLatest)
<1>. SUFFICES ASSUME Events!LoadLatest # Events!NoTask
              PROVE  /\ Events!LoadLatest \in TaskSet
                     /\ ExactAt(E, Events!LoadLatest.seq, Events!LoadLatest)
  OBVIOUS
<1>1. Len(log) \in Nat /\ FilesOK(cps, Len(log))
  BY LenProperties DEF EventTypeInv, EventLogOK
<1>2. PICK n \in Events!Usable : Events!LoadLatest = cps[n] /\ cps[n] \in TaskSet
  BY <1>1, LoadLatestType
<1>3. ExactAt(E, n, cps[n])
  BY <1>2 DEF Events!Usable, FilesExact
<1>. QED
  BY <1>2, <1>3 DEF ExactAt

\* The inductive invariant is as strong as what a restart relies on.
LEMMA ExactIsExact == EventTypeInv /\ ExactInv => Events!RecoveryIsExact
<1>. SUFFICES ASSUME EventTypeInv, ExactInv PROVE Events!RecoveryIsExact
  OBVIOUS
<1>1. PICK E : E = Events!ParsedFrom(log, 0)
  OBVIOUS
<1>2. Gapless(E) /\ (~ lost => Begun(E) /\ FilesExact(E, cps)) /\ Events!AckedIsLogged
  BY <1>1 DEF ExactInv, CallsNumbered, Exact
<1>3. ASSUME ~ lost PROVE Events!ReplayEqualsFold
  <2>1. PICK cp : cp = Events!LoadLatest
    OBVIOUS
  <2>2. cp = Events!NoTask \/ (cp \in TaskSet /\ ExactAt(E, cp.seq, cp))
    BY <1>2, <1>3, <2>1, LoadLatestExact
  <2>3. Events!Replayed(cp) = Events!FoldLog
    BY <1>1, <1>2, <1>3, <2>2, ReplayExact
  <2>. QED
    BY <2>1, <2>3 DEF Events!ReplayEqualsFold
<1>. QED
  BY <1>2, <1>3 DEF Events!RecoveryIsExact

-----------------------------------------------------------------------------
\* It holds of an empty log, ...
LEMMA InitExact == Events!Init => ExactInv
<1>. SUFFICES ASSUME Events!Init PROVE ExactInv
  OBVIOUS
<1>1. Events!ParsedFrom(log, 0) = <<>>
  BY ParsedFromEmpty DEF Events!Init
<1>2. Gapless(<<>>) /\ Begun(<<>>)
  BY DEF Gapless, Begun
<1>3. FilesExact(<<>>, cps)
  BY DEF Events!Init, FilesExact
<1>4. \A c \in Callers : evCall[c].pc = "idle"
  BY DEF Events!Init, Events!Idle
<1>5. \A c \in Callers : /\ CallExact(<<>>, evCall[c])
                          /\ CallNumbered(<<>>, evCall[c], acked, torn)
  BY <1>4 DEF CallExact, CallNumbered
<1>6. Events!AckedIsLogged /\ CutIsOpen(log, acked, torn)
  BY DEF Events!Init, Events!AckedIsLogged, CutIsOpen
<1>. QED
  BY <1>1, <1>2, <1>3, <1>5, <1>6 DEF ExactInv, Exact, CallsNumbered

\* A step of one call that leaves the log alone.
LEMMA StepExact ==
    ASSUME EventTypeInv, ExactInv, NEW c \in Callers, NEW q, Events!Goto(c, q),
           NEW E, E = Events!ParsedFrom(log, 0), UNCHANGED <<log, torn, lost>>,
           CallNumbered(E, q, acked', torn),
           \/ acked' = acked
           \/ ~ torn /\ \A d \in Callers : evCall[d].pc = "write" => d = c,
           ~ lost => FilesExact(E, cps') /\ CallExact(E, q),
           Events!AckedIsLogged'
    PROVE  ExactInv'
<1>1. Events!ParsedFrom(log', 0) = E
  OBVIOUS
<1>2. Gapless(E) /\ CutIsOpen(log, acked, torn) /\ (~ lost => Begun(E))
  BY DEF ExactInv, Exact, CallsNumbered
<1>3. evCall' = [evCall EXCEPT ![c] = q] /\ DOMAIN evCall = Callers
  BY DEF Events!Goto, EventTypeInv
<1>4. ASSUME NEW d \in Callers
      PROVE  /\ CallNumbered(E, evCall'[d], acked', torn')
             /\ ~ lost => CallExact(E, evCall'[d])
  <2>1. CallNumbered(E, evCall[d], acked, torn) /\ (~ lost => CallExact(E, evCall[d]))
    BY DEF ExactInv, Exact, CallsNumbered
  <2>2. evCall'[d] = IF d = c THEN q ELSE evCall[d]
    BY <1>3
  <2>3. d # c => CallNumbered(E, evCall[d], acked', torn)
    BY <2>1 DEF CallNumbered
  <2>. QED
    BY <2>1, <2>2, <2>3
<1>5. CutIsOpen(log', acked', torn')
  BY <1>2 DEF CutIsOpen
<1>. QED
  BY <1>1, <1>2, <1>4, <1>5 DEF ExactInv, Exact, CallsNumbered

\* A call that has ended.
LEMMA IdleExact ==
    ASSUME NEW E, NEW ids, NEW cut
    PROVE  CallExact(E, Events!Idle) /\ CallNumbered(E, Events!Idle, ids, cut)
<1>1. Events!Idle.pc = "idle"
  BY DEF Events!Idle
<1>. QED
  BY <1>1 DEF CallExact, CallNumbered

\* What is acknowledged stays in a log that stays.
LEMMA AckedStay ==
    ASSUME Events!AckedIsLogged, UNCHANGED <<log, acked>>
    PROVE  Events!AckedIsLogged'
BY DEF Events!AckedIsLogged

\* ... and each statement of the RPCs keeps it.  Only AppendWrite, which changes
\* the log, and ReadBack need the appends to come one at a time.
LEMMA CreateFromSpecExact ==
    ASSUME EventTypeInv, ExactInv, NEW c \in Callers, Events!CreateFromSpec(c)
    PROVE  ExactInv'
<1>. DEFINE q == [pc |-> "count", kind |-> "pending", task |-> Events!NoTask]
<1>1. PICK E : E = Events!ParsedFrom(log, 0)
  OBVIOUS
<1>2. Events!Goto(c, q) /\ UNCHANGED <<log, torn, garbled, lost, cps, next, crashes, acked>>
  BY DEF Events!CreateFromSpec, Events!file
<1>3. CallExact(E, q) /\ CallNumbered(E, q, acked', torn)
  BY DEF CallExact, CallNumbered, Current
<1>4. (~ lost => FilesExact(E, cps')) /\ Events!AckedIsLogged'
  BY <1>1, <1>2, AckedStay DEF ExactInv, Exact
<1>. HIDE DEF q
<1>. QED
  BY <1>1, <1>2, <1>3, <1>4, StepExact

LEMMA TransitionExact ==
    ASSUME EventTypeInv, ExactInv, NEW c \in Callers, NEW kind \in Kinds,
           Events!Transition(c, kind)
    PROVE  ExactInv'
<1>. DEFINE q == [pc |-> "replay", kind |-> kind, cp |-> Events!LoadLatest]
<1>1. PICK E : E = Events!ParsedFrom(log, 0)
  OBVIOUS
<1>2. Events!Goto(c, q) /\ UNCHANGED <<log, torn, garbled, lost, cps, next, crashes, acked>>
  BY DEF Events!Transition, Events!file
<1>3. (~ lost => FilesExact(E, cps') /\ FilesExact(E, cps)) /\ Events!AckedIsLogged'
  BY <1>1, <1>2, AckedStay DEF ExactInv, Exact
<1>4. (~ lost => CallExact(E, q)) /\ CallNumbered(E, q, acked', torn)
  BY <1>3, LoadLatestExact DEF CallExact, CallNumbered
<1>. HIDE DEF q
<1>. QED
  BY <1>1, <1>2, <1>3, <1>4, StepExact

LEMMA ReplayActionExact ==
    ASSUME EventTypeInv, ExactInv, NEW c \in Callers, Events!Replay(c)
    PROVE  ExactInv'
<1>. DEFINE q == evCall[c]
            r == IF Events!Replayed(q.cp) = Events!NoTask THEN Events!Idle
                 ELSE [pc |-> "count", kind |-> q.kind, task |-> Events!Replayed(q.cp)]
<1>1. PICK E : E = Events!ParsedFrom(log, 0)
  OBVIOUS
<1>2. /\ q.pc = "replay" /\ Events!Goto(c, r)
      /\ cps' = IF q.cp = Events!NoTask THEN cps ELSE Events!ReplayTail(q.cp).files
      /\ UNCHANGED <<log, torn, garbled, lost, next, crashes, acked>>
  BY DEF Events!Replay, Events!file
<1>3. Events!AckedIsLogged' /\ Gapless(E)
  BY <1>1, <1>2, AckedStay DEF ExactInv, CallsNumbered
<1>4. CallNumbered(E, r, acked', torn)
  BY IdleExact DEF CallNumbered
<1>5. ASSUME ~ lost PROVE FilesExact(E, cps') /\ CallExact(E, r)
  <2>1. /\ Begun(E) /\ FilesExact(E, cps)
        /\ q.cp = Events!NoTask \/ ExactAt(E, q.cp.seq, q.cp)
    BY <1>1, <1>2, <1>5 DEF ExactInv, Exact, CallExact
  <2>2. q.cp \in MaybeTask
    BY <1>2, CallShapes DEF EventTypeInv
  <2>3. /\ Events!Replayed(q.cp) = Events!FoldLog
        /\ q.cp # Events!NoTask => FilesExact(E, Events!ReplayTail(q.cp).files)
    BY <1>1, <1>3, <2>1, <2>2, ReplayExact DEF MaybeTask
  <2>4. CallExact(E, r)
    BY <1>1, <2>1, <2>3, IdleExact, FoldLogExact DEF CallExact, Current
  <2>. QED
    BY <1>2, <2>1, <2>3, <2>4
<1>. HIDE DEF q, r
<1>. QED
  BY <1>1, <1>2, <1>3, <1>4, <1>5, StepExact

LEMMA ReadFailsExact ==
    ASSUME EventTypeInv, ExactInv, NEW c \in Callers, Events!ReadFails(c)
    PROVE  ExactInv'
<1>1. PICK E : E = Events!ParsedFrom(log, 0)
  OBVIOUS
<1>2. /\ Events!Goto(c, Events!Idle)
      /\ UNCHANGED <<log, torn, garbled, lost, cps, next, crashes, acked>>
  BY DEF Events!ReadFails, Events!file
<1>3. (~ lost => FilesExact(E, cps')) /\ Events!AckedIsLogged'
  BY <1>1, <1>2, AckedStay DEF ExactInv, Exact
<1>. QED
  BY <1>1, <1>2, <1>3, IdleExact, StepExact

LEMMA AppendCountExact ==
    ASSUME EventTypeInv, ExactInv, NEW c \in Callers, Events!AppendCount(c)
    PROVE  ExactInv'
<1>. DEFINE q == evCall[c]
            e == [seq |-> Events!EventCount, kind |-> q.kind, id |-> next + 1]
            r == [pc |-> "write", task |-> q.task, event |-> e]
<1>1. PICK E : E = Events!ParsedFrom(log, 0)
  OBVIOUS
<1>2. /\ q.pc = "count" /\ Events!Goto(c, r)
      /\ UNCHANGED <<log, torn, garbled, lost, cps, crashes, acked>>
  BY DEF Events!AppendCount, Events!file
<1>3. /\ Events!EventCount = Len(E)
      /\ ~ lost => Current(E, q.kind, q.task) /\ FilesExact(E, cps)
  BY <1>1, <1>2 DEF Events!EventCount, Events!ReadFrom, ExactInv, Exact, CallExact
<1>4. next + 1 \notin acked
  BY DEF EventTypeInv
<1>5. CallNumbered(E, r, acked', torn) /\ (~ lost => CallExact(E, r))
  BY <1>2, <1>3, <1>4 DEF CallExact, CallNumbered
<1>6. Events!AckedIsLogged'
  BY <1>2, AckedStay DEF ExactInv
<1>. HIDE DEF q, r
<1>. QED
  BY <1>1, <1>2, <1>3, <1>5, <1>6, StepExact

\* A line more does not unlog an event.
LEMMA AckedGrow ==
    ASSUME EventTypeInv, Events!AckedIsLogged, acked' = acked, NEW l \in LineSet,
           log' = Append(log, l)
    PROVE  Events!AckedIsLogged'
<1>1. /\ DOMAIN log = 1 .. Len(log) /\ DOMAIN log' = 1 .. Len(log) + 1 /\ Len(log) \in Nat
      /\ \A i \in 1 .. Len(log) : log'[i] = log[i]
  BY AppendProperties, LenProperties DEF EventTypeInv, EventLogOK
<1>2. ASSUME NEW i \in acked
      PROVE  \E n \in DOMAIN log' : log'[n] # Events!Unparsed /\ log'[n].id = i
  <2>1. PICK n \in DOMAIN log : log[n] # Events!Unparsed /\ log[n].id = i
    BY DEF Events!AckedIsLogged
  <2>2. n \in DOMAIN log' /\ log'[n] = log[n]
    BY <1>1
  <2>. QED
    BY <2>1, <2>2
<1>. QED
  BY <1>2 DEF Events!AckedIsLogged

\* A log with one event more has no gap, ...
LEMMA GrownGapless ==
    ASSUME NEW E \in Seq(EventSet), NEW e \in EventSet, e.seq = Len(E), Gapless(E)
    PROVE  Gapless(Append(E, e))
<1>1. /\ Len(E) \in Nat /\ DOMAIN E = 1 .. Len(E) /\ DOMAIN Append(E, e) = 1 .. Len(E) + 1
      /\ Append(E, e)[Len(E) + 1] = e /\ \A k \in 1 .. Len(E) : Append(E, e)[k] = E[k]
  BY AppendProperties, LenProperties
<1>2. PICK F : F = Append(E, e)
  OBVIOUS
<1>3. ASSUME NEW k \in 1 .. Len(E) + 1 PROVE F[k].seq = k - 1
  <2>1. CASE k = Len(E) + 1
    BY <1>1, <1>2, <2>1
  <2>2. CASE k \in 1 .. Len(E)
    BY <1>1, <1>2, <2>2 DEF Gapless
  <2>. QED
    BY <1>1, <2>1, <2>2
<1>. QED
  BY <1>1, <1>2, <1>3 DEF Gapless

\* ... and begins with TaskCreated.
LEMMA GrownBegun ==
    ASSUME NEW E \in Seq(EventSet), NEW e \in EventSet, Begun(E), E = <<>> => e.kind = "pending"
    PROVE  Begun(Append(E, e))
<1>1. /\ Len(E) \in Nat /\ Append(E, e)[Len(E) + 1] = e
      /\ \A k \in 1 .. Len(E) : Append(E, e)[k] = E[k]
  BY AppendProperties, LenProperties
<1>2. PICK F : F = Append(E, e)
  OBVIOUS
<1>3. CASE E = <<>>
  <2>1. Len(E) = 0
    BY <1>3
  <2>. QED
    BY <1>1, <1>2, <1>3, <2>1 DEF Begun
<1>4. CASE E # <<>>
  <2>1. 1 \in 1 .. Len(E)
    BY <1>1, <1>4, EmptySeq
  <2>. QED
    BY <1>1, <1>2, <1>4, <2>1 DEF Begun
<1>. QED
  BY <1>3, <1>4

\* A last line that is written into takes its event out of the log, ...
LEMMA SpoiledLine ==
    ASSUME EventTypeInv, ExactInv, torn, NEW E, E = Events!ParsedFrom(log, 0),
           log' = [log EXCEPT ![Len(log)] = Events!Unparsed], acked' = acked
    PROVE  \E F \in Seq(EventSet) :
              /\ F = Events!ParsedFrom(log', 0) /\ Gapless(F) /\ Len(F) <= Len(E)
              /\ ~ Events!Spoils => F = E
              /\ Events!AckedIsLogged' /\ log'[Len(log')] = Events!Unparsed
<1>1. log \in Seq(LineSet) /\ log # <<>> /\ Events!Unparsed \in LineSet
  BY DEF EventTypeInv, EventLogOK, LineSet
<1>2. PICK r \in Seq(LineSet), l \in LineSet : log = Append(r, l)
  BY <1>1, SequenceEmptyOrAppend
<1>3. /\ Len(r) \in Nat /\ Len(log) = Len(r) + 1 /\ log[Len(log)] = l
      /\ DOMAIN log = 1 .. Len(log) /\ \A i \in 1 .. Len(r) : log[i] = r[i]
  BY <1>1, <1>2, AppendProperties, LenProperties
<1>4. log' = Append(r, Events!Unparsed)
  <2>1. [Append(r, l) EXCEPT ![Len(r) + 1] = Events!Unparsed] = Append(r, Events!Unparsed)
    BY <1>1, LastOfAppend
  <2>. QED
    BY <1>2, <1>3, <2>1
<1>5. PICK F : F = Events!ParsedFrom(r, 0)
  OBVIOUS
<1>6. F \in Seq(EventSet) /\ Len(F) \in Nat /\ DOMAIN F = 1 .. Len(F)
  BY <1>5, ParsedType, LenProperties DEF ParsedOK
<1>7. Events!ParsedFrom(log', 0) = F
  <2>1. Events!ParsedFrom(Append(r, Events!Unparsed), 0) = Events!ParsedFrom(r, 0)
    BY <1>1, ParsedFromAppend
  <2>. QED
    BY <1>4, <1>5, <2>1
<1>8. E = IF l # Events!Unparsed /\ l.seq >= 0 THEN Append(F, l) ELSE F
  BY <1>2, <1>5, ParsedFromAppend
<1>9. l # Events!Unparsed => l \in EventSet /\ l.seq >= 0
  BY DEF LineSet, EventSet
<1>10. Gapless(E) /\ Events!AckedIsLogged /\ CutIsOpen(log, acked, torn)
  BY DEF ExactInv, CallsNumbered
<1>11. Gapless(F) /\ Len(F) <= Len(E) /\ (~ Events!Spoils => F = E)
  <2>1. CASE l = Events!Unparsed
    BY <1>6, <1>8, <1>10, <2>1
  <2>2. CASE l # Events!Unparsed
    <3>1. E = Append(F, l) /\ Events!Spoils
      BY <1>3, <1>8, <1>9, <2>2 DEF Events!Spoils
    <3>2. l \in EventSet
      BY <1>9, <2>2
    <3>3. /\ Append(F, l) \in Seq(EventSet) /\ Len(Append(F, l)) = Len(F) + 1
          /\ \A k \in 1 .. Len(F) : Append(F, l)[k] = F[k]
      BY <1>6, <3>2, AppendProperties
    <3>4. DOMAIN Append(F, l) = 1 .. Len(F) + 1
      BY <3>3, LenProperties
    <3>. QED
      <4>1. /\ Len(E) = Len(F) + 1 /\ DOMAIN E = 1 .. Len(F) + 1
            /\ \A k \in 1 .. Len(F) : E[k] = F[k]
        BY ONLY <3>1, <3>3, <3>4
      <4>2. \A k \in 1 .. Len(F) : k \in DOMAIN E
        BY <1>6, <4>1
      <4>3. Gapless(F) /\ Len(F) <= Len(E)
        BY ONLY <1>6, <1>10, <4>1, <4>2 DEF Gapless
      <4>. QED
        BY <3>1, <4>3
  <2>. QED
    BY <2>1, <2>2
<1>12. ASSUME NEW i \in acked
       PROVE  \E n \in DOMAIN log' : log'[n] # Events!Unparsed /\ log'[n].id = i
  <2>1. PICK n \in DOMAIN log : log[n] # Events!Unparsed /\ log[n].id = i
    BY <1>10 DEF Events!AckedIsLogged
  <2>2. n # Len(log)
    BY <1>10, <2>1 DEF CutIsOpen
  <2>3. n \in DOMAIN log' /\ log'[n] = log[n]
    BY <2>2
  <2>. QED
    BY <2>1, <2>3
<1>13. log'[Len(log')] = Events!Unparsed
  BY <1>1, <1>2, <1>4, AppendProperties
<1>. QED
  BY <1>6, <1>7, <1>11, <1>12, <1>13 DEF Events!AckedIsLogged

\* ... and what a write does to the events of the log: an event is taken out of it,
\* none is added, or the one that was written.
LEMMA WriteExact ==
    ASSUME EventTypeInv, ExactInv, NEW E, E = Events!ParsedFrom(log, 0), NEW l \in LineSet,
           l # Events!Unparsed => l.seq = Len(E), Events!WriteLine(l), acked' = acked
    PROVE  \E F \in Seq(EventSet) :
              /\ F = Events!ParsedFrom(log', 0) /\ Gapless(F) /\ Events!AckedIsLogged'
              /\ log'[Len(log')] \in {Events!Unparsed, l}
              /\ \/ lost' /\ Len(F) <= Len(E)
                 \/ lost' = lost /\ F = E
                 \/ lost' = lost /\ l # Events!Unparsed /\ F = Append(E, l)
<1>1. log' = Events!Written(l) /\ lost' = (lost \/ Events!Spoils) /\ lost \in BOOLEAN
  BY DEF Events!WriteLine, EventTypeInv, EventLogOK
<1>2. E \in Seq(EventSet) /\ Len(E) \in Nat /\ log \in Seq(LineSet) /\ Gapless(E)
  BY LogEvents DEF ExactInv, CallsNumbered
<1>3. CASE torn
  <2>1. log' = [log EXCEPT ![Len(log)] = Events!Unparsed]
    BY <1>1, <1>3 DEF Events!Written
  <2>2. PICK F \in Seq(EventSet) :
           /\ F = Events!ParsedFrom(log', 0) /\ Gapless(F) /\ Len(F) <= Len(E)
           /\ ~ Events!Spoils => F = E
           /\ Events!AckedIsLogged' /\ log'[Len(log')] = Events!Unparsed
    BY <1>3, <2>1, SpoiledLine
  <2>3. Events!Spoils \in BOOLEAN
    BY <1>3 DEF Events!Spoils
  <2>4. \/ lost' /\ Len(F) <= Len(E)
        \/ lost' = lost /\ F = E
    BY <1>1, <2>2, <2>3
  <2>. QED
    BY <2>2, <2>4
<1>4. CASE ~ torn
  <2>1. log' = Append(log, l) /\ lost' = lost
    BY <1>1, <1>4 DEF Events!Written, Events!Spoils
  <2>2. Events!AckedIsLogged'
    BY <2>1, AckedGrow DEF ExactInv
  <2>3. log'[Len(log')] = l
    BY <1>2, <2>1, AppendProperties
  <2>. DEFINE F == Events!ParsedFrom(log', 0)
  <2>4. F = IF l # Events!Unparsed /\ l.seq >= 0 THEN Append(E, l) ELSE E
    BY <1>2, <2>1, ParsedFromAppend
  <2>. HIDE DEF F
  <2>5. CASE l = Events!Unparsed
    BY <1>2, <2>1, <2>2, <2>3, <2>4, <2>5 DEF F
  <2>6. CASE l # Events!Unparsed
    <3>1. l \in EventSet /\ F = Append(E, l)
      BY <2>4, <2>6 DEF LineSet, EventSet
    <3>2. Gapless(F) /\ F \in Seq(EventSet)
      BY <1>2, <2>6, <3>1, GrownGapless, AppendProperties
    <3>. QED
      BY <2>1, <2>2, <2>3, <2>6, <3>1, <3>2 DEF F
  <2>. QED
    BY <2>5, <2>6
<1>. QED
  BY <1>3, <1>4 DEF EventTypeInv, EventLogOK

\* A log with one event more agrees with its checkpoints.
LEMMA GrownExact ==
    ASSUME NEW E \in Seq(EventSet), NEW e \in EventSet, Begun(E), FilesExact(E, cps),
           NEW t, Current(E, e.kind, t)
    PROVE  /\ Begun(Append(E, e)) /\ FilesExact(Append(E, e), cps)
           /\ t # Events!NoTask => t = TaskAt(Append(E, e), Len(Append(E, e)) - 1)
<1>1. FilesExact(Append(E, e), cps)
  BY ExactStays DEF FilesExact
<1>2. Begun(Append(E, e))
  BY GrownBegun DEF Current
<1>3. Len(Append(E, e)) - 1 = Len(E) /\ Len(E) \in 0 .. Len(E)
  BY AppendProperties, LenProperties
<1>4. t # Events!NoTask => t = TaskAt(Append(E, e), Len(E))
  BY <1>3, TaskAtStays DEF Current
<1>. QED
  BY <1>1, <1>2, <1>3, <1>4

LEMMA AppendWriteExact ==
    ASSUME EventTypeInv, ExactInv, OneAppendAtATime, NEW c \in Callers, Events!AppendWrite(c)
    PROVE  ExactInv'
<1>. DEFINE q == evCall[c]
            r == IF q.task = Events!NoTask THEN Events!Idle ELSE [q EXCEPT !.pc = "back"]
<1>1. PICK E : E = Events!ParsedFrom(log, 0)
  OBVIOUS
<1>2. /\ q.pc = "write" /\ Events!WriteLine(q.event) /\ torn' = FALSE /\ Events!Goto(c, r)
      /\ cps' = cps /\ acked' = acked
  BY DEF Events!AppendWrite
<1>3. /\ q.event \in EventSet /\ q.task \in MaybeTask /\ q.event \in LineSet
      /\ q = [pc |-> q.pc, task |-> q.task, event |-> q.event]
  BY <1>2, CallShapes DEF EventTypeInv, LineSet
<1>4. q.event.seq = Len(E)
  BY <1>1, <1>2 DEF ExactInv, CallsNumbered, CallNumbered
<1>5. E \in Seq(EventSet) /\ Len(E) \in Nat
  BY <1>1, LogEvents
<1>6. PICK F \in Seq(EventSet) :
         /\ F = Events!ParsedFrom(log', 0) /\ Gapless(F) /\ Events!AckedIsLogged'
         /\ \/ lost' /\ Len(F) <= Len(E)
            \/ lost' = lost /\ F = E
            \/ lost' = lost /\ F = Append(E, q.event)
  BY <1>1, <1>2, <1>3, <1>4, WriteExact
<1>7. \/ r = Events!Idle
      \/ q.task # Events!NoTask /\ r = [pc |-> "back", task |-> q.task, event |-> q.event]
  BY <1>3
<1>8. evCall' = [evCall EXCEPT ![c] = r] /\ DOMAIN evCall = Callers
  BY <1>2 DEF Events!Goto, EventTypeInv
<1>9. ASSUME NEW d \in Callers, d # c
      PROVE  evCall'[d] = evCall[d] /\ evCall[d].pc \notin Appending
  BY <1>2, <1>8, <1>9 DEF OneAppendAtATime, Appending
<1>10. CutIsOpen(log', acked', torn')
  BY <1>2 DEF CutIsOpen
<1>11. Len(F) \in Nat /\ F \in Seq(EventSet)
  BY LenProperties
<1>12. Len(F) > Len(E) => F = Append(E, q.event) /\ Len(F) = Len(E) + 1 /\ F[Len(F)] = q.event
  BY <1>3, <1>5, <1>6, AppendProperties
<1>. HIDE DEF r
<1>13. CallNumbered(F, r, acked', torn')
  <2>1. CASE r = Events!Idle
    BY <2>1, IdleExact
  <2>2. CASE r = [pc |-> "back", task |-> q.task, event |-> q.event]
    <3>1. \/ q.event.seq >= Len(F)
          \/ Len(F) # 0 /\ q.event.seq = Len(F) - 1 /\ F[Len(F)] = q.event
      BY <1>4, <1>5, <1>11, <1>12
    <3>. HIDE DEF q
    <3>. QED
      BY <1>2, <2>2, <3>1 DEF CallNumbered
  <2>. QED
    BY <1>7, <2>1, <2>2
<1>14. CallsNumbered(F)'
  <2>1. \A d \in Callers : CallNumbered(F, evCall'[d], acked', torn')
    <3>1. \A d \in Callers : d # c => CallNumbered(F, evCall'[d], acked', torn')
      BY <1>9 DEF CallNumbered, Appending
    <3>. HIDE DEF q
    <3>. QED
      BY <1>8, <1>13, <3>1
  <2>. QED
    BY <1>6, <1>10, <2>1 DEF CallsNumbered
<1>15. ASSUME ~ lost' PROVE Exact(F)'
  <2>1. ~ lost /\ (F = E \/ F = Append(E, q.event))
    BY <1>6, <1>15 DEF EventTypeInv, EventLogOK
  <2>2. /\ Begun(E) /\ FilesExact(E, cps) /\ Current(E, q.event.kind, q.task)
        /\ \A d \in Callers : CallExact(E, evCall[d])
    BY <1>1, <1>2, <2>1 DEF ExactInv, Exact, CallExact
  <2>3. CASE F = E
    <3>1. CallExact(E, r)
      <4>1. CASE r = Events!Idle
        BY <4>1, IdleExact
      <4>2. CASE r = [pc |-> "back", task |-> q.task, event |-> q.event]
        <5>. HIDE DEF q
        <5>. QED
          BY <1>4, <1>5, <4>2 DEF CallExact, q
      <4>. QED
        BY <1>7, <4>1, <4>2
    <3>2. \A d \in Callers : CallExact(E, evCall'[d])
      <4>. HIDE DEF q
      <4>. QED
        BY <1>8, <1>9, <2>2, <3>1
    <3>. QED
      BY <1>2, <2>2, <2>3, <3>2 DEF Exact
  <2>4. CASE F = Append(E, q.event)
    <3>1. /\ Begun(F) /\ FilesExact(F, cps)
          /\ q.task # Events!NoTask => q.task = TaskAt(F, Len(F) - 1)
      BY <1>3, <1>5, <2>2, <2>4, GrownExact
    <3>2. CallExact(F, r)
      <4>1. CASE r = Events!Idle
        BY <4>1, IdleExact
      <4>2. CASE q.task # Events!NoTask /\ r = [pc |-> "back", task |-> q.task, event |-> q.event]
        <5>. HIDE DEF q
        <5>. QED
          BY <3>1, <4>2 DEF CallExact
      <4>. QED
        BY <1>7, <4>1, <4>2
    <3>3. ASSUME NEW d \in Callers PROVE CallExact(F, evCall'[d])
      <4>1. CASE d = c
        <5>. HIDE DEF q
        <5>. QED
          BY <1>8, <3>2, <4>1
      <4>2. CASE d # c
        <5>1. evCall'[d] = evCall[d] /\ evCall[d].pc \notin Appending /\ CallExact(E, evCall[d])
          BY <1>9, <2>2, <4>2
        <5>2. \A n, u : ExactAt(E, n, u) => ExactAt(F, n, u)
          BY <1>3, <1>5, <2>4, ExactStays
        <5>. HIDE DEF q
        <5>. QED
          BY <5>1, <5>2 DEF CallExact, Appending
      <4>. QED
        BY <4>1, <4>2
    <3>. QED
      BY <1>2, <3>1, <3>3 DEF Exact
  <2>. QED
    BY <2>1, <2>3, <2>4
<1>. QED
  BY <1>6, <1>14, <1>15 DEF ExactInv

LEMMA ReadBackExact ==
    ASSUME EventTypeInv, ExactInv, OneAppendAtATime, NEW c \in Callers, Events!ReadBack(c)
    PROVE  ExactInv'
<1>. DEFINE q == evCall[c]
            s == q.event.seq
            e == Events!ReadFrom(s)[Events!Min(Events!Found(q))]
<1>1. PICK E : E = Events!ParsedFrom(log, 0)
  OBVIOUS
<1>2. q.pc = "back" /\ UNCHANGED <<log, torn, garbled, lost, cps, next, crashes>>
  BY DEF Events!ReadBack, Events!file
<1>3. q.event \in EventSet /\ q.task \in TaskSet /\ s \in Nat
  BY <1>2, CallShapes DEF EventTypeInv, EventSet
<1>4. /\ Gapless(E) /\ Events!AckedIsLogged /\ ~ torn
      /\ \/ s >= Len(E)
         \/ Len(E) # 0 /\ s = Len(E) - 1 /\ E[Len(E)] = q.event
      /\ ~ lost => FilesExact(E, cps) /\ (s < Len(E) => q.task = TaskAt(E, Len(E) - 1))
  BY <1>1, <1>2 DEF ExactInv, CallsNumbered, Exact, CallNumbered, CallExact
<1>5. E \in Seq(EventSet) /\ Len(E) \in Nat /\ log \in Seq(LineSet) /\ EventLogOK
  BY <1>1, LogEvents DEF EventTypeInv
<1>6. Events!ReadFrom(s) = SubSeq(E, s + 1, Len(E))
  BY <1>1, <1>3, <1>4, <1>5, ParsedTail DEF Events!ReadFrom
<1>7. /\ ~ lost => FilesExact(E, cps')
      /\ \A d \in Callers : evCall[d].pc = "write" => d = c
  BY <1>2, <1>4 DEF OneAppendAtATime, Appending
<1>8. CASE Events!Found(q) = {}
  <2>1. Events!Goto(c, Events!Idle) /\ UNCHANGED acked
    BY <1>8 DEF Events!ReadBack
  <2>2. Events!AckedIsLogged'
    BY <1>2, <1>4, <2>1, AckedStay
  <2>. QED
    BY <1>1, <1>2, <1>7, <2>1, <2>2, IdleExact, StepExact
<1>9. CASE Events!Found(q) # {}
  <2>1. Events!Min(Events!Found(q)) \in DOMAIN SubSeq(E, s + 1, Len(E))
    BY <1>3, <1>5, <1>6, <1>9, FoundEvent
  <2>2. ~ (s >= Len(E))
    <3>1. s >= Len(E) => DOMAIN SubSeq(E, s + 1, Len(E)) = {}
      BY <1>3, <1>5
    <3>. QED
      BY <2>1, <3>1
  <2>3. /\ Len(E) # 0 /\ s = Len(E) - 1 /\ E[Len(E)] = q.event
        /\ ~ lost => q.task = TaskAt(E, Len(E) - 1)
    BY <1>3, <1>4, <1>5, <2>2
  <2>4. e = q.event
    <3>1. Len(E) \in 1 .. Len(E) /\ s + 1 = Len(E)
      BY <1>5, <2>3
    <3>2. DOMAIN SubSeq(E, Len(E), Len(E)) = {1} /\ SubSeq(E, Len(E), Len(E))[1] = E[Len(E)]
      BY <1>5, <3>1
    <3>. QED
      BY <1>6, <2>1, <2>3, <3>1, <3>2
  <2>5. Events!Answer(c, q, e)
    BY <1>9 DEF Events!ReadBack
  <2>. DEFINE r == IF Events!Accepts(q.task, e) /\ Events!ShouldCheckpoint(1, e)
                   THEN [pc |-> "save", seq |-> s, task |-> Events!Reduce(q.task, e)]
                   ELSE Events!Idle
  <2>6. Events!Goto(c, r) /\ (acked' = acked \/ acked' = acked \cup {q.event.id})
    BY <2>5 DEF Events!Answer
  <2>7. ASSUME ~ lost PROVE CallExact(E, r)
    <3>1. ASSUME Events!Accepts(q.task, e) PROVE ExactAt(E, s, Events!Reduce(q.task, e))
      <4>1. s \in 0 .. Len(E) - 1 /\ s + 1 = Len(E)
        BY <1>3, <1>5, <2>3
      <4>2. TaskAt(E, s + 1) = Events!Skipping(TaskAt(E, s), E[s + 1])
        BY <1>5, <4>1, TaskAtNext
      <4>3. TaskAt(E, s + 1) = Events!Reduce(q.task, e)
        BY <2>3, <2>4, <2>7, <3>1, <4>1, <4>2 DEF Events!Skipping
      <4>4. Events!Reduce(q.task, e).seq = s
        BY <1>3, <2>4, ReduceType
      <4>. QED
        BY <4>1, <4>3, <4>4 DEF ExactAt
    <3>2. CASE r = Events!Idle
      BY <3>2, IdleExact
    <3>3. CASE /\ Events!Accepts(q.task, e)
               /\ r = [pc |-> "save", seq |-> s, task |-> Events!Reduce(q.task, e)]
      <4>. DEFINE t == Events!Reduce(q.task, e)
      <4>1. ExactAt(E, s, t) /\ r = [pc |-> "save", seq |-> s, task |-> t]
        BY <3>1, <3>3
      <4>. HIDE DEF t, s, r
      <4>. QED
        BY <4>1 DEF CallExact
    <3>. QED
      BY <3>2, <3>3
  <2>8. CallNumbered(E, r, acked', torn)
    <3>1. r.pc \in {"idle", "save"}
      BY DEF Events!Idle
    <3>. HIDE DEF r
    <3>. QED
      BY <3>1 DEF CallNumbered
  <2>9. Events!AckedIsLogged'
    <3>1. PICK n \in DOMAIN log : log[n] = q.event
      <4>1. Len(E) \in DOMAIN E /\ E = Events!ReadFrom(0)
        BY <1>1, <1>5, <2>3, LogEvents
      <4>2. \A k \in DOMAIN Events!ReadFrom(0) :
               \E i \in DOMAIN log : log[i] = Events!ReadFrom(0)[k]
        BY <1>5, ReadFromType
      <4>3. \A k \in DOMAIN E : \E i \in DOMAIN log : log[i] = E[k]
        BY ONLY <4>1, <4>2
      <4>4. \E i \in DOMAIN log : log[i] = E[Len(E)]
        BY ONLY <4>1, <4>3
      <4>. QED
        BY <2>3, <4>4
    <3>2. log[n] # Events!Unparsed /\ log[n].id = q.event.id
      BY <1>3, <3>1, EventsParse
    <3>3. \A i \in acked' : \E k \in DOMAIN log : log[k] # Events!Unparsed /\ log[k].id = i
      BY <1>4, <2>6, <3>2 DEF Events!AckedIsLogged
    <3>. QED
      BY <1>2, <3>3 DEF Events!AckedIsLogged
  <2>. HIDE DEF r, q
  <2>. QED
    BY <1>1, <1>2, <1>4, <1>7, <2>6, <2>7, <2>8, <2>9, StepExact
<1>. QED
  BY <1>8, <1>9

LEMMA SaveCheckpointExact ==
    ASSUME EventTypeInv, ExactInv, NEW c \in Callers, Events!SaveCheckpoint(c)
    PROVE  ExactInv'
<1>. DEFINE q == evCall[c]
<1>1. PICK E : E = Events!ParsedFrom(log, 0)
  OBVIOUS
<1>2. /\ q.pc = "save" /\ cps' = Events!Saved(cps, q.seq, q.task) /\ Events!Goto(c, Events!Idle)
      /\ UNCHANGED <<log, torn, garbled, lost, next, crashes, acked>>
  BY DEF Events!SaveCheckpoint, Events!file
<1>3. ~ lost => ExactAt(E, q.seq, q.task) /\ FilesExact(E, cps)
  BY <1>1, <1>2 DEF ExactInv, Exact, CallExact
<1>. HIDE DEF q
<1>4. ~ lost => FilesExact(E, cps')
  BY <1>2, <1>3 DEF FilesExact, Events!Saved
<1>5. Events!AckedIsLogged'
  BY <1>2, AckedStay DEF ExactInv
<1>. QED
  BY <1>1, <1>2, <1>4, <1>5, IdleExact, StepExact

\* A line that a crash cuts short is no event, an event more, or the end of one.
LEMMA CutShortExact ==
    ASSUME EventTypeInv, ExactInv, NEW c \in Callers, Events!CutShort(c), acked' = acked,
           \A d \in Callers : evCall'[d] = Events!Idle
    PROVE  ExactInv'
<1>. DEFINE e == evCall[c].event
<1>1. PICK E : E = Events!ParsedFrom(log, 0)
  OBVIOUS
<1>2. PICK l \in {Events!Unparsed, e} : Events!WriteLine(l)
  BY DEF Events!CutShort
<1>3. evCall[c].pc = "write" /\ torn' = TRUE /\ cps' = cps
  BY DEF Events!CutShort
<1>4. e \in EventSet /\ l \in LineSet
  BY <1>2, <1>3, CallShapes DEF EventTypeInv, LineSet
<1>5. e.seq = Len(E) /\ e.id \notin acked
  BY <1>1, <1>3 DEF ExactInv, CallsNumbered, CallNumbered
<1>6. E \in Seq(EventSet) /\ lost \in BOOLEAN
  BY <1>1, LogEvents DEF EventTypeInv, EventLogOK
<1>7. PICK F \in Seq(EventSet) :
         /\ F = Events!ParsedFrom(log', 0) /\ Gapless(F) /\ Events!AckedIsLogged'
         /\ log'[Len(log')] \in {Events!Unparsed, l}
         /\ \/ lost' /\ Len(F) <= Len(E)
            \/ lost' = lost /\ F = E
            \/ lost' = lost /\ l # Events!Unparsed /\ F = Append(E, l)
  BY <1>1, <1>2, <1>4, <1>5, WriteExact
<1>8. CutIsOpen(log', acked', torn')
  BY <1>2, <1>5, <1>7 DEF CutIsOpen
<1>9. CallsNumbered(F)'
  BY <1>7, <1>8, IdleExact DEF CallsNumbered
<1>10. ASSUME ~ lost' PROVE Exact(F)'
  <2>1. ~ lost /\ (F = E \/ F = Append(E, e))
    BY <1>2, <1>6, <1>7, <1>10
  <2>2. Begun(E) /\ FilesExact(E, cps) /\ Current(E, e.kind, evCall[c].task)
    BY <1>1, <1>3, <2>1 DEF ExactInv, Exact, CallExact
  <2>. HIDE DEF e
  <2>3. Begun(F) /\ FilesExact(F, cps)
    BY <1>4, <1>6, <2>1, <2>2, GrownExact
  <2>. QED
    BY <1>3, <2>3, IdleExact DEF Exact
<1>. QED
  BY <1>7, <1>9, <1>10 DEF ExactInv

LEMMA CrashExact ==
    ASSUME EventTypeInv, ExactInv, Events!Crash
    PROVE  ExactInv'
<1>1. PICK E : E = Events!ParsedFrom(log, 0)
  OBVIOUS
<1>2. (\A c \in Callers : evCall'[c] = Events!Idle) /\ acked' = acked
  BY DEF Events!Crash
<1>3. ASSUME UNCHANGED <<log, torn, lost>>, ~ lost => FilesExact(E, cps') PROVE ExactInv'
  <2>1. Gapless(E) /\ CutIsOpen(log, acked, torn) /\ (~ lost => Begun(E))
    BY <1>1 DEF ExactInv, Exact, CallsNumbered
  <2>2. Events!AckedIsLogged'
    BY <1>2, <1>3, AckedStay DEF ExactInv
  <2>3. CutIsOpen(log', acked', torn') /\ Events!ParsedFrom(log', 0) = E
    BY <1>1, <1>2, <1>3, <2>1 DEF CutIsOpen
  <2>. QED
    BY <1>2, <1>3, <2>1, <2>2, <2>3, IdleExact DEF ExactInv, Exact, CallsNumbered
<1>4. ~ lost => FilesExact(E, cps)
  BY <1>1 DEF ExactInv, Exact
<1>5. CASE UNCHANGED <<log, torn, lost, cps>>
  BY <1>3, <1>4, <1>5
<1>6. ASSUME NEW c \in Callers, Events!CutShort(c) PROVE ExactInv'
  BY <1>2, <1>6, CutShortExact
<1>7. CASE /\ UNCHANGED <<log, torn, lost>>
           /\ \E c \in Callers : cps' = Events!Saved(cps, evCall[c].seq, Events!Corrupt)
  <2>1. PICK n : cps' = Events!Saved(cps, n, Events!Corrupt)
    BY <1>7
  <2>2. ~ lost => FilesExact(E, cps')
    BY <1>4, <2>1 DEF FilesExact, Events!Saved
  <2>. QED
    BY <1>3, <1>7, <2>2
<1>. QED
  BY <1>5, <1>6, <1>7 DEF Events!Crash, Events!file

\* Every step keeps it while the appends come one at a time.
LEMMA NextExact ==
    EventTypeInv /\ OneAppendAtATime /\ ExactInv /\ [Events!Next]_(Events!vars) => ExactInv'
<1>. SUFFICES ASSUME EventTypeInv, OneAppendAtATime, ExactInv, [Events!Next]_(Events!vars)
              PROVE  ExactInv'
  OBVIOUS
<1>1. CASE UNCHANGED Events!vars
  <2>1. UNCHANGED <<log, torn, lost, cps, evCall, acked>>
    BY <1>1 DEF Events!vars, Events!file
  <2>. QED
    BY <2>1, AckedStay DEF ExactInv, Exact, CallsNumbered, CutIsOpen
<1>2. CASE Events!Next
  BY <1>2, CreateFromSpecExact, TransitionExact, ReplayActionExact, ReadFailsExact,
     AppendCountExact,
     AppendWriteExact, ReadBackExact, SaveCheckpointExact, CrashExact DEF Events!Next
<1>. QED
  BY <1>1, <1>2

-----------------------------------------------------------------------------
(***************************************************************************)
(* What is acknowledged is in the log, with any number of calls at a time  *)
(***************************************************************************)

\* The event has a line of its own.
InLog(lines, e) == \E n \in DOMAIN lines : lines[n] = e

\* Whoever is to read his event back has written it.
LoggedInv ==
    /\ \A c \in Callers : evCall[c].pc = "back" => InLog(log, evCall[c].event)
    /\ \A i \in acked : \E e \in EventSet : e.id = i /\ InLog(log, e)

\* No step takes an event out of a log that no crash has cut.
LEMMA EventsStay ==
    ASSUME EventTypeInv, ~ torn, [Events!Next]_(Events!vars), NEW e \in EventSet, InLog(log, e)
    PROVE  InLog(log', e)
<1>1. PICK n \in DOMAIN log : log[n] = e
  BY DEF InLog
<1>2. /\ DOMAIN log = 1 .. Len(log) /\ Len(log) \in Nat
      /\ \A l : LET r == Append(log, l) IN
                /\ DOMAIN r = 1 .. Len(log) + 1 /\ r[Len(log) + 1] = l
                /\ \A i \in 1 .. Len(log) : r[i] = log[i]
  BY AppendProperties, LenProperties DEF EventTypeInv, EventLogOK
<1>4. CASE UNCHANGED log
  BY <1>1, <1>4 DEF InLog
<1>5. ASSUME NEW l, log' = Events!Written(l) PROVE InLog(log', e)
  <2>1. log' = Append(log, l)
    BY <1>5 DEF Events!Written
  <2>2. n \in DOMAIN log' /\ log'[n] = e
    BY <1>1, <1>2, <2>1
  <2>. QED
    BY <2>2 DEF InLog
<1>. QED
  BY <1>4, <1>5 DEF Events!vars, Events!file, Events!Next, Events!CreateFromSpec,
     Events!Transition, Events!Replay, Events!ReadFails, Events!AppendCount,
     Events!AppendWrite, Events!WriteLine, Events!ReadBack, Events!SaveCheckpoint,
     Events!Crash, Events!CutShort

\* A step of one call that has no event to read back.
LEMMA StepLogged ==
    ASSUME EventTypeInv, ~ torn, LoggedInv, [Events!Next]_(Events!vars), NEW c \in Callers, NEW q,
           Events!Goto(c, q), q.pc # "back", acked' = acked
    PROVE  LoggedInv'
<1>1. \A d \in Callers : evCall'[d] = IF d = c THEN q ELSE evCall[d]
  BY DEF Events!Goto, EventTypeInv
<1>2. ASSUME NEW d \in Callers, evCall'[d].pc = "back" PROVE InLog(log', evCall'[d].event)
  <2>1. evCall'[d] = evCall[d] /\ evCall[d].pc = "back"
    BY <1>1, <1>2
  <2>2. evCall[d].event \in EventSet /\ InLog(log, evCall[d].event)
    BY <2>1, CallShapes DEF EventTypeInv, LoggedInv
  <2>3. InLog(log', evCall[d].event)
    BY <2>2, EventsStay DEF InLog
  <2>. QED
    BY <2>1, <2>3 DEF InLog
<1>3. \A i \in acked' : \E e \in EventSet : e.id = i /\ InLog(log', e)
  BY EventsStay DEF LoggedInv
<1>. QED
  BY <1>2, <1>3 DEF LoggedInv

\* Every step keeps it, while no line of the log was cut short.
LEMMA NextLogged ==
    EventTypeInv /\ ~ torn /\ LoggedInv /\ [Events!Next]_(Events!vars) => LoggedInv'
<1>. SUFFICES ASSUME EventTypeInv, ~ torn, LoggedInv, [Events!Next]_(Events!vars)
              PROVE  LoggedInv'
  OBVIOUS
<1>0. Events!Idle.pc = "idle"
  BY DEF Events!Idle
<1>1. CASE UNCHANGED Events!vars
  <2>1. UNCHANGED <<log, evCall, acked>>
    BY <1>1 DEF Events!vars, Events!file
  <2>. QED
    BY <2>1 DEF LoggedInv, InLog
<1>2. ASSUME NEW c \in Callers, Events!CreateFromSpec(c) PROVE LoggedInv'
  BY <1>2, StepLogged DEF Events!CreateFromSpec
<1>3. ASSUME NEW c \in Callers, NEW kind \in Kinds, Events!Transition(c, kind) PROVE LoggedInv'
  BY <1>3, StepLogged DEF Events!Transition
<1>4. ASSUME NEW c \in Callers, Events!Replay(c) PROVE LoggedInv'
  BY <1>0, <1>4, StepLogged DEF Events!Replay
<1>10. ASSUME NEW c \in Callers, Events!ReadFails(c) PROVE LoggedInv'
  BY <1>0, <1>10, StepLogged DEF Events!ReadFails
<1>5. ASSUME NEW c \in Callers, Events!AppendCount(c) PROVE LoggedInv'
  BY <1>5, StepLogged DEF Events!AppendCount
<1>6. ASSUME NEW c \in Callers, Events!AppendWrite(c) PROVE LoggedInv'
  <2>. DEFINE q == evCall[c]
  <2>1. /\ q.pc = "write" /\ log' = Events!Written(q.event) /\ acked' = acked
        /\ Events!Goto(c, IF q.task = Events!NoTask THEN Events!Idle ELSE [q EXCEPT !.pc = "back"])
    BY <1>6 DEF Events!AppendWrite, Events!WriteLine
  <2>2. q.event \in EventSet /\ q = [pc |-> q.pc, task |-> q.task, event |-> q.event]
    BY <2>1, CallShapes DEF EventTypeInv
  <2>3. InLog(log', q.event)
    BY <2>1, AppendProperties, LenProperties
    DEF EventTypeInv, EventLogOK, Events!Written, InLog
  <2>4. ASSUME NEW d \in Callers, evCall'[d].pc = "back" PROVE InLog(log', evCall'[d].event)
    <3>1. CASE d = c
      BY <1>0, <2>1, <2>2, <2>3, <2>4, <3>1 DEF Events!Goto, EventTypeInv, InLog
    <3>2. CASE d # c
      <4>1. evCall'[d] = evCall[d] /\ evCall[d].pc = "back"
        BY <2>1, <2>4, <3>2 DEF Events!Goto, EventTypeInv
      <4>2. evCall[d].event \in EventSet /\ InLog(log, evCall[d].event)
        BY <4>1, CallShapes DEF EventTypeInv, LoggedInv
      <4>3. InLog(log', evCall[d].event)
        BY <4>2, EventsStay
      <4>. QED
        BY <4>1, <4>3 DEF InLog
    <3>. QED
      BY <3>1, <3>2
  <2>5. \A i \in acked' : \E e \in EventSet : e.id = i /\ InLog(log', e)
    BY <2>1, EventsStay DEF LoggedInv
  <2>. QED
    BY <2>4, <2>5 DEF LoggedInv
<1>7. ASSUME NEW c \in Callers, Events!ReadBack(c) PROVE LoggedInv'
  <2>. DEFINE q == evCall[c]
  <2>1. /\ q.pc = "back" /\ acked' \in {acked, acked \cup {q.event.id}}
        /\ \E r : Events!Goto(c, r) /\ r.pc # "back"
    BY <1>0, <1>7 DEF Events!ReadBack, Events!Answer
  <2>2. q.event \in EventSet /\ InLog(log, q.event)
    BY <2>1, CallShapes DEF EventTypeInv, LoggedInv
  <2>3. PICK r : Events!Goto(c, r) /\ r.pc # "back"
    BY <2>1
  <2>4. ASSUME NEW d \in Callers, evCall'[d].pc = "back" PROVE InLog(log', evCall'[d].event)
    <3>1. evCall'[d] = evCall[d] /\ evCall[d].pc = "back"
      BY <2>3, <2>4 DEF Events!Goto, EventTypeInv
    <3>2. evCall[d].event \in EventSet /\ InLog(log, evCall[d].event)
      BY <3>1, CallShapes DEF EventTypeInv, LoggedInv
    <3>3. InLog(log', evCall[d].event)
      BY <3>2, EventsStay
    <3>. QED
      BY <3>1, <3>3 DEF InLog
  <2>5. \A i \in acked' : \E e \in EventSet : e.id = i /\ InLog(log', e)
    BY <2>1, <2>2, EventsStay DEF LoggedInv
  <2>. QED
    BY <2>4, <2>5 DEF LoggedInv
<1>8. ASSUME NEW c \in Callers, Events!SaveCheckpoint(c) PROVE LoggedInv'
  BY <1>0, <1>8, StepLogged DEF Events!SaveCheckpoint
<1>9. CASE Events!Crash
  <2>1. (\A c \in Callers : evCall'[c].pc = "idle") /\ acked' = acked
    BY <1>0, <1>9 DEF Events!Crash
  <2>2. \A i \in acked' : \E e \in EventSet : e.id = i /\ InLog(log', e)
    BY <2>1, EventsStay DEF LoggedInv
  <2>. QED
    BY <2>1, <2>2 DEF LoggedInv
<1>. QED
  BY <1>1, <1>2, <1>3, <1>4, <1>5, <1>6, <1>7, <1>8, <1>9, <1>10 DEF Events!Next

\* The steps of MCTasks are steps of the event log, or leave it alone.
LEMMA StepsOfEvents == [NextAll]_allVars => [Events!Next]_(Events!vars)
BY DEF NextAll, allVars, eventsVars, Events!vars, Events!file

\* A behaviour of MCTasks is a behaviour of the event log.
LEMMA SpecOfEvents == SpecAll => Events!Spec
BY StepsOfEvents, PTL DEF SpecAll, InitAll, Events!Spec

(***************************************************************************)
(* A restart finds every transition that tasks.transition acknowledged,    *)
(* and, while the file can be read and no event in it was written into, a  *)
(* replay from the newest checkpoint gives the task of the whole log: for  *)
(* any number of events, replays and checkpoints and of crashes that leave *)
(* a line without its end, a part or an event, or a checkpoint without its *)
(* content.  Only the appends come one at a time; event_log.rs:46 takes    *)
(* that for granted, and the run TaskReplay shows two that do not.         *)
(***************************************************************************)
THEOREM RecoveryExact == SpecAll /\ []OneAppendAtATime => []RecoveryIsExact
<1>1. EventTypeInv /\ ExactInv => RecoveryIsExact
  BY ExactIsExact DEF RecoveryIsExact
<1>2. Events!Spec /\ []OneAppendAtATime => []ExactInv
  BY InitExact, NextExact, AlwaysEventTypeInv, PTL DEF Events!Spec
<1>. QED
  BY <1>1, <1>2, AlwaysEventTypeInv, SpecOfEvents, PTL

\* With one connection that calls tasks.transition, as in the run Tasks, that is so:
\* replay.rs, event_log.rs and checkpoint.rs need no more.
THEOREM RecoveryExactAlone ==
    ASSUME \A c, d \in Callers : c = d
    PROVE  SpecAll => []RecoveryIsExact
<1>1. OneAppendAtATime
  BY DEF OneAppendAtATime
<1>. QED
  BY <1>1, RecoveryExact, PTL

(***************************************************************************)
(* tasks.transition answers Ok only for an event that is a line of the     *)
(* log, whoever else appends at the same time, as long as no crash cuts a  *)
(* line short: append_and_reduce knows its event by the seq alone, and     *)
(* when its line is lost behind a torn one it takes another call's event   *)
(* of that seq for its own.                                                *)
(***************************************************************************)
THEOREM AcknowledgedAreLogged == SpecAll /\ []~torn => []Events!AckedIsLogged
<1>1. Events!Init => LoggedInv
  BY DEF Events!Init, Events!Idle, LoggedInv
<1>2. LoggedInv => Events!AckedIsLogged
  BY EventsParse DEF LoggedInv, InLog, Events!AckedIsLogged
<1>3. Events!Spec /\ []~torn => []LoggedInv
  BY <1>1, NextLogged, AlwaysEventTypeInv, PTL DEF Events!Spec
<1>. QED
  BY <1>2, <1>3, SpecOfEvents, PTL

-----------------------------------------------------------------------------
(***************************************************************************)
(* Worktrees                                                               *)
(***************************************************************************)

TreesProofs == INSTANCE WorktreesProofs WITH call <- wtCall

\* The steps of MCTasks are steps of the worktrees, or leave them alone.
LEMMA StepsOfTrees == [NextAll]_allVars => [Trees!Next]_(Trees!vars)
BY DEF NextAll, allVars, treesVars, Trees!vars, Trees!git

\* The theorems of WorktreesProofs, of the instance in MCTasks.
LEMMA TreesTheorems ==
    Trees!Spec => [](Trees!TypeOK /\ Trees!CommitsKept /\ Trees!MergedWasMerged)
<1>0. TreesProofs!Spec => []TreesProofs!TypeOK
  BY TreesAssumption, TreesProofs!TypeCorrect
<1>1. TreesProofs!Spec => []TreesProofs!CommitsKept
  BY TreesAssumption, TreesProofs!CommitsAreKept
<1>2. TreesProofs!Spec => []TreesProofs!MergedWasMerged
  BY TreesAssumption, TreesProofs!MergedMeansMerged
<1>. QED
  BY <1>0, <1>1, <1>2, PTL DEF
      Trees!TypeOK, TreesProofs!TypeOK, Trees!Statuses, TreesProofs!Statuses,
      Trees!Commits, TreesProofs!Commits, Trees!Spec, TreesProofs!Spec,
      Trees!Init, TreesProofs!Init, Trees!Next,
      TreesProofs!Next, Trees!vars, TreesProofs!vars, Trees!git, TreesProofs!git,
      Trees!Tracked, TreesProofs!Tracked, Trees!Goto, TreesProofs!Goto, Trees!GotoPc,
      TreesProofs!GotoPc, Trees!Return, TreesProofs!Return, Trees!SetStatus,
      TreesProofs!SetStatus, Trees!SetRow, TreesProofs!SetRow, Trees!NewCommit,
      TreesProofs!NewCommit, Trees!CommitBy, TreesProofs!CommitBy, Trees!Edit,
      TreesProofs!Edit, Trees!UserCommit, TreesProofs!UserCommit, Trees!CreateStart,
      TreesProofs!CreateStart, Trees!CreateGit, TreesProofs!CreateGit, Trees!CreateTrack,
      TreesProofs!CreateTrack, Trees!CreateInsert, TreesProofs!CreateInsert,
      Trees!CommitStart, TreesProofs!CommitStart, Trees!CommitGit, TreesProofs!CommitGit,
      Trees!AcceptStart, TreesProofs!AcceptStart, Trees!AcceptMark, TreesProofs!AcceptMark,
      Trees!MergeStart, TreesProofs!MergeStart, Trees!MergeRead, TreesProofs!MergeRead,
      Trees!MergeAnalyse, TreesProofs!MergeAnalyse, Trees!MergeOver, TreesProofs!MergeOver,
      Trees!HeadAfter, TreesProofs!HeadAfter, Trees!MergeApply, TreesProofs!MergeApply,
      Trees!MergeFails, TreesProofs!MergeFails,
      Trees!MergeMark, TreesProofs!MergeMark, Trees!AcceptUpdate, TreesProofs!AcceptUpdate,
      Trees!AcceptRevert, TreesProofs!AcceptRevert, Trees!RejectStart,
      TreesProofs!RejectStart, Trees!DeleteStart, TreesProofs!DeleteStart, Trees!CleanupStart,
      TreesProofs!CleanupStart, Trees!CleanupCheck, TreesProofs!CleanupCheck,
      Trees!CleanupEnd, TreesProofs!CleanupEnd, Trees!RemoveRead, TreesProofs!RemoveRead,
      Trees!RemoveGit, TreesProofs!RemoveGit, Trees!RemoveUntrack, TreesProofs!RemoveUntrack,
      Trees!RemoveDone, TreesProofs!RemoveDone, Trees!Abort, TreesProofs!Abort, Trees!Restart,
      TreesProofs!Restart, Trees!Begin, TreesProofs!Begin, Trees!Continue,
      TreesProofs!Continue, Trees!CommitsKept, TreesProofs!CommitsKept, Trees!MergedWasMerged,
      TreesProofs!MergedWasMerged, Trees!Idle, TreesProofs!Idle, Trees!None, TreesProofs!None

\* No commit made in a worktree is ever lost from its branch: WorktreeManager::create
\* uses an existing branch again, remove leaves it intact, and a restart forgets
\* only the map.
THEOREM CommitsAreKept == SpecAll => []CommitsKept
<1>1. Trees!CommitsKept => CommitsKept
  BY DEF CommitsKept
<1>. QED
  BY <1>1, StepsOfTrees, TreesTheorems, PTL DEF SpecAll, InitAll, Trees!Spec

\* A worktree is called Merged, in the manager's map or in the table, only when git
\* has merged its branch.
THEOREM MergedMeansMerged == SpecAll => []MergedWasMerged
<1>1. Trees!MergedWasMerged => MergedWasMerged
  BY DEF MergedWasMerged
<1>. QED
  BY <1>1, StepsOfTrees, TreesTheorems, PTL DEF SpecAll, InitAll, Trees!Spec

-----------------------------------------------------------------------------
(***************************************************************************)
(* The three components together                                           *)
(***************************************************************************)

\* The steps of MCTasks are steps of the task engine, or leave it alone.
LEMMA StepsOfEngine == [NextAll]_allVars => [Next]_vars
BY DEF NextAll, allVars, engineVars, vars, rows, logs

(***************************************************************************)
(* Type correctness of all that the daemon keeps about tasks: the tables   *)
(* of the task engine, the event log and its checkpoints, in which no      *)
(* event has a seq past its line however calls and crashes interleave, and *)
(* the worktrees.                                                          *)
(***************************************************************************)
THEOREM AllTypesCorrect == SpecAll => []AllTypesOK
<1>1. TypeOK /\ Events!TypeOK /\ Trees!TypeOK => AllTypesOK
  BY DEF AllTypesOK
<1>2. SpecAll => []TypeOK
  BY StepsOfEngine, TypeCorrect, PTL DEF SpecAll, InitAll, Spec
<1>3. SpecAll => []Events!TypeOK
  BY SpecOfEvents, AlwaysEventTypeInv, EventTypes, PTL
<1>4. SpecAll => []Trees!TypeOK
  BY StepsOfTrees, TreesTheorems, PTL DEF SpecAll, InitAll, Trees!Spec
<1>. QED
  BY <1>1, <1>2, <1>3, <1>4, PTL
=============================================================================
