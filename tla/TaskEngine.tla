----------------------------- MODULE TaskEngine -----------------------------
(***************************************************************************)
(* The task engine: the te_* tables (storage/migrations/006), the          *)
(* operations on them (task_engine/storage.rs) and the te.* requests that  *)
(* run them (task_engine/handlers.rs).                                     *)
(*                                                                         *)
(* Requests of different connections run concurrently over one pool, and   *)
(* no operation holds a transaction over its statements.  An action is one *)
(* statement; call[c] is where the request of connection c stands.  A      *)
(* request ends early when a statement fails or the daemon dies (Abort).   *)
(*                                                                         *)
(* Ids are model values.  Titles, notes, reasons, payloads and timestamps  *)
(* are left out, and so are requests that only read.  Of an agent's row    *)
(* only its existence matters: the status, current task and heartbeat that *)
(* claims, heartbeats and deregistration write there are read by           *)
(* detect_dead_agents alone, which has no caller.                          *)
(***************************************************************************)
EXTENDS Integers, Sequences, FiniteSets

CONSTANTS
    Calls,      \* connections that make requests
    Phases,     \* ids of phases that clients create
    Tasks,      \* ids of tasks that clients create
    Urgent,     \* the tasks created with a higher priority
    Agents,     \* ids of agents
    Targets,    \* statuses that te.task.transition is asked for
    Logged,     \* tasks that te.event.log and te.checkpoint.write are given
    Keys,       \* idempotency keys that te.event.log is given
    MaxEvents,  \* bounds the events of one task
    Null

VARIABLES
    phases,      \* te_phases: the ids present
    status,      \* te_tasks.status, "absent" when there is no row
    claimedBy,   \* te_tasks.claimed_by
    order,       \* te_tasks by created_at
    agents,      \* te_agents: the ids present
    events,      \* te_events of each task
    checkpoints, \* te_checkpoints of each task: the last_event_seq of each
    call,        \* the request of each connection
    passed       \* history: the gates each task has been through

rows == <<phases, status, claimedBy, order, agents>>
logs == <<events, checkpoints>>
vars == <<rows, logs, call, passed>>

TaskStatuses ==
    {"planned", "ready", "queued", "claimed", "active", "paused", "blocked",
     "needs_review", "in_review", "review_failed", "needs_qa", "in_qa",
     "qa_failed", "needs_secondary", "done", "canceled", "failed"}

\* Clients name statuses of the CHECK constraint, and tasks that they create.
ASSUME EngineAssumption ==
    /\ MaxEvents \in Nat \ {0}
    /\ Targets \subseteq TaskStatuses
    /\ Logged \subseteq Tasks

\* The work, the review and the test of a task.
Gates == {"active", "in_review", "in_qa"}

Event == [seq : 0 .. MaxEvents - 1, type : {"transition", "note"},
          key : Keys \cup {Null}]

TypeOK ==
    /\ phases \subseteq Phases
    /\ status \in [Tasks -> TaskStatuses \cup {"absent"}]
    /\ claimedBy \in [Tasks -> Agents \cup {Null}]
    /\ order \in Seq(Tasks)
    /\ agents \subseteq Agents
    /\ \A t \in Tasks : events[t] \subseteq Event
    /\ \A t \in Tasks : checkpoints[t] \subseteq 0 .. MaxEvents - 1
    /\ passed \in [Tasks -> SUBSET Gates]

Idle == [pc |-> "idle"]

Init ==
    /\ phases = {}
    /\ status = [t \in Tasks |-> "absent"]
    /\ claimedBy = [t \in Tasks |-> Null]
    /\ order = <<>>
    /\ agents = {}
    /\ events = [t \in Tasks |-> {}]
    /\ checkpoints = [t \in Tasks |-> {}]
    /\ call = [c \in Calls |-> Idle]
    /\ passed = [t \in Tasks |-> {}]

Exists(t) == status[t] # "absent"

\* valid_transition
ValidTransition(from, to) ==
    \/ to \in {"canceled", "failed"}
    \/ <<from, to>> \in
         {<<"planned", "ready">>, <<"ready", "queued">>, <<"queued", "claimed">>,
          <<"claimed", "active">>, <<"claimed", "queued">>,
          <<"active", "paused">>, <<"active", "blocked">>,
          <<"active", "needs_review">>,
          <<"paused", "active">>, <<"blocked", "active">>,
          <<"needs_review", "in_review">>,
          <<"in_review", "needs_qa">>, <<"in_review", "review_failed">>,
          <<"review_failed", "active">>,
          <<"needs_qa", "in_qa">>,
          <<"in_qa", "needs_secondary">>, <<"in_qa", "qa_failed">>,
          <<"qa_failed", "active">>, <<"needs_secondary", "done">>}

\* COALESCE(MAX(event_seq), d)
MaxSeq(t, d) ==
    IF events[t] = {} THEN d
    ELSE CHOOSE n \in {e.seq : e \in events[t]} : \A e \in events[t] : e.seq <= n

Goto(c, r) == call' = [call EXCEPT ![c] = r]
Return(c) == Goto(c, Idle)

\* The status s written to the tasks in T.
Write(T, s) ==
    /\ status' = [t \in Tasks |-> IF t \in T THEN s ELSE status[t]]
    /\ passed' = [t \in Tasks |-> IF t \in T THEN passed[t] \cup ({s} \cap Gates)
                                  ELSE passed[t]]

-----------------------------------------------------------------------------
(***************************************************************************)
(* Phases, tasks and agents: one INSERT or UPDATE each                     *)
(***************************************************************************)

\* te.phase.create; display_id is UNIQUE.
CreatePhase(p) ==
    /\ p \notin phases
    /\ phases' = phases \cup {p}
    /\ UNCHANGED <<status, claimedBy, order, agents, logs, call, passed>>

\* te.task.create; phase_id is a foreign key.
CreateTask(t, p) ==
    /\ ~Exists(t) /\ p \in phases
    /\ Write({t}, "planned")
    /\ order' = Append(order, t)
    /\ UNCHANGED <<phases, claimedBy, agents, logs, call>>

\* te.agent.register
RegisterAgent(a) ==
    /\ a \notin agents
    /\ agents' = agents \cup {a}
    /\ UNCHANGED <<phases, status, claimedBy, order, logs, call, passed>>

\* te.agent.deregister first marks the agent terminated ...
DeregisterMark(c, a) ==
    /\ call[c] = Idle
    /\ Goto(c, [pc |-> "release", a |-> a])
    /\ UNCHANGED <<rows, logs, passed>>

\* ... and then gives back what the agent had claimed and not finished; a blocked
\* task, or one in review, stays with it.
DeregisterRelease(c) ==
    /\ call[c].pc = "release"
    /\ LET T == {t \in Tasks : /\ claimedBy[t] = call[c].a
                               /\ status[t] \in {"claimed", "active", "paused"}}
       IN  /\ Write(T, "queued")
           /\ claimedBy' = [t \in Tasks |-> IF t \in T THEN Null ELSE claimedBy[t]]
    /\ Return(c)
    /\ UNCHANGED <<phases, order, agents, logs>>

-----------------------------------------------------------------------------
(***************************************************************************)
(* te.task.claim                                                           *)
(***************************************************************************)

Claimable(t) == status[t] \in {"queued", "ready"} /\ claimedBy[t] = Null

\* A named task is claimed directly; otherwise the candidates are read first,
\* the more urgent before the others and the older before the younger.
ClaimStart(c, a, t) ==
    /\ call[c] = Idle
    /\ Goto(c, [pc |-> "claim", a |-> a, cands |-> <<t>>])
    /\ UNCHANGED <<rows, logs, passed>>

ClaimNextRead(c, a) ==
    /\ call[c] = Idle
    /\ LET P(t) == Claimable(t) /\ t \in Urgent
           Q(t) == Claimable(t) /\ t \notin Urgent
       IN  Goto(c, [pc |-> "claim", a |-> a,
                    cands |-> SelectSeq(order, P) \o SelectSeq(order, Q)])
    /\ UNCHANGED <<rows, logs, passed>>

\* The UPDATE without "AND claimed_by IS NULL".
ClaimUpdateByStatus(c) ==
    /\ call[c].pc = "claim" /\ call[c].cands # <<>>
    /\ LET t == Head(call[c].cands) IN
       /\ status[t] \in {"queued", "ready"} /\ call[c].a \in agents
       /\ Write({t}, "claimed")
       /\ claimedBy' = [claimedBy EXCEPT ![t] = call[c].a]
    /\ Return(c)
    /\ UNCHANGED <<phases, order, agents, logs>>

\* The conditional UPDATE takes the first candidate that is still free.
\* claimed_by is a foreign key: an unknown agent makes the statement fail.
ClaimUpdate(c) ==
    /\ call[c].pc = "claim" /\ call[c].cands # <<>>
    /\ LET t == Head(call[c].cands) IN
       \/ /\ Claimable(t) /\ call[c].a \in agents
          /\ Write({t}, "claimed")
          /\ claimedBy' = [claimedBy EXCEPT ![t] = call[c].a]
          /\ Return(c)
       \/ /\ ~Claimable(t)
          /\ Goto(c, [call[c] EXCEPT !.cands = Tail(@)])
          /\ UNCHANGED <<status, claimedBy, passed>>
    /\ UNCHANGED <<phases, order, agents, logs>>

ClaimNone(c) ==
    /\ call[c].pc = "claim" /\ call[c].cands = <<>>
    /\ Return(c)
    /\ UNCHANGED <<rows, logs, passed>>

-----------------------------------------------------------------------------
(***************************************************************************)
(* te.task.transition, te.event.log                                        *)
(***************************************************************************)

\* The request without the call of valid_transition.
TransitionUnchecked(c, t, to) ==
    /\ call[c] = Idle
    /\ Exists(t)
    /\ Goto(c, [pc |-> "write", t |-> t, to |-> to])
    /\ UNCHANGED <<rows, logs, passed>>

\* The row is read and the transition validated against it ...
TransitionRead(c, t, to) ==
    /\ call[c] = Idle
    /\ Exists(t) /\ ValidTransition(status[t], to)
    /\ Goto(c, [pc |-> "write", t |-> t, to |-> to])
    /\ UNCHANGED <<rows, logs, passed>>

\* ... then the status is written whatever it is by now; claimed_by stays.
TransitionWrite(c) ==
    /\ call[c].pc = "write"
    /\ Write({call[c].t}, call[c].to)
    /\ Goto(c, [pc |-> "number", t |-> call[c].t, type |-> "transition", key |-> Null])
    /\ UNCHANGED <<phases, claimedBy, order, agents, logs>>

\* te.event.log
EventLog(c, t, k) ==
    /\ call[c] = Idle
    /\ Exists(t)
    /\ Goto(c, [pc |-> "number", t |-> t, type |-> "note", key |-> k])
    /\ UNCHANGED <<rows, logs, passed>>

\* append_event: first the next number ...
AppendNumber(c) ==
    /\ call[c].pc = "number"
    /\ LET seq == MaxSeq(call[c].t, -1) + 1 IN
       /\ seq < MaxEvents
       /\ Goto(c, [pc |-> "insert", t |-> call[c].t,
                   e |-> [seq |-> seq, type |-> call[c].type, key |-> call[c].key]])
    /\ UNCHANGED <<rows, logs, passed>>

\* UNIQUE(task_id, event_seq), UNIQUE(idempotency_key)
NumberTaken(t, e) == \E f \in events[t] : f.seq = e.seq
KeyTaken(e) == e.key # Null /\ \E u \in Tasks : \E f \in events[u] : f.key = e.key

\* INSERT OR REPLACE: the row that is in the way goes.
AppendReplace(c) ==
    /\ call[c].pc = "insert"
    /\ events' = [t \in Tasks |->
            LET e == call[c].e
                kept == {f \in events[t] : /\ (t = call[c].t => f.seq # e.seq)
                                           /\ e.key # Null => f.key # e.key}
            IN  IF t = call[c].t THEN kept \cup {e} ELSE kept]
    /\ Return(c)
    /\ UNCHANGED <<rows, checkpoints, passed>>

\* ... then INSERT OR IGNORE.  A row ignored is an error to the caller, for the
\* SELECT by id that follows finds nothing; the transition has been made.
AppendInsert(c) ==
    /\ call[c].pc = "insert"
    /\ events' = IF NumberTaken(call[c].t, call[c].e) \/ KeyTaken(call[c].e)
                 THEN events
                 ELSE [events EXCEPT ![call[c].t] = @ \cup {call[c].e}]
    /\ Return(c)
    /\ UNCHANGED <<rows, checkpoints, passed>>

-----------------------------------------------------------------------------
(***************************************************************************)
(* te.checkpoint.write                                                     *)
(***************************************************************************)

\* The checkpoint numbered with the next event instead of the last one.
CheckpointReadNext(c, t) ==
    /\ call[c] = Idle
    /\ Exists(t)
    /\ MaxSeq(t, -1) + 1 < MaxEvents
    /\ Goto(c, [pc |-> "checkpoint", t |-> t, last |-> MaxSeq(t, -1) + 1])
    /\ UNCHANGED <<rows, logs, passed>>

\* COALESCE(MAX(event_seq), 0): 0 stands for event 0 and for no event at all.
CheckpointRead(c, t) ==
    /\ call[c] = Idle
    /\ Exists(t)
    /\ Goto(c, [pc |-> "checkpoint", t |-> t, last |-> MaxSeq(t, 0)])
    /\ UNCHANGED <<rows, logs, passed>>

CheckpointWrite(c) ==
    /\ call[c].pc = "checkpoint"
    /\ checkpoints' = [checkpoints EXCEPT ![call[c].t] = @ \cup {call[c].last}]
    /\ Return(c)
    /\ UNCHANGED <<rows, events, passed>>

\* A statement fails, or the daemon dies: what was written stays.
Abort(c) ==
    /\ call[c] # Idle
    /\ Return(c)
    /\ UNCHANGED <<rows, logs, passed>>

-----------------------------------------------------------------------------
Begin(c) ==
    \/ \E a \in Agents : DeregisterMark(c, a) \/ ClaimNextRead(c, a)
    \/ \E a \in Agents, t \in Tasks : ClaimStart(c, a, t)
    \/ \E t \in Tasks, s \in Targets : TransitionRead(c, t, s)
    \/ \E t \in Logged, k \in Keys \cup {Null} : EventLog(c, t, k)
    \/ \E t \in Logged : CheckpointRead(c, t)

Continue(c) ==
    \/ DeregisterRelease(c)
    \/ ClaimUpdate(c) \/ ClaimNone(c)
    \/ TransitionWrite(c) \/ AppendNumber(c) \/ AppendInsert(c)
    \/ CheckpointWrite(c)

Next ==
    \/ \E p \in Phases : CreatePhase(p)
    \/ \E t \in Tasks, p \in Phases : CreateTask(t, p)
    \/ \E a \in Agents : RegisterAgent(a)
    \/ \E c \in Calls : Begin(c) \/ Continue(c) \/ Abort(c)

Spec == Init /\ [][Next]_vars

-----------------------------------------------------------------------------
(***************************************************************************)
(* Properties                                                              *)
(***************************************************************************)

\* The log of a task as its readers see it, ORDER BY event_seq: the events
\* numbered 0, 1, 2, ...; a number that is missing or taken twice is no entry.
LogOf(t) ==
    [i \in 1 .. Cardinality(events[t]) |-> {e \in events[t] : e.seq = i - 1}]

Audit == INSTANCE AppendLog WITH
            Streams <- Tasks,
            Entries <- {{e} : e \in Event},
            log <- [t \in Tasks |-> LogOf(t)]

\* te_events implements an append-only log: though each event is numbered in one
\* statement and inserted in another, and requests race, fail and are ignored,
\* the numbers of a task have no gap and no event is ever replaced.
AuditLogIsAppendOnly == Audit!Spec

\* A request retried with its idempotency key, on any connection and for any
\* task, leaves at most one event with that key.
KeyedEventOnce ==
    \A t, u \in Tasks : \A e \in events[t], f \in events[u] :
        e.key # Null /\ e.key = f.key => t = u /\ e = f

\* A claim is never taken over: a task passes from one agent to another only
\* through deregister_agent's release, whatever claims race and whatever
\* transitions put its status back to queued meanwhile.
ClaimNeverStolen ==
    [][\A t \in Tasks : claimedBy[t] # Null => claimedBy'[t] \in {claimedBy[t], Null}]_vars

\* A task is done only after it has been worked on, reviewed and tested, although
\* every transition is validated against a row that may have changed since.
DoneWasReviewed ==
    \A t \in Tasks : status[t] = "done" =>
        passed[t] = Gates

\* A checkpoint refers only to events that are in the log, so that a resume from
\* it never skips an event to come; last_event_seq 0 may also mean that there was
\* none.
CheckpointInLog ==
    \A t \in Tasks : \A n \in checkpoints[t] :
        n > 0 => \E e \in events[t] : e.seq = n

\* A client may repeat a request with its key, and resume from a checkpoint.
RetryAndResumeSafe == KeyedEventOnce /\ CheckpointInLog
=============================================================================
