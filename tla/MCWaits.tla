------------------------------ MODULE MCWaits -------------------------------
(***************************************************************************)
(* The components whose callers wait for something, in one model-checking  *)
(* instance with fairness: the daemon's circuit breaker and its approvals, *)
(* and the job ledger, the shell pool and the streams of the intelligence  *)
(* service.  They share no state, so a behaviour is one of one of them,    *)
(* chosen in Init; the others rest in their initial states.                *)
(***************************************************************************)
EXTENDS CircuitBreaker, Sequences, FiniteSets

CONSTANTS
    Jobs, Workers, NoJob,
    Ingest, Learn,  \* the jobs and workers of these queues, the others being embed's
    Urgent,         \* the jobs of priority 1, which the column calls the highest
    MaxRetries, EmbedMax, MaxFaults,
    Procs, Users, Size,
    MaxText, ChunkCap, OutCap,
    Approvals, Humans, Waiters, EventCap

ASSUME WaitsAssumption ==
    /\ MaxRetries \in Nat /\ EmbedMax \in Nat /\ MaxFaults \in Nat
    /\ NoJob \notin Jobs /\ IsFiniteSet(Jobs)
    /\ Size \in Nat /\ IsFiniteSet(Users)
    /\ MaxText \in Nat /\ ChunkCap \in Nat /\ OutCap \in Nat
    /\ IsFiniteSet(Approvals) /\ "idle" \notin Approvals

VARIABLES
    which,      \* the component of this behaviour
    jobStatus, retry, visible, order, worker, stopped, bpActive, depth, faults,
    runs, succeeded,
    live, used, slots, user, reaper, collected, stopCh, stopper,
    mode, sent, upstream, producer, ch, canceled, consumer, out, gone, got,
    decision, told, human, wait, said

\* DefaultHandlers knows the queues ingest and embed, and not learn.
QueueOf == [x \in Jobs \cup Workers |->
                IF x \in Ingest THEN "ingest" ELSE IF x \in Learn THEN "learn" ELSE "embed"]

Ledger == INSTANCE JobLedger WITH
            Priority <- [j \in Jobs |-> IF j \in Urgent THEN 1 ELSE 5],
            Handled <- {"ingest", "embed"}, None <- NoJob,
            status <- jobStatus, canceled <- stopped

Pool == INSTANCE PtyPool

Stream == INSTANCE GatewayStream WITH
            Cap <- ChunkCap

Router == INSTANCE Approvals WITH
            Requests <- Approvals, Cap <- EventCap, status <- decision

breakerVars == <<state, failureCount, successCount, lastFailure, pc>>
jobVars == <<jobStatus, retry, visible, order, worker, stopped, bpActive, depth,
             faults, runs, succeeded>>
poolVars == <<live, used, slots, user, reaper, collected, stopCh, stopper>>
streamVars == <<mode, sent, upstream, producer, ch, canceled, consumer, out, gone,
                got>>
routerVars == <<decision, told, human, wait, said>>
allVars == <<which, breakerVars, jobVars, poolVars, streamVars, routerVars>>

InitAll ==
    /\ which \in {"breaker", "jobs", "pool", "stream", "approvals"}
    /\ Init /\ Ledger!Init /\ Router!Init
    /\ Pool!Init /\ (which # "pool" => slots = <<CHOOSE p \in Procs : TRUE>>)
    /\ Stream!Init /\ (which # "stream" => mode = "handler")

NextAll ==
    \/ /\ which = "breaker" /\ Next
       /\ UNCHANGED <<which, jobVars, poolVars, streamVars, routerVars>>
    \/ /\ which = "jobs" /\ Ledger!Next
       /\ UNCHANGED <<which, breakerVars, poolVars, streamVars, routerVars>>
    \/ /\ which = "pool" /\ Pool!Next
       /\ UNCHANGED <<which, breakerVars, jobVars, streamVars, routerVars>>
    \/ /\ which = "stream" /\ Stream!Next
       /\ UNCHANGED <<which, breakerVars, jobVars, poolVars, routerVars>>
    \/ /\ which = "approvals" /\ Router!Next
       /\ UNCHANGED <<which, breakerVars, jobVars, poolVars, streamVars>>

\* The fairness that each component's module states and justifies.
FairnessAll ==
    /\ WF_breakerVars(which = "breaker" /\ Tick)
    /\ \A c \in Callers : WF_breakerVars(which = "breaker" /\ Call(c))
    /\ \A w \in Workers : WF_jobVars(which = "jobs" /\ Ledger!WorkerStep(w))
    /\ \A j \in Jobs : WF_jobVars(which = "jobs" /\ Ledger!BecomeVisible(j))
    /\ WF_jobVars(which = "jobs" /\ Ledger!MonitorStep)
    /\ WF_poolVars(which = "pool" /\ Pool!ReaperStep)
    /\ SF_poolVars(which = "pool" /\ Pool!ReaperExit)
    /\ WF_poolVars(which = "pool" /\ (Pool!StopWait \/ Pool!StopDrain))
    /\ WF_streamVars(which = "stream" /\ Stream!Produce)
    /\ WF_streamVars(which = "stream" /\ Stream!Consume)
    /\ WF_streamVars(which = "stream" /\ Stream!Drain)
    /\ \A h \in Humans : WF_routerVars(which = "approvals" /\ Router!Announce(h))
    /\ \A w \in Waiters : WF_routerVars(which = "approvals" /\ Router!WaiterStep(w))

FairSpecAll == InitAll /\ [][NextAll]_allVars /\ FairnessAll

-----------------------------------------------------------------------------
(***************************************************************************)
(* Properties; each component's module states what they say of the code.   *)
(* Those of the circuit breaker have their names there.                    *)
(***************************************************************************)

\* The state of every component has its type.
AllTypesOK ==
    /\ which = "breaker" => TypeOK
    /\ which = "jobs" => Ledger!TypeOK
    /\ which = "pool" => Pool!TypeOK
    /\ which = "stream" => Stream!TypeOK
    /\ which = "approvals" => Router!TypeOK

\* One worker per job, one success, and exactly the attempts that are counted.
JobsRunAsCounted == which = "jobs" => Ledger!JobsRunAsCounted

\* A job that waits is settled, unless the pool stops or the job is stranded.
EveryJobSettles == Ledger!EveryJobSettles

\* No shell is shared, lost or more than the pool has room for.
ShellsAccountedFor == which = "pool" => Pool!ShellsAccountedFor

\* Pool.Stop returns.
StopReturns == Pool!StopReturns

\* A client is given a beginning of the text and a true verdict.
StreamIsFaithful == which = "stream" => Stream!StreamIsFaithful

\* The consumer of a stream returns, and the provider ends, unless the consumer left
\* it blocked in a full channel.
StreamSettles == <>[](which = "stream" => Stream!Settled)

\* A decision wakes who waits for it.
DecisionWakes == Router!DecisionWakes
=============================================================================
