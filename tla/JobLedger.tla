----------------------------- MODULE JobLedger ------------------------------
(***************************************************************************)
(* The job worker pool of the intelligence service: the ledger clawde_job  *)
(* (migration 0086), the store that reads and settles jobs                 *)
(* (worker/pgx_store.go) and the pool of goroutines over it                *)
(* (worker/worker.go) with the handlers of DefaultHandlers.                *)
(*                                                                         *)
(* ReadMessage is one transaction; the handler runs after it and the       *)
(* acknowledgement, retry or archive is another statement, so a job is in  *)
(* the hands of a worker while it is marked running.  Stop cancels the     *)
(* context that those statements use, and a crash takes the workers and    *)
(* leaves the ledger.                                                      *)
(***************************************************************************)
EXTENDS Naturals, Sequences, FiniteSets

CONSTANTS
    Jobs,        \* ids of jobs
    Workers,     \* goroutines
    QueueOf,     \* the queue of each job and of each worker
    Priority,    \* clawde_job.priority
    Handled,     \* queues that have a handler: DefaultHandlers has no learn
    MaxRetries,  \* CLAWDE_JOB_MAX_RETRIES
    EmbedMax,    \* embedQueueDepthMax
    MaxFaults,   \* bounds the stops, crashes and statement failures
    None

VARIABLES
    status,     \* clawde_job.status, "absent" when there is no row
    retry,      \* clawde_job.retry_count
    visible,    \* whether visible_at has passed
    order,      \* jobs by created_at
    worker,     \* what each goroutine is doing, with which job, read with
                \* which RetryCount
    canceled,   \* whether Stop has canceled the pool's context
    bpActive,   \* Pool.bpActive
    depth,      \* what the monitor has just counted, or None
    faults,     \* how many faults there have been
    runs,       \* history: how often each job's handler has begun
    succeeded   \* history: how often it has returned without an error

ledger == <<status, retry, visible, order>>
pool == <<worker, canceled, bpActive, depth>>
vars == <<ledger, pool, faults, runs, succeeded>>

\* clawde_job.status 1, 2, 3 and 4
Statuses == {"dead", "pending", "running", "done"}

Free == [pc |-> "free", job |-> None, retry |-> 0]

TypeOK ==
    /\ status \in [Jobs -> Statuses \cup {"absent"}]
    /\ retry \in [Jobs -> 0 .. MaxRetries]
    /\ visible \in [Jobs -> BOOLEAN]
    /\ order \in Seq(Jobs)
    /\ worker \in [Workers -> [pc : {"free", "handler", "ack", "fail"},
                               job : Jobs \cup {None}, retry : 0 .. MaxRetries]]
    /\ canceled \in BOOLEAN /\ bpActive \in BOOLEAN
    /\ depth \in 0 .. Cardinality(Jobs) \cup {None}
    /\ faults \in 0 .. MaxFaults

Init ==
    /\ status = [j \in Jobs |-> "absent"]
    /\ retry = [j \in Jobs |-> 0]
    /\ visible = [j \in Jobs |-> TRUE]
    /\ order = <<>>
    /\ worker = [w \in Workers |-> Free]
    /\ canceled = FALSE
    /\ bpActive = FALSE
    /\ depth = None
    /\ faults = 0
    /\ runs = [j \in Jobs |-> 0]
    /\ succeeded = [j \in Jobs |-> 0]

Set(w, r) == worker' = [worker EXCEPT ![w] = r]
Fault == faults < MaxFaults /\ faults' = faults + 1

\* QueueDepth
QueueDepth(q) == Cardinality({j \in Jobs : QueueOf[j] = q /\ status[j] = "pending"})

\* A job is inserted by a schedule or another service.
Enqueue(j) ==
    /\ status[j] = "absent"
    /\ status' = [status EXCEPT ![j] = "pending"]
    /\ order' = Append(order, j)
    /\ UNCHANGED <<retry, visible, pool, faults, runs, succeeded>>

\* visible_at passes.
BecomeVisible(j) ==
    /\ ~visible[j]
    /\ visible' = [visible EXCEPT ![j] = TRUE]
    /\ UNCHANGED <<status, retry, order, pool, faults, runs, succeeded>>

-----------------------------------------------------------------------------
(***************************************************************************)
(* runWorker and ReadMessage                                               *)
(***************************************************************************)

Ready(q) == {j \in Jobs : QueueOf[j] = q /\ status[j] = "pending" /\ visible[j]}

Older(i, j) == \E m, n \in DOMAIN order : order[m] = i /\ order[n] = j /\ m < n

\* ORDER BY priority DESC, created_at LIMIT 1
Before(i, j) ==
    \/ Priority[i] > Priority[j]
    \/ Priority[i] = Priority[j] /\ Older(i, j)

\* Backpressure holds back the workers of the ingest queue only.
MayRead(w) ==
    /\ worker[w].pc = "free" /\ ~canceled
    /\ ~(QueueOf[w] = "ingest" /\ bpActive)

\* What processMessage does with a job just read: a queue without a handler is
\* an early return, with the job marked running.
Dispatch(w, j) ==
    IF QueueOf[w] \in Handled
    THEN /\ Set(w, [pc |-> "handler", job |-> j, retry |-> retry[j]])
         /\ runs' = [runs EXCEPT ![j] = @ + 1]
    ELSE UNCHANGED <<worker, runs>>

\* SELECT ... FOR UPDATE SKIP LOCKED and the mark, in one transaction.
Read(w) ==
    /\ MayRead(w)
    /\ \E j \in Ready(QueueOf[w]) :
          /\ \A i \in Ready(QueueOf[w]) \ {j} : Before(j, i)
          /\ status' = [status EXCEPT ![j] = "running"]
          /\ Dispatch(w, j)
    /\ UNCHANGED <<retry, visible, order, canceled, bpActive, depth, faults, succeeded>>

-----------------------------------------------------------------------------
(***************************************************************************)
(* processMessage                                                          *)
(***************************************************************************)

HandlerReturns(w) ==
    /\ worker[w].pc = "handler"
    /\ \/ /\ Set(w, [worker[w] EXCEPT !.pc = "ack"])
          /\ succeeded' = [succeeded EXCEPT ![worker[w].job] = @ + 1]
       \/ /\ Set(w, [worker[w] EXCEPT !.pc = "fail"])
          /\ UNCHANGED succeeded
    /\ UNCHANGED <<ledger, canceled, bpActive, depth, faults, runs>>

\* AckJob
Ack(w) ==
    /\ worker[w].pc = "ack" /\ ~canceled
    /\ status' = [status EXCEPT ![worker[w].job] = "done"]
    /\ Set(w, Free)
    /\ UNCHANGED <<retry, visible, order, canceled, bpActive, depth, faults, runs,
                   succeeded>>

\* The comparison RetryCount > maxRetries in place of >=.
FailOffByOne(w) ==
    /\ worker[w].pc = "fail" /\ ~canceled
    /\ LET j == worker[w].job IN
       IF worker[w].retry > MaxRetries
       THEN /\ status' = [status EXCEPT ![j] = "dead"]
            /\ UNCHANGED <<retry, visible>>
       ELSE /\ status' = [status EXCEPT ![j] = "pending"]
            /\ retry' = [retry EXCEPT ![j] = @ + 1]
            /\ visible' = [visible EXCEPT ![j] = FALSE]
    /\ Set(w, Free)
    /\ UNCHANGED <<order, canceled, bpActive, depth, faults, runs, succeeded>>

\* ArchiveToDLQ after the last attempt, IncrRetry with a backoff before it.
Fail(w) ==
    /\ worker[w].pc = "fail" /\ ~canceled
    /\ LET j == worker[w].job IN
       IF worker[w].retry >= MaxRetries
       THEN /\ status' = [status EXCEPT ![j] = "dead"]
            /\ UNCHANGED <<retry, visible>>
       ELSE /\ status' = [status EXCEPT ![j] = "pending"]
            /\ retry' = [retry EXCEPT ![j] = @ + 1]
            /\ visible' = [visible EXCEPT ![j] = FALSE]
    /\ Set(w, Free)
    /\ UNCHANGED <<order, canceled, bpActive, depth, faults, runs, succeeded>>

\* The statement that settles a job fails, always so once the context is
\* canceled: the error is logged and the worker moves on.
SettleFails(w) ==
    /\ worker[w].pc \in {"ack", "fail"}
    /\ IF canceled THEN UNCHANGED faults ELSE Fault
    /\ Set(w, Free)
    /\ UNCHANGED <<ledger, canceled, bpActive, depth, runs, succeeded>>

-----------------------------------------------------------------------------
(***************************************************************************)
(* The backpressure monitor counts, then sets the flag under its lock      *)
(***************************************************************************)

MonitorCount ==
    /\ depth = None /\ ~canceled
    /\ depth' = QueueDepth("embed")
    /\ UNCHANGED <<ledger, worker, canceled, bpActive, faults, runs, succeeded>>

\* A flag that is set and never cleared.
MonitorSetOnly ==
    /\ depth # None
    /\ bpActive' = (bpActive \/ depth > EmbedMax)
    /\ depth' = None
    /\ UNCHANGED <<ledger, worker, canceled, faults, runs, succeeded>>

MonitorSet ==
    /\ depth # None
    /\ bpActive' = (depth > EmbedMax)
    /\ depth' = None
    /\ UNCHANGED <<ledger, worker, canceled, faults, runs, succeeded>>

-----------------------------------------------------------------------------
(***************************************************************************)
(* Stop, crash and the next start                                          *)
(***************************************************************************)

Stop ==
    /\ ~canceled /\ Fault
    /\ canceled' = TRUE
    /\ UNCHANGED <<ledger, worker, bpActive, depth, runs, succeeded>>

\* After Stop the process ends when every goroutine has; a crash ends it at any
\* time.  New and Start begin with a pool of free workers.
Restart ==
    /\ \/ canceled /\ (\A w \in Workers : worker[w] = Free) /\ UNCHANGED faults
       \/ Fault
    /\ worker' = [w \in Workers |-> Free]
    /\ canceled' = FALSE
    /\ bpActive' = FALSE
    /\ depth' = None
    /\ UNCHANGED <<ledger, runs, succeeded>>

WorkerStep(w) == Read(w) \/ HandlerReturns(w) \/ Ack(w) \/ Fail(w) \/ SettleFails(w)
MonitorStep == MonitorCount \/ MonitorSet

Next ==
    \/ \E j \in Jobs : Enqueue(j) \/ BecomeVisible(j)
    \/ \E w \in Workers : WorkerStep(w)
    \/ MonitorStep
    \/ Stop \/ Restart

\* The goroutines of the pool run, and time passes.
Fairness ==
    /\ \A w \in Workers : WF_vars(WorkerStep(w))
    /\ \A j \in Jobs : WF_vars(BecomeVisible(j))
    /\ WF_vars(MonitorStep)

Spec == Init /\ [][Next]_vars
FairSpec == Spec /\ Fairness

-----------------------------------------------------------------------------
(***************************************************************************)
(* Properties                                                              *)
(***************************************************************************)

Busy(w, j) == worker[w].job = j

\* FOR UPDATE SKIP LOCKED and the running mark give a job to one worker at a
\* time, also when the job is retried, the pool stopped, or the process
\* restarted while the ledger stays.
OneWorkerPerJob ==
    \A j \in Jobs :
        /\ Cardinality({w \in Workers : Busy(w, j)}) <= 1
        /\ (\E w \in Workers : Busy(w, j)) => status[j] = "running"

\* A handler that has succeeded is never run again, whether or not its
\* acknowledgement arrived.
SucceedsOnce == \A j \in Jobs : succeeded[j] <= 1 /\ (status[j] = "done" => succeeded[j] = 1)

\* A job is given up after exactly 1 + MaxRetries runs of its handler, none of
\* which succeeded: neither early nor late, and no attempt is lost or counted
\* twice by the store's own retry_count.
DeadAfterAllAttempts ==
    \A j \in Jobs :
        /\ runs[j] <= MaxRetries + 1
        /\ status[j] = "dead" => runs[j] = MaxRetries + 1 /\ succeeded[j] = 0

\* A job no worker has and none will read again.
Stranded(j) == status[j] = "running" /\ ~\E w \in Workers : Busy(w, j)

\* A job that waits is done or given up in the end, unless the pool is stopped or
\* the job is stranded; backpressure and backoff only delay it.
EveryJobSettles ==
    \A j \in Jobs :
        (status[j] = "pending") ~> (status[j] \in {"done", "dead"} \/ Stranded(j) \/ canceled)

\* The ledger's account of a job is true, whatever retries, stops, crashes and
\* failed statements come between its read and its settlement.
JobsRunAsCounted == OneWorkerPerJob /\ SucceedsOnce /\ DeadAfterAllAttempts
=============================================================================
