--------------------------- MODULE JobLedgerProofs --------------------------
(***************************************************************************)
(* Proofs, for any number of jobs, workers, retries and faults, that the   *)
(* ledger gives a job to one worker at a time, settles it once, and counts *)
(* the runs of its handler exactly.                                        *)
(***************************************************************************)
EXTENDS JobLedger, FiniteSetTheorems, TLAPS

\* The id that stands for no job is none, and the ledger is finite.
LedgerAssumption ==
    /\ MaxRetries \in Nat /\ EmbedMax \in Nat /\ MaxFaults \in Nat
    /\ None \notin Jobs /\ IsFiniteSet(Jobs)

-----------------------------------------------------------------------------
(***************************************************************************)
(* The inductive invariant: what the ledger and the hands of the workers   *)
(* say of each other                                                       *)
(***************************************************************************)

\* A worker has a job exactly if it is not free.
Handed == \A w \in Workers : worker[w].pc = "free" <=> worker[w].job = None

\* The job of a worker is marked running, was read with its present retry_count,
\* has begun once more than it was retried, and has succeeded only now.
InHand ==
    \A w \in Workers : worker[w].pc # "free" =>
        LET j == worker[w].job IN
        /\ status[j] = "running"
        /\ worker[w].retry = retry[j]
        /\ runs[j] = retry[j] + 1
        /\ succeeded[j] = IF worker[w].pc = "ack" THEN 1 ELSE 0

\* No two workers have the same job.
Alone ==
    \A v, w \in Workers : worker[v].pc # "free" /\ worker[v].job = worker[w].job => v = w

\* What the status of a job says of its runs.  A running job may have lost its
\* worker before or after its handler succeeded, or never had a handler.
Counted ==
    \A j \in Jobs :
        /\ status[j] \in {"absent", "pending"} => runs[j] = retry[j] /\ succeeded[j] = 0
        /\ status[j] = "running" => runs[j] <= retry[j] + 1 /\ succeeded[j] <= 1
        /\ status[j] = "done" => runs[j] <= retry[j] + 1 /\ succeeded[j] = 1
        /\ status[j] = "dead" => runs[j] = MaxRetries + 1 /\ succeeded[j] = 0

Histories == runs \in [Jobs -> Nat] /\ succeeded \in [Jobs -> Nat]

Inv == TypeOK /\ Histories /\ Handed /\ InHand /\ Alone /\ Counted

-----------------------------------------------------------------------------
(***************************************************************************)
(* Steps                                                                   *)
(***************************************************************************)

\* A free worker is a worker.
LEMMA FreeType ==
    ASSUME LedgerAssumption
    PROVE  Free \in [pc : {"free", "handler", "ack", "fail"},
                    job : Jobs \cup {None}, retry : 0 .. MaxRetries]
BY DEF Free, LedgerAssumption

\* An empty ledger and a pool of free workers.
LEMMA InitInv == ASSUME LedgerAssumption PROVE Init => Inv
<1> SUFFICES ASSUME Init PROVE Inv
  OBVIOUS
<1>1. /\ worker \in [Workers -> [pc : {"free", "handler", "ack", "fail"},
                                 job : Jobs \cup {None}, retry : 0 .. MaxRetries]]
      /\ retry \in [Jobs -> 0 .. MaxRetries] /\ faults \in 0 .. MaxFaults
  BY FreeType DEF Init, LedgerAssumption
<1>2. status \in [Jobs -> Statuses \cup {"absent"}] /\ visible \in [Jobs -> BOOLEAN]
  BY DEF Init, Statuses
<1>3. depth \in 0 .. Cardinality(Jobs) \cup {None} /\ order \in Seq(Jobs)
  BY DEF Init
<1>4. TypeOK
  BY <1>1, <1>2, <1>3 DEF Init, TypeOK
<1>. QED
  BY <1>4 DEF Init, Inv, Histories, Handed, InHand, Alone, Counted, Free

\* A depth is a count of jobs.
LEMMA DepthType ==
    ASSUME LedgerAssumption, NEW q PROVE QueueDepth(q) \in 0 .. Cardinality(Jobs)
<1> DEFINE S == {j \in Jobs : QueueOf[j] = q /\ status[j] = "pending"}
<1>1. S \subseteq Jobs /\ IsFiniteSet(Jobs)
  BY DEF LedgerAssumption
<1> HIDE DEF S
<1>2. IsFiniteSet(S) /\ Cardinality(S) <= Cardinality(Jobs)
  BY <1>1, FS_Subset
<1>3. Cardinality(S) \in Nat /\ Cardinality(Jobs) \in Nat
  BY <1>1, <1>2, FS_CardinalityType
<1>4. QueueDepth(q) = Cardinality(S)
  BY DEF QueueDepth, S
<1>. QED
  BY <1>2, <1>3, <1>4

\* Jobs arrive and become visible again.
LEMMA JobInv ==
    ASSUME Inv, NEW j \in Jobs, Enqueue(j) \/ BecomeVisible(j) PROVE Inv'
<1>1. CASE Enqueue(j)
  <2>1. /\ status[j] = "absent" /\ status' = [status EXCEPT ![j] = "pending"]
        /\ order' \in Seq(Jobs)
        /\ UNCHANGED <<retry, visible, worker, canceled, bpActive, depth, faults, runs, succeeded>>
    BY <1>1 DEF Enqueue, Inv, TypeOK, pool
  <2>2. TypeOK' /\ Histories' /\ Handed' /\ Alone'
    BY <2>1 DEF Inv, TypeOK, Statuses, Histories, Handed, Alone
  <2>3. InHand'
    BY <2>1 DEF Inv, TypeOK, InHand
  <2>4. Counted'
    BY <2>1 DEF Inv, TypeOK, Counted
  <2>. QED
    BY <2>2, <2>3, <2>4 DEF Inv
<1>2. CASE BecomeVisible(j)
  BY <1>2 DEF BecomeVisible, pool, Inv, TypeOK, Histories, Handed, InHand, Alone, Counted
<1>. QED
  BY <1>1, <1>2

\* A worker reads a job: nobody has it, for it was pending.
LEMMA ReadInv == ASSUME LedgerAssumption, Inv, NEW w \in Workers, Read(w) PROVE Inv'
<1>1. PICK j \in Jobs : /\ status[j] = "pending"
                        /\ status' = [status EXCEPT ![j] = "running"]
                        /\ Dispatch(w, j)
  BY DEF Read, Ready
<1>2. /\ UNCHANGED <<retry, visible, order, canceled, bpActive, depth, faults, succeeded>>
      /\ worker[w].pc = "free"
  BY DEF Read, MayRead
<1>3. \A v \in Workers : worker[v].job # j
  BY <1>1 DEF Inv, Handed, InHand, LedgerAssumption
<1>4. runs[j] = retry[j] /\ succeeded[j] = 0
  BY <1>1 DEF Inv, Counted
<1>5. CASE /\ worker' = [worker EXCEPT ![w] = [pc |-> "handler", job |-> j, retry |-> retry[j]]]
           /\ runs' = [runs EXCEPT ![j] = @ + 1]
  <2>1. TypeOK' /\ Histories'
    BY <1>1, <1>2, <1>5 DEF Inv, TypeOK, Statuses, Histories
  <2>2. Handed'
    BY <1>5 DEF Inv, TypeOK, Handed, LedgerAssumption
  <2>3. InHand'
    BY <1>1, <1>2, <1>3, <1>4, <1>5 DEF Inv, TypeOK, Histories, InHand
  <2>4. Alone'
    BY <1>3, <1>5 DEF Inv, TypeOK, Alone
  <2>5. Counted'
    BY <1>1, <1>2, <1>4, <1>5 DEF Inv, TypeOK, Histories, Counted
  <2>. QED
    BY <2>1, <2>2, <2>3, <2>4, <2>5 DEF Inv
<1>6. CASE UNCHANGED <<worker, runs>>
  <2>1. TypeOK' /\ Histories' /\ Handed' /\ Alone'
    BY <1>1, <1>2, <1>6 DEF Inv, TypeOK, Statuses, Histories, Handed, Alone
  <2>2. InHand'
    BY <1>1, <1>2, <1>3, <1>6 DEF Inv, TypeOK, InHand
  <2>3. Counted'
    BY <1>1, <1>2, <1>4, <1>6 DEF Inv, TypeOK, Histories, Counted
  <2>. QED
    BY <2>1, <2>2, <2>3 DEF Inv
<1>. QED
  BY <1>1, <1>5, <1>6 DEF Dispatch, Set

\* A handler ends, with or without an error.
LEMMA HandlerInv == ASSUME LedgerAssumption, Inv, NEW w \in Workers, HandlerReturns(w) PROVE Inv'
<1> DEFINE j == worker[w].job
<1>1. j \in Jobs /\ status[j] = "running" /\ worker[w].pc = "handler"
      /\ worker[w].retry = retry[j] /\ runs[j] = retry[j] + 1 /\ succeeded[j] = 0
  BY DEF HandlerReturns, Inv, TypeOK, Handed, InHand
<1>2. UNCHANGED <<status, retry, visible, order, canceled, bpActive, depth, faults, runs>>
  BY DEF HandlerReturns, ledger
<1>3. PICK p \in {"ack", "fail"} :
          /\ worker' = [worker EXCEPT ![w] = [worker[w] EXCEPT !.pc = p]]
          /\ succeeded' = IF p = "ack" THEN [succeeded EXCEPT ![j] = @ + 1] ELSE succeeded
  BY DEF HandlerReturns, Set
<1>4. /\ worker'[w].pc = p /\ worker'[w].job = j /\ worker'[w].retry = worker[w].retry
      /\ \A v \in Workers \ {w} : worker'[v] = worker[v]
  BY <1>3 DEF Inv, TypeOK
<1>5. TypeOK' /\ Histories'
  <2>1. [worker[w] EXCEPT !.pc = p] \in [pc : {"free", "handler", "ack", "fail"},
                                         job : Jobs \cup {None}, retry : 0 .. MaxRetries]
    BY DEF Inv, TypeOK
  <2>2. worker' \in [Workers -> [pc : {"free", "handler", "ack", "fail"},
                                 job : Jobs \cup {None}, retry : 0 .. MaxRetries]]
    BY <1>3, <2>1 DEF Inv, TypeOK
  <2>3. succeeded' \in [Jobs -> Nat]
    BY <1>1, <1>3 DEF Inv, Histories
  <2>. QED
    BY <1>2, <2>2, <2>3 DEF Inv, TypeOK, Histories
<1>6. Handed' /\ Alone'
  BY <1>1, <1>4 DEF Inv, Handed, Alone, LedgerAssumption
<1>7. InHand'
  <2> SUFFICES ASSUME NEW v \in Workers, worker'[v].pc # "free"
               PROVE  LET i == worker'[v].job IN
                      /\ status'[i] = "running"
                      /\ worker'[v].retry = retry'[i]
                      /\ runs'[i] = retry'[i] + 1
                      /\ succeeded'[i] = IF worker'[v].pc = "ack" THEN 1 ELSE 0
    BY DEF InHand
  <2>1. CASE v = w
    BY <1>1, <1>2, <1>3, <1>4, <2>1 DEF Inv, Histories
  <2>2. CASE v # w
    <3>1. worker'[v] = worker[v] /\ worker[v].job # j
      BY <1>1, <1>4, <2>2 DEF Inv, Alone
    <3>2. succeeded'[worker[v].job] = succeeded[worker[v].job]
      BY <1>3, <3>1 DEF Inv, Histories
    <3>. QED
      BY <1>2, <3>1, <3>2 DEF Inv, InHand
  <2>. QED
    BY <2>1, <2>2
<1>8. Counted'
  BY <1>1, <1>2, <1>3 DEF Inv, TypeOK, Histories, Counted
<1>. QED
  BY <1>5, <1>6, <1>7, <1>8 DEF Inv

\* A worker lets its job go, and the job is settled as its status says.
LEMMA SettleInv ==
    ASSUME LedgerAssumption, Inv, NEW w \in Workers, Ack(w) \/ Fail(w) \/ SettleFails(w) PROVE Inv'
<1> DEFINE j == worker[w].job
<1>1. /\ j \in Jobs /\ status[j] = "running" /\ worker[w].pc \in {"ack", "fail"}
      /\ worker[w].retry = retry[j] /\ runs[j] = retry[j] + 1
      /\ succeeded[j] = IF worker[w].pc = "ack" THEN 1 ELSE 0
  BY DEF Ack, Fail, SettleFails, Inv, TypeOK, Handed, InHand
<1>2. /\ worker' = [worker EXCEPT ![w] = Free]
      /\ UNCHANGED <<order, canceled, bpActive, depth, runs, succeeded>>
  BY DEF Ack, Fail, SettleFails, Set, ledger
<1>3. worker'[w] = Free /\ \A v \in Workers \ {w} : worker'[v] = worker[v]
  BY <1>2 DEF Inv, TypeOK
<1>4. /\ faults' \in 0 .. MaxFaults /\ visible' \in [Jobs -> BOOLEAN]
      /\ worker' \in [Workers -> [pc : {"free", "handler", "ack", "fail"},
                                  job : Jobs \cup {None}, retry : 0 .. MaxRetries]]
  <2>1. faults' \in 0 .. MaxFaults
    BY DEF Ack, Fail, SettleFails, Fault, Inv, TypeOK, LedgerAssumption
  <2>2. visible' \in [Jobs -> BOOLEAN]
    BY DEF Ack, Fail, SettleFails, ledger, Inv, TypeOK
  <2>. QED
    BY <1>2, <2>1, <2>2, FreeType DEF Inv, TypeOK
<1>5. Handed' /\ Alone' /\ Histories'
  BY <1>1, <1>2, <1>3 DEF Inv, Handed, Alone, Histories, Free, LedgerAssumption
<1>6. /\ status' \in [Jobs -> Statuses \cup {"absent"}] /\ retry' \in [Jobs -> 0 .. MaxRetries]
      /\ \A i \in Jobs \ {j} : status'[i] = status[i] /\ retry'[i] = retry[i]
      /\ \/ status'[j] = "running" /\ retry'[j] = retry[j]
         \/ status'[j] = "done" /\ retry'[j] = retry[j] /\ worker[w].pc = "ack"
         \/ status'[j] = "dead" /\ retry[j] = MaxRetries /\ worker[w].pc = "fail"
         \/ status'[j] = "pending" /\ retry'[j] = retry[j] + 1 /\ worker[w].pc = "fail"
  <2>1. CASE Ack(w)
    BY <1>1, <2>1 DEF Ack, Inv, TypeOK, Statuses
  <2>2. CASE Fail(w)
    <3>1. CASE worker[w].retry >= MaxRetries
      <4>1. /\ status' = [status EXCEPT ![j] = "dead"] /\ UNCHANGED retry
            /\ worker[w].pc = "fail"
        BY <2>2, <3>1 DEF Fail
      <4>2. retry[j] = MaxRetries
        BY <1>1, <3>1 DEF Inv, TypeOK, LedgerAssumption
      <4>. QED
        BY <1>1, <4>1, <4>2 DEF Inv, TypeOK, Statuses
    <3>2. CASE ~(worker[w].retry >= MaxRetries)
      <4>1. /\ status' = [status EXCEPT ![j] = "pending"]
            /\ retry' = [retry EXCEPT ![j] = @ + 1]
        BY <2>2, <3>2 DEF Fail
      <4>2. retry[j] + 1 \in 0 .. MaxRetries
        BY <1>1, <3>2 DEF Inv, TypeOK, LedgerAssumption
      <4>. QED
        BY <1>1, <2>2, <4>1, <4>2 DEF Fail, Inv, TypeOK, Statuses, LedgerAssumption
    <3>. QED
      BY <3>1, <3>2
  <2>3. CASE SettleFails(w)
    BY <1>1, <2>3 DEF SettleFails, ledger, Inv, TypeOK
  <2>. QED
    BY <2>1, <2>2, <2>3
<1>7. TypeOK'
  BY <1>2, <1>4, <1>6 DEF Inv, TypeOK
<1>8. InHand'
  <2>1. \A v \in Workers : worker'[v].pc # "free" =>
            worker'[v] = worker[v] /\ worker[v].job \in Jobs \ {j}
    BY <1>1, <1>3 DEF Free, Inv, Alone, Handed, TypeOK
  <2>. QED
    BY <1>2, <1>6, <2>1 DEF Inv, InHand
<1>9. Counted'
  <2> SUFFICES ASSUME NEW i \in Jobs
               PROVE /\ status'[i] \in {"absent", "pending"} => runs'[i] = retry'[i] /\ succeeded'[i] = 0
                     /\ status'[i] = "running" => runs'[i] <= retry'[i] + 1 /\ succeeded'[i] <= 1
                     /\ status'[i] = "done" => runs'[i] <= retry'[i] + 1 /\ succeeded'[i] = 1
                     /\ status'[i] = "dead" => runs'[i] = MaxRetries + 1 /\ succeeded'[i] = 0
    BY DEF Counted
  <2>1. CASE i = j
    BY <1>1, <1>2, <1>6, <2>1 DEF Inv, TypeOK
  <2>2. CASE i # j
    BY <1>2, <1>6, <2>2 DEF Inv, Counted
  <2>. QED
    BY <2>1, <2>2
<1>. QED
  BY <1>5, <1>7, <1>8, <1>9 DEF Inv

\* The monitor, a stop and a restart leave the ledger and its history alone.
LEMMA PoolInv ==
    ASSUME LedgerAssumption, Inv, MonitorStep \/ Stop \/ Restart \/ UNCHANGED vars PROVE Inv'
<1>1. UNCHANGED <<ledger, runs, succeeded>>
  BY DEF MonitorStep, MonitorCount, MonitorSet, Stop, Restart, vars
<1>2. UNCHANGED worker \/ worker' = [w \in Workers |-> Free]
  BY DEF MonitorStep, MonitorCount, MonitorSet, Stop, Restart, vars, pool
<1>3. TypeOK'
  <2>1. /\ canceled' \in BOOLEAN /\ bpActive' \in BOOLEAN
        /\ depth' \in 0 .. Cardinality(Jobs) \cup {None} /\ faults' \in 0 .. MaxFaults
    <3>1. CASE MonitorStep
      <4>1. depth' \in 0 .. Cardinality(Jobs) \cup {None} /\ UNCHANGED <<canceled, faults>>
        BY <3>1, DepthType DEF MonitorStep, MonitorCount, MonitorSet
      <4>2. bpActive' = bpActive \/ (depth \in Nat /\ bpActive' = (depth > EmbedMax))
        BY <3>1 DEF MonitorStep, MonitorCount, MonitorSet, Inv, TypeOK
      <4>3. depth \in Nat => (depth > EmbedMax) \in BOOLEAN
        BY DEF LedgerAssumption
      <4>4. bpActive' \in BOOLEAN
        BY <4>2, <4>3, Zenon DEF Inv, TypeOK
      <4>. QED
        BY <4>1, <4>4 DEF Inv, TypeOK
    <3>2. CASE Stop \/ Restart
      <4>1. faults' \in 0 .. MaxFaults
        BY <3>2 DEF Stop, Restart, Fault, Inv, TypeOK, LedgerAssumption
      <4>2. depth' = depth \/ depth' = None
        BY <3>2 DEF Stop, Restart
      <4>3. canceled' \in BOOLEAN /\ bpActive' \in BOOLEAN
        BY <3>2 DEF Stop, Restart, Inv, TypeOK
      <4>. QED
        BY <4>1, <4>2, <4>3 DEF Inv, TypeOK
    <3>3. CASE UNCHANGED vars
      BY <3>3 DEF vars, pool, Inv, TypeOK
    <3>. QED
      BY <3>1, <3>2, <3>3
  <2>. QED
    BY <1>1, <1>2, <2>1, FreeType DEF ledger, Inv, TypeOK
<1>4. Handed' /\ InHand' /\ Alone'
  BY <1>1, <1>2 DEF ledger, Free, Inv, Handed, InHand, Alone
<1>5. Histories' /\ Counted'
  BY <1>1 DEF ledger, Inv, Histories, Counted
<1>. QED
  BY <1>3, <1>4, <1>5 DEF Inv

\* Every step keeps the invariant.
LEMMA NextInv == ASSUME LedgerAssumption PROVE Inv /\ [Next]_vars => Inv'
BY JobInv, ReadInv, HandlerInv, SettleInv, PoolInv DEF Next, WorkerStep

\* The invariant holds throughout.
LEMMA AlwaysInv == ASSUME LedgerAssumption PROVE Spec => []Inv
BY InitInv, NextInv, PTL DEF Spec

-----------------------------------------------------------------------------
(***************************************************************************)
(* What follows                                                            *)
(***************************************************************************)

\* The invariant says at least what the run checks.
LEMMA InvImplies == ASSUME LedgerAssumption PROVE Inv => TypeOK /\ JobsRunAsCounted
<1> SUFFICES ASSUME Inv PROVE JobsRunAsCounted
  BY DEF Inv
<1>1. OneWorkerPerJob
  <2> SUFFICES ASSUME NEW j \in Jobs
               PROVE  /\ Cardinality({w \in Workers : Busy(w, j)}) <= 1
                      /\ (\E w \in Workers : Busy(w, j)) => status[j] = "running"
    BY DEF OneWorkerPerJob
  <2>1. \A w \in Workers : Busy(w, j) => worker[w].pc # "free" /\ worker[w].job = j
    BY DEF Busy, Inv, Handed, LedgerAssumption
  <2> DEFINE S == {w \in Workers : Busy(w, j)}
  <2>2. S = {} \/ \E w \in Workers : S = {w}
    BY <2>1 DEF Inv, Alone
  <2>3. Cardinality({}) = 0 /\ \A w : Cardinality({w}) = 1
    BY FS_EmptySet, FS_Singleton
  <2> HIDE DEF S
  <2>4. Cardinality(S) = 0 \/ Cardinality(S) = 1
    BY <2>2, <2>3
  <2>5. Cardinality(S) <= 1
    BY <2>4
  <2>. QED
    BY <2>1, <2>5 DEF S, Inv, InHand
<1>2. \A j \in Jobs : /\ status[j] \in {"absent", "pending", "running", "done", "dead"}
                      /\ retry[j] \in 0 .. MaxRetries /\ runs[j] \in Nat /\ succeeded[j] \in Nat
  BY DEF Inv, TypeOK, Statuses, Histories
<1>3. SucceedsOnce
  BY <1>2 DEF Inv, Counted, SucceedsOnce
<1>4. DeadAfterAllAttempts
  BY <1>2 DEF Inv, Counted, DeadAfterAllAttempts, LedgerAssumption
<1>. QED
  BY <1>1, <1>3, <1>4 DEF JobsRunAsCounted

\* One worker has a job at a time, a handler that has succeeded never runs again,
\* and a job is given up after exactly 1 + CLAWDE_JOB_MAX_RETRIES runs of its
\* handler, whatever retries, stops, crashes and failed statements come between.
THEOREM RunsAreCounted == ASSUME LedgerAssumption PROVE Spec => [](TypeOK /\ JobsRunAsCounted)
BY AlwaysInv, InvImplies, PTL
=============================================================================
