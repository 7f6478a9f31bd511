--------------------------- MODULE CircuitBreaker ---------------------------
(***************************************************************************)
(* The circuit breaker of apps/daemon/src/circuit_breaker.rs, shared by a  *)
(* set of callers that follow the usage documented at its top: ask         *)
(* is_allowed, make the external call if admitted, then report the outcome *)
(* with record_success or record_failure.                                  *)
(*                                                                         *)
(* is_allowed takes the lock twice: a read lock on its fast path and, when *)
(* the circuit is Open and the timeout has elapsed, a write lock.  Other   *)
(* callers run between the two, so they are two actions here.  The other   *)
(* operations hold the write lock throughout and are one action each.      *)
(*                                                                         *)
(* last_failure is represented by the time elapsed since that failure,     *)
(* counted up to Timeout: the code only compares it with the timeout.      *)
(***************************************************************************)
EXTENDS Integers

CONSTANTS
    Callers,            \* tasks that share one clone of the breaker
    FailureThreshold,   \* CircuitBreakerConfig::failure_threshold
    SuccessThreshold,   \* CircuitBreakerConfig::success_threshold
    Timeout             \* CircuitBreakerConfig::timeout, in clock ticks

ASSUME ConfigAssumption ==
    /\ FailureThreshold \in Nat
    /\ SuccessThreshold \in Nat
    /\ Timeout \in Nat

VARIABLES
    state,          \* BreakerInner.state
    failureCount,   \* BreakerInner.failure_count
    successCount,   \* BreakerInner.success_count
    lastFailure,    \* ticks since BreakerInner.last_failure, or None
    pc              \* what each caller is doing

inner == <<state, failureCount, successCount, lastFailure>>
vars == <<inner, pc>>

None == -1

States == {"Closed", "Open", "HalfOpen"}

\* "idle": no call;  "upgrade": between is_allowed's read and write locks;
\* "calling": the external call is in flight.
Pcs == {"idle", "upgrade", "calling"}

TypeOK ==
    /\ state \in States
    /\ failureCount \in Nat
    /\ successCount \in Nat
    /\ lastFailure \in {None} \cup (0 .. Timeout)
    /\ pc \in [Callers -> Pcs]

\* BreakerInner::new
Init ==
    /\ state = "Closed"
    /\ failureCount = 0
    /\ successCount = 0
    /\ lastFailure = None
    /\ pc = [c \in Callers |-> "idle"]

\* last_failure.elapsed() >= timeout
TimedOut == lastFailure # None /\ lastFailure >= Timeout

-----------------------------------------------------------------------------
(***************************************************************************)
(* is_allowed                                                              *)
(***************************************************************************)

Admit(c) == pc' = [pc EXCEPT ![c] = "calling"]

\* The read-locked fast path: admit when Closed or HalfOpen; reject within the
\* open window (the caller stays idle); otherwise go for the write lock.
IsAllowedFast(c) ==
    /\ pc[c] = "idle"
    /\ \/ /\ state \in {"Closed", "HalfOpen"}
          /\ Admit(c)
       \/ /\ state = "Open"
          /\ TimedOut \/ lastFailure = None
          /\ pc' = [pc EXCEPT ![c] = "upgrade"]
    /\ UNCHANGED inner

\* The upgrade as it would be without the re-check under the write lock.
IsAllowedUpgradeNoRecheck(c) ==
    /\ pc[c] = "upgrade"
    /\ state' = "HalfOpen"
    /\ successCount' = 0
    /\ Admit(c)
    /\ UNCHANGED <<failureCount, lastFailure>>

\* The write-locked path re-checks everything: the state may have changed.
IsAllowedUpgrade(c) ==
    /\ pc[c] = "upgrade"
    /\ \/ /\ state = "Open" /\ TimedOut
          /\ state' = "HalfOpen"
          /\ successCount' = 0
          /\ Admit(c)
          /\ UNCHANGED <<failureCount, lastFailure>>
       \/ /\ state = "Open" /\ ~TimedOut
          /\ pc' = [pc EXCEPT ![c] = "idle"]
          /\ UNCHANGED inner
       \/ /\ state # "Open"
          /\ Admit(c)
          /\ UNCHANGED inner

(***************************************************************************)
(* record_success, record_failure, force_close                             *)
(***************************************************************************)

\* Back to the initial counters, as record_success and force_close write them.
Close ==
    /\ state' = "Closed"
    /\ failureCount' = 0
    /\ successCount' = 0
    /\ lastFailure' = None

\* The success threshold compared with > instead of >=.
RecordSuccessOffByOne(c) ==
    /\ pc[c] = "calling"
    /\ pc' = [pc EXCEPT ![c] = "idle"]
    /\ \/ /\ state = "HalfOpen" /\ successCount + 1 > SuccessThreshold
          /\ Close
       \/ /\ state = "HalfOpen" /\ successCount + 1 <= SuccessThreshold
          /\ successCount' = successCount + 1
          /\ UNCHANGED <<state, failureCount, lastFailure>>
       \/ /\ state = "Closed"
          /\ failureCount' = 0
          /\ UNCHANGED <<state, successCount, lastFailure>>
       \/ /\ state = "Open"
          /\ UNCHANGED inner

\* Each success in Closed takes one failure back instead of resetting the count.
RecordSuccessDecrements(c) ==
    /\ pc[c] = "calling"
    /\ pc' = [pc EXCEPT ![c] = "idle"]
    /\ failureCount' = IF state = "Closed" THEN failureCount - 1 ELSE failureCount
    /\ UNCHANGED <<state, successCount, lastFailure>>

RecordSuccess(c) ==
    /\ pc[c] = "calling"
    /\ pc' = [pc EXCEPT ![c] = "idle"]
    /\ \/ /\ state = "HalfOpen" /\ successCount + 1 >= SuccessThreshold
          /\ Close
       \/ /\ state = "HalfOpen" /\ successCount + 1 < SuccessThreshold
          /\ successCount' = successCount + 1
          /\ UNCHANGED <<state, failureCount, lastFailure>>
       \/ /\ state = "Closed"
          /\ failureCount' = 0
          /\ UNCHANGED <<state, successCount, lastFailure>>
       \/ /\ state = "Open"
          /\ UNCHANGED inner

\* The failure time stamped only where the failure is counted.
RecordFailureNoStamp(c) ==
    /\ pc[c] = "calling"
    /\ pc' = [pc EXCEPT ![c] = "idle"]
    /\ state # "Open"
    /\ state' = IF state = "Closed" /\ failureCount + 1 < FailureThreshold
                THEN "Closed" ELSE "Open"
    /\ failureCount' = failureCount + (IF state = "Closed" THEN 1 ELSE 0)
    /\ successCount' = IF state = "HalfOpen" THEN 0 ELSE successCount
    /\ UNCHANGED lastFailure

RecordFailure(c) ==
    /\ pc[c] = "calling"
    /\ pc' = [pc EXCEPT ![c] = "idle"]
    /\ lastFailure' = 0
    /\ \/ /\ state = "Closed"
          /\ failureCount' = failureCount + 1
          /\ state' = IF failureCount' >= FailureThreshold THEN "Open" ELSE "Closed"
          /\ UNCHANGED successCount
       \/ /\ state = "HalfOpen"
          /\ state' = "Open"
          /\ successCount' = 0
          /\ UNCHANGED failureCount
       \/ /\ state = "Open"
          /\ UNCHANGED <<state, failureCount, successCount>>

ForceClose ==
    /\ state # "Closed"
    /\ Close
    /\ UNCHANGED pc

\* Time passes.  Beyond Timeout its amount makes no difference.
Tick ==
    /\ lastFailure # None /\ lastFailure < Timeout
    /\ lastFailure' = lastFailure + 1
    /\ UNCHANGED <<state, failureCount, successCount, pc>>

Call(c) ==
    IsAllowedFast(c) \/ IsAllowedUpgrade(c) \/ RecordSuccess(c) \/ RecordFailure(c)

Next == ForceClose \/ Tick \/ \E c \in Callers : Call(c)

Spec == Init /\ [][Next]_vars

(***************************************************************************)
(* Callers keep asking, an admitted call returns (the daemon's calls have  *)
(* timeouts) and time passes.  Nothing forces a health check.              *)
(***************************************************************************)
Fairness == WF_vars(Tick) /\ \A c \in Callers : WF_vars(Call(c))

FairSpec == Spec /\ Fairness

-----------------------------------------------------------------------------
(***************************************************************************)
(* Properties                                                              *)
(***************************************************************************)

(***************************************************************************)
(* An Open circuit always knows when it failed last.  is_allowed's branch  *)
(* for the opposite says "should not happen": its write-locked half would  *)
(* then reject every call for ever, whatever force_close and record_*      *)
(* did in between.                                                         *)
(***************************************************************************)
OpenHasFailureTime == state = "Open" => lastFailure # None

(***************************************************************************)
(* The u32 counters stay within their thresholds in every interleaving, so *)
(* they never wrap: a Closed circuit has counted fewer failures than open  *)
(* it, a HalfOpen one fewer successes than close it.                       *)
(***************************************************************************)
CountersBelowThresholds ==
    /\ state = "Closed" => failureCount = 0 \/ failureCount < FailureThreshold
    /\ state = "HalfOpen" => successCount = 0 \/ successCount < SuccessThreshold
    /\ failureCount <= FailureThreshold \/ failureCount = 1

(***************************************************************************)
(* The open window is respected: no step that admits a caller leaves the   *)
(* circuit Open, and one that admits it to an Open circuit comes a full    *)
(* timeout after the last recorded failure, also when a probe fails        *)
(* between the admitted caller's read lock and its write lock.             *)
(***************************************************************************)
FailFastWhileOpen ==
    [][\A c \in Callers : pc[c] # "calling" /\ pc'[c] = "calling" =>
          /\ state' # "Open"
          /\ state = "Open" => lastFailure >= Timeout]_vars

(***************************************************************************)
(* The circuit leaves Open: late failures of calls admitted earlier push   *)
(* the timeout back, but there are finitely many of them.                  *)
(***************************************************************************)
OpenIsTemporary == state = "Open" ~> state # "Open"

=============================================================================
