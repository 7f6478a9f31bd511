-------------------------- MODULE TaskQueueProofs ---------------------------
(***************************************************************************)
(* Proofs, for any number of tasks, agents and crashes and any timeouts,   *)
(* that a claimed task always has a heartbeat the checker can see, and     *)
(* that the conditional claim gives a task to one agent at a time.         *)
(***************************************************************************)
EXTENDS TaskQueue, TLAPS

\* A claim under way names a task.
CallsNameTasks == \A a \in Agents : call[a].pc # "ready" => call[a].t \in Tasks

RowInv == TypeOK /\ CallsNameTasks

-----------------------------------------------------------------------------
(***************************************************************************)
(* Types                                                                   *)
(***************************************************************************)

\* An empty data directory is well typed.
LEMMA InitRowInv == Init => RowInv
<1> USE QueueAssumption
    DEF Init, RowInv, TypeOK, CallsNameTasks, CallType, NoCall, Stale, Old
<1>1. ASSUME Init PROVE NoCall \in CallType
  OBVIOUS
<1>. QED
  BY <1>1

\* Every action keeps the rows and the claims under way well typed.
LEMMA NextRowInv == RowInv /\ [Next]_vars => RowInv'
<1> SUFFICES ASSUME RowInv, [Next]_vars PROVE RowInv'
  OBVIOUS
<1> USE QueueAssumption DEF RowInv, TypeOK, CallsNameTasks, Stale, Old, row, views
<1>0. NoCall \in CallType /\ NoCall.pc = "ready"
  BY DEF NoCall, CallType
<1>1. ASSUME NEW a \in Agents, ClaimUpdate(a) PROVE RowInv'
  <2>1. call[a].t \in Tasks /\ call[a].age \in 0 .. Stale
    BY <1>1 DEF ClaimUpdate, CallType
  <2>2. call' = [call EXCEPT ![a] = [pc |-> "answer", t |-> call[a].t, age |-> 0]]
    BY <1>1 DEF ClaimUpdate, Granted
  <2>3. call' \in [Agents -> CallType] /\ CallsNameTasks'
    BY <2>1, <2>2 DEF CallType
  <2>. QED
    BY <1>1, <2>1, <2>3 DEF ClaimUpdate, Granted, Statuses
<1>1a. ASSUME NEW a \in Agents, ClaimRefused(a) \/ ClaimAnswer(a) PROVE RowInv'
  <2>1. call' = [call EXCEPT ![a] = NoCall]
    BY <1>1a DEF ClaimRefused, ClaimAnswer
  <2>2. call' \in [Agents -> CallType] /\ CallsNameTasks'
    BY <1>0, <2>1
  <2>. QED
    BY <1>1a, <2>2 DEF ClaimRefused, ClaimAnswer
<1>2. ASSUME NEW a \in Agents, NEW t \in Tasks, ClaimRead(a, t) PROVE RowInv'
  BY <1>2 DEF ClaimRead, CallType
<1>3. ASSUME NEW a \in Agents, NEW t \in Tasks, Release(a, t) PROVE RowInv'
  BY <1>3 DEF Release, Statuses
<1>4. ASSUME NEW a \in Agents, NEW t \in Tasks, Heartbeat(a, t) PROVE RowInv'
  BY <1>4 DEF Heartbeat
<1>5. ASSUME NEW t \in Tasks, Add(t) PROVE RowInv'
  BY <1>5 DEF Add, Statuses
<1>6. ASSUME NEW t \in Tasks, NEW v \in Settable, UpdateStatus(t, v) PROVE RowInv'
  BY <1>6 DEF UpdateStatus
<1>7. ASSUME NEW t \in Tasks, NEW v \in FileStatuses, SyncStatus(t, v) PROVE RowInv'
  BY <1>7 DEF SyncStatus
<1>8. CASE InterruptStale
  BY <1>8 DEF InterruptStale, Statuses
<1>8a. ASSUME NEW t \in Tasks, TellInterrupted(t) PROVE RowInv'
  BY <1>8a DEF TellInterrupted
<1>9. CASE ArchiveSelect
  BY <1>9 DEF ArchiveSelect
<1>10. CASE ArchiveCommit
  BY <1>10 DEF ArchiveCommit
<1>11. CASE Tick
  <2>1. \A x \in (0 .. Stale) \cup {None} : Aged(x, Stale) \in (0 .. Stale) \cup {None}
    BY DEF Aged
  <2>2. \A x \in (0 .. Old) \cup {None} : Aged(x, Old) \in (0 .. Old) \cup {None}
    BY DEF Aged
  <2>3. \A x \in 0 .. Stale : Aged(x, Stale) \in 0 .. Stale
    BY DEF Aged
  <2>4. ASSUME NEW a \in Agents
        PROVE  call'[a] \in CallType /\ (call'[a].pc # "ready" => call'[a].t \in Tasks)
    BY <1>11, <2>3 DEF Tick, CallType
  <2>5. call' \in [Agents -> CallType] /\ CallsNameTasks'
    BY <1>11, <2>4 DEF Tick
  <2>. QED
    BY <1>11, <2>1, <2>2, <2>5 DEF Tick
<1>12. CASE Crash
  BY <1>0, <1>12 DEF Crash
<1>13. CASE UNCHANGED vars
  BY <1>13 DEF vars
<1>. QED
  BY <1>1, <1>1a, <1>2, <1>3, <1>4, <1>5, <1>6, <1>7, <1>8, <1>8a, <1>9, <1>10, <1>11, <1>12, <1>13
  DEF Next, AgentStep, TaskStep

(***************************************************************************)
(* Every reachable row satisfies the CHECK constraint of agent_tasks, and  *)
(* every age stays in its range.                                           *)
(***************************************************************************)
THEOREM TypeCorrect == Spec => []TypeOK
<1>1. RowInv => TypeOK
  BY DEF RowInv
<1>. QED
  BY InitRowInv, NextRowInv, <1>1, PTL DEF Spec

-----------------------------------------------------------------------------
(***************************************************************************)
(* Claimed tasks have heartbeats                                           *)
(***************************************************************************)

\* Every action, in a well typed state, keeps a task claimed exactly when it
\* has a heartbeat.
LEMMA NextHeartbeat ==
    RowInv /\ ClaimedHasHeartbeat /\ [Next]_vars => ClaimedHasHeartbeat'
<1> SUFFICES ASSUME RowInv, ClaimedHasHeartbeat, [Next]_vars PROVE ClaimedHasHeartbeat'
  OBVIOUS
<1> USE QueueAssumption DEF RowInv, TypeOK, ClaimedHasHeartbeat, row, views
<1>1. ASSUME NEW a \in Agents, ClaimUpdate(a) PROVE ClaimedHasHeartbeat'
  <2>1. call[a].t \in Tasks /\ call[a].age # None
    BY <1>1 DEF ClaimUpdate, CallType, CallsNameTasks, Stale
  <2>2. a # None
    OBVIOUS
  <2>. QED
    BY <1>1, <2>1, <2>2 DEF ClaimUpdate, Granted
<1>1a. ASSUME NEW a \in Agents, ClaimRefused(a) \/ ClaimAnswer(a) PROVE ClaimedHasHeartbeat'
  BY <1>1a DEF ClaimRefused, ClaimAnswer
<1>1b. ASSUME NEW t \in Tasks, TellInterrupted(t) PROVE ClaimedHasHeartbeat'
  BY <1>1b DEF TellInterrupted
<1>2. ASSUME NEW a \in Agents, NEW t \in Tasks, ClaimRead(a, t) \/ Release(a, t) \/ Heartbeat(a, t)
      PROVE  ClaimedHasHeartbeat'
  <2>1. a # None /\ 0 # None
    OBVIOUS
  <2>. QED
    BY <1>2, <2>1 DEF ClaimRead, Release, Heartbeat
<1>3. ASSUME NEW t \in Tasks, TaskStep(t) PROVE ClaimedHasHeartbeat'
  BY <1>3 DEF TaskStep, Add, UpdateStatus, SyncStatus
<1>4. CASE InterruptStale \/ ArchiveSelect \/ ArchiveCommit \/ Crash
  BY <1>4 DEF InterruptStale, ArchiveSelect, ArchiveCommit, Crash
<1>5. CASE Tick
  <2>1. \A t \in Tasks : Aged(heartbeat[t], Stale) = None <=> heartbeat[t] = None
    BY DEF Aged, Stale
  <2>. QED
    BY <1>5, <2>1 DEF Tick
<1>6. CASE UNCHANGED vars
  BY <1>6 DEF vars
<1>. QED
  BY <1>1, <1>1a, <1>1b, <1>2, <1>3, <1>4, <1>5, <1>6 DEF Next, AgentStep

(***************************************************************************)
(* A task has a heartbeat exactly when it is claimed, whatever statuses    *)
(* clients and active.md write: the NULL that interrupt_stale_tasks skips  *)
(* never hides a claimed task from it.                                     *)
(***************************************************************************)
THEOREM ClaimsAreWatched == Spec => []ClaimedHasHeartbeat
<1>1. Init => ClaimedHasHeartbeat
  BY DEF Init, ClaimedHasHeartbeat
<1>. QED
  BY <1>1, InitRowInv, NextRowInv, NextHeartbeat, PTL DEF Spec

-----------------------------------------------------------------------------
(***************************************************************************)
(* One agent per task                                                      *)
(***************************************************************************)

\* A claim that stands is in its row, in a status nobody else can claim from.
ClaimsStand ==
    \A a \in Agents, t \in Tasks : t \in stands[a] =>
        claimedBy[t] = a /\ status[t] \notin {"interrupted", "absent"}

\* A deleted row leaves nothing behind.
AbsentUnclaimed == \A t \in Tasks : status[t] = "absent" => claimedBy[t] = None

ClaimInv == RowInv /\ ClaimsStand /\ AbsentUnclaimed

\* Only the checker interrupts a task.
OnlyCheckerInterrupts == "interrupted" \notin Settable \cup FileStatuses

\* Every action, under that discipline, keeps the claims that stand in their
\* rows.
LEMMA NextClaimInv ==
    ASSUME OnlyCheckerInterrupts
    PROVE  ClaimInv /\ [Next]_vars => ClaimInv'
<1> SUFFICES ASSUME ClaimInv, [Next]_vars PROVE ClaimsStand' /\ AbsentUnclaimed'
  BY NextRowInv DEF ClaimInv
<1> USE QueueAssumption, OnlyCheckerInterrupts
    DEF ClaimInv, RowInv, TypeOK, ClaimsStand, AbsentUnclaimed, OnlyCheckerInterrupts, row, views
<1>1. ASSUME NEW a \in Agents, ClaimUpdate(a) PROVE ClaimsStand' /\ AbsentUnclaimed'
  <2>1. call[a].t \in Tasks
    BY <1>1 DEF ClaimUpdate, CallsNameTasks
  <2>2. \A b \in Agents : call[a].t \notin stands[b]
    BY <1>1, <2>1 DEF ClaimUpdate, Claimable
  <2>. QED
    BY <1>1, <2>1, <2>2 DEF ClaimUpdate, Granted
<1>2. ASSUME NEW a \in Agents, NEW t \in Tasks, ClaimRead(a, t) \/ Heartbeat(a, t)
      PROVE  ClaimsStand' /\ AbsentUnclaimed'
  BY <1>2 DEF ClaimRead, Heartbeat
<1>2a. ASSUME NEW a \in Agents, ClaimRefused(a) \/ ClaimAnswer(a)
       PROVE  ClaimsStand' /\ AbsentUnclaimed'
  BY <1>2a DEF ClaimRefused, ClaimAnswer
<1>3. ASSUME NEW a \in Agents, NEW t \in Tasks, Release(a, t)
      PROVE  ClaimsStand' /\ AbsentUnclaimed'
  <2>1. status[t] # "absent"
    BY <1>3 DEF Release
  <2>. QED
    BY <1>3, <2>1 DEF Release
<1>4. ASSUME NEW t \in Tasks, Add(t) PROVE ClaimsStand' /\ AbsentUnclaimed'
  BY <1>4 DEF Add
<1>5. ASSUME NEW t \in Tasks, NEW v \in Settable, UpdateStatus(t, v)
      PROVE  ClaimsStand' /\ AbsentUnclaimed'
  BY <1>5 DEF UpdateStatus, Statuses
<1>6. ASSUME NEW t \in Tasks, NEW v \in FileStatuses, SyncStatus(t, v)
      PROVE  ClaimsStand' /\ AbsentUnclaimed'
  BY <1>6 DEF SyncStatus, Statuses
<1>7. CASE InterruptStale
  BY <1>7 DEF InterruptStale, Lapsed
<1>8. CASE ArchiveCommit
  BY <1>8 DEF ArchiveCommit
<1>9. CASE ArchiveSelect \/ Tick \/ Crash \/ \E t \in Tasks : TellInterrupted(t)
  BY <1>9 DEF ArchiveSelect, Tick, Crash, TellInterrupted
<1>10. CASE UNCHANGED vars
  BY <1>10 DEF vars
<1>. QED
  BY <1>1, <1>2, <1>2a, <1>3, <1>4, <1>5, <1>6, <1>7, <1>8, <1>9, <1>10
  DEF Next, AgentStep, TaskStep

(***************************************************************************)
(* The conditional UPDATE of claim_task gives a task to one agent at a     *)
(* time, through heartbeats, lapses, releases, crashes, status changes by  *)
(* anybody and archiving, with answers and events that come late or never, *)
(* as long as only the checker writes "interrupted": a warning sign in     *)
(* active.md lets a second agent claim a task that is being worked on.     *)
(***************************************************************************)
THEOREM ClaimExcludes ==
    ASSUME OnlyCheckerInterrupts
    PROVE  Spec => []OneAgentPerTask
<1>1. Init => ClaimInv
  BY InitRowInv DEF Init, ClaimInv, ClaimsStand, AbsentUnclaimed
<1>2. ClaimInv /\ [Next]_vars => ClaimInv'
  BY NextClaimInv
<1>3. ClaimInv => OneAgentPerTask
  BY DEF ClaimInv, ClaimsStand, OneAgentPerTask, RowInv, TypeOK
<1>. QED
  BY <1>1, <1>2, <1>3, PTL DEF Spec

=============================================================================
