------------------------------ MODULE TaskQueue -----------------------------
(***************************************************************************)
(* The queue of agent tasks (tasks/storage.rs), the requests that agents   *)
(* make on it (ipc/handlers/tasks.rs, mcp/tools/task.rs), the sync from    *)
(* active.md (tasks/watcher.rs), and the two background jobs of            *)
(* tasks/jobs.rs: the heartbeat checker and the archiver of done tasks.    *)
(*                                                                         *)
(* An action is what happens between two statements on the store.  A claim *)
(* reads the row and then makes a conditional UPDATE; the archiver SELECTs *)
(* and then deletes in a transaction; whatever else happens in between     *)
(* happens.  The other operations have one statement that writes, or one   *)
(* transaction, which fails whole if the rows it read have changed.        *)
(*                                                                         *)
(* A time in a row is represented by its age, counted up to the first      *)
(* value at which no comparison in the code can tell the difference.       *)
(* Titles, notes, owned paths, the activity log, the agent registry and    *)
(* queue.json are left out: nothing here reads them.                       *)
(***************************************************************************)
EXTENDS Naturals

CONSTANTS
    Tasks,         \* task ids
    Agents,        \* agent ids
    Settable,      \* statuses that requests set with update_status
    FileStatuses,  \* statuses that active.md may hold
    Timeout,       \* 90 s: the checker's timeout and claim_task's window
    Visible,       \* 24 h: how long a done task stays before it is archived
    MaxCrashes,    \* bounds the number of daemon crashes
    None

\* The CHECK constraint of agent_tasks.status.
Statuses == {"pending", "in_progress", "in_cr", "in_qa", "blocked",
             "interrupted", "done", "deferred"}

ASSUME QueueAssumption ==
    /\ Settable \subseteq Statuses /\ FileStatuses \subseteq Statuses
    /\ Timeout \in Nat /\ Visible \in Nat /\ MaxCrashes \in Nat
    /\ None \notin Agents \cup Nat

VARIABLES
    status,     \* agent_tasks.status, "absent" when there is no row
    claimedBy,  \* agent_tasks.claimed_by
    heartbeat,  \* the age of agent_tasks.last_heartbeat, or None
    completed,  \* the age of agent_tasks.completed_at, or None
    archived,   \* ids in agent_tasks_archive
    call,       \* the claim an agent has under way: its task, and the age of
                \* the time it read when it began
    doomed,     \* what archive_done_tasks has selected and not yet deleted
    notices,    \* interrupted tasks whose event is still to be broadcast
    holds,      \* tasks an agent has been told it has claimed, and neither
                \* gave up nor was told of the interruption of
    stands,     \* history: tasks whose last claim by an agent was granted and
                \* neither given up, interrupted nor archived since
    crashes     \* how often the daemon has crashed

row == <<status, claimedBy, heartbeat, completed>>
views == <<holds, stands>>
vars == <<row, archived, call, doomed, notices, views, crashes>>

\* Ages from here on are all beyond the re-claim window, or all archivable.
Stale == 2 * Timeout + 1
Old == Visible + 1

CallType == [pc : {"ready", "claim", "answer"}, t : Tasks \cup {None}, age : 0 .. Stale]

TypeOK ==
    /\ status \in [Tasks -> Statuses \cup {"absent"}]
    /\ claimedBy \in [Tasks -> Agents \cup {None}]
    /\ heartbeat \in [Tasks -> (0 .. Stale) \cup {None}]
    /\ completed \in [Tasks -> (0 .. Old) \cup {None}]
    /\ archived \subseteq Tasks
    /\ call \in [Agents -> CallType]
    /\ doomed \subseteq Tasks
    /\ notices \subseteq Tasks
    /\ holds \in [Agents -> SUBSET Tasks] /\ stands \in [Agents -> SUBSET Tasks]
    /\ crashes \in 0 .. MaxCrashes

NoCall == [pc |-> "ready", t |-> None, age |-> 0]

Init ==
    /\ status = [t \in Tasks |-> "absent"]
    /\ claimedBy = [t \in Tasks |-> None]
    /\ heartbeat = [t \in Tasks |-> None]
    /\ completed = [t \in Tasks |-> None]
    /\ archived = {}
    /\ call = [a \in Agents |-> NoCall]
    /\ doomed = {}
    /\ notices = {}
    /\ holds = [a \in Agents |-> {}] /\ stands = [a \in Agents |-> {}]
    /\ crashes = 0

-----------------------------------------------------------------------------
(***************************************************************************)
(* Claiming                                                                *)
(***************************************************************************)

\* The row is pending and free, or interrupted, whoever had it.  (The UPDATE's
\* third case, a row that is 'claimed' under an expired lease, cannot arise:
\* the table's CHECK refuses that status.)
Claimable(t) ==
    \/ status[t] = "pending" /\ claimedBy[t] = None
    \/ status[t] = "interrupted"

\* An interrupted task is not resumed once its heartbeat is too old.
NotResumable(t) ==
    status[t] = "interrupted" /\ heartbeat[t] # None /\ heartbeat[t] > 2 * Timeout

\* claim_task reads the clock and the row, and may refuse at once ...
ClaimRead(a, t) ==
    /\ call[a].pc = "ready"
    /\ ~NotResumable(t)
    /\ call' = [call EXCEPT ![a] = [pc |-> "claim", t |-> t, age |-> 0]]
    /\ UNCHANGED <<row, archived, doomed, notices, views, crashes>>

\* What a claim that took its row has done: the request goes on to its answer.
Granted(a, t) ==
    /\ call' = [call EXCEPT ![a] = [pc |-> "answer", t |-> t, age |-> 0]]
    /\ stands' = [stands EXCEPT ![a] = @ \cup {t}]
    /\ UNCHANGED <<completed, archived, doomed, notices, holds, crashes>>

\* The row is written without a look at who has it.
ClaimUpdateUnconditional(a) ==
    /\ call[a].pc = "claim"
    /\ LET t == call[a].t IN
          /\ status[t] # "absent"
          /\ status' = [status EXCEPT ![t] = "in_progress"]
          /\ claimedBy' = [claimedBy EXCEPT ![t] = a]
          /\ heartbeat' = [heartbeat EXCEPT ![t] = call[a].age]
          /\ Granted(a, t)

\* A claim that leaves the first heartbeat to the agent.
ClaimUpdateNoHeartbeat(a) ==
    /\ call[a].pc = "claim"
    /\ LET t == call[a].t IN
          /\ Claimable(t)
          /\ status' = [status EXCEPT ![t] = "in_progress"]
          /\ claimedBy' = [claimedBy EXCEPT ![t] = a]
          /\ Granted(a, t)
    /\ UNCHANGED heartbeat

\* ... then one conditional UPDATE takes the task, stamped with the time read
\* at the start ...
ClaimUpdate(a) ==
    /\ call[a].pc = "claim"
    /\ LET t == call[a].t IN
          /\ Claimable(t)
          /\ status' = [status EXCEPT ![t] = "in_progress"]
          /\ claimedBy' = [claimedBy EXCEPT ![t] = a]
          /\ heartbeat' = [heartbeat EXCEPT ![t] = call[a].age]
          /\ Granted(a, t)

\* ... or finds that somebody else has the task, and the claim is refused.
ClaimRefused(a) ==
    /\ call[a].pc = "claim"
    /\ ~Claimable(call[a].t)
    /\ call' = [call EXCEPT ![a] = NoCall]
    /\ UNCHANGED <<row, archived, doomed, notices, views, crashes>>

\* The answer follows several awaits later, whatever has become of the row in
\* the meantime: the agent has the task from here on, unless the answer is an
\* error (the row is gone when it is read again) or is lost on its way.
ClaimAnswer(a) ==
    /\ call[a].pc = "answer"
    /\ \E told \in {{}, {call[a].t}} : holds' = [holds EXCEPT ![a] = @ \cup told]
    /\ call' = [call EXCEPT ![a] = NoCall]
    /\ UNCHANGED <<row, archived, doomed, notices, stands, crashes>>

\* The task is released to the status that the lease janitor uses.
ReleaseToOpen(a, t) ==
    /\ claimedBy[t] = a
    /\ status' = [status EXCEPT ![t] = "open"]
    /\ claimedBy' = [claimedBy EXCEPT ![t] = None]
    /\ heartbeat' = [heartbeat EXCEPT ![t] = None]
    /\ UNCHANGED <<completed, archived, call, doomed, notices, views, crashes>>

\* release_task: back to pending, whatever the status, if the agent has it.
Release(a, t) ==
    /\ claimedBy[t] = a
    /\ status' = [status EXCEPT ![t] = "pending"]
    /\ claimedBy' = [claimedBy EXCEPT ![t] = None]
    /\ heartbeat' = [heartbeat EXCEPT ![t] = None]
    /\ holds' = [holds EXCEPT ![a] = @ \ {t}]
    /\ stands' = [stands EXCEPT ![a] = @ \ {t}]
    /\ UNCHANGED <<completed, archived, call, doomed, notices, crashes>>

\* heartbeat_task: touches the row, whatever the status, if the agent has it.
Heartbeat(a, t) ==
    /\ claimedBy[t] = a
    /\ heartbeat' = [heartbeat EXCEPT ![t] = 0]
    /\ UNCHANGED <<status, claimedBy, completed, archived, call, doomed, notices, views, crashes>>

-----------------------------------------------------------------------------
(***************************************************************************)
(* Adding tasks and setting their status                                   *)
(***************************************************************************)

\* add_task inserts a pending row under an id that has none.
Add(t) ==
    /\ status[t] = "absent"
    /\ status' = [status EXCEPT ![t] = "pending"]
    /\ UNCHANGED <<claimedBy, heartbeat, completed, archived, call, doomed, notices, views, crashes>>

\* The completion time is never written.
UpdateStatusNoStamp(t, v) ==
    /\ status[t] # "absent"
    /\ status' = [status EXCEPT ![t] = v]
    /\ UNCHANGED <<claimedBy, heartbeat, completed, archived, call, doomed, notices, views, crashes>>

\* A status change also frees the task.
UpdateStatusFrees(t, v) ==
    /\ status[t] # "absent"
    /\ status' = [status EXCEPT ![t] = v]
    /\ claimedBy' = [claimedBy EXCEPT ![t] = None]
    /\ completed' = IF v = "done" THEN [completed EXCEPT ![t] = 0] ELSE completed
    /\ UNCHANGED <<heartbeat, archived, call, doomed, notices, views, crashes>>

\* update_status: an UPDATE by id, with no look at the row's status or holder.
\* A completion time, once there, is only ever replaced by a newer one.
\* (Without notes, with stubs in the files or with an unmerged worktree "done"
\* is refused, which is no step.)
UpdateStatus(t, v) ==
    /\ status[t] # "absent"
    /\ status' = [status EXCEPT ![t] = v]
    /\ completed' = IF v = "done" THEN [completed EXCEPT ![t] = 0] ELSE completed
    /\ UNCHANGED <<claimedBy, heartbeat, archived, call, doomed, notices, views, crashes>>

\* backfill_from_tasks, for a task that is there, or that it has just added:
\* the status becomes what active.md says, and nothing else does.
SyncStatus(t, v) ==
    /\ status[t] \notin {"absent", v}
    /\ status' = [status EXCEPT ![t] = v]
    /\ UNCHANGED <<claimedBy, heartbeat, completed, archived, call, doomed, notices, views, crashes>>

-----------------------------------------------------------------------------
(***************************************************************************)
(* Background jobs, time and crashes                                       *)
(***************************************************************************)

\* in_progress, with a heartbeat that is older than the timeout.
Lapsed(t) ==
    status[t] = "in_progress" /\ heartbeat[t] # None /\ heartbeat[t] > Timeout

\* interrupt_stale_tasks, one transaction.  The checker does not look again
\* before it has told of every task.
InterruptStale ==
    LET stale == {t \in Tasks : Lapsed(t)} IN
    /\ stale # {} /\ notices = {}
    /\ status' = [t \in Tasks |-> IF t \in stale THEN "interrupted" ELSE status[t]]
    /\ stands' = [a \in Agents |-> stands[a] \ stale]
    /\ notices' = stale
    /\ UNCHANGED <<claimedBy, heartbeat, completed, archived, call, doomed, holds, crashes>>

\* "task.interrupted" follows, for each id after a write to the activity log:
\* the task may have been claimed again by then.  The event names the task and
\* no agent, and those that hear it give the task up.
TellInterrupted(t) ==
    /\ t \in notices
    /\ notices' = notices \ {t}
    /\ \E heard \in SUBSET Agents :
          holds' = [a \in Agents |-> IF a \in heard THEN holds[a] \ {t} ELSE holds[a]]
    /\ UNCHANGED <<row, archived, call, doomed, stands, crashes>>

\* archive_done_tasks selects what has been done for long enough ...
ArchiveSelect ==
    /\ doomed = {}
    /\ doomed' = {t \in Tasks : status[t] = "done" /\ completed[t] # None
                                 /\ completed[t] > Visible}
    /\ doomed' # {}
    /\ UNCHANGED <<row, archived, call, notices, views, crashes>>

\* ... and, in one transaction, copies it and deletes it by id.
ArchiveCommit ==
    /\ doomed # {}
    /\ archived' = archived \cup doomed
    /\ doomed' = {}
    /\ status' = [t \in Tasks |-> IF t \in doomed THEN "absent" ELSE status[t]]
    /\ claimedBy' = [t \in Tasks |-> IF t \in doomed THEN None ELSE claimedBy[t]]
    /\ heartbeat' = [t \in Tasks |-> IF t \in doomed THEN None ELSE heartbeat[t]]
    /\ completed' = [t \in Tasks |-> IF t \in doomed THEN None ELSE completed[t]]
    /\ stands' = [a \in Agents |-> stands[a] \ doomed]
    /\ UNCHANGED <<call, notices, holds, crashes>>

Aged(age, limit) == IF age = None \/ age = limit THEN age ELSE age + 1

Tick ==
    /\ heartbeat' = [t \in Tasks |-> Aged(heartbeat[t], Stale)]
    /\ completed' = [t \in Tasks |-> Aged(completed[t], Old)]
    /\ call' = [a \in Agents |->
                  [call[a] EXCEPT !.age = IF call[a].pc = "claim" THEN Aged(@, Stale) ELSE @]]
    /\ UNCHANGED <<status, claimedBy, archived, doomed, notices, views, crashes>>

\* The daemon crashes and starts again: requests, jobs and events
\* under way are lost.
Crash ==
    /\ crashes < MaxCrashes
    /\ crashes' = crashes + 1
    /\ call' = [a \in Agents |-> NoCall]
    /\ doomed' = {} /\ notices' = {}
    /\ UNCHANGED <<row, archived, views>>

-----------------------------------------------------------------------------
AgentStep(a) ==
    \/ ClaimUpdate(a) \/ ClaimRefused(a) \/ ClaimAnswer(a)
    \/ \E t \in Tasks : ClaimRead(a, t) \/ Release(a, t) \/ Heartbeat(a, t)

TaskStep(t) ==
    \/ Add(t)
    \/ \E v \in Settable : UpdateStatus(t, v)
    \/ \E v \in FileStatuses : SyncStatus(t, v)

Next ==
    \/ \E a \in Agents : AgentStep(a)
    \/ \E t \in Tasks : TaskStep(t)
    \/ \E t \in Tasks : TellInterrupted(t)
    \/ InterruptStale \/ ArchiveSelect \/ ArchiveCommit
    \/ Tick \/ Crash

Spec == Init /\ [][Next]_vars

(***************************************************************************)
(* Time passes and the jobs run on their intervals.  Agents and clients    *)
(* need not do anything.                                                   *)
(***************************************************************************)
Fairness ==
    /\ WF_vars(Tick)
    /\ WF_vars(InterruptStale) /\ WF_vars(\E t \in Tasks : TellInterrupted(t))
    /\ WF_vars(ArchiveSelect) /\ WF_vars(ArchiveCommit)

FairSpec == Spec /\ Fairness

-----------------------------------------------------------------------------
(***************************************************************************)
(* Properties                                                              *)
(***************************************************************************)

(***************************************************************************)
(* No two agents have a task at once: of those that were told their claim  *)
(* succeeded, and whose claim was neither given up, interrupted nor        *)
(* archived since, there is one at most.  claim_task decides it with one   *)
(* conditional UPDATE and answers later, while clients, active.md and the  *)
(* checker write the same row's status, and events and answers are late or *)
(* lost.  (The agent of an interrupted claim learns of it later, or never.)*)
(* It needs that no file and no client interrupts a task: a warning sign   *)
(* in active.md makes one claimable under its agent.                       *)
(***************************************************************************)
OneAgentPerTask ==
    \A a, b \in Agents :
        (holds[a] \cap stands[a]) \cap (holds[b] \cap stands[b]) # {} => a = b

(***************************************************************************)
(* A task has a heartbeat exactly when it is claimed, so that the checker, *)
(* which skips rows without one, can see every claimed task.               *)
(***************************************************************************)
ClaimedHasHeartbeat ==
    \A t \in Tasks : claimedBy[t] = None <=> heartbeat[t] = None

(***************************************************************************)
(* A claimed task is not left in progress by an agent that has gone: its   *)
(* heartbeat is renewed again and again, or it leaves in_progress.         *)
(***************************************************************************)
AbandonedIsInterrupted ==
    \A t \in Tasks :
        []<>(status[t] # "in_progress" \/ claimedBy[t] = None \/ heartbeat[t] = 0)

(***************************************************************************)
(* A task does not stay done for ever: it is archived, unless it is        *)
(* reopened or reported done again.                                        *)
(***************************************************************************)
DoneIsArchived ==
    \A t \in Tasks : []<>(status[t] # "done" \/ completed[t] = 0)

=============================================================================
