# ClawDE: TLA+ models, checks and proofs

ClawDE is a host for AI coding sessions. Its core is `clawd`, a Rust daemon
(`src/apps/daemon`) that starts provider CLIs (claude, codex, cursor) as
subprocesses, keeps sessions and agent tasks in SQLite, and serves desktop,
mobile, MCP and CLI clients over JSON-RPC. Beside it stand a Go service
(`src/intelligence`) with a job worker, an LLM gateway and retrieval, and a
small proxy (`src/clawde-proxy`).

The daemon is asynchronous: each connection's requests, each turn of a session
and each background job is a task of its own, and between any two awaits any
other task may run. The models are therefore cut at the awaits: **an action is
the code between two awaits that touch shared state**, and what a handler read
before an await it carries, stale, into the next action.

## Inventory

| Component | State | Operations | Interacts with | Hard because |
|---|---|---|---|---|
| Session manager (`session/mod.rs`) | `handles`: session id to runner | create, send_message, pause, resume, cancel, delete, set_provider, drain | store, runners, clients | check-then-act over the store; lock of `handles` held across `stop()` |
| Runners (`session/claude.rs`, `codex.rs`, `cursor.rs`) | flags `cancelled`, `paused`, `current_child`, `child_pid` | run_turn, event_loop / stream_output, pause, resume, stop | OS processes, store | flags shared by turns and requests; hung or stopped children; one timeout over all waits |
| Session store (`storage/mod.rs`) | rows of sessions, messages, tool calls | claim_session_for_run, update_session_status, prune, recover_stale_sessions | everything | statements interleave; a crash leaves rows behind |
| Circuit breaker (`circuit_breaker.rs`) | state, two counters, time of the last failure | is_allowed, record_success, record_failure | callers of external services | read lock, then write lock; late reports |
| Agent task queue (`tasks/storage.rs`, `tasks/jobs.rs`, `ipc/handlers/tasks.rs`, `tasks/watcher.rs`) | rows of agent_tasks, archive | claim, release, heartbeat, add, update_status, sync from `active.md`, heartbeat checker, archiver | agents over MCP/RPC, files, worktrees | several writers of one row, none of which looks at what the others wrote |
| Task engine (`task_engine/`) | te_* tables | claim, transition, events, checkpoints, agents | agents | validated against a stale row; event numbers chosen in two statements |
| Task events (`tasks/event_log.rs`, `reducer.rs`, `checkpoint.rs`, `replay.rs`) | a file of events and a directory of checkpoints per task | append_and_reduce, replay | `tasks.createFromSpec`, `tasks.transition` | no lock on the files; a crash cuts a line or a checkpoint short |
| Worktrees (`worktree/`) | in-memory map, git branches, rows | create, commit, accept, merge, reject, delete, clean up | task claim and done gate, git | map, disk and table disagree after a restart or a failure |
| IPC server (`ipc/mod.rs`, `ipc/event.rs`) | connections, broadcast channel, two rate limiters | authenticate, subscribe, dispatch, forward, lag | every manager, clients | the view of a client is a snapshot and a stream of events that meet in any order |
| Relay (`relay/`) | E2E session with two counters, channel out, back-off | handshake, decrypt and dispatch, encrypt and forward, reconnect | remote clients | a counter taken under a mutex, a frame sent after it |
| Approvals (`policy/approval.rs`) | requests by id, broadcast channel | request, grant, deny, wait | agents, humans | a decision between a look and a wait; a lagging receiver; the deadline |
| Pairing (`pairing/`) | PIN rows, device rows | draw a PIN, pair, revoke | mobile clients | two devices, one PIN, two statements |
| Update (`update/mod.rs`) | binary, backup, staged file, sentinel, policy | check, download, apply, roll back | GitHub, file system, its own next start | renames that a crash or another call may cut in two |
| License (`license/mod.rs`) | a row valid for 24 h, the license in memory | verify, cache, refresh, check | the backend | late answers, failed calls, restarts |
| Go worker (`intelligence/internal/worker`) | `clawde_job` rows, back-pressure flag | read, run, ack, retry, dead-letter, stop | Postgres | a job is marked running before it is run |
| Go request gates (`internal/api`, `internal/auth`) | quota row, sorted set, trust cache, key set cache | seven gates in order | Postgres, Redis, the issuer | clocks read before the statement that uses them; caches |
| Go streaming (`internal/gateway`, `internal/server`) | two channels | read upstream, pass on, overflow | providers, clients | blocking and non-blocking sends; a client that leaves |
| Go PTY pool (`internal/pty`) | a channel of slots | acquire, release, reap, stop | activities | everyone moves slots through one channel |
| Accounts and scheduler (`scheduler/`, `account/`) | counters, block windows, queue | pick, record use, block, rotate | read by one RPC | nothing resets the windows |
| Mailbox, threads, packs, memory, ... | rows and files | CRUD | clients | (see `PROJECT.json`) |

What makes each of them correct:

- *Sessions*: one turn of a session at a time; no session left "running" with
  nobody running it; every turn can be reached by cancel and drain, and ends;
  a runner touches only its own children; requests always return.
- *Circuit breaker*: no call goes out while it is Open, and Open ends.
- *Task queue*: a task has at most one agent; an abandoned task is noticed;
  done tasks, and only they, are archived.
- *Task engine*: a claim is not taken over, done means reviewed and tested, and
  the audit log is append-only and idempotent.
- *Task events*: what was acknowledged survives a crash, and recovery from a
  checkpoint is recovery from the log.
- *Worktrees*: no commit is lost, and "merged" is true.
- *Edges*: a client that has caught up is right, limits hold in every window,
  caches expire, both ends of an encrypted session agree, a PIN pairs one device,
  and the daemon can be started whatever became of an update.
- *Worker, pools, streams, approvals*: what is counted happened, nothing is
  shared or lost, and whoever waits is woken.

`PROJECT.json` lists every component, with the reason for those that are not
modelled, and every hazard at its line.

## Modules

| Module | Models | Main variables |
|---|---|---|
| `SessionManager` | sessions, runners and their rows | `status`, `routed` (rows), `handles`, `runner`, `turn`, `proc`, `call`, `drain`, `daemon` |
| `MCSessionManager` | its instances: operation sets and symmetry | |
| `TurnLock` | what the claim on a session promises (abstract) | `claimers`, `workers` |
| `SessionManagerProofs` | its theorems | |
| `CircuitBreaker` | the breaker and its callers | `state`, `failureCount`, `successCount`, `lastFailure`, `pc` |
| `TaskQueue`, `TaskQueueProofs` | the agent task queue and its jobs | `status`, `claimedBy`, `heartbeat`, `completed`, `archived`, `call`, `doomed`, `notices`, `holds`, `stands` |
| `TaskEngine` | the te_* tables and the te.* requests | `status`, `claimedBy`, `agents`, `events`, `checkpoints`, `call`, `passed` |
| `AppendLog` | what an append-only log promises (abstract) | `log` |
| `TaskEvents` | event file, reducer, checkpoints, replay | `log`, `torn`, `garbled`, `lost`, `cps`, `call`, `acked` |
| `Worktrees` | map, git and table of the worktrees | `map`, `dir`, `reg`, `branch`, `main`, `row`, `call` |
| `MCTasks` | the three of them, for TLC | `which` |
| `WorktreesProofs`, `TasksProofs` | theorems about `Worktrees`; about `TaskEngine` and `MCTasks` | |
| `IpcEvents` | a WebSocket connection and its events | `store`, `writer`, `events`, `conn` |
| `IpcLimits` | connection and RPC rate limits | `now`, `stamps`, `conn` |
| `Relay` | relay client, E2E session, remote client | `up`, `out`, `e2e`, `inb`, `fwd`, `client`, `conn` |
| `RequestGates` | the gates of the public API | `ws`, `quota`, `cache`, `zset`, `req` |
| `KeyCache` | JWKS cache and verdict | `keySet`, `mu`, `req` |
| `Pairing` | PINs and paired devices | `pins`, `devices`, `call`, `issued`, `paired` |
| `SelfUpdate` | download, apply, exec, rollback | `file`, `sentinel`, `proc`, `exe`, `pending`, `apply`, `meddled` |
| `License` | verification, cache, license in memory | `row`, `license`, `next`, `call`, `paidAt` |
| `MCEdges` | the eight of them, for TLC | `which` |
| `EdgesProofs` | theorems about the eight and `MCEdges` | |
| `JobLedger` | worker pool over `clawde_job` | `status`, `retry`, `worker`, `bpActive`, `canceled` |
| `PtyPool` | slots, borrowers, reaper, Stop | `live`, `slots`, `user`, `reaper`, `stopper` |
| `GatewayStream` | provider, handler and pipeline of one stream | `producer`, `ch`, `consumer`, `out`, `got` |
| `Approvals` | requests, decisions, waits | `status`, `told`, `wait` |
| `MCWaits` | the four of them and `CircuitBreaker`, for TLC | `which` |
| `JobLedgerProofs`, `PtyPoolProofs`, `WaitsProofs` | theorems about `JobLedger`; `PtyPool`; `CircuitBreaker`, the others and `MCWaits` | |

### SessionManager

A request is a record `call[c]` whose `pc` names the next piece of its handler;
a turn is a record `turn[t]` likewise. The names of the actions are the names of
the pieces: `CreateCheck`, `CreateInsert`; `SendRead`, `SendClaim`, `SendRecord` (the
message), `SendSpawn`; `PauseRead`, `PauseWrite`, `PauseSignal`; and so on for
resume, cancel, delete and set_provider. `claim_session_for_run` is one action,
because it is one conditional UPDATE. `run_turn` starts by clearing
`cancelled`, spawns the child, stores it in `current_child`, and reads its
output until end of file; the whole of it after the spawn is under one
`tokio::time::timeout`, the action for which is enabled at every wait.

Turns, their subprocesses and the runners made for them share the names in
`Turns`; the size of that set bounds the number of turns of a behaviour. A
subprocess may print, report its Result, exit, hang or be stopped, as it likes.
Three locks matter and are modelled: the write guard of `handles`, which
`cancel` and `delete` hold while they await `stop()`; the `current_child`
mutex, held while a turn waits for its child; and SQLite's, by making a
statement one step.

`stopped`, in the record of a runner, is a history variable: `stop()` has raised its
flag. The code has only `cancelled`, which the start of a turn clears.

`Ops` says which operations a run uses. It is a parameter and not a change to
the model: several properties hold for the interplay of some operations and are
broken by another, and the runs say which.

`TurnLock` says what a lock is: a request takes a session that nobody has, hands it to
the one turn it starts, and gives it back, as does the turn; any number of sessions
are given back at once, as by a crash. `SessionManager` instantiates it with the
requests that have claimed a session and not yet spawned its turn (`Claimers`) and the
turns that are not done and have had no Result (`Workers`); `ClaimIsLock` is
`TurnLock!Spec` under this mapping.

Left out: message and tool-call rows (nothing modelled reads them), tool
approval, event broadcasts, and failures of the store other than those caused
by a deleted row.

### CircuitBreaker

`is_allowed` is two actions, for its read lock and its write lock. A caller
that was admitted reports success or failure at any later time. The time of the
last failure is kept as its age, up to `Timeout`, the only comparison made with
it. `None` is a number no age equals.

### TaskQueue

A claim is a read (`ClaimRead`, with the check of the re-claim window), a
conditional UPDATE (`ClaimUpdate`, or `ClaimRefused` when it finds no row) stamped
with the time of the read, and, several awaits later, the answer (`ClaimAnswer`),
which may be lost. The checker frees the lapsed rows in one transaction
(`InterruptStale`) and broadcasts the event of each task later
(`TellInterrupted`), or never, if the daemon crashes first: `notices` has the tasks
whose event is still to come. The archiver is a SELECT and a later transaction.
Everything else that writes is one statement or one transaction. `holds` is the
agents' own view: what they were told they have, until they release it or hear of
the interruption. It may be out of date, and then so are its agents: an agent that
has lost its task and was not told, or not yet, works on beside the next one.
`stands` is a history variable: the tasks whose claim by the agent was granted and
neither given up, interrupted nor archived since. `OneAgentPerTask` says that no task
is held, by a claim that stands, by two agents. Agents may stop at any time (nothing
obliges them to act). Times are ages, counted up to the first value at which no
comparison tells a difference; both 90-second constants are `Timeout`, as in
the code.

The lease columns and `tasks/janitor.rs` are left out: they go by the status
`claimed`, which the table's CHECK refuses, so that code never finds a row.

### TaskEngine and AppendLog

No operation of `task_engine/storage.rs` holds a transaction over its
statements, so an action is one statement. `TransitionRead` validates against
the row it reads; `TransitionWrite` writes by id. `append_event` is
`AppendNumber` (MAX + 1) and `AppendInsert` (INSERT OR IGNORE, with both UNIQUE
constraints). `passed` is a history variable: the gates a task has been
through. A request may end after any of its statements (`Abort`).

`AppendLog` says what an append-only log is. `TaskEngine` instantiates it with
the events of a task in the order of their numbers, an entry being the set of
the events with one number, so that a gap or a number taken twice maps to no
entry; `AuditLogIsAppendOnly` is `AppendLog!Spec` under this mapping.

### TaskEvents

One task's files. A line is an event or a line that does not parse; `torn` says
that the last one has no end. A crash may cut a line short (it does not parse), cut it
inside a character of several bytes (then the file is no string any more, `garbled`,
and every read of it fails, `ReadFails`), or leave it complete but for its newline (it
is an event until the next append is written into it; `lost`, a history variable,
says that this has happened). `append_and_reduce` is `AppendCount`,
`AppendWrite`, `ReadBack`, `SaveCheckpoint` and the answer, with a crash possible
between and inside them. The reducer is the table `From`, `Goes`, `Reduce`;
tool-call events, which change nothing but a set of keys, are left out.
`ParsedFrom` is `read_from`, the fold of the lines that keeps those that parse.
`ReplayStep` is one turn of the loop of `replay` after a checkpoint, with the
checkpoints it saves on the way, and `ReplayOver` its fold over the events; `After` is
the loop without a checkpoint. `Replayed` is `replay`, `FoldLog` is the same log
folded from its beginning.

### Worktrees

A worktree is an entry of the map, a directory and a registration and a branch
of git, and a row; each is changed in a step of its own. Commits are numbered,
and a branch is the set of commits it reaches, which is what fast-forward and
descendant mean. `merge_branch_to_main` is its analysis and its result, since
nothing keeps another merge or the user from moving the main branch between
them. A merge that fails may have moved the main
branch (`MergeFails`): the checkout and the clean-up come after that. A restart
empties the map and nothing else.

### The edges

`IpcEvents` has the three places a client's view comes from: the subscription
(`Subscribe`), the answer to a list request (`Dispatch` reads the store, `Respond`
sends) and the forwarded events (`Forward`, `Lag`). `IpcLimits` keeps, beside the
code's own stamps, when a connection was admitted and its calls let through; all
its connections are of one address. What the two limiters keep is that an address
gets no more connections in a minute than the limit, and a connection no more RPCs
than twice the limit (`RatesHold`, in `LimitsHold` with the gates' `QuotaPerDay`);
what the configuration promises, the limit for the RPCs of an address, they do not
keep (below, *IPC*). In `Relay`, the counter of a
frame is taken in `InRespond` or `FwdRead` and the frame enters the channel in
`InSend` or `FwdSend`. The remote client is external: it sends a hello, counts
its own frames and rejects one with an unexpected counter, as `decrypt` does.

In `RequestGates`, the clock is read in a step before the statement that uses it
(`QuotaDay`, `RateClock`). The five commands of the rate limit's pipeline are
one step, since Redis runs the commands a client has buffered together. A member of
the sorted set is a millisecond, as in the code; that the set therefore bounds the
milliseconds and not the requests is the run `rate_window`. `KeyCache`
has the read-write lock of `keySetFor`, which is held while the key set is
fetched.

In `Pairing` each SQL statement is a step, and the clock is read in the step
before the one that uses it. `issued` and `paired` count, for `PinPairsOnce`, how
often a PIN was given out and used. `get_by_token` is not modelled: it writes only
`last_seen_at`, which nothing modelled reads. It lets a paired device authenticate
in the requests after the first message (`ipc/mod.rs:514-521`); the first-message
handshake (`:408`) accepts the daemon's own token only.

In `SelfUpdate` a file is the version it holds, or "part"; each file operation of
`apply_if_ready` is a step, and an open file follows its rename, as does
`current_exe` where `ExeFollows` (Linux; elsewhere it names the path the process
was started from). `Begin` is what a new process forgets. Each rename, and exec, may
fail with any error (`BackupFails`, `InstallFails`, `ExecFails`). `crashed` and
`meddled` are history variables; the second says that a download has begun beside an
apply, an apply beside a download, or that a download broke off over the file of a
pending update.

`License` is a clock in units of which a grace period has `Grace`: a call, with its
timeout of 10 s, straddles one unit at most, and the refresh begins when its
interval ticks. `paidAt` is a history variable.

### What waits

`JobLedger`: `ReadMessage` is one transaction; running the handler and settling
the job are separate steps, and `Stop` makes the settling statements fail.
`PtyPool` is cut at every operation on the channel. `GatewayStream` has both
consumers of a provider's channel: the gRPC handler, which blocks, and the
pipeline, which does not. Both may leave (`left`) without draining the channel, and the
provider's goroutine then stays blocked in its send once the channel is full
(`Leaked`): `StreamSettles` says that nothing else keeps it, and it is a leak all the
same (below, *Stream*). `Approvals` has the look at the map and the wait for the
channel as separate steps, and a deadline that may pass at any time.

### The harnesses

`MCTasks`, `MCEdges` and `MCWaits` each put components side by side that share no
state. `which` chooses in Init the component that moves; the others rest, so the
states of a run are the sum, not the product, of the components' states. A
property that is an invariant is guarded by `which`; a temporal one holds
trivially of a component at rest.

## Runs

| Run | Instance | Properties | Shows |
|---|---|---|---|
| `session_claim` | 1 session, 2 connections, 2 turns, codex and cursor; create, send, pause, delete, setProvider, prune, crash | `TypeOK`, `AtMostOneTurn`, `ClaimIsLock`, `RunningHasTurn` | the claim keeps a session to one turn and makes it a lock, and none is left running by an error, a delete, or a crash and restart |
| `session_handles` | 1, 2, 2, codex; create, send, resume, cancel, crash | `TurnReachable`, `ChildOwnership` | no turn gets lost: its runner is in the map, or was stopped by whoever took it out; no runner holds another's child, however turns overlap |
| `session_locks` | 1, 2, 1, claude; create, send, pause, delete, drain; fair | `TurnsEnd`, `CallsReturn`, `RunningEnds` | a turn ends although its child hangs; no cycle of waiting comes of the lock held across `stop()`; no session says running for ever |
| `task_queue` | 1 task, 2 agents, 1 crash; fair | `TypeOK`, `OneAgentPerTask`, `ClaimedHasHeartbeat`, `AbandonedIsInterrupted`, `DoneIsArchived` | claims exclude each other, and the two jobs find what they are there to find |
| `session_late_turn` | 1, 1, 3, claude; create, send | `AtMostOneTurn` | *violated*, finding 1 |
| `tasks` | engine: 1 task, 2 agents, 2 connections, 2 events, 1 key; events: 5 appends, 2 crashes, 1 connection; worktrees: 1 task, 2 connections, 2 commits, 1 restart | `AllTypesOK`, `RetryAndResumeSafe`, `DoneWasReviewed`, `AuditLogIsAppendOnly`, `ClaimNeverStolen`; `RecoveryIsExact`; `CommitsKept`, `MergedWasMerged` | what the three task stores promise survives races, failures, crashes and restarts |
| `edges` | 1 connection and 2 sessions; 3 remote connections; 2 relay clients, 3 events, 1 loss; 2 requests at a time, 3 in all; 3 validators, 2 keys; 1 PIN, 2 connections, 2 devices; 2 applying connections, 2 checks per process, 3 starts; 1 checking connection, 1 crash | `TypeOK`, `CaughtUpIsCurrent`, `LimitsHold`, `SessionAgreed`, `CachesExpire`, `PinPairsOnce`, `BinaryKept` | snapshots and events meet correctly, limits hold, caches expire, counters agree, PINs are used once, no update loses the binary |
| `waits` | 4 callers; 3 jobs, 4 workers, 1 fault; 5 shells, 2 slots, 2 borrowers; 4 deltas; 2 approvals; fair | `AllTypesOK`; `CountersBelowThresholds`, `FailFastWhileOpen`, `OpenIsTemporary`; `JobsRunAsCounted`, `EveryJobSettles`; `ShellsAccountedFor`, `StopReturns`; `StreamIsFaithful`, `StreamSettles`; `DecisionWakes` | what is counted is true, and whoever waits is served |
| `worktree_merge` | 1 task, 1 connection and the user | `MainOnlyGrows` | *violated*, finding 3 |
| `task_replay` | 2 connections | `ReplayEqualsFold` | *violated*, finding 5 |
| `rate_window` | 2 requests at a time, limit 2 | `RatePerWindow` | *violated*, finding 2 |
| `update_rollback` | 1 connection, 2 starts | `RolledBackAfterCrash` | *violated*, finding 4 |

**Bounds.** Sessions share nothing but the `handles` lock and `max_sessions`,
so one session is enough except for the limit; two connections are enough for
any pair of requests to overlap (the lock is held by one request at a time);
two turns are the least with which a turn can meet its successor, and three
are needed to see a third claimed beside the second. In the breaker, three
failures reach the threshold, two successes the other, and the fourth caller
reports late. In the queue rows share nothing; two agents are one that has lost
the task, or is still to be answered or told, and one that has it; with a timeout of
1 the ages 0 to 3 tell apart fresh, lapsed, and beyond the re-claim window. Connections and
turns are interchangeable, which the runs without liveness use as symmetry.

In `tasks`, one task suffices for the engine because rows share only the
idempotency keys; two connections and two agents are a claim, transition or
append and its rival; `Targets` leads through all the gates to done; two events
are a number taken and the next one. Five appends with a threshold of two give
the event log a checkpoint, events after it and a second checkpoint, and two
crashes a line without its end, the append that is written into it, and a corrupt
checkpoint. Two commits are one to
lose and one to merge. In `edges`, a channel of two lags with three writes;
windows of two ticks with limits of one let two windows meet; two generations of
a key or of a session's key are an old and a new one; the day is one tick and the
clock runs to two, so that a request straddles midnight and another day follows.
One PIN drawn twice is a PIN and its successor of the same digits. Three starts
are an update, its rollback and one more; two checks in a process are a download and
another over its file. With a grace period of two units, eight are
enough for two grace periods, two calls and the unit in which a violation would
show.
In `waits`, one retry and an embed limit of zero reach dead letters and
back-pressure; five processes replace both of two slots and one more; four
deltas over channels of one and two overflow the second; a broadcast channel of
one makes a waiter lag.

Deadlock is not checked in the session runs with fairness, where every turn may
be used up or the daemon shut down, in the three harness runs, which stop when
a bound (events, commits, requests, faults, text) is used up or a pool has been
stopped, nor in the violation runs.

**Fairness.** A task of the tokio runtime that can go on is scheduled in the
end: weak fairness of each request's, each turn's (its timeout included) and
the drain's steps, and of the breaker's clock and callers. Nothing is assumed
of the subprocesses, which may hang: the turn's timeout is a step of the turn.
In the queue, time passes, the two jobs run on their intervals and go on to their
end (the broadcasts included); agents,
clients and the file do nothing they do not want to.
In `waits`, the goroutines and futures that can go on do (weak fairness of each
worker, the monitor, the reaper's work, Stop, the provider, the consumer and
each waiter), and time passes for a back-off. The reaper's exit is strongly
fair: its `select` between the stop channel and the ticker chooses among ready
cases at random, so it does not choose the ticker for ever. Nothing is assumed of
a handler's verdict, of clients, borrowers or humans; an upstream is assumed to
end, as the request's context makes it.

### Findings

1. claude's `event_loop` writes the final status on the Result and goes on
   reading under the same timeout. If the process lingers, a second turn is
   claimed, the first times out and writes `error` over it, and a third turn is
   claimed beside the second.
2. The sorted set of the rate limit has the millisecond as its member, so that all
   requests of one millisecond count as one.
3. `merge_branch_to_main` finds that a fast-forward is possible, and then sets
   whatever HEAD is at to the task's commit. A commit made in between is no longer
   on the main branch.
4. The new binary of an update is started by `exec`, and its start looks for the
   sentinel first and deletes it later. The sentinel is young and the backup is
   there, so the first start of every update puts the old binary back.
5. `TaskEventLog::append` numbers an event by the length of the log, before it
   writes it. Two transitions at once write one number twice, and a checkpoint at
   that number hides the other event from recovery.

3 and 5 need what their runs show: `UndisturbedMergesGrow` and `RecoveryExact` (below)
prove the properties for behaviours without it; so does `ClaimExcludes` for 1.

Cases in which the code does not do what one of its comments says, or what one
would expect, and which the models have but no run asks about:

- *Sessions.* A cancel between the spawn of a turn's task and its first step has no
  child to kill, and the step clears its flag (`claude.rs:150`): the turn runs on with
  its runner out of the map. `set_provider` drops the runner of a turn that began
  after it had read the status (`mod.rs:332`, `:339`), and stops nothing. Two creates may
  both pass the check of `max_sessions` (`mod.rs:135`). A turn that starts while
  `drain` runs leaves its child behind (`mod.rs:529`). Resume of a running session, and of one paused
  between turns: notes of the hazards.
- *Circuit breaker.* HalfOpen admits any number of calls; the comments speak of one
  limited probe (`circuit_breaker.rs:19`, `:35`).
- *Task queue.* An agent that has lost its task and was not told works on; the
  event that tells it may come after the next agent's claim, and names the task and
  no agent. The daemon marks an interrupted task in `active.md`, and a sync of the
  file after the next claim makes the row interrupted again: a second agent gets the
  task (`tasks/storage.rs:572`). A done mark in the file carries no completion time, and
  such a task is never archived. The archiver deletes by id what it selected, also a
  task reopened and interrupted in between, against its comment (`:508`). A task
  reset to pending keeps `claimed_by` and nobody can claim it (`:447`, against `:272`).
- *Task engine.* The transition from claimed to queued, which `model.rs:155`
  comments as a release, keeps `claimed_by`, so the task cannot be claimed. Two
  transitions validated against one row may leave a terminal state.
- *Task events.* A crash may leave an event without its newline. It is read, replayed
  and put into a checkpoint; then the next append is written into its line, and it is
  gone from the log (`event_log.rs:57`, `:65`). A crash that cuts a line inside a
  character makes every later read, and with it every replay and append of the task,
  fail (`:81`, `:120`). Both are against "Handles truncated last lines gracefully" (`:73`).
  `append_and_reduce` knows its event by the number alone
  (`replay.rs:176`). If a crash has left a line without its end, the next event is
  lost in it; if another call has taken the same number, its event is read back
  instead, and the lost transition is answered Ok.
- *Job ledger.* A job whose worker died, whose queue has no handler or whose
  acknowledgement failed stays running for good. `ORDER BY priority DESC` serves
  10 first, and the column's comment says 1 is the highest
  (`migrations/0086_pgmq_queues.sql:64`).
- *PTY pool.* A Release after Stop has drained the channel leaves a live shell
  in it. `alive()` passes a nil signal, so every slot is replaced on release.
- *Stream.* A handler whose send fails, and a pipeline that overflows, return without
  draining the provider's channel (`handler.go:160`, `stream.go:115`). The provider's
  goroutine does not look at the context and stays blocked in its send once the
  channel is full, against `gateway.go:119` ("cancelling ctx stops the stream").
- *IPC.* Every connection has an RPC limiter of its own, with a window that tumbles: an
  address has the limit on each of its connections, and twice that in a minute over
  which two windows meet, against `config/mod.rs:127` ("per IP per minute"). Limits of
  0, which `config/mod.rs:125,127` calls unlimited, refuse everything. Two requests that write and broadcast one session's status in
  opposite orders leave clients with the older one.
- *Relay.* A frame is encrypted, which gives it its counter, under a mutex and
  enters the channel after the mutex is released (`relay/mod.rs:248`, `:309`). A
  response and an event can change places, and the client, which expects counters
  that "start at 0 and increment by 1 per frame" (`relay/crypto.rs:17`), rejects
  the session's frames. The model has it: `client.ok` becomes false.
- *Pairing.* A crash between the two statements of `device.pair` uses up the PIN.
- *Update.* Nobody applies an "auto" update when the daemon is idle: only RPC and
  CLI call `apply_if_ready`. With "manual" nothing is ever downloaded
  (`update/mod.rs:243` says that `daemon.applyUpdate` does it). The daily
  check downloads into the file of an update that is pending, which stays pending
  (`:293`): an apply at that time, or after that download broke off, installs a part of a
  binary. A crash between
  the two renames leaves nothing at the path of the binary, and only a file beside it.
- *License.* A license that has ended is used for up to two grace periods, not the
  one of `license/mod.rs:7`: one in the cache and one in memory. The relay looks at
  the license once, at the start of the daemon. The migration's comment says the
  row is valid for 7 days (`002_license.sql:8`); it is 24 hours.
- *Approvals.* At the deadline the status is overwritten even if a decision has
  just been made (`approval.rs:179`).

## Proofs

All theorems are checked by TLAPS (SMT, Zenon, LS4) for every value of the
constants that satisfies the modules' assumptions.

**SessionManagerProofs**

- `TypeCorrect`: `Spec => []TypeOK`.
- `ClaimExcludes`: under `ClaimDiscipline`, `Spec => []AtMostOneTurn`. The
  discipline says that nothing but the turn itself writes idle or error over a
  session: no resume, cancel or drain, and no claude turns (which outlive their
  Result). Without it the property is false, as `session_late_turn` shows. The
  invariant `AtMostOneTurn` is not inductive: it does not say that a session
  whose status allows a claim has nobody at work. `ClaimInv` adds that
  (`FreeUnheld`), extends the exclusion to a send that has claimed and not yet
  spawned (`OneHolder`), and says that what the discipline rules out never
  begins (`Disciplined`). It holds through crashes and `recover_stale_sessions`.
- `ClaimImplementsLock`: under `ClaimDiscipline`, `Spec => ClaimIsLock`, the
  refinement. By `ClaimInv` a session has one request or one turn or nobody. A step
  after which nobody has a session that he did not have before (`NobodyNew`) is
  a `Release` of the sessions that now have nobody; of the others, the conditional
  UPDATE is a `Claim` and `SendSpawn` a `HandOver`.
- `RunnersKeepToTheirSession`: `Spec => []ChildOwnership` with no discipline.
  The induction needs the owner of whatever a turn waits for and of every
  runner in a map or a turn: `OwnInv` is `TypeOK`, `HandlesOwned`, `TurnsOwned`,
  `ChildrenOwned` and `WaitsOwned`.
- `RunningIsLookedAfter`: under `MoverDiscipline` (no resume, cancel or drain; any
  provider), `Spec => []RunningHasTurn`. With cancel or drain the property is false:
  their "idle" may come before the "running" of a turn that then ends silently; with
  resume too: a session paused while it was idle becomes "running". The property is
  not inductive, because a cancelled turn ends without writing: `MoverInv` adds that
  whoever cancelled a turn is still to delete the session or has deleted it
  (`StopsPending`), which in turn needs `OwnInv`, since a delete cancels a runner and
  must find only turns of its own session on it. `RunningMoves` is stronger than the
  property in asking for a turn that has not had its Result: a claude turn that has
  one will not write again.
- `TurnsStayReachable`: under `DropDiscipline` (no set_provider; every other operation
  and any provider), `Spec => []TurnReachable`, by `MapInv`: the runner of every live
  turn, late ones included, is in the map, has been stopped, or is one that the drain
  has taken out and remembers (`Found`). cancel and delete stop a runner while they
  hold the lock of the map; only set_provider takes one out and stops nothing.
  Whether a turn that was stopped ends is another question (above, *Sessions*).

**TaskQueueProofs**

- `TypeCorrect`, by `RowInv`: a claim under way names a task.
- `ClaimsAreWatched`: `Spec => []ClaimedHasHeartbeat`, whatever clients and the
  file write: the checker's `IS NOT NULL` hides no claimed task.
- `ClaimExcludes`: under `OnlyCheckerInterrupts` (no request and no file sets
  interrupted; above, *Task queue*), `Spec => []OneAgentPerTask`, with answers and events
  that come late, to anybody, or never. `ClaimInv` says that a claim that stands is
  the row's: the agent is the one in `claimed_by`, of a row with a status other than
  interrupted (`ClaimsStand`); and that an absent row is unclaimed
  (`AbsentUnclaimed`), so that an archived id may be used again.

**TasksProofs** (the engine's own specification, and the harness `SpecAll`)

- `TypeCorrect` and `ClaimsHeld` (the action property `ClaimNeverStolen`), by
  `TypeInv`: types and the range of what each request carries.
- `DoneReviewed`: `DoneWasReviewed` by `GatesPassed`, which says that a transition
  validated and not yet written carries a status whose gates its task has been
  through; the unguarded UPDATE may then write it at any time.
- `RetryAndResume`: `RetryAndResumeSafe`, with `CheckpointsRead`: the number that a
  checkpoint under way has read is in the log already.
- `AuditLogImplemented`: `Spec => AuditLogIsAppendOnly`, the refinement. A step of
  the engine appends one entry to one log or leaves all of them alone, because
  events are numbered without a gap and a number read for an append is at most one
  past the end.
- `RecoveryExact`: `SpecAll /\ []OneAppendAtATime => []RecoveryIsExact`, for any log,
  any threshold and any number of crashes, which may leave a line cut short, one that
  makes the file unreadable, or an event without its newline. `RecoveryIsExact` asks for
  what was acknowledged always, and for the task of the log as long as the file can be
  read and no event was written into (above, *Task events*). `OneAppendAtATime` says
  that no two calls on the task are between the numbering of an event and its reading
  back; replays and checkpoints may go on beside it. Nothing in the code makes that so,
  and finding 5 is what happens otherwise; `event_log.rs:46` takes it for granted.
  `RecoveryExactAlone` is the case of one connection, which the run checks.
  `EventTypeInv` (with any number of calls) ties the files to the log: the event on
  a line has a number below the line's, and no checkpoint has one past the log.
  `ExactInv` says that the events are numbered without a gap and the event a call
  appends has the next number (`CallsNumbered`), that what was acknowledged is in the
  log, and, unless an event was written into, that every checkpoint, in a file or in
  hand, is the task after the events up to it (`Exact`).
  The lemmas below it say what the folds do: `FoldLeft` over an appended
  sequence is one step more, an event read from n on is the tail of the events
  (`ParsedTail`), and a replay from an exact checkpoint is the fold of all. They
  are inductions over sequences. The library's induction theorems take an operator as
  a parameter, which no installed prover instantiates; `SeqInductionOn` speaks of a
  set of sequences instead, and follows from the library's theorem on minimal
  members of sets, `WFMin`.
- `AcknowledgedAreLogged`: `SpecAll /\ []~torn => []Events!AckedIsLogged`, with any
  number of calls at the same time (`LoggedInv`): without a line that has no end, whoever
  reads his event back has written it, and no step takes an event out of the log.
- `AllTypesCorrect`: `SpecAll => []AllTypesOK`, of the three components.
- `CommitsAreKept`, `MergedMeansMerged`: lifted from **WorktreesProofs**, where
  `CommitsKept` rests on `BranchesGrow` (no step takes a commit out of a branch),
  and `MergedWasMerged` on this, that a request past its merge carries the truth about it
  (`Merges`).
- **WorktreesProofs** `UndisturbedMergesGrow`: `Spec /\ [][MergeUndisturbed]_vars =>
  MainOnlyGrows`. `MergeUndisturbed` says that nothing moves the main branch between the
  analysis of a fast-forward and its end; a request that has decided on a fast-forward
  then still has all of main (`FastForwards`). The window of finding 3 is thus the only
  way in which main loses a commit.

**WaitsProofs** (the harness `FairSpecAll`)

- The breaker, by one invariant `Inv`: types, counters below their thresholds (for
  thresholds of zero, as the code then behaves), and a failure time whenever the
  circuit is Open. `BreakerTypeCorrect`, `CountersNeverOverflow`,
  `OpenAlwaysTimed` (no run checks it: without the time the circuit would stay Open,
  against `OpenIsTemporary`), and the action property `FailsFast`.
- `RunsAreCounted` (`JobsRunAsCounted`), lifted from **JobLedgerProofs**: the number
  of a job's runs is tied to its retries and to the phase of the worker that has it.
- `ShellsAreAccountedFor`, lifted from **PtyPoolProofs**: the slots in the channel,
  in the borrowers' hands and in the reaper's add up to the pool's size, which is
  why there is always room; the pool's proof counts them.
- `StreamsAreFaithful`: the deltas got, those in the two channels and the one in
  hand are consecutive deltas of the upstream.
- `AllTypesCorrect`, with the approvals.

**EdgesProofs** (the harness `MCEdges`): every property of the run `edges` is a
theorem. Each component has an inductive invariant; `StepsOfEdges` turns a step of
the harness into a step of one component.

- `EdgesTypesCorrect`: `Spec => []TypeOK`.
- `NoLimitIsPassed`: the connection limiter holds the instant of every connection of
  the last minute, and an RPC window's count covers the connection's calls since its
  start, of which none came after its end; the calls of a minute then lie in two
  windows (`RemoteInv`). At the gates, the row counts at least what passed on its day
  (`GateInv`). It says nothing of the RPCs of an address (above, *IPC*) or of the requests in a
  window (finding 2), which pass their limits.
- `PinsPairOnce`: a PIN's pairings, and those about to be made, are no more than the
  times it was given out, less the one still unused.
- `BinaryIsKept`: with any number of checks, calls of applyUpdate and starts. The
  property is conditional, `~meddled => BinaryWhole`: as long as no download begins
  beside an apply, no apply beside a download, and none breaks off over the file of a
  pending update (above, *Update*), a whole binary is at its path or beside it, and
  what is at its path was verified. `UpdateInv` says what `Undisturbed` files look like
  at each step of an apply.
- `CaughtUpClientsAreCurrent`, under one writer at a time (any two members of
  `Writers` are equal): two writers may broadcast in the order opposite to their
  writes, and the property is then false (*IPC*). The invariant says what the last
  event of each session tells, and that a view is complete up to the events its
  client has not read.
- `CachesDoExpire`: an action property of the gates and of the key cache, and an
  invariant of the license. A cached verdict was true when its query was sent; a
  license in memory, or in the answer of a call, is at most a grace period older
  than a row that was itself at most one older than the backend's word.
- `SessionsAgree`: the action property `SessionAgreed` by `RelayInv`. `Keyed` gives
  each client one key, also in frames under way; `Newest` and `Unanswered` order the
  clients: everything the daemon has made is for clients no newer than the one it
  serves, and a hello under way is of a newer one, right behind the relay's notice;
  `CallsCounted` ties the requests under way to both ends' counters; `HelloAhead`
  puts the hello in the channel before all that is encrypted for a client without
  a key.

**Assumptions.** Bounds, limits and capacities are natural numbers, and windows,
TTLs and the day are not zero (`RpcWindow`, `Window`, `TrustTTL`, `KeyTTL`,
`DayLength`: constants of the code, all positive); sets that are counted
(connections, requests, devices, writers, jobs, borrowers, approvals) are finite;
markers such as `NoJob` are not members of the sets they stand beside. They are the
ASSUMEs of `TaskEngine`, `CircuitBreaker`, `TaskQueue`, `SessionManager` and of the
three harnesses, and TLC evaluates them on every run.

**Only model-checked.** Liveness (`TurnsEnd`, `CallsReturn`, `RunningEnds`,
`AbandonedIsInterrupted`, `DoneIsArchived`, `OpenIsTemporary`, `EveryJobSettles`,
`StopReturns`, `StreamSettles`, `DecisionWakes`): the prover has no fairness. Every
other property of a passing run is stated by a theorem. The violated properties are
false.

## Plan

Done: the modules above, with the theorems above. Next, in order of importance:

1. `SessionTranscript`: messages and tool calls of a turn, with approve and
   reject, composed with `SessionManager`.
2. Topology cycles and policy rules as operators against reference definitions.

Not to be modelled: I/O and cryptography (packs, plugins, connectivity), text
processing (memory, intelligence, autonomous plans), ranking over floating-point
numbers, user interfaces, and engines outside the
repository (Temporal, Postgres, Redis, git).

## How to run

    tlc -config SessionClaim.cfg MCSessionManager
    tlc -config TaskQueue.cfg TaskQueue
    tlapm SessionManagerProofs.tla

The session configurations go with `MCSessionManager`, the others with the
module whose behaviour they check; `PROJECT.json` lists the pairs.
