--------------------------- MODULE SessionManager ---------------------------
(***************************************************************************)
(* The life cycle of AI sessions in the clawd daemon: the session manager  *)
(* (session/mod.rs), the provider runners (session/claude.rs, codex.rs,    *)
(* cursor.rs) and the session rows of the store (storage/mod.rs).          *)
(*                                                                         *)
(* Every RPC runs in the task of its connection and every turn in a task   *)
(* of its own, so an await is a point where any other task may run.  Each  *)
(* action below is the code between two awaits that touch shared state: a  *)
(* statement on the store, a use of the `handles` map, or a use of a       *)
(* runner's flags and child.  What a handler read before an await it keeps *)
(* in `call`, as stale as it is in the code.                               *)
(*                                                                         *)
(* A turn is named by t \in Turns.  Each turn spawns at most one           *)
(* subprocess, which has the turn's name too; and a runner is named after  *)
(* the turn it was created for, so handles[s] = r means that turn r made   *)
(* the runner that is now in the map.  Messages and tool calls are left    *)
(* out: writing one changes nothing modelled here.                         *)
(***************************************************************************)
EXTENDS Naturals, FiniteSets

CONSTANTS
    Sessions,     \* session ids
    Calls,        \* connections; each handles one request at a time
    Turns,        \* bounds the number of turns ever run
    Providers,    \* providers in use, among "claude", "codex", "cursor"
    Ops,          \* the operations in use, a subset of AllOps
    MaxSessions,  \* config max_sessions; 0 is no limit
    None

AllOps == {"create", "send", "pause", "resume", "cancel", "delete",
           "setProvider", "prune", "drain", "crash"}

ASSUME SessionAssumption ==
    /\ Providers \subseteq {"claude", "codex", "cursor"}
    /\ Ops \subseteq AllOps
    /\ MaxSessions \in Nat
    /\ Sessions # {} /\ Providers # {}
    /\ None \notin Sessions \cup Turns

VARIABLES
    daemon,   \* "up", "draining" (in drain), "down"
    status,   \* sessions.status; "absent" before the insert, "deleted" after
    routed,   \* the provider a new runner of the session gets
    handles,  \* SessionManager.handles: the session's runner, or None
    runner,   \* a runner's kind, cancelled, paused, current_child, child_pid;
              \* and whether stop() was called on it, which nothing reads
    turn,     \* a turn task: pc, session, runner, received_result, the
              \* child it is waiting for
    proc,     \* a turn's subprocess
    call,     \* a request being handled: pc, session, the provider or status
              \* it goes by, the runner it is stopping
    drain     \* drain()'s progress with each session it found in handles

vars == <<daemon, status, routed, handles, runner, turn, proc, call, drain>>

Statuses == {"absent", "idle", "running", "paused", "error", "deleted"}

CallPcs == {"ready", "insert", "claim", "record", "spawn",
            "pauseWrite", "pauseSignal",
            "resumeCheck", "resumeWrite", "resumeSignal",
            "cancelStop", "cancelKill", "cancelWrite",
            "deleteStop", "deleteKill", "deleteRow",
            "setDrop", "setWrite"}

TurnPcs == {"unused", "start", "spawn", "store", "begin", "loop", "result",
            "reap", "reaping", "final", "write", "timeout", "fail", "done"}

\* The part of run_turn inside tokio::time::timeout: event_loop, stream_output.
TimedPcs == {"begin", "loop", "result", "reap", "reaping", "final", "write"}

RunnerType == [kind : Providers, cancelled : BOOLEAN, stopped : BOOLEAN,
               paused : BOOLEAN, child : Turns \cup {None}, pid : Turns \cup {None}]

TurnType == [pc : TurnPcs, s : Sessions, r : Turns, got : BOOLEAN,
             waits : Turns \cup {None}]

CallType == [pc : CallPcs, s : Sessions, prov : Providers,
             next : {"idle", "running", "paused", "error"},
             r : Turns \cup {None}]

TypeOK ==
    /\ daemon \in {"up", "draining", "down"}
    /\ status \in [Sessions -> Statuses]
    /\ routed \in [Sessions -> Providers]
    /\ handles \in [Sessions -> Turns \cup {None}]
    /\ runner \in [Turns -> RunnerType]
    /\ turn \in [Turns -> TurnType]
    /\ proc \in [Turns -> {"none", "running", "stopped", "dead"}]
    /\ call \in [Calls -> CallType]
    /\ drain \in [Sessions -> [pc : {"none", "stop", "kill", "write"},
                               r : Turns \cup {None}]]

Exists(s) == status[s] \notin {"absent", "deleted"}

\* No runner, turn or request: the memory of a daemon that has just started.
NewRunner(p) == [kind |-> p, cancelled |-> FALSE, stopped |-> FALSE,
                 paused |-> FALSE, child |-> None, pid |-> None]

ReadyCall == [pc |-> "ready", s |-> CHOOSE s \in Sessions : TRUE,
              prov |-> CHOOSE p \in Providers : TRUE, next |-> "idle", r |-> None]

NotDraining == [pc |-> "none", r |-> None]

\* A fresh data directory: no session has been created.
Init ==
    /\ daemon = "up"
    /\ status = [s \in Sessions |-> "absent"]
    /\ routed = [s \in Sessions |-> CHOOSE p \in Providers : TRUE]
    /\ handles = [s \in Sessions |-> None]
    /\ runner = [t \in Turns |-> NewRunner(CHOOSE p \in Providers : TRUE)]
    /\ turn = [t \in Turns |-> [pc |-> "unused", s |-> CHOOSE s \in Sessions : TRUE,
                                r |-> t, got |-> FALSE, waits |-> None]]
    /\ proc = [t \in Turns |-> "none"]
    /\ call = [c \in Calls |-> ReadyCall]
    /\ drain = [s \in Sessions |-> NotDraining]

Alive == daemon \in {"up", "draining"}

-----------------------------------------------------------------------------
(***************************************************************************)
(* The store and the locks                                                 *)
(***************************************************************************)

\* Storage::update_session_status: an UPDATE by id, which touches no row when
\* the session is gone.
UpdateStatus(s, v) == status' = [status EXCEPT ![s] = IF Exists(s) THEN v ELSE @]

\* cancel() and delete() hold the write guard of `handles` while they await
\* stop(): it is a temporary of the `if let` whose body calls stop().
HandlesFree == \A c \in Calls : call[c].pc \notin {"cancelKill", "deleteKill"}

\* event_loop and stream_output hold the current_child mutex of their runner
\* while they wait for the child they took out of it.
ChildFree(r) == \A t \in Turns : ~(turn[t].pc = "reaping" /\ turn[t].r = r)

Goto(c, pc) == call' = [call EXCEPT ![c].pc = pc]
Return(c) == call' = [call EXCEPT ![c] = ReadyCall]
Step(t, pc) == turn' = [turn EXCEPT ![t].pc = pc]

\* SIGSTOP and SIGCONT to the pid a runner has stored, if any.
Signal(r, from, to) ==
    proc' = [p \in Turns |->
                IF p = runner[r].pid /\ proc[p] = from THEN to ELSE proc[p]]

\* stop() begins by raising `cancelled`.
Told(r) == [runner EXCEPT ![r].cancelled = TRUE, ![r].stopped = TRUE]

\* SIGKILL and reap the child a runner owns, if any.
Kill(r) ==
    proc' = [p \in Turns |-> IF p = runner[r].child THEN "dead" ELSE proc[p]]

-----------------------------------------------------------------------------
(***************************************************************************)
(* Faulty versions of some of the steps below.  No action of Next is one   *)
(* of them: each stands for a slip that one of the properties must notice. *)
(***************************************************************************)

\* The claim made on the strength of the status read earlier.
SendClaimUnconditional(c) ==
    /\ call[c].pc = "claim"
    /\ status' = [status EXCEPT ![call[c].s] = IF Exists(call[c].s) THEN "running" ELSE @]
    /\ Goto(c, "record")
    /\ UNCHANGED <<daemon, routed, handles, runner, turn, proc, drain>>

\* The new runner is not put into the map.
SendSpawnNoInsert(c) ==
    /\ call[c].pc = "spawn"
    /\ HandlesFree
    /\ \E t \in Turns :
          /\ turn[t].pc = "unused"
          /\ runner' = [runner EXCEPT ![t] = NewRunner(call[c].prov)]
          /\ turn' = [turn EXCEPT ![t] = [pc |-> "start", s |-> call[c].s, r |-> t,
                                           got |-> FALSE, waits |-> None]]
    /\ Return(c)
    /\ UNCHANGED <<daemon, status, routed, handles, proc, drain>>

\* stop() is called on a runner that has a child only.
StopFlagBusy(c, pc, killPc, donePc) ==
    /\ call[c].pc = pc
    /\ HandlesFree
    /\ LET s == call[c].s
           r == handles[s]
       IN  /\ handles' = [handles EXCEPT ![s] = None]
           /\ IF r # None /\ runner[r].child # None
              THEN /\ runner' = Told(r)
                   /\ IF runner[r].paused THEN Signal(r, "stopped", "running")
                                          ELSE UNCHANGED proc
                   /\ call' = [call EXCEPT ![c].pc = killPc, ![c].r = r]
              ELSE Goto(c, donePc) /\ UNCHANGED <<runner, proc>>
    /\ UNCHANGED <<daemon, status, routed, turn, drain>>

\* The child is stored in the runner that is now in the map.
TurnStoreLookup(t) ==
    /\ turn[t].pc = "store"
    /\ LET r == handles[turn[t].s] IN
          runner' = [q \in Turns |-> IF q = r THEN [runner[q] EXCEPT !.child = t] ELSE runner[q]]
    /\ Step(t, "begin")
    /\ UNCHANGED <<daemon, status, routed, handles, proc, call, drain>>

\* No timeout at all.
TurnTimeoutNever(t) == FALSE /\ UNCHANGED vars

\* A timeout on reading lines only.
TurnTimeoutReading(t) ==
    /\ turn[t].pc = "loop"
    /\ Step(t, "timeout")
    /\ UNCHANGED <<daemon, status, routed, handles, runner, proc, call, drain>>

\* The error is only logged.
TurnFailSilent(t) ==
    /\ turn[t].pc = "fail"
    /\ Step(t, "done")
    /\ UNCHANGED <<daemon, status, routed, handles, runner, proc, call, drain>>

\* Recovery writes a status that nothing else knows.
RestartUnknownStatus ==
    /\ daemon = "down"
    /\ daemon' = "up"
    /\ status' = [s \in Sessions |-> IF status[s] = "running" THEN "crashed" ELSE status[s]]
    /\ UNCHANGED <<routed, handles, runner, turn, proc, call, drain>>

-----------------------------------------------------------------------------
(***************************************************************************)
(* Requests                                                                *)
(***************************************************************************)

\* A request for an existing session: get_session(..).context("SESSION_NOT_FOUND").
\* The handler goes on with what it needs of the row.
Request(c, op, s, locals) ==
    /\ Alive /\ op \in Ops
    /\ call[c].pc = "ready"
    /\ Exists(s)
    /\ call' = [call EXCEPT ![c] = locals]
    /\ UNCHANGED <<daemon, status, routed, handles, runner, turn, proc, drain>>

At(pc, s) == [ReadyCall EXCEPT !.pc = pc, !.s = s]

\* Bound: there is an id left for every create under way.
SessionLeft ==
    Cardinality({c \in Calls : call[c].pc = "insert"})
        < Cardinality({s \in Sessions : status[s] = "absent"})

\* create: the provider is ready and count_sessions() is below the limit ...
CreateCheck(c) ==
    /\ Alive /\ "create" \in Ops
    /\ SessionLeft
    /\ call[c].pc = "ready"
    /\ MaxSessions = 0 \/ Cardinality({s \in Sessions : Exists(s)}) < MaxSessions
    /\ \E p \in Providers :
          call' = [call EXCEPT ![c] = [ReadyCall EXCEPT !.pc = "insert", !.prov = p]]
    /\ UNCHANGED <<daemon, status, routed, handles, runner, turn, proc, drain>>

\* ... then the row is inserted, idle, under a fresh id.
CreateInsert(c) ==
    /\ call[c].pc = "insert"
    /\ \E s \in Sessions :
          /\ status[s] = "absent"
          /\ status' = [status EXCEPT ![s] = "idle"]
          /\ routed' = [routed EXCEPT ![s] = call[c].prov]
    /\ Return(c)
    /\ UNCHANGED <<daemon, handles, runner, turn, proc, drain>>

\* Bound: there is a turn left for every send_message under way.
TurnLeft ==
    Cardinality({c \in Calls : call[c].pc \in {"claim", "record", "spawn"}})
        < Cardinality({t \in Turns : turn[t].pc = "unused"})

\* send_message: a paused session is refused ...
SendRead(c, s) ==
    /\ TurnLeft
    /\ status[s] # "paused"
    /\ Request(c, "send", s, [At("claim", s) EXCEPT !.prov = routed[s]])

\* ... the session is claimed with one conditional UPDATE, or is busy ...
SendClaim(c) ==
    /\ call[c].pc = "claim"
    /\ LET s == call[c].s IN
       \/ /\ status[s] \in {"idle", "error"}
          /\ status' = [status EXCEPT ![s] = "running"]
          /\ Goto(c, "record")
       \/ /\ status[s] \notin {"idle", "error"}
          /\ Return(c)
          /\ UNCHANGED status
    /\ UNCHANGED <<daemon, routed, handles, runner, turn, proc, drain>>

\* ... the user message is stored, which fails if the row is gone ...
SendRecord(c) ==
    /\ call[c].pc = "record"
    /\ IF Exists(call[c].s) THEN Goto(c, "spawn") ELSE Return(c)
    /\ UNCHANGED <<daemon, status, routed, handles, runner, turn, proc, drain>>

\* ... and the turn is spawned on the session's runner, made with the provider
\* read at the start if there is none.
SendSpawn(c) ==
    /\ call[c].pc = "spawn"
    /\ HandlesFree
    /\ \E t \in Turns :
          LET s == call[c].s
              fresh == handles[s] = None
              r == IF fresh THEN t ELSE handles[s]
          IN  /\ turn[t].pc = "unused"
              /\ handles' = [handles EXCEPT ![s] = r]
              /\ runner' = [runner EXCEPT ![t] = IF fresh THEN NewRunner(call[c].prov) ELSE @]
              /\ turn' = [turn EXCEPT ![t] = [pc |-> "start", s |-> s, r |-> r,
                                               got |-> FALSE, waits |-> None]]
    /\ Return(c)
    /\ UNCHANGED <<daemon, status, routed, proc, drain>>

\* pause: write "paused" whatever the status was, then SIGSTOP the child.
PauseRead(c, s) == Request(c, "pause", s, At("pauseWrite", s))

PauseWrite(c) ==
    /\ call[c].pc = "pauseWrite"
    /\ UpdateStatus(call[c].s, "paused")
    /\ Goto(c, "pauseSignal")
    /\ UNCHANGED <<daemon, routed, handles, runner, turn, proc, drain>>

PauseSignal(c) ==
    /\ call[c].pc = "pauseSignal"
    /\ HandlesFree
    /\ LET r == handles[call[c].s] IN
       \/ /\ r = None
          /\ UNCHANGED <<runner, proc>>
       \/ /\ r # None
          /\ runner' = [runner EXCEPT ![r].paused = TRUE]
          /\ Signal(r, "running", "stopped")
    /\ Return(c)
    /\ UNCHANGED <<daemon, status, routed, handles, turn, drain>>

\* resume: "running" if the session was paused and has a runner, else "idle".
ResumeRead(c, s) ==
    Request(c, "resume", s, [At("resumeCheck", s) EXCEPT !.next = status[s]])

ResumeCheck(c) ==
    /\ call[c].pc = "resumeCheck"
    /\ HandlesFree
    /\ LET active == call[c].next = "paused" /\ handles[call[c].s] # None
       IN  call' = [call EXCEPT ![c].pc = "resumeWrite",
                                ![c].next = IF active THEN "running" ELSE "idle"]
    /\ UNCHANGED <<daemon, status, routed, handles, runner, turn, proc, drain>>

ResumeWrite(c) ==
    /\ call[c].pc = "resumeWrite"
    /\ UpdateStatus(call[c].s, call[c].next)
    /\ Goto(c, "resumeSignal")
    /\ UNCHANGED <<daemon, routed, handles, runner, turn, proc, drain>>

ResumeSignal(c) ==
    /\ call[c].pc = "resumeSignal"
    /\ HandlesFree
    /\ LET r == handles[call[c].s] IN
       \/ /\ r = None
          /\ UNCHANGED <<runner, proc>>
       \/ /\ r # None
          /\ runner' = [runner EXCEPT ![r].paused = FALSE]
          /\ Signal(r, "stopped", "running")
    /\ Return(c)
    /\ UNCHANGED <<daemon, status, routed, handles, turn, drain>>

\* cancel and delete: take the runner out of the map and stop() it.  stop()
\* first raises `cancelled` and wakes a stopped child ...
CancelRead(c, s) == Request(c, "cancel", s, At("cancelStop", s))
DeleteRead(c, s) == Request(c, "delete", s, At("deleteStop", s))

StopFlag(c, pc, killPc, donePc) ==
    /\ call[c].pc = pc
    /\ HandlesFree
    /\ LET s == call[c].s
           r == handles[s]
       IN  \/ /\ r = None
              /\ Goto(c, donePc)
              /\ UNCHANGED <<handles, runner, proc>>
           \/ /\ r # None
              /\ handles' = [handles EXCEPT ![s] = None]
              /\ runner' = Told(r)
              /\ IF runner[r].paused THEN Signal(r, "stopped", "running")
                                     ELSE UNCHANGED proc
              /\ call' = [call EXCEPT ![c].pc = killPc, ![c].r = r]
    /\ UNCHANGED <<daemon, status, routed, turn, drain>>

\* ... then kills and reaps the child it finds in current_child.
StopKill(c, pc, donePc) ==
    /\ call[c].pc = pc
    /\ LET r == call[c].r IN
          /\ ChildFree(r)
          /\ Kill(r)
          /\ runner' = [runner EXCEPT ![r].child = None, ![r].pid = None]
    /\ call' = [call EXCEPT ![c].pc = donePc, ![c].r = None]
    /\ UNCHANGED <<daemon, status, routed, handles, turn, drain>>

CancelStop(c) == StopFlag(c, "cancelStop", "cancelKill", "cancelWrite")
CancelKill(c) == StopKill(c, "cancelKill", "cancelWrite")

\* cancel then marks the session idle.
CancelWrite(c) ==
    /\ call[c].pc = "cancelWrite"
    /\ UpdateStatus(call[c].s, "idle")
    /\ Return(c)
    /\ UNCHANGED <<daemon, routed, handles, runner, turn, proc, drain>>

DeleteStop(c) == StopFlag(c, "deleteStop", "deleteKill", "deleteRow")
DeleteKill(c) == StopKill(c, "deleteKill", "deleteRow")

\* delete then removes the row, and with it the messages.
DeleteRow(c) ==
    /\ call[c].pc = "deleteRow"
    /\ UpdateStatus(call[c].s, "deleted")
    /\ Return(c)
    /\ UNCHANGED <<daemon, routed, handles, runner, turn, proc, drain>>

\* set_provider: refused when the status read is "running"; otherwise drop the
\* runner from the map, without stopping it, and store the provider.
SetRead(c, s) == status[s] # "running" /\ Request(c, "setProvider", s, At("setDrop", s))

SetDrop(c) ==
    /\ call[c].pc = "setDrop"
    /\ HandlesFree
    /\ handles' = [handles EXCEPT ![call[c].s] = None]
    /\ Goto(c, "setWrite")
    /\ UNCHANGED <<daemon, status, routed, runner, turn, proc, drain>>

SetWrite(c) ==
    /\ call[c].pc = "setWrite"
    /\ \E p \in Providers : routed' = [routed EXCEPT ![call[c].s] = p]
    /\ Return(c)
    /\ UNCHANGED <<daemon, status, handles, runner, turn, proc, drain>>

-----------------------------------------------------------------------------
(***************************************************************************)
(* A turn: run_turn of the three runners                                   *)
(***************************************************************************)

KindOf(t) == runner[turn[t].r].kind
Cancelled(t) == runner[turn[t].r].cancelled

\* run_turn begins by clearing `cancelled`.
TurnStart(t) ==
    /\ turn[t].pc = "start"
    /\ runner' = [runner EXCEPT ![turn[t].r].cancelled = FALSE]
    /\ Step(t, "spawn")
    /\ UNCHANGED <<daemon, status, routed, handles, proc, call, drain>>

\* No account to use or no CLI to run is an error; otherwise the child runs
\* and its pid is stored.
TurnSpawn(t) ==
    /\ turn[t].pc = "spawn"
    /\ \/ /\ Step(t, "fail")
          /\ UNCHANGED <<runner, proc>>
       \/ /\ Step(t, "store")
          /\ proc' = [proc EXCEPT ![t] = "running"]
          /\ runner' = [runner EXCEPT ![turn[t].r].pid = t]
    /\ UNCHANGED <<daemon, status, routed, handles, call, drain>>

\* The child goes into current_child, which drops (and does not kill) any
\* child that was there.
TurnStore(t) ==
    /\ turn[t].pc = "store"
    /\ ChildFree(turn[t].r)
    /\ runner' = [runner EXCEPT ![turn[t].r].child = t]
    /\ Step(t, "begin")
    /\ UNCHANGED <<daemon, status, routed, handles, proc, call, drain>>

\* event_loop and stream_output start by writing "running".
TurnBegin(t) ==
    /\ turn[t].pc = "begin"
    /\ UpdateStatus(turn[t].s, "running")
    /\ Step(t, "loop")
    /\ UNCHANGED <<daemon, routed, handles, runner, proc, call, drain>>

\* A line is read after `cancelled` was raised: claude and cursor stop reading.
TurnBreak(t) ==
    /\ turn[t].pc = "loop"
    /\ KindOf(t) # "codex" /\ Cancelled(t)
    /\ Step(t, "reap")
    /\ UNCHANGED <<daemon, status, routed, handles, runner, proc, call, drain>>

\* A line is not UTF-8, or makes a message for a session whose row is gone, so
\* that the insert fails: the turn fails too, leaving the child where it is.
TurnLineError(t) ==
    /\ turn[t].pc = "loop"
    /\ Step(t, "fail")
    /\ UNCHANGED <<daemon, status, routed, handles, runner, proc, call, drain>>

\* claude's Result event: it is read, the last message is finalised ...
TurnResult(t) ==
    /\ turn[t].pc = "loop"
    /\ KindOf(t) = "claude" /\ ~turn[t].got /\ ~Cancelled(t)
    /\ Step(t, "result")
    /\ UNCHANGED <<daemon, status, routed, handles, runner, proc, call, drain>>

\* ... and the final status is written.  The loop goes on until end of file.
TurnResultWrite(t) ==
    /\ turn[t].pc = "result"
    /\ \E v \in {"idle", "error"} : UpdateStatus(turn[t].s, v)
    /\ turn' = [turn EXCEPT ![t].pc = "loop", ![t].got = TRUE]
    /\ UNCHANGED <<daemon, routed, handles, runner, proc, call, drain>>

\* End of file on the child's output: the child has exited.  (A CLI keeps its
\* output open to the end; one that closed it early would be waited for below.)
TurnEof(t) ==
    /\ turn[t].pc = "loop"
    /\ proc[t] = "dead"
    /\ Step(t, "reap")
    /\ UNCHANGED <<daemon, status, routed, handles, runner, proc, call, drain>>

\* Take whatever child current_child holds and wait for it ...
TurnReap(t) ==
    /\ turn[t].pc = "reap"
    /\ LET r == turn[t].r IN
          /\ ChildFree(r)
          /\ turn' = [turn EXCEPT ![t].pc = "reaping", ![t].waits = runner[r].child]
          /\ runner' = [runner EXCEPT ![r].child = None]
    /\ UNCHANGED <<daemon, status, routed, handles, proc, call, drain>>

\* ... and clear the pid once it has exited.
TurnReaped(t) ==
    /\ turn[t].pc = "reaping"
    /\ turn[t].waits # None => proc[turn[t].waits] = "dead"
    /\ runner' = [runner EXCEPT ![turn[t].r].pid = None]
    /\ turn' = [turn EXCEPT ![t].pc = "final", ![t].waits = None]
    /\ UNCHANGED <<daemon, status, routed, handles, proc, call, drain>>

\* A cancelled turn ends silently, and so does a claude turn that has had its
\* Result; any other has a last status to write ...
TurnFinal(t) ==
    /\ turn[t].pc = "final"
    /\ Step(t, IF Cancelled(t) \/ (KindOf(t) = "claude" /\ turn[t].got)
               THEN "done" ELSE "write")
    /\ UNCHANGED <<daemon, status, routed, handles, runner, proc, call, drain>>

\* ... "error" for claude (no Result came), "idle" for codex, and for cursor
\* "idle" or, when there was no output, "error".
TurnWrite(t) ==
    /\ turn[t].pc = "write"
    /\ \E v \in {"idle", "error"} :
          /\ KindOf(t) = "claude" => v = "error"
          /\ KindOf(t) = "codex" => v = "idle"
          /\ UpdateStatus(turn[t].s, v)
    /\ Step(t, "done")
    /\ UNCHANGED <<daemon, routed, handles, runner, proc, call, drain>>

\* The turn's timeout drops the event loop at whichever await it is in, and
\* with it a child that was being waited for ...
TurnTimeout(t) ==
    /\ turn[t].pc \in TimedPcs
    /\ turn' = [turn EXCEPT ![t].pc = "timeout", ![t].waits = None]
    /\ UNCHANGED <<daemon, status, routed, handles, runner, proc, call, drain>>

\* ... and kills the child in current_child.  child_pid is left as it is.
TurnTimeoutKill(t) ==
    /\ turn[t].pc = "timeout"
    /\ LET r == turn[t].r IN
          /\ ChildFree(r)
          /\ Kill(r)
          /\ runner' = [runner EXCEPT ![r].child = None]
    /\ Step(t, "fail")
    /\ UNCHANGED <<daemon, status, routed, handles, call, drain>>

\* run_turn returned an error: the task spawned by send_message writes "error".
TurnFail(t) ==
    /\ turn[t].pc = "fail"
    /\ UpdateStatus(turn[t].s, "error")
    /\ Step(t, "done")
    /\ UNCHANGED <<daemon, routed, handles, runner, proc, call, drain>>

\* A child exits of its own accord, unless it is stopped.
ProcExit(t) ==
    /\ proc[t] = "running"
    /\ proc' = [proc EXCEPT ![t] = "dead"]
    /\ UNCHANGED <<daemon, status, routed, handles, runner, turn, call, drain>>

-----------------------------------------------------------------------------
(***************************************************************************)
(* The daemon: pruning, shutdown, crash and restart                        *)
(***************************************************************************)

\* prune_old_sessions: the daily job deletes an old idle or failed session.
Prune(s) ==
    /\ Alive /\ "prune" \in Ops
    /\ status[s] \in {"idle", "error"}
    /\ status' = [status EXCEPT ![s] = "deleted"]
    /\ UNCHANGED <<daemon, routed, handles, runner, turn, proc, call, drain>>

\* drain, on a shutdown signal: take every runner out of the map ...
DrainStart ==
    /\ daemon = "up" /\ "drain" \in Ops
    /\ HandlesFree
    /\ daemon' = "draining"
    /\ drain' = [s \in Sessions |-> [pc |-> IF handles[s] = None THEN "none" ELSE "stop",
                                      r |-> handles[s]]]
    /\ handles' = [s \in Sessions |-> None]
    /\ UNCHANGED <<status, routed, runner, turn, proc, call>>

\* ... and, for one after the other, raise `cancelled` ...
DrainFlag(s) ==
    /\ drain[s].pc = "stop"
    /\ \A q \in Sessions : drain[q].pc \in {"none", "stop"}
    /\ LET r == drain[s].r IN
          /\ runner' = Told(r)
          /\ IF runner[r].paused THEN Signal(r, "stopped", "running") ELSE UNCHANGED proc
    /\ drain' = [drain EXCEPT ![s].pc = "kill"]
    /\ UNCHANGED <<daemon, status, routed, handles, turn, call>>

\* ... kill the child, or give up after five seconds of waiting for the mutex ...
DrainKill(s) ==
    /\ drain[s].pc = "kill"
    /\ LET r == drain[s].r IN
       \/ /\ ChildFree(r)
          /\ Kill(r)
          /\ runner' = [runner EXCEPT ![r].child = None, ![r].pid = None]
       \/ /\ ~ChildFree(r)
          /\ UNCHANGED <<runner, proc>>
    /\ drain' = [drain EXCEPT ![s].pc = "write"]
    /\ UNCHANGED <<daemon, status, routed, handles, turn, call>>

\* ... and mark the session idle.
DrainWrite(s) ==
    /\ drain[s].pc = "write"
    /\ UpdateStatus(s, "idle")
    /\ drain' = [drain EXCEPT ![s] = NotDraining]
    /\ UNCHANGED <<daemon, routed, handles, runner, turn, proc, call>>

\* The process ends: its tasks are gone, its children and its rows stay.
Halt ==
    /\ daemon' = "down"
    /\ handles' = [s \in Sessions |-> None]
    /\ runner' = [t \in Turns |-> NewRunner(CHOOSE p \in Providers : TRUE)]
    /\ turn' = [t \in Turns |->
                  [turn[t] EXCEPT !.pc = IF @ = "unused" THEN "unused" ELSE "done",
                                  !.waits = None]]
    /\ call' = [c \in Calls |-> ReadyCall]
    /\ drain' = [s \in Sessions |-> NotDraining]
    /\ UNCHANGED <<status, routed, proc>>

DrainEnd == daemon = "draining" /\ (\A s \in Sessions : drain[s] = NotDraining) /\ Halt

Crash == "crash" \in Ops /\ Alive /\ Halt

\* recover_stale_sessions, before the daemon serves any request.
Restart ==
    /\ daemon = "down"
    /\ daemon' = "up"
    /\ status' = [s \in Sessions |-> CASE status[s] = "running" -> "error"
                                        [] status[s] = "paused" -> "idle"
                                        [] OTHER -> status[s]]
    /\ UNCHANGED <<routed, handles, runner, turn, proc, call, drain>>

-----------------------------------------------------------------------------
NewRequest(c) ==
    \/ CreateCheck(c)
    \/ \E s \in Sessions : \/ SendRead(c, s) \/ PauseRead(c, s) \/ ResumeRead(c, s)
                          \/ CancelRead(c, s) \/ DeleteRead(c, s) \/ SetRead(c, s)

CallStep(c) ==
    \/ CreateInsert(c)
    \/ SendClaim(c) \/ SendRecord(c) \/ SendSpawn(c)
    \/ PauseWrite(c) \/ PauseSignal(c)
    \/ ResumeCheck(c) \/ ResumeWrite(c) \/ ResumeSignal(c)
    \/ CancelStop(c) \/ CancelKill(c) \/ CancelWrite(c)
    \/ DeleteStop(c) \/ DeleteKill(c) \/ DeleteRow(c)
    \/ SetDrop(c) \/ SetWrite(c)

TurnStep(t) ==
    \/ TurnStart(t) \/ TurnSpawn(t) \/ TurnStore(t) \/ TurnBegin(t)
    \/ TurnBreak(t) \/ TurnLineError(t) \/ TurnResult(t) \/ TurnResultWrite(t) \/ TurnEof(t)
    \/ TurnReap(t) \/ TurnReaped(t) \/ TurnFinal(t) \/ TurnWrite(t)
    \/ TurnTimeout(t) \/ TurnTimeoutKill(t) \/ TurnFail(t)

DrainStep == DrainEnd \/ \E s \in Sessions : DrainFlag(s) \/ DrainKill(s) \/ DrainWrite(s)

Next ==
    \/ \E c \in Calls : NewRequest(c) \/ CallStep(c)
    \/ \E t \in Turns : TurnStep(t) \/ ProcExit(t)
    \/ \E s \in Sessions : Prune(s)
    \/ DrainStart \/ DrainStep \/ Crash \/ Restart

Spec == Init /\ [][Next]_vars

(***************************************************************************)
(* The runtime polls every ready task, and the timer of a turn fires even  *)
(* when its subprocess says nothing, which is a step of the turn.  Clients *)
(* need not send, a subprocess need not exit, and a daemon that is down    *)
(* need not be restarted.                                                  *)
(***************************************************************************)
Fairness ==
    /\ \A c \in Calls : WF_vars(CallStep(c))
    /\ \A t \in Turns : WF_vars(TurnStep(t))
    /\ WF_vars(DrainStep)

FairSpec == Spec /\ Fairness

-----------------------------------------------------------------------------
(***************************************************************************)
(* Properties                                                              *)
(***************************************************************************)

\* The turn's task exists and has not reported how the turn went.
Unfinished(t) == turn[t].pc \notin {"unused", "done"} /\ ~turn[t].got

\* The request has claimed the session and has not spawned its turn yet.
Claimed(c) == call[c].pc \in {"record", "spawn"}

\* The request has taken the session's runner out of the map and is not done.
Stopping(c) == call[c].pc \in {"cancelKill", "cancelWrite", "deleteKill", "deleteRow"}

(***************************************************************************)
(* A session runs one turn at a time.  This is what the conditional UPDATE *)
(* of claim_session_for_run is for: "eliminates the TOCTOU window that     *)
(* would otherwise exist between reading the status and starting the       *)
(* runner".                                                                *)
(***************************************************************************)
AtMostOneTurn ==
    \A t, u \in Turns :
        Unfinished(t) /\ Unfinished(u) /\ turn[t].s = turn[u].s => t = u

\* Who has a session: the request that claimed it, then the turn it spawned.
ClaimersOf(s) == {c \in Calls : Claimed(c) /\ call[c].s = s}
WorkersOf(s) == {t \in Turns : Unfinished(t) /\ turn[t].s = s}
Claimers == [s \in Sessions |-> ClaimersOf(s)]
Workers == [s \in Sessions |-> WorkersOf(s)]

(***************************************************************************)
(* The claim makes a session a lock.  From the UPDATE on, through the      *)
(* spawn, to the last status that the turn writes, nobody else has it: a   *)
(* behaviour of the session manager is, for who has which session, a       *)
(* behaviour of TurnLock.                                                  *)
(***************************************************************************)
Lock == INSTANCE TurnLock WITH claimers <- Claimers, workers <- Workers

ClaimIsLock == Lock!Spec

(***************************************************************************)
(* A session that says "running" in a running daemon has a task that will  *)
(* move it on: a turn, a send_message about to spawn one, or a cancel,     *)
(* delete or drain that has stopped the turn and has yet to write.         *)
(* Without one the session answers SESSION_BUSY until it is cancelled.     *)
(***************************************************************************)
RunningHasTurn ==
    \A s \in Sessions : daemon # "down" /\ status[s] = "running" =>
        \/ \E t \in Turns : turn[t].pc \notin {"unused", "done"} /\ turn[t].s = s
        \/ \E c \in Calls : call[c].s = s /\ (Claimed(c) \/ Stopping(c))
        \/ drain[s].pc # "none"

(***************************************************************************)
(* Nobody loses a turn: the runner of a turn that has not ended is in the  *)
(* handles map, so that pause, cancel, delete and drain can reach it, or   *)
(* whoever took it out has called stop() on it, or is a drain about to.    *)
(***************************************************************************)
TurnReachable ==
    \A t \in Turns : turn[t].pc \notin {"unused", "done"} =>
        LET s == turn[t].s
            r == turn[t].r
        IN  \/ handles[s] = r
            \/ runner[r].stopped
            \/ drain[s].pc = "stop" /\ drain[s].r = r

(***************************************************************************)
(* A runner only ever holds, waits for, or signals subprocesses of its own *)
(* session, so that stop() and the turn timeout never kill another         *)
(* session's child.                                                        *)
(***************************************************************************)
ChildOwnership ==
    \A r \in Turns :
        /\ \A t \in {runner[r].child, runner[r].pid} \ {None} : turn[t].r = r
        /\ \A t \in Turns : turn[t].pc = "reaping" /\ turn[t].waits # None =>
               turn[turn[t].waits].r = turn[t].r
        /\ \A s \in Sessions : handles[s] = r => turn[r].s = s
        /\ \A t \in Turns : turn[t].r = r => turn[t].s = turn[r].s

(***************************************************************************)
(* Every turn ends, even with a hung or stopped subprocess and whatever    *)
(* other task holds the current_child mutex.                               *)
(***************************************************************************)
TurnsEnd ==
    \A t \in Turns : turn[t].pc # "unused" ~> turn[t].pc = "done"

(***************************************************************************)
(* Every request is answered: cancel and delete hold the handles lock of   *)
(* all sessions while they wait for a runner's mutex, and no cycle of      *)
(* waiting comes of it.                                                    *)
(***************************************************************************)
CallsReturn == \A c \in Calls : call[c].pc # "ready" ~> call[c].pc = "ready"

(***************************************************************************)
(* No session is "running" for ever.                                       *)
(***************************************************************************)
RunningEnds ==
    \A s \in Sessions : status[s] = "running" /\ Alive ~> status[s] # "running" \/ ~Alive

=============================================================================
