----------------------------- MODULE TaskEvents -----------------------------
(***************************************************************************)
(* The event-sourced task of clawd (tasks/event_log.rs, tasks/reducer.rs,  *)
(* tasks/checkpoint.rs, tasks/replay.rs) as the RPCs tasks.createFromSpec  *)
(* and tasks.transition drive it.  One task: its log file, its directory   *)
(* of checkpoints and the calls at work on them.  Nothing locks the files. *)
(*                                                                         *)
(* A line of the log is an event or a line that does not parse.  A crash   *)
(* may leave the last line without its end: cut short, cut inside a        *)
(* character, which makes the file unreadable as a string, or complete but *)
(* for the newline, which makes it an event.  The next append writes into  *)
(* such a line.  A crash may also leave a checkpoint file without its      *)
(* content.  An event keeps its seq, its kind and its correlation_id.      *)
(***************************************************************************)
EXTENDS Naturals, FiniteSets, FiniteSetsExt, Sequences, SequencesExt

CONSTANTS
    Calls,          \* the RPCs at work at the same time
    Kinds,          \* the event_types that tasks.transition is called with
    CheckpointEvery,\* the threshold of should_checkpoint, 50 in the code
    MaxAppends,     \* bounds the events
    MaxCrashes      \* bounds the crashes of the daemon

VARIABLES
    log,     \* the lines of events.jsonl
    torn,    \* the last line has no end
    garbled, \* the file is not UTF-8
    lost,    \* history: an event that could be read has been written into
    cps,     \* the checkpoint files: seq -> MaterializedTask, or Corrupt
    call,    \* the RPCs
    next,    \* correlation ids handed out
    crashes, \* crashes so far
    acked    \* correlation ids of the transitions that succeed

file == <<log, torn, garbled, lost>>
vars == <<file, cps, call, next, crashes, acked>>

States == {"pending", "planned", "active", "blocked", "needs_approval",
           "code_review", "qa", "done", "canceled", "failed"}
Terminal == {"done", "canceled", "failed"}
AllKinds == States \cup {"claimed", "granted", "denied"}

Corrupt == [corrupt |-> TRUE]
Unparsed == [bad |-> TRUE]
Idle == [pc |-> "idle"]
NoTask == [state |-> "none"]

TypeOK ==
    /\ \A i \in DOMAIN log : log[i] = Unparsed \/ log[i].seq < i
    /\ torn \in BOOLEAN /\ (torn => log # <<>>)
    /\ garbled \in BOOLEAN /\ lost \in BOOLEAN
    /\ \A n \in DOMAIN cps : cps[n] = Corrupt \/ cps[n].state \in States
    /\ DOMAIN call = Calls
    /\ next \in 0 .. MaxAppends /\ crashes \in 0 .. MaxCrashes
    /\ acked \subseteq 1 .. next

Init ==
    /\ log = <<>> /\ torn = FALSE /\ garbled = FALSE /\ lost = FALSE
    /\ cps = <<>>
    /\ call = [c \in Calls |-> Idle]
    /\ next = 0 /\ crashes = 0
    /\ acked = {}

Goto(c, q) == call' = [call EXCEPT ![c] = q]

-----------------------------------------------------------------------------
(***************************************************************************)
(* reducer.rs                                                              *)
(***************************************************************************)

\* The states from which reduce accepts an event of the kind.
From(kind) ==
    CASE kind = "planned" -> {"pending"}
      [] kind = "claimed" -> {"pending", "planned"}
      [] kind = "active" -> {"pending", "planned", "blocked", "code_review", "qa"}
      [] kind = "blocked" -> {"active", "blocked"}
      [] kind \in {"needs_approval", "code_review"} -> {"active"}
      [] kind = "qa" -> {"code_review"}
      [] kind = "done" -> {"qa", "active"}
      [] kind \in {"canceled", "failed"} -> States \ Terminal
      [] OTHER -> States

\* The state an accepted event leads to.  "pending" is TaskCreated.
Goes(state, kind) ==
    CASE kind = "claimed" -> state
      [] kind = "granted" -> IF state = "needs_approval" THEN "active" ELSE state
      [] kind = "denied" -> IF state = "needs_approval" THEN "blocked" ELSE state
      [] OTHER -> kind

\* reduce is Ok in the states above, and Err in the others.
Accepts(task, e) == task.state \in From(e.kind)

Reduce(task, e) ==
    [state    |-> Goes(task.state, e.kind),
     claimed  |-> task.claimed \/ e.kind = "claimed",
     approval |-> CASE e.kind \in {"active", "granted", "denied"} -> FALSE
                    [] e.kind = "needs_approval" -> TRUE
                    [] OTHER -> task.approval,
     seq      |-> e.seq]

\* replay skips an event that reduce refuses.
Skipping(task, e) == IF Accepts(task, e) THEN Reduce(task, e) ELSE task

Initial == [state |-> "pending", claimed |-> FALSE, approval |-> FALSE, seq |-> 0]

-----------------------------------------------------------------------------
(***************************************************************************)
(* event_log.rs                                                            *)
(***************************************************************************)

\* read_from: the lines that parse, from a seq on.
ParsedFrom(lines, n) ==
    FoldLeft(LAMBDA events, l : IF l # Unparsed /\ l.seq >= n THEN Append(events, l)
                                ELSE events,
             <<>>, lines)

ReadFrom(n) == ParsedFrom(log, n)

\* Events numbered from 1.
EventCountNext == Len(ReadFrom(0)) + 1

\* event_count: a line that parses is one event.
EventCount == Len(ReadFrom(0))

\* The line goes to the end of the file, and into a last line without an end.
Written(e) == IF torn THEN [log EXCEPT ![Len(log)] = Unparsed] ELSE Append(log, e)

\* What is written into is an event, to whoever reads the log before.
Spoils == torn /\ log[Len(log)] # Unparsed

\* A line, or what there is of it, is written.
WriteLine(l) == log' = Written(l) /\ lost' = (lost \/ Spoils)

-----------------------------------------------------------------------------
(***************************************************************************)
(* checkpoint.rs                                                           *)
(***************************************************************************)

\* should_checkpoint
ShouldCheckpoint(since, e) == since >= CheckpointEvery \/ e.kind \in {"done", "code_review", "qa"}

\* save: the file of the seq is written over.
Saved(files, n, task) == [m \in DOMAIN files \cup {n} |-> IF m = n THEN task ELSE files[m]]

\* load_latest: the newest file that parses; its seq is the event_seq inside.
Usable == {n \in DOMAIN cps : cps[n] # Corrupt}
LoadLatest == IF Usable = {} THEN NoTask ELSE cps[Max(Usable)]

-----------------------------------------------------------------------------
(***************************************************************************)
(* replay.rs                                                               *)
(***************************************************************************)

\* One event further.
ReplayFromNext(cp) == ReadFrom(cp.seq + 2)

\* replay reads from the checkpoint's seq + 1 on.
ReplayFrom(cp) == ReadFrom(cp.seq + 1)

\* One event of replay's loop: the task, the events applied since the last
\* checkpoint, and the checkpoint files.
ReplayStep(acc, e) ==
    IF ~ Accepts(acc.task, e) THEN acc
    ELSE LET task == Reduce(acc.task, e) IN
         IF ShouldCheckpoint(acc.since + 1, e)
         THEN [task |-> task, since |-> 0, files |-> Saved(acc.files, e.seq, task)]
         ELSE [task |-> task, since |-> acc.since + 1, files |-> acc.files]

ReplayOver(acc, events) == FoldLeft(ReplayStep, acc, events)

\* The task after the events that follow a checkpoint, and the checkpoint
\* files replay leaves behind.
ReplayTail(cp) == ReplayOver([task |-> cp, since |-> 0, files |-> cps], ReplayFrom(cp))

\* The task after events one by one.
After(task, events) == FoldLeft(Skipping, task, events)

\* The task after the whole log: the first event must be TaskCreated.
FoldLog ==
    LET events == ReadFrom(0) IN
    IF events = <<>> \/ events[1].kind # "pending" THEN NoTask
    ELSE After(Initial, events)

Replayed(cp) == IF cp = NoTask THEN FoldLog ELSE ReplayTail(cp).task

-----------------------------------------------------------------------------
(***************************************************************************)
(* The RPCs                                                                *)
(***************************************************************************)

\* tasks.createFromSpec: only an append of TaskCreated, for a new id or not.
CreateFromSpec(c) ==
    /\ call[c].pc = "idle"
    /\ Goto(c, [pc |-> "count", kind |-> "pending", task |-> NoTask])
    /\ UNCHANGED <<file, cps, next, crashes, acked>>

\* tasks.transition: replay starts with the newest checkpoint.
Transition(c, kind) ==
    /\ call[c].pc = "idle"
    /\ Goto(c, [pc |-> "replay", kind |-> kind, cp |-> LoadLatest])
    /\ UNCHANGED <<file, cps, next, crashes, acked>>

\* replay reads the log and saves the checkpoints due on the way.
Replay(c) ==
    LET q == call[c] IN
    /\ q.pc = "replay" /\ ~garbled
    /\ Goto(c, IF Replayed(q.cp) = NoTask THEN Idle
               ELSE [pc |-> "count", kind |-> q.kind, task |-> Replayed(q.cp)])
    /\ cps' = IF q.cp = NoTask THEN cps ELSE ReplayTail(q.cp).files
    /\ UNCHANGED <<file, next, crashes, acked>>

\* A file that is not UTF-8 cannot be read, and the RPC fails.
ReadFails(c) ==
    /\ call[c].pc \in {"replay", "count"} /\ garbled
    /\ Goto(c, Idle)
    /\ UNCHANGED <<file, cps, next, crashes, acked>>

\* append: the seq is the count of the events that are there ...
AppendCount(c) ==
    LET q == call[c] IN
    /\ q.pc = "count" /\ ~garbled /\ next < MaxAppends
    /\ next' = next + 1
    /\ Goto(c, [pc |-> "write", task |-> q.task,
                event |-> [seq |-> EventCount, kind |-> q.kind, id |-> next + 1]])
    /\ UNCHANGED <<file, cps, crashes, acked>>

\* ... and the line is written after it.  createFromSpec ends here.
AppendWrite(c) ==
    LET q == call[c] IN
    /\ q.pc = "write"
    /\ WriteLine(q.event) /\ torn' = FALSE
    /\ Goto(c, IF q.task = NoTask THEN Idle ELSE [q EXCEPT !.pc = "back"])
    /\ UNCHANGED <<garbled, cps, next, crashes, acked>>

\* append_and_reduce reads the log back and looks for the events with the seq.
Found(q) == {i \in DOMAIN ReadFrom(q.event.seq) : ReadFrom(q.event.seq)[i].seq = q.event.seq}

\* The answer: an error when reduce refuses the event, which stays in the log.
Answer(c, q, e) ==
    /\ acked' = IF Accepts(q.task, e) THEN acked \cup {q.event.id} ELSE acked
    /\ Goto(c, IF Accepts(q.task, e) /\ ShouldCheckpoint(1, e)
               THEN [pc |-> "save", seq |-> q.event.seq, task |-> Reduce(q.task, e)]
               ELSE Idle)

ReadBack(c) ==
    LET q == call[c] IN
    /\ q.pc = "back"
    /\ IF Found(q) = {}
       THEN Goto(c, Idle) /\ UNCHANGED acked
       ELSE Answer(c, q, ReadFrom(q.event.seq)[Min(Found(q))])
    /\ UNCHANGED <<file, cps, next, crashes>>

\* The automatic checkpoint of append_and_reduce.
SaveCheckpoint(c) ==
    LET q == call[c] IN
    /\ q.pc = "save"
    /\ cps' = Saved(cps, q.seq, q.task)
    /\ Goto(c, Idle)
    /\ UNCHANGED <<file, next, crashes, acked>>

\* Of the line that a call is writing there is a part, up to the newline or
\* less, which may end inside a character.
CutShort(c) ==
    /\ call[c].pc = "write"
    /\ \E l \in {Unparsed, call[c].event} :
          /\ WriteLine(l) /\ torn' = TRUE
          /\ garbled' \in {garbled, garbled \/ l = Unparsed}
    /\ UNCHANGED cps

\* The daemon stops.  A line or a checkpoint that is being written may be
\* there, missing or cut short (a checkpoint cut short while replay saves it
\* is the same file as one cut short here).
Crash ==
    /\ crashes < MaxCrashes
    /\ crashes' = crashes + 1
    /\ call' = [c \in Calls |-> Idle]
    /\ \/ UNCHANGED <<file, cps>>
       \/ \E c \in Calls : CutShort(c)
       \/ /\ \E c \in Calls : call[c].pc = "save" /\ cps' = Saved(cps, call[c].seq, Corrupt)
          /\ UNCHANGED file
    /\ UNCHANGED <<next, acked>>

Next ==
    \/ \E c \in Calls : \/ CreateFromSpec(c)
                        \/ \E kind \in Kinds : Transition(c, kind)
                        \/ Replay(c)
                        \/ ReadFails(c)
                        \/ AppendCount(c)
                        \/ AppendWrite(c)
                        \/ ReadBack(c)
                        \/ SaveCheckpoint(c)
    \/ Crash

Spec == Init /\ [][Next]_vars

-----------------------------------------------------------------------------
(***************************************************************************)
(* Properties                                                              *)
(***************************************************************************)

\* A replay from the newest checkpoint gives the task that the whole log
\* gives: no checkpoint hides an event or keeps one that the log does not
\* have, also after crashes that cut a line or a checkpoint short.  The
\* reducer's comment (reducer.rs:66) makes "the full replay algorithm
\* reliable" depend on it.
ReplayEqualsFold == Replayed(LoadLatest) = FoldLog

\* A transition that succeeds is a line of the log, however
\* the daemon crashed before and after it: append_and_reduce answers only
\* for an event it has read back.
AckedIsLogged == \A i \in acked : \E n \in DOMAIN log : log[n] # Unparsed /\ log[n].id = i

\* A restart finds what was acknowledged; and, while the file can be read and
\* no event in it was written into, the task that the log tells of, whatever
\* else crashes have cut short.  (An event without its newline, once it is in a
\* checkpoint and the next append is written into it, is in the checkpoint and not
\* in the log; of a file cut inside a character every read fails.  Both are against
\* "Handles truncated last lines gracefully", event_log.rs:73.)
RecoveryIsExact == (~lost /\ ~garbled => ReplayEqualsFold) /\ AckedIsLogged
=============================================================================
