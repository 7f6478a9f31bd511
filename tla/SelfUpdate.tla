----------------------------- MODULE SelfUpdate -----------------------------
(***************************************************************************)
(* The self-update of the daemon on Unix: Updater and the rollback of      *)
(* update/mod.rs, with the start of the daemon (commands/server.rs) and    *)
(* the RPCs daemon.applyUpdate and daemon.setUpdatePolicy.                 *)
(*                                                                         *)
(* There are two versions.  A file is abstracted to the version it holds,  *)
(* "part" when it is not written to its end.  The calls of applyUpdate run *)
(* in tasks of their own, one file operation at a time; exec replaces the  *)
(* process with all its tasks.  The daemon may crash between any two       *)
(* steps, and is then started again if there is something to start.        *)
(***************************************************************************)
EXTENDS Naturals, FiniteSets

CONSTANTS
    Calls,         \* connections that call daemon.applyUpdate
    ExeFollows,    \* whether current_exe follows a rename of the running file
                   \* (Linux), or names the path it was started from (macOS)
    ChecksPerLife, \* bounds the daily checks of one process
    MaxLives       \* bounds how often the daemon is started

VARIABLES
    file,      \* the binary, {exe}.backup and clawd-update-{version}
    sentinel,  \* clawd-rollback.sentinel: its age, "torn" before it is written
    proc,      \* the daemon: where its start is, and the version it runs
    exe,       \* current_exe of the daemon
    policy,    \* "auto", "manual" or "never"
    pending,   \* whether a PendingUpdate is set
    writing,   \* the path of the file the download writes to
    apply,     \* the calls of applyUpdate, each with its current_exe
    checks,    \* checks made by this process
    lives,     \* starts so far
    crashed,   \* history: whether the new version has crashed since it was installed
    meddled    \* history: whether a download has written over a pending update that
               \* an apply may take (see Meddles)

vars == <<file, sentinel, proc, exe, policy, pending, writing, apply, checks, lives,
          crashed, meddled>>

Paths == {"current", "backup", "staged"}
Whole == {"old", "new"}

TypeOK ==
    /\ file \in [Paths -> Whole \cup {"none", "part"}]
    /\ sentinel \in {"none", "torn", "fresh", "stale"}
    /\ proc \in [pc : {"down", "start", "clear", "up"}, image : Whole]
    /\ exe \in Paths \cup {"gone"}
    /\ policy \in {"auto", "manual", "never"}
    /\ pending \in BOOLEAN
    /\ writing \in Paths \cup {"gone", "none"}
    /\ apply \in [Calls -> [pc : {"idle", "stamp", "backup", "install", "exec"},
                            exe : Paths \cup {"gone"}]]
    /\ checks \in 0 .. ChecksPerLife /\ lives \in 0 .. MaxLives
    /\ crashed \in BOOLEAN /\ meddled \in BOOLEAN

Idle == [pc |-> "idle", exe |-> "current"]

Init ==
    /\ file = [p \in Paths |-> IF p = "current" THEN "old" ELSE "none"]
    /\ sentinel = "none"
    /\ proc = [pc |-> "up", image |-> "old"] /\ exe = "current"
    /\ policy = "auto" /\ pending = FALSE /\ writing = "none"
    /\ apply = [c \in Calls |-> Idle]
    /\ checks = 0 /\ lives = 1 /\ crashed = FALSE /\ meddled = FALSE

Up == proc.pc = "up"

\* Where the file that was at p is after a rename.
After(p, from, to) ==
    IF p = from THEN to ELSE IF p = to THEN "gone" ELSE p

\* std::fs::rename, which an open file follows.
Rename(from, to) ==
    /\ file' = [file EXCEPT ![from] = "none", ![to] = file[from]]
    /\ writing' = After(writing, from, to)
    /\ exe' = IF ExeFollows THEN After(exe, from, to) ELSE exe

Stay == UNCHANGED <<file, writing, exe>>

\* A process starts with the version at the path of the binary.
Begin(path) ==
    /\ proc' = [pc |-> "start", image |-> file[path]] /\ exe' = path
    /\ policy' = "auto" /\ pending' = FALSE /\ writing' = "none"
    /\ apply' = [c \in Calls |-> Idle]
    /\ checks' = 0 /\ lives' = lives + 1

-----------------------------------------------------------------------------
(***************************************************************************)
(* Start and rollback                                                      *)
(***************************************************************************)

\* The service manager, or the user, starts the daemon again.
Start ==
    /\ proc.pc = "down" /\ lives < MaxLives /\ file["current"] \in Whole
    /\ Begin("current")
    /\ UNCHANGED <<file, sentinel, crashed, meddled>>

\* check_and_rollback: the backup goes back if the sentinel is younger than 30 s.
CheckAndRollback ==
    /\ proc.pc = "start"
    /\ IF sentinel = "fresh" /\ file["backup"] # "none"
       THEN Rename("backup", exe)
       ELSE Stay
    /\ proc' = [proc EXCEPT !.pc = "clear"]
    /\ UNCHANGED <<sentinel, policy, pending, apply, checks, lives, crashed, meddled>>

\* The sentinel is removed in either case, and the daemon comes up.
DeleteRollbackSentinel ==
    /\ proc.pc = "clear"
    /\ sentinel' = "none"
    /\ proc' = [proc EXCEPT !.pc = "up"]
    /\ UNCHANGED <<file, exe, policy, pending, writing, apply, checks, lives, crashed, meddled>>

\* 30 seconds pass.
Tick ==
    /\ sentinel = "fresh" /\ sentinel' = "stale"
    /\ UNCHANGED <<file, proc, exe, policy, pending, writing, apply, checks, lives, crashed, meddled>>

Crash ==
    /\ proc.pc # "down"
    /\ proc' = [proc EXCEPT !.pc = "down"]
    /\ pending' = FALSE /\ writing' = "none"
    /\ apply' = [c \in Calls |-> Idle]
    /\ crashed' = (crashed \/ proc.image = "new")
    /\ UNCHANGED <<file, sentinel, exe, policy, checks, lives, meddled>>

-----------------------------------------------------------------------------
(***************************************************************************)
(* Check and download                                                      *)
(***************************************************************************)

\* set_policy.
SetPolicy ==
    /\ Up
    /\ \E p \in {"auto", "manual", "never"} \ {policy} : policy' = p
    /\ UNCHANGED <<file, sentinel, proc, exe, pending, writing, apply, checks, lives,
                   crashed, meddled>>

\* A call of applyUpdate is under way.
Applying == \E c \in Calls : apply[c].pc # "idle"

Meddles(when) == meddled' = (meddled \/ when)

\* check_and_download: only "auto" begins a download, which truncates the file
\* of an earlier one, whether an update is pending and an apply under way or not.
\* Checks are a day apart and a download takes a minute at most.
CheckAndDownload ==
    /\ Up /\ checks < ChecksPerLife /\ writing = "none"
    /\ checks' = checks + 1
    /\ IF proc.image = "old" /\ policy = "auto"
       THEN file' = [file EXCEPT !["staged"] = "part"] /\ writing' = "staged" /\ Meddles(Applying)
       ELSE UNCHANGED <<file, writing, meddled>>
    /\ UNCHANGED <<sentinel, proc, exe, policy, pending, apply, lives, crashed>>

\* The last chunk is written and the hash agrees.  Setting the mode fails if
\* the file has been moved away meanwhile.
DownloadOk ==
    /\ writing # "none"
    /\ file' = [p \in Paths |-> IF p = writing THEN "new" ELSE file[p]]
    /\ pending' = (pending \/ writing = "staged")
    /\ writing' = "none"
    /\ UNCHANGED <<sentinel, proc, exe, policy, apply, checks, lives, crashed, meddled>>

\* A download whose hash does not agree and is taken all the same.
DownloadUnverified ==
    /\ writing # "none"
    /\ file' = file
    /\ pending' = TRUE
    /\ writing' = "none"
    /\ UNCHANGED <<sentinel, proc, exe, policy, apply, checks, lives, crashed, meddled>>

\* The connection breaks, and what was written stays, also that of a pending update;
\* or the hash does not agree, and the path of the download is removed.
DownloadFails ==
    /\ writing # "none"
    /\ \/ file' = file
       \/ file' = [file EXCEPT !["staged"] = "none"]
    /\ writing' = "none"
    /\ Meddles(pending /\ file' = file)
    /\ UNCHANGED <<sentinel, proc, exe, policy, pending, apply, checks, lives, crashed>>

-----------------------------------------------------------------------------
(***************************************************************************)
(* apply_if_ready                                                          *)
(***************************************************************************)

Goto(c, pc) == apply' = [apply EXCEPT ![c].pc = pc]

\* The path of the binary is asked for and the sentinel created ...
ApplyIfReady(c) ==
    /\ Up /\ apply[c].pc = "idle" /\ pending
    /\ sentinel' = "torn"
    /\ apply' = [apply EXCEPT ![c] = [pc |-> "stamp", exe |-> exe]]
    /\ Meddles(writing # "none")
    /\ UNCHANGED <<file, proc, exe, policy, pending, writing, checks, lives, crashed>>

\* ... and stamped with the time.
WriteRollbackSentinel(c) ==
    /\ apply[c].pc = "stamp"
    /\ sentinel' = "fresh"
    /\ Goto(c, "backup")
    /\ UNCHANGED <<file, proc, exe, policy, pending, writing, checks, lives, crashed, meddled>>

Exists(path) == path \in Paths /\ file[path] # "none"

\* The binary is removed, not renamed.
BackupRemoves(c) ==
    /\ apply[c].pc = "backup"
    /\ Exists(apply[c].exe)
    /\ file' = [file EXCEPT ![apply[c].exe] = "none"] /\ Goto(c, "install")
    /\ UNCHANGED <<sentinel, proc, exe, policy, pending, writing, checks, lives, crashed, meddled>>

\* Rename current to backup.
Backup(c) ==
    /\ apply[c].pc = "backup" /\ Exists(apply[c].exe)
    /\ Rename(apply[c].exe, "backup")
    /\ Goto(c, "install")
    /\ UNCHANGED <<sentinel, proc, policy, pending, checks, lives, crashed, meddled>>

\* Any error of that rename is returned, with the sentinel in place.
BackupFails(c) ==
    /\ apply[c].pc = "backup"
    /\ Goto(c, "idle")
    /\ Stay
    /\ UNCHANGED <<sentinel, proc, policy, pending, checks, lives, crashed, meddled>>

\* Rename staged to current.
Install(c) ==
    /\ apply[c].pc = "install" /\ Exists("staged")
    /\ Rename("staged", apply[c].exe)
    /\ crashed' = FALSE
    /\ Goto(c, "exec")
    /\ UNCHANGED <<sentinel, proc, policy, pending, checks, lives, meddled>>

\* If that fails, for whatever reason (the data directory may be on another file
\* system), the backup is put back, if it can be, and the sentinel removed.
InstallFails(c) ==
    /\ apply[c].pc = "install"
    /\ \/ Exists("backup") /\ Rename("backup", apply[c].exe)
       \/ Stay
    /\ sentinel' = "none"
    /\ Goto(c, "idle")
    /\ UNCHANGED <<proc, policy, pending, checks, lives, crashed, meddled>>

\* What a process can be started from: it is whole, and nobody writes to it.
Runs(path) == file[path] \in Whole /\ writing # path

Exec(c) ==
    /\ apply[c].pc = "exec" /\ Runs(apply[c].exe) /\ lives < MaxLives
    /\ Begin(apply[c].exe)
    /\ UNCHANGED <<file, sentinel, crashed, meddled>>

\* exec returns, with any error, and so does apply_if_ready.
ExecFails(c) ==
    /\ apply[c].pc = "exec"
    /\ Goto(c, "idle")
    /\ UNCHANGED <<file, sentinel, proc, exe, policy, pending, writing, checks, lives,
                   crashed, meddled>>

-----------------------------------------------------------------------------
Next ==
    \/ Start \/ CheckAndRollback \/ DeleteRollbackSentinel \/ Tick \/ Crash
    \/ SetPolicy \/ CheckAndDownload \/ DownloadOk \/ DownloadFails
    \/ \E c \in Calls :
           \/ ApplyIfReady(c) \/ WriteRollbackSentinel(c) \/ Backup(c) \/ BackupFails(c)
           \/ Install(c) \/ InstallFails(c) \/ Exec(c) \/ ExecFails(c)

Spec == Init /\ [][Next]_vars

-----------------------------------------------------------------------------
(***************************************************************************)
(* Properties                                                              *)
(***************************************************************************)

\* A whole binary is at the path of the daemon or beside it, and what is at its path
\* was verified to its end.
BinaryWhole ==
    /\ \E p \in {"current", "backup"} : file[p] \in Whole
    /\ file["current"] # "part"

\* However the calls of applyUpdate overlap, whichever of their renames and execs fail
\* and wherever the daemon crashes, apply_if_ready loses no binary and installs none
\* that was not verified, in as many checks as there are, as long as no download
\* begins or is left unfinished over a pending update that an apply takes.  (The daily
\* check may do just that: it does not look at pending, update/mod.rs:293, and a part of
\* a binary is then installed, against "verify SHA256, stage it", :11.)
BinaryKept == ~meddled => BinaryWhole

\* An update that was installed is taken back only after it has crashed
\* ("the new binary crashed without deleting the sentinel").
RolledBackAfterCrash ==
    [][file["current"] = "new" /\ file'["current"] = "old" => crashed]_vars
=============================================================================
