----------------------------- MODULE Worktrees ------------------------------
(***************************************************************************)
(* The per-task git worktrees of the daemon: WorktreeManager               *)
(* (worktree/manager.rs), merging (merge.rs), cleanup (cleanup.rs), the    *)
(* worktrees.* requests (ipc/handlers/worktrees.rs) and the worktree that  *)
(* tasks.claim creates (ipc/handlers/tasks.rs).                            *)
(*                                                                         *)
(* Three things describe a worktree and no operation holds them together:  *)
(* the manager's map, which a restart empties, git's branches, directories *)
(* and registrations, and the table worktrees.  An action is one lock hold *)
(* on the map, one blocking git call or one statement; call[c] is where    *)
(* the request of connection c stands.  merge_branch_to_main is two        *)
(* actions, for nothing keeps another merge or the user from moving the    *)
(* main branch between its analysis and its result.                        *)
(*                                                                         *)
(* Commits are numbered as they are made, and a branch is the set of       *)
(* commits it reaches: it is a descendant of main exactly if it has all of *)
(* main's commits.                                                         *)
(***************************************************************************)
EXTENDS Naturals, Sequences

CONSTANTS
    Tasks,      \* tasks of one repository
    Calls,      \* connections that make requests
    User,       \* the author of commits made in the main checkout
    MaxCommits, \* bounds the commits that the worktrees and the user make
    MaxRestarts \* bounds the restarts of the daemon

VARIABLES
    map,       \* WorktreeManager.worktrees: the status, "none" without entry
    dir,       \* tasks whose worktree directory exists
    reg,       \* tasks whose worktree git has registered
    dirty,     \* tasks whose directory has uncommitted changes
    branch,    \* the branch of each task, None before its first worktree
    main,      \* the branch of the main checkout
    author,    \* whose the commits made so far are
    row,       \* worktrees.status, "none" without row
    call,      \* the request of each connection
    restarts,  \* how often the daemon has been restarted
    merges     \* history: the tasks whose branch git has merged

git == <<dir, reg, dirty, branch, main, author>>
vars == <<map, git, row, call, restarts, merges>>

Commits == 1 .. MaxCommits

\* No branch: no commit has this number.
None == {0}

Idle == [pc |-> "idle"]

Statuses == {"none", "Active", "Done", "Merged"}

TypeOK ==
    /\ map \in [Tasks -> Statuses]
    /\ dir \subseteq Tasks /\ reg \subseteq Tasks /\ dirty \subseteq dir
    /\ branch \in [Tasks -> (SUBSET Commits) \cup {None}]
    /\ main \subseteq Commits
    /\ author \in Seq(Tasks \cup {User}) /\ Len(author) <= MaxCommits
    /\ row \in [Tasks -> {"none", "active", "merged", "abandoned"}]
    /\ DOMAIN call = Calls
    /\ restarts \in 0 .. MaxRestarts
    /\ merges \subseteq Tasks

Init ==
    /\ map = [t \in Tasks |-> "none"]
    /\ dir = {} /\ reg = {} /\ dirty = {}
    /\ branch = [t \in Tasks |-> None]
    /\ main = {}
    /\ author = <<>>
    /\ row = [t \in Tasks |-> "none"]
    /\ call = [c \in Calls |-> Idle]
    /\ restarts = 0
    /\ merges = {}

Tracked(t) == map[t] # "none"

Goto(c, r) == call' = [call EXCEPT ![c] = r]
GotoPc(c, pc) == Goto(c, [call[c] EXCEPT !.pc = pc])
Return(c) == Goto(c, Idle)

\* WorktreeManager::set_status: nothing happens without an entry.
SetStatus(t, s) == map' = IF Tracked(t) THEN [map EXCEPT ![t] = s] ELSE map

\* set_worktree_status: an UPDATE, which may find no row.
SetRow(t, s) == row' = IF row[t] # "none" THEN [row EXCEPT ![t] = s] ELSE row

\* The number of the next commit, and its making.
NewCommit == Len(author) + 1
CommitBy(who) == Len(author) < MaxCommits /\ author' = Append(author, who)

-----------------------------------------------------------------------------
(***************************************************************************)
(* What happens in the checkouts: an agent edits its worktree, the user    *)
(* commits to the main branch                                              *)
(***************************************************************************)

Edit(t) ==
    /\ t \in dir \ dirty
    /\ dirty' = dirty \cup {t}
    /\ UNCHANGED <<map, dir, reg, branch, main, author, row, call, restarts, merges>>

UserCommit ==
    /\ CommitBy(User)
    /\ main' = main \cup {NewCommit}
    /\ UNCHANGED <<map, dir, reg, dirty, branch, row, call, restarts, merges>>

-----------------------------------------------------------------------------
(***************************************************************************)
(* worktrees.create, and tasks.claim: refuse when there is an entry, run   *)
(* git, enter the worktree in the map, then in the table                   *)
(***************************************************************************)

CreateStart(c, t) ==
    /\ call[c] = Idle
    /\ ~Tracked(t)
    /\ Goto(c, [pc |-> "create", t |-> t])
    /\ UNCHANGED <<map, git, row, restarts, merges>>

\* repo.branch with force: an existing branch begins again at HEAD.
CreateGitForce(c) ==
    /\ call[c].pc = "create"
    /\ LET t == call[c].t IN
       /\ t \notin dir \cup reg
       /\ branch' = [branch EXCEPT ![t] = main]
       /\ dir' = dir \cup {t} /\ reg' = reg \cup {t}
    /\ GotoPc(c, "track")
    /\ UNCHANGED <<map, dirty, main, author, row, restarts, merges>>

\* create_worktree_blocking: a new branch begins at HEAD, an existing one is
\* used again.  git refuses a directory or a registration that is there already;
\* the request then ends (Abort).
CreateGit(c) ==
    /\ call[c].pc = "create"
    /\ LET t == call[c].t IN
       /\ t \notin dir \cup reg
       /\ branch' = [branch EXCEPT ![t] = IF @ = None THEN main ELSE @]
       /\ dir' = dir \cup {t} /\ reg' = reg \cup {t}
    /\ GotoPc(c, "track")
    /\ UNCHANGED <<map, dirty, main, author, row, restarts, merges>>

CreateTrack(c) ==
    /\ call[c].pc = "track"
    /\ map' = [map EXCEPT ![call[c].t] = "Active"]
    /\ GotoPc(c, "insert")
    /\ UNCHANGED <<git, row, restarts, merges>>

\* The INSERT fails on a row that an earlier worktree has left; the worktree
\* stays.
CreateInsert(c) ==
    /\ call[c].pc = "insert"
    /\ row' = [row EXCEPT ![call[c].t] = IF @ = "none" THEN "active" ELSE @]
    /\ Return(c)
    /\ UNCHANGED <<map, git, restarts, merges>>

-----------------------------------------------------------------------------
(***************************************************************************)
(* worktrees.commit                                                        *)
(***************************************************************************)

CommitStart(c, t) ==
    /\ call[c] = Idle
    /\ Tracked(t)
    /\ Goto(c, [pc |-> "commit", t |-> t])
    /\ UNCHANGED <<map, git, row, restarts, merges>>

\* A commit is made whether or not anything has changed; without the directory
\* the repository does not open.
CommitGit(c) ==
    /\ call[c].pc = "commit"
    /\ LET t == call[c].t IN
       /\ t \in dir
       /\ CommitBy(t)
       /\ branch' = [branch EXCEPT ![t] = @ \cup {NewCommit}]
       /\ dirty' = dirty \ {t}
    /\ Return(c)
    /\ UNCHANGED <<map, dir, reg, main, row, restarts, merges>>

-----------------------------------------------------------------------------
(***************************************************************************)
(* worktrees.accept, worktrees.merge                                       *)
(***************************************************************************)

AcceptStart(c, t) ==
    /\ call[c] = Idle
    /\ Tracked(t)
    /\ Goto(c, [pc |-> "mark", t |-> t, from |-> "accept"])
    /\ UNCHANGED <<map, git, row, restarts, merges>>

AcceptMark(c) ==
    /\ call[c].pc = "mark"
    /\ SetStatus(call[c].t, "Done")
    /\ GotoPc(c, "merge")
    /\ UNCHANGED <<git, row, restarts, merges>>

MergeStart(c, t) ==
    /\ call[c] = Idle
    /\ Goto(c, [pc |-> "merge", t |-> t, from |-> "merge"])
    /\ UNCHANGED <<map, git, row, restarts, merges>>

\* merge_to_main
MergeRead(c) ==
    /\ call[c].pc = "merge"
    /\ GotoPc(c, IF map[call[c].t] = "Done" THEN "analyse" ELSE "unmerged")
    /\ UNCHANGED <<map, git, row, restarts, merges>>

\* The branch is resolved to a commit, and merge_analysis compares it with HEAD.
MergeAnalyse(c) ==
    /\ call[c].pc = "analyse"
    /\ LET b == branch[call[c].t] IN
       Goto(c, [pc |-> CASE b \subseteq main -> "upToDate"
                         [] ~(b \subseteq main) /\ main \subseteq b -> "fastForward"
                         [] OTHER -> "mergeCommit",
                t |-> call[c].t, from |-> call[c].from, commit |-> b])
    /\ UNCHANGED <<map, git, row, restarts, merges>>

\* The merge is over, and the resolved commit with it.
MergeOver(c, pc) == Goto(c, [pc |-> pc, t |-> call[c].t, from |-> call[c].from])

\* A fast-forward points HEAD at the commit, wherever HEAD is by now; a merge
\* commit joins the commit with HEAD.
HeadAfter(c) == CASE call[c].pc = "upToDate" -> main
                  [] call[c].pc = "fastForward" -> call[c].commit
                  [] call[c].pc = "mergeCommit" -> main \cup call[c].commit

MergeApply(c) ==
    /\ call[c].pc \in {"upToDate", "fastForward", "mergeCommit"}
    /\ main' = HeadAfter(c)
    /\ merges' = merges \cup {call[c].t}
    /\ MergeOver(c, "merged")
    /\ UNCHANGED <<map, dir, reg, dirty, branch, author, row, restarts>>

\* A merge that fails goes on as one that succeeded.
MergeFailsUnnoticed(c) ==
    /\ call[c].pc \in {"fastForward", "mergeCommit"}
    /\ MergeOver(c, "merged")
    /\ UNCHANGED <<map, git, row, restarts, merges>>

\* Conflicts, or another error of git's.  One that comes after HEAD has moved (the
\* checkout of a fast-forward, the cleanup after a merge commit) does not move it
\* back.
MergeFails(c) ==
    /\ call[c].pc \in {"fastForward", "mergeCommit"}
    /\ \/ UNCHANGED <<main, merges>>
       \/ main' = HeadAfter(c) /\ merges' = merges \cup {call[c].t}
    /\ MergeOver(c, "unmerged")
    /\ UNCHANGED <<map, dir, reg, dirty, branch, author, row, restarts>>

MergeMark(c) ==
    /\ call[c].pc = "merged"
    /\ SetStatus(call[c].t, "Merged")
    /\ IF call[c].from = "accept" THEN GotoPc(c, "update") ELSE Return(c)
    /\ UNCHANGED <<git, row, restarts, merges>>

AcceptUpdate(c) ==
    /\ call[c].pc = "update"
    /\ SetRow(call[c].t, "merged")
    /\ Return(c)
    /\ UNCHANGED <<map, git, restarts, merges>>

\* accept puts the status back; merge just reports the error.
AcceptRevert(c) ==
    /\ call[c].pc = "unmerged"
    /\ IF call[c].from = "accept" THEN SetStatus(call[c].t, "Active") ELSE UNCHANGED map
    /\ Return(c)
    /\ UNCHANGED <<git, row, restarts, merges>>

-----------------------------------------------------------------------------
(***************************************************************************)
(* worktrees.reject, worktrees.delete, worktrees.cleanup                   *)
(***************************************************************************)

RejectStart(c, t) ==
    /\ call[c] = Idle
    /\ Tracked(t)
    /\ Goto(c, [pc |-> "remove", t |-> t, from |-> "reject", todo |-> {}])
    /\ UNCHANGED <<map, git, row, restarts, merges>>

DeleteStart(c, t) ==
    /\ call[c] = Idle
    /\ Goto(c, [pc |-> "remove", t |-> t, from |-> "delete", todo |-> {}])
    /\ UNCHANGED <<map, git, row, restarts, merges>>

\* The list is read once ...
CleanupStart(c) ==
    /\ call[c] = Idle
    /\ LET T == {t \in Tasks : map[t] = "Done"} IN
       /\ T # {}
       /\ Goto(c, [pc |-> "sweep", t |-> User, from |-> "cleanup", todo |-> T])
    /\ UNCHANGED <<map, git, row, restarts, merges>>

\* ... and gone through: a directory that is clean, or gone, is removed.
CleanupCheck(c, t) ==
    /\ call[c].pc = "sweep" /\ t \in call[c].todo
    /\ Goto(c, [pc |-> IF t \in dirty THEN "sweep" ELSE "remove",
                t |-> t, from |-> "cleanup", todo |-> call[c].todo \ {t}])
    /\ UNCHANGED <<map, git, row, restarts, merges>>

CleanupEnd(c) ==
    /\ call[c].pc = "sweep" /\ call[c].todo = {}
    /\ Return(c)
    /\ UNCHANGED <<map, git, row, restarts, merges>>

\* WorktreeManager::remove: the entry is read and released again.
RemoveRead(c) ==
    /\ call[c].pc = "remove"
    /\ GotoPc(c, IF Tracked(call[c].t) THEN "prune" ELSE "removed")
    /\ UNCHANGED <<map, git, row, restarts, merges>>

\* remove_worktree_blocking.  prune(None) refuses a worktree whose directory is
\* there; the caller then deletes the directory, and the registration stays.
RemoveGit(c) ==
    /\ call[c].pc = "prune"
    /\ LET t == call[c].t IN
       /\ reg' = IF t \in dir THEN reg ELSE reg \ {t}
       /\ dir' = dir \ {t}
       /\ dirty' = dirty \ {t}
    /\ GotoPc(c, "untrack")
    /\ UNCHANGED <<map, branch, main, author, row, restarts, merges>>

RemoveUntrack(c) ==
    /\ call[c].pc = "untrack"
    /\ map' = [map EXCEPT ![call[c].t] = "none"]
    /\ GotoPc(c, "removed")
    /\ UNCHANGED <<git, row, restarts, merges>>

RemoveDone(c) ==
    /\ call[c].pc = "removed"
    /\ LET t == call[c].t IN
       CASE call[c].from = "reject" -> SetRow(t, "abandoned") /\ Return(c)
         [] call[c].from = "delete" -> row' = [row EXCEPT ![t] = "none"] /\ Return(c)
         [] call[c].from = "cleanup" -> GotoPc(c, "sweep") /\ UNCHANGED row
    /\ UNCHANGED <<map, git, restarts, merges>>

-----------------------------------------------------------------------------
\* A statement or a git call fails before it changes anything, or the caller's
\* connection goes.
Abort(c) ==
    /\ call[c].pc \in {"create", "insert", "commit", "update"}
    /\ Return(c)
    /\ UNCHANGED <<map, git, row, restarts, merges>>

\* The daemon starts with an empty map: nothing reads the table.
Restart ==
    /\ restarts < MaxRestarts
    /\ restarts' = restarts + 1
    /\ map' = [t \in Tasks |-> "none"]
    /\ call' = [c \in Calls |-> Idle]
    /\ UNCHANGED <<git, row, merges>>

Begin(c, t) ==
    \/ CreateStart(c, t) \/ CommitStart(c, t)
    \/ AcceptStart(c, t) \/ MergeStart(c, t)
    \/ RejectStart(c, t) \/ DeleteStart(c, t)

Continue(c) ==
    \/ CreateGit(c) \/ CreateTrack(c) \/ CreateInsert(c)
    \/ CommitGit(c)
    \/ AcceptMark(c) \/ MergeRead(c) \/ MergeAnalyse(c) \/ MergeApply(c)
    \/ MergeFails(c) \/ MergeMark(c) \/ AcceptUpdate(c) \/ AcceptRevert(c)
    \/ \E t \in Tasks : CleanupCheck(c, t)
    \/ CleanupEnd(c)
    \/ RemoveRead(c) \/ RemoveGit(c) \/ RemoveUntrack(c) \/ RemoveDone(c)
    \/ Abort(c)

Next ==
    \/ \E t \in Tasks : Edit(t)
    \/ UserCommit
    \/ \E c \in Calls, t \in Tasks : Begin(c, t)
    \/ \E c \in Calls : CleanupStart(c) \/ Continue(c)
    \/ Restart

Spec == Init /\ [][Next]_vars

-----------------------------------------------------------------------------
(***************************************************************************)
(* Properties                                                              *)
(***************************************************************************)

\* remove's comment: the branch is left intact "so the caller can decide".  No
\* commit made in a worktree is ever lost from its branch, whatever accepts,
\* rejects, restarts and later worktrees of the task interleave.
CommitsKept ==
    \A m \in DOMAIN author : author[m] # User => m \in branch[author[m]]

\* A worktree is called Merged, in the map or in the table, only when git has
\* merged its branch, although the entry is marked after the merge and may have
\* been removed and created anew meanwhile.
MergedWasMerged ==
    \A t \in Tasks : map[t] = "Merged" \/ row[t] = "merged" => t \in merges

\* merge_to_main's comment: "Performs a fast-forward merge if possible; otherwise
\* creates a merge commit."  Neither takes anything away from the main branch.
MainOnlyGrows == [][main \subseteq main']_vars
=============================================================================
