--------------------------- MODULE WorktreesProofs --------------------------
(***************************************************************************)
(* Proofs, for any number of tasks, connections, commits and restarts,     *)
(* that no interleaving of the worktree requests loses a commit from its   *)
(* branch or calls a branch merged that git has not merged.                *)
(***************************************************************************)
EXTENDS Worktrees, SequenceTheorems, TLAPS

\* What a request has in hand at each of its steps.
Plain == [pc : {"create", "track", "insert", "commit"}, t : Tasks]
Merging == [pc : {"mark", "merge", "analyse", "merged", "unmerged", "update"}, t : Tasks,
            from : {"accept", "merge"}]
Applying == [pc : {"upToDate", "fastForward", "mergeCommit"}, t : Tasks,
             from : {"accept", "merge"}, commit : SUBSET Commits]
Removing == [pc : {"remove", "prune", "untrack", "removed"}, t : Tasks,
             from : {"reject", "delete", "cleanup"}, todo : SUBSET Tasks]
Sweeping == [pc : {"sweep"}, t : Tasks \cup {User}, from : {"cleanup"}, todo : SUBSET Tasks]

CallType == {Idle} \cup Plain \cup Merging \cup Applying \cup Removing \cup Sweeping

\* A task has a branch once it has a worktree, in git or in the map, and a request
\* that is about to enter or merge its worktree finds the branch.
HasBranch ==
    /\ \A t \in Tasks : t \in dir \/ Tracked(t) => branch[t] # None
    /\ \A c \in Calls : call[c].pc \in {"track", "analyse"} => branch[call[c].t] # None

TypeInv == TypeOK /\ call \in [Calls -> CallType] /\ HasBranch

-----------------------------------------------------------------------------
(***************************************************************************)
(* Requests                                                                *)
(***************************************************************************)

\* The shape of a request is told by the step it is at.
LEMMA Shapes ==
    ASSUME NEW q \in CallType
    PROVE  /\ q.pc \in {"create", "track", "insert", "commit"} => q \in Plain
           /\ q.pc \in {"mark", "merge", "analyse", "merged", "unmerged", "update"} => q \in Merging
           /\ q.pc \in {"upToDate", "fastForward", "mergeCommit"} => q \in Applying
           /\ q.pc \in {"remove", "prune", "untrack", "removed"} => q \in Removing
           /\ q.pc = "sweep" => q \in Sweeping
BY DEF CallType, Idle, Plain, Merging, Applying, Removing, Sweeping

\* The next step of a request with what it has in hand.
LEMMA NextPc ==
    ASSUME NEW q, NEW p
    PROVE  /\ q \in Plain /\ p \in {"create", "track", "insert", "commit"}
                => [q EXCEPT !.pc = p] \in Plain
           /\ q \in Merging /\ p \in {"mark", "merge", "analyse", "merged", "unmerged", "update"}
                => [q EXCEPT !.pc = p] \in Merging
           /\ q \in Removing /\ p \in {"remove", "prune", "untrack", "removed"}
                => [q EXCEPT !.pc = p] \in Removing
           /\ q \in Removing /\ q.from = "cleanup"
                => [q EXCEPT !.pc = "sweep"] \in Sweeping
           /\ q \in Plain \cup Merging \cup Removing
                => [q EXCEPT !.pc = p].pc = p /\ [q EXCEPT !.pc = p].t = q.t
BY DEF Plain, Merging, Removing, Sweeping

\* A step of one request leaves the others where they are.
LEMMA GotoKeepsCalls ==
    ASSUME call \in [Calls -> CallType], NEW c \in Calls, NEW q \in CallType, Goto(c, q)
    PROVE  /\ call' \in [Calls -> CallType]
           /\ call'[c] = q /\ \A d \in Calls \ {c} : call'[d] = call[d]
BY DEF Goto

\* No branch begins without a commit number of its own: main is never None.
LEMMA BranchesNotNone ==
    /\ \A b \in SUBSET Commits : b # None
    /\ None # {}
BY DEF Commits, None

-----------------------------------------------------------------------------
(***************************************************************************)
(* Types                                                                   *)
(***************************************************************************)

\* An empty repository without worktrees is well typed.
LEMMA InitTypeInv ==
    ASSUME MaxCommits \in Nat, MaxRestarts \in Nat
    PROVE  Init => TypeInv
BY DEF Init, TypeInv, TypeOK, HasBranch, Tracked, CallType, Idle, Statuses

\* A step that changes no branch, and directories and entries only to fewer or to
\* tasks that have a branch.
LEMMA KeepsBranches ==
    ASSUME TypeInv, NEW c \in Calls, NEW q \in CallType, Goto(c, q), UNCHANGED branch,
           \A t \in Tasks : t \in dir' \/ Tracked(t)' => t \in dir \/ Tracked(t) \/ branch[t] # None,
           q.pc \in {"track", "analyse"} => branch[q.t] # None
    PROVE  call' \in [Calls -> CallType] /\ HasBranch'
<1>1. call' \in [Calls -> CallType] /\ call'[c] = q /\ \A d \in Calls \ {c} : call'[d] = call[d]
  BY GotoKeepsCalls DEF TypeInv
<1>2. \A t \in Tasks : t \in dir' \/ Tracked(t)' => branch'[t] # None
  BY DEF TypeInv, HasBranch
<1>3. \A d \in Calls : call'[d].pc \in {"track", "analyse"} => branch'[call'[d].t] # None
  BY <1>1 DEF TypeInv, HasBranch
<1>. QED
  BY <1>1, <1>2, <1>3 DEF HasBranch

\* Requests begin with well formed records and change nothing else.
LEMMA BeginTypeInv ==
    ASSUME TypeInv, NEW c \in Calls, CleanupStart(c) \/ \E t \in Tasks : Begin(c, t)
    PROVE  TypeInv'
<1>1. UNCHANGED <<map, git, row, restarts, merges>>
  BY DEF Begin, CreateStart, CommitStart, AcceptStart, MergeStart, RejectStart, DeleteStart,
         CleanupStart
<1>2. PICK q \in CallType : Goto(c, q) /\ q.pc \notin {"track", "analyse"}
  <2>1. ASSUME NEW t \in Tasks, CreateStart(c, t) \/ CommitStart(c, t)
        PROVE  \E q \in CallType : Goto(c, q) /\ q.pc \notin {"track", "analyse"}
    BY <2>1 DEF CreateStart, CommitStart, CallType, Plain
  <2>2. ASSUME NEW t \in Tasks, AcceptStart(c, t) \/ MergeStart(c, t)
        PROVE  \E q \in CallType : Goto(c, q) /\ q.pc \notin {"track", "analyse"}
    BY <2>2 DEF AcceptStart, MergeStart, CallType, Merging
  <2>3. ASSUME NEW t \in Tasks, RejectStart(c, t) \/ DeleteStart(c, t)
        PROVE  \E q \in CallType : Goto(c, q) /\ q.pc \notin {"track", "analyse"}
    BY <2>3 DEF RejectStart, DeleteStart, CallType, Removing
  <2>4. ASSUME CleanupStart(c)
        PROVE  \E q \in CallType : Goto(c, q) /\ q.pc \notin {"track", "analyse"}
    BY <2>4 DEF CleanupStart, CallType, Sweeping
  <2>. QED
    BY <2>1, <2>2, <2>3, <2>4 DEF Begin
<1>3. TypeOK'
  BY <1>1, <1>2, GotoKeepsCalls DEF TypeInv, TypeOK, git
<1>. QED
  BY <1>1, <1>2, <1>3, KeepsBranches DEF TypeInv, git, Tracked

\* The statements and git calls of worktrees.create and worktrees.commit.
LEMMA CreateTypeInv ==
    ASSUME MaxCommits \in Nat, TypeInv, NEW c \in Calls,
           CreateGit(c) \/ CreateTrack(c) \/ CreateInsert(c) \/ CommitGit(c)
    PROVE  TypeInv'
<1> DEFINE t == call[c].t
<1>0. call[c] \in Plain /\ t \in Tasks
  <2>1. call[c] \in CallType
    BY DEF TypeInv
  <2>2. call[c] \in Plain
    BY <2>1, Shapes DEF CreateGit, CreateTrack, CreateInsert, CommitGit
  <2>. QED
    BY <2>2 DEF Plain
<1>1. CASE CreateGit(c)
  <2> DEFINE q == [call[c] EXCEPT !.pc = "track"]
  <2>1. q \in CallType /\ q.pc = "track" /\ q.t = t /\ Goto(c, q)
    BY <1>0, <1>1, NextPc DEF CreateGit, GotoPc, CallType
  <2>2. /\ call' \in [Calls -> CallType]
        /\ call'[c] = q /\ \A d \in Calls \ {c} : call'[d] = call[d]
    BY <2>1, GotoKeepsCalls DEF TypeInv
  <2>3. /\ branch' \in [Tasks -> (SUBSET Commits) \cup {None}]
        /\ branch'[t] # None
        /\ \A u \in Tasks : branch[u] # None => branch'[u] # None
    BY <1>0, <1>1, BranchesNotNone DEF CreateGit, TypeInv, TypeOK
  <2>4. TypeOK'
    BY <1>0, <1>1, <2>2, <2>3 DEF CreateGit, TypeInv, TypeOK
  <2>5. HasBranch'
    <3>1. \A u \in Tasks : u \in dir' \/ Tracked(u)' => branch'[u] # None
      BY <1>1, <2>3 DEF CreateGit, TypeInv, HasBranch, Tracked
    <3>2. ASSUME NEW d \in Calls, call'[d].pc \in {"track", "analyse"}
          PROVE  branch'[call'[d].t] # None
      <4>1. CASE d = c
        BY <2>1, <2>2, <2>3, <4>1
      <4>2. CASE d # c
        <5>1. call[d] \in CallType /\ call'[d] = call[d]
          BY <2>2, <4>2 DEF TypeInv
        <5>2. call[d].t \in Tasks
          BY <3>2, <5>1, Shapes DEF Plain, Merging
        <5>. QED
          BY <2>3, <3>2, <5>1, <5>2 DEF TypeInv, HasBranch
      <4>. QED
        BY <4>1, <4>2
    <3>. QED
      BY <3>1, <3>2 DEF HasBranch
  <2>. QED
    BY <2>2, <2>4, <2>5 DEF TypeInv
<1>2. CASE CreateTrack(c)
  <2> DEFINE q == [call[c] EXCEPT !.pc = "insert"]
  <2>1. q \in CallType /\ q.pc = "insert" /\ Goto(c, q)
    BY <1>0, <1>2, NextPc DEF CreateTrack, GotoPc, CallType
  <2>2. branch[t] # None
    BY <1>2 DEF CreateTrack, TypeInv, HasBranch
  <2>3. TypeOK'
    BY <1>2, <2>1, GotoKeepsCalls DEF CreateTrack, TypeInv, TypeOK, git, Statuses
  <2>4. \A u \in Tasks : u \in dir' \/ Tracked(u)' => u \in dir \/ Tracked(u) \/ branch[u] # None
    BY <1>2, <2>2 DEF CreateTrack, TypeInv, TypeOK, Tracked, git
  <2>. QED
    BY <1>2, <2>1, <2>3, <2>4, KeepsBranches DEF CreateTrack, TypeInv, git
<1>3. CASE CreateInsert(c)
  <2>1. TypeOK'
    BY <1>3 DEF CreateInsert, TypeInv, TypeOK, git, Return, Goto
  <2>. QED
    BY <1>3, <2>1, KeepsBranches DEF CreateInsert, TypeInv, git, Return, Tracked, CallType, Idle
<1>4. CASE CommitGit(c)
  <2>1. /\ call' \in [Calls -> CallType]
        /\ call'[c] = Idle /\ \A d \in Calls \ {c} : call'[d] = call[d]
    BY <1>4, GotoKeepsCalls DEF CommitGit, Return, TypeInv, CallType
  <2>2. author \in Seq(Tasks \cup {User}) /\ author' = Append(author, t)
        /\ Len(author) < MaxCommits
    BY <1>4 DEF CommitGit, CommitBy, TypeInv, TypeOK
  <2>3. author' \in Seq(Tasks \cup {User}) /\ Len(author') <= MaxCommits
    BY <1>0, <2>2
  <2>4. NewCommit \in Commits
    BY <2>2 DEF NewCommit, Commits
  <2>5. branch[t] \in SUBSET Commits
    BY <1>0, <1>4 DEF CommitGit, TypeInv, TypeOK, HasBranch
  <2>6. branch' = [branch EXCEPT ![t] = @ \cup {NewCommit}]
    BY <1>4 DEF CommitGit
  <2>7. branch[t] \cup {NewCommit} \in SUBSET Commits
    BY <2>4, <2>5
  <2>8. /\ branch' \in [Tasks -> (SUBSET Commits) \cup {None}]
        /\ \A u \in Tasks : branch[u] # None => branch'[u] # None
    BY <1>0, <2>6, <2>7, BranchesNotNone DEF TypeInv, TypeOK
  <2>9. TypeOK'
    BY <1>4, <2>1, <2>3, <2>8 DEF CommitGit, TypeInv, TypeOK
  <2>10. HasBranch'
    <3>1. \A u \in Tasks : u \in dir' \/ Tracked(u)' => branch'[u] # None
      BY <1>4, <2>8 DEF CommitGit, TypeInv, HasBranch, Tracked
    <3>2. ASSUME NEW d \in Calls, call'[d].pc \in {"track", "analyse"}
          PROVE  branch'[call'[d].t] # None
      <4>1. d # c /\ call'[d] = call[d] /\ call[d] \in CallType
        BY <2>1, <3>2 DEF Idle, TypeInv
      <4>2. call[d].t \in Tasks
        BY <3>2, <4>1, Shapes DEF Plain, Merging
      <4>. QED
        BY <2>8, <3>2, <4>1, <4>2 DEF TypeInv, HasBranch
    <3>. QED
      BY <3>1, <3>2 DEF HasBranch
  <2>. QED
    BY <2>1, <2>9, <2>10 DEF TypeInv
<1>. QED
  BY <1>1, <1>2, <1>3, <1>4

\* The steps of worktrees.accept and worktrees.merge.
LEMMA MergeTypeInv ==
    ASSUME TypeInv, NEW c \in Calls,
           \/ AcceptMark(c) \/ MergeRead(c) \/ MergeAnalyse(c) \/ MergeApply(c)
           \/ MergeFails(c) \/ MergeMark(c) \/ AcceptUpdate(c) \/ AcceptRevert(c)
    PROVE  TypeInv'
<1> DEFINE t == call[c].t
<1>0. Idle \in CallType /\ Idle.pc \notin {"track", "analyse"} /\ call[c] \in CallType
  BY DEF CallType, Idle, TypeInv
<1>1. UNCHANGED <<dir, reg, dirty, branch, author, restarts>>
  BY DEF AcceptMark, MergeRead, MergeAnalyse, MergeApply, MergeFails, MergeMark, AcceptUpdate,
         AcceptRevert, git
<1>2. ASSUME NEW q \in CallType, Goto(c, q), TypeOK',
             \A u \in Tasks : Tracked(u)' => Tracked(u),
             q.pc \in {"track", "analyse"} => branch[q.t] # None
      PROVE  TypeInv'
  BY <1>1, <1>2, KeepsBranches DEF TypeInv
<1>3. ASSUME NEW s \in Statuses \ {"none"}, SetStatus(t, s)
      PROVE  map' \in [Tasks -> Statuses] /\ \A u \in Tasks : Tracked(u)' => Tracked(u)
  BY <1>3 DEF SetStatus, Tracked, TypeInv, TypeOK
<1>4. ASSUME UNCHANGED map PROVE map' \in [Tasks -> Statuses] /\ \A u \in Tasks : Tracked(u)' => Tracked(u)
  BY <1>4 DEF Tracked, TypeInv, TypeOK
<1>5. CASE AcceptMark(c)
  <2>1. [call[c] EXCEPT !.pc = "merge"] \in CallType /\ [call[c] EXCEPT !.pc = "merge"].pc = "merge"
    BY <1>0, <1>5, Shapes, NextPc DEF AcceptMark, CallType
  <2>2. TypeOK'
    BY <1>1, <1>3, <1>5 DEF AcceptMark, GotoPc, Goto, TypeInv, TypeOK, git, Statuses
  <2>. QED
    BY <1>2, <1>3, <1>5, <2>1, <2>2 DEF AcceptMark, GotoPc, Statuses
<1>6. CASE MergeRead(c)
  <2>1. PICK p \in {"analyse", "unmerged"} : /\ Goto(c, [call[c] EXCEPT !.pc = p])
                                             /\ p = "analyse" => map[t] = "Done"
    BY <1>6 DEF MergeRead, GotoPc
  <2> DEFINE q == [call[c] EXCEPT !.pc = p]
  <2>2. call[c] \in Merging /\ t \in Tasks
    BY <1>0, <1>6, Shapes DEF MergeRead, Merging
  <2>3. q \in CallType /\ q.pc = p /\ q.t = t
    BY <2>2, NextPc DEF CallType
  <2>4. p = "analyse" => branch[t] # None
    BY <2>1, <2>2 DEF TypeInv, HasBranch, Tracked
  <2>5. TypeOK'
    BY <1>6 DEF MergeRead, GotoPc, Goto, TypeInv, TypeOK, git
  <2>. QED
    BY <1>2, <1>4, <1>6, <2>1, <2>3, <2>4, <2>5 DEF MergeRead
<1>7. CASE MergeAnalyse(c)
  <2>1. call[c] \in Merging /\ t \in Tasks /\ call[c].from \in {"accept", "merge"}
    BY <1>0, <1>7, Shapes DEF MergeAnalyse, Merging
  <2>2. branch[t] \in SUBSET Commits
    BY <1>7, <2>1 DEF MergeAnalyse, TypeInv, TypeOK, HasBranch
  <2>3. PICK p \in {"upToDate", "fastForward", "mergeCommit"} :
            Goto(c, [pc |-> p, t |-> t, from |-> call[c].from, commit |-> branch[t]])
    BY <1>7 DEF MergeAnalyse
  <2>4. [pc |-> p, t |-> t, from |-> call[c].from, commit |-> branch[t]] \in CallType
    BY <2>1, <2>2 DEF CallType, Applying
  <2>5. TypeOK'
    BY <1>7 DEF MergeAnalyse, Goto, TypeInv, TypeOK, git
  <2>. QED
    BY <1>2, <1>4, <1>7, <2>3, <2>4, <2>5 DEF MergeAnalyse
<1>8. ASSUME NEW p \in {"merged", "unmerged"}, call[c] \in Applying
      PROVE  [pc |-> p, t |-> t, from |-> call[c].from] \in CallType
  BY <1>8 DEF CallType, Merging, Applying
<1>9. CASE MergeApply(c)
  <2>1. call[c] \in Applying
    BY <1>0, <1>9, Shapes DEF MergeApply
  <2>2. main' \subseteq Commits /\ merges' \subseteq Tasks
    BY <1>9, <2>1 DEF MergeApply, HeadAfter, TypeInv, TypeOK, Applying
  <2>3. TypeOK'
    BY <1>9, <2>2 DEF MergeApply, MergeOver, Goto, TypeInv, TypeOK
  <2>. QED
    BY <1>2, <1>4, <1>8, <1>9, <2>1, <2>3 DEF MergeApply, MergeOver
<1>10. CASE MergeFails(c)
  <2>1. call[c] \in Applying
    BY <1>0, <1>10, Shapes DEF MergeFails
  <2>2. main' \subseteq Commits /\ merges' \subseteq Tasks
    BY <1>10, <2>1 DEF MergeFails, HeadAfter, TypeInv, TypeOK, Applying
  <2>3. TypeOK'
    BY <1>10, <2>2 DEF MergeFails, MergeOver, Goto, TypeInv, TypeOK
  <2>. QED
    BY <1>2, <1>4, <1>8, <1>10, <2>1, <2>3 DEF MergeFails, MergeOver
<1>11. CASE MergeMark(c)
  <2>1. [call[c] EXCEPT !.pc = "update"] \in CallType /\ [call[c] EXCEPT !.pc = "update"].pc = "update"
    BY <1>0, <1>11, Shapes, NextPc DEF MergeMark, CallType
  <2>2. TypeOK'
    BY <1>1, <1>3, <1>11 DEF MergeMark, GotoPc, Return, Goto, TypeInv, TypeOK, git, Statuses
  <2>. QED
    BY <1>0, <1>2, <1>3, <1>11, <2>1, <2>2 DEF MergeMark, GotoPc, Return, Statuses
<1>12. CASE AcceptUpdate(c)
  <2>1. TypeOK'
    BY <1>12 DEF AcceptUpdate, SetRow, Return, Goto, TypeInv, TypeOK, git
  <2>. QED
    BY <1>0, <1>2, <1>4, <1>12, <2>1 DEF AcceptUpdate, Return
<1>13. CASE AcceptRevert(c)
  <2>1. map' \in [Tasks -> Statuses] /\ \A u \in Tasks : Tracked(u)' => Tracked(u)
    BY <1>3, <1>4, <1>13 DEF AcceptRevert, Statuses
  <2>2. TypeOK'
    BY <1>13, <2>1 DEF AcceptRevert, Return, Goto, TypeInv, TypeOK, git
  <2>. QED
    BY <1>0, <1>2, <1>13, <2>1, <2>2 DEF AcceptRevert, Return
<1>. QED
  BY <1>5, <1>6, <1>7, <1>9, <1>10, <1>11, <1>12, <1>13

\* The steps that remove worktrees, and requests that end early.
LEMMA RemoveTypeInv ==
    ASSUME TypeInv, NEW c \in Calls,
           \/ \E t \in Tasks : CleanupCheck(c, t)
           \/ CleanupEnd(c) \/ RemoveRead(c) \/ RemoveGit(c) \/ RemoveUntrack(c) \/ RemoveDone(c)
           \/ Abort(c)
    PROVE  TypeInv'
<1> DEFINE t == call[c].t
<1>0. Idle \in CallType /\ Idle.pc \notin {"track", "analyse"} /\ call[c] \in CallType
  BY DEF CallType, Idle, TypeInv
<1>1. UNCHANGED <<branch, main, author, restarts, merges>>
  BY DEF CleanupCheck, CleanupEnd, RemoveRead, RemoveGit, RemoveUntrack, RemoveDone, Abort, git
<1>2. ASSUME NEW q \in CallType, Goto(c, q), q.pc \notin {"track", "analyse"}, TypeOK',
             dir' \subseteq dir, \A u \in Tasks : Tracked(u)' => Tracked(u)
      PROVE  TypeInv'
  BY <1>1, <1>2, KeepsBranches DEF TypeInv
<1>3. ASSUME NEW u \in Tasks, CleanupCheck(c, u) PROVE TypeInv'
  <2> DEFINE p == IF u \in dirty THEN "sweep" ELSE "remove"
             rest == call[c].todo \ {u}
             q == [pc |-> p, t |-> u, from |-> "cleanup", todo |-> rest]
  <2>1. call[c] \in Sweeping
    BY <1>0, <1>3, Shapes DEF CleanupCheck
  <2>3. Goto(c, q)
    BY <1>3 DEF CleanupCheck
  <2>4. q \in CallType /\ q.pc \notin {"track", "analyse"}
    BY <2>1 DEF CallType, Removing, Sweeping
  <2>5. TypeOK'
    BY <1>3 DEF CleanupCheck, Goto, TypeInv, TypeOK, git
  <2>6. UNCHANGED <<map, dir>>
    BY <1>3 DEF CleanupCheck, git
  <2>. QED
    BY <1>2, <2>3, <2>4, <2>5, <2>6 DEF Tracked
<1>4. CASE CleanupEnd(c) \/ Abort(c)
  <2>1. TypeOK'
    BY <1>4 DEF CleanupEnd, Abort, Return, Goto, TypeInv, TypeOK, git
  <2>. QED
    BY <1>0, <1>2, <1>4, <2>1 DEF CleanupEnd, Abort, Return, git, Tracked
<1>5. CASE RemoveRead(c)
  <2>1. PICK p \in {"prune", "removed"} : Goto(c, [call[c] EXCEPT !.pc = p])
    BY <1>5 DEF RemoveRead, GotoPc
  <2>2. [call[c] EXCEPT !.pc = p] \in CallType /\ [call[c] EXCEPT !.pc = p].pc = p
    BY <1>0, <1>5, Shapes, NextPc DEF RemoveRead, CallType
  <2>3. TypeOK'
    BY <1>5 DEF RemoveRead, GotoPc, Goto, TypeInv, TypeOK, git
  <2>. QED
    BY <1>2, <1>5, <2>1, <2>2, <2>3 DEF RemoveRead, git, Tracked
<1>6. CASE RemoveGit(c)
  <2>1. [call[c] EXCEPT !.pc = "untrack"] \in CallType /\ [call[c] EXCEPT !.pc = "untrack"].pc = "untrack"
    BY <1>0, <1>6, Shapes, NextPc DEF RemoveGit, CallType
  <2>2. TypeOK'
    BY <1>6 DEF RemoveGit, GotoPc, Goto, TypeInv, TypeOK, git
  <2>. QED
    BY <1>2, <1>6, <2>1, <2>2 DEF RemoveGit, GotoPc, git, Tracked
<1>7. CASE RemoveUntrack(c)
  <2>1. [call[c] EXCEPT !.pc = "removed"] \in CallType /\ [call[c] EXCEPT !.pc = "removed"].pc = "removed"
    BY <1>0, <1>7, Shapes, NextPc DEF RemoveUntrack, CallType
  <2>2. TypeOK'
    BY <1>7 DEF RemoveUntrack, GotoPc, Goto, TypeInv, TypeOK, git, Statuses
  <2>3. \A u \in Tasks : Tracked(u)' => Tracked(u)
    BY <1>7 DEF RemoveUntrack, Tracked, TypeInv, TypeOK
  <2>. QED
    BY <1>2, <1>7, <2>1, <2>2, <2>3 DEF RemoveUntrack, GotoPc, git
<1>8. CASE RemoveDone(c)
  <2>1. call[c] \in Removing
    BY <1>0, <1>8, Shapes DEF RemoveDone
  <2>2. /\ call[c].from = "cleanup" => /\ [call[c] EXCEPT !.pc = "sweep"] \in CallType
                                       /\ [call[c] EXCEPT !.pc = "sweep"].pc = "sweep"
        /\ call[c].from \in {"reject", "delete", "cleanup"}
    BY <2>1, NextPc DEF CallType, Removing
  <2>3. TypeOK'
    BY <1>8, <2>2 DEF RemoveDone, GotoPc, Return, Goto, SetRow, TypeInv, TypeOK, git
  <2>4. \E q \in CallType : Goto(c, q) /\ q.pc \notin {"track", "analyse"}
    BY <1>0, <1>8, <2>2 DEF RemoveDone, GotoPc, Return
  <2>. QED
    BY <1>2, <1>8, <2>3, <2>4 DEF RemoveDone, git, Tracked
<1>. QED
  BY <1>3, <1>4, <1>5, <1>6, <1>7, <1>8

\* Every step keeps the state well typed and the branches in place.
LEMMA NextTypeInv ==
    ASSUME MaxCommits \in Nat, MaxRestarts \in Nat
    PROVE  TypeInv /\ [Next]_vars => TypeInv'
<1> SUFFICES ASSUME TypeInv, [Next]_vars PROVE TypeInv'
  OBVIOUS
<1>1. ASSUME NEW t \in Tasks, Edit(t) PROVE TypeInv'
  BY <1>1 DEF Edit, TypeInv, TypeOK, HasBranch, Tracked
<1>2. CASE UserCommit
  <2>1. author \in Seq(Tasks \cup {User}) /\ author' = Append(author, User)
        /\ Len(author) < MaxCommits
    BY <1>2 DEF UserCommit, CommitBy, TypeInv, TypeOK
  <2>2. author' \in Seq(Tasks \cup {User}) /\ Len(author') <= MaxCommits
    BY <2>1
  <2>3. main' \subseteq Commits
    <3>1. NewCommit \in Commits
      BY <2>1 DEF NewCommit, Commits
    <3>. QED
      BY <1>2, <3>1 DEF UserCommit, TypeInv, TypeOK
  <2>. QED
    BY <1>2, <2>2, <2>3 DEF UserCommit, TypeInv, TypeOK, HasBranch, Tracked
<1>3. ASSUME NEW c \in Calls, NEW t \in Tasks, Begin(c, t) PROVE TypeInv'
  BY <1>3, BeginTypeInv
<1>4. ASSUME NEW c \in Calls, CleanupStart(c) PROVE TypeInv'
  BY <1>4, BeginTypeInv
<1>5. ASSUME NEW c \in Calls, Continue(c) PROVE TypeInv'
  BY <1>5, CreateTypeInv, MergeTypeInv, RemoveTypeInv DEF Continue
<1>6. CASE Restart
  BY <1>6 DEF Restart, TypeInv, TypeOK, HasBranch, Tracked, git, CallType, Idle, Statuses
<1>7. CASE UNCHANGED vars
  BY <1>7 DEF vars, git, TypeInv, TypeOK, HasBranch, Tracked
<1>. QED
  BY <1>1, <1>2, <1>3, <1>4, <1>5, <1>6, <1>7 DEF Next

\* The shape of every request, and the branches that worktrees and requests rely
\* on, hold throughout.
LEMMA AlwaysTypeInv ==
    ASSUME MaxCommits \in Nat, MaxRestarts \in Nat
    PROVE  Spec => []TypeInv
<1>1. Init => TypeInv
  BY InitTypeInv
<1>2. TypeInv /\ [Next]_vars => TypeInv'
  BY NextTypeInv
<1>. QED
  BY <1>1, <1>2, PTL DEF Spec

\* Type correctness: the map, git's branches and directories, the table and the
\* requests stay within their types.
THEOREM TypeCorrect ==
    ASSUME MaxCommits \in Nat, MaxRestarts \in Nat
    PROVE  Spec => []TypeOK
<1>1. TypeInv => TypeOK
  BY DEF TypeInv
<1>. QED
  BY <1>1, AlwaysTypeInv, PTL

-----------------------------------------------------------------------------
(***************************************************************************)
(* Commits                                                                 *)
(***************************************************************************)

\* A branch that does not exist has no commits, and no step takes one from a
\* branch: a branch is only begun when there is none, and grows with its commits.
LEMMA BranchesGrow ==
    ASSUME TypeInv, [Next]_vars, NEW t \in Tasks, NEW m \in Nat \ {0}, m \in branch[t]
    PROVE  m \in branch'[t]
<1>1. branch[t] # None
  BY DEF None
<1>2. CASE UNCHANGED branch
  BY <1>2
<1>3. ASSUME NEW c \in Calls, CreateGit(c) PROVE m \in branch'[t]
  BY <1>1, <1>3 DEF CreateGit, TypeInv, TypeOK
<1>4. ASSUME NEW c \in Calls, CommitGit(c) PROVE m \in branch'[t]
  BY <1>4 DEF CommitGit, TypeInv, TypeOK
<1>. QED
  BY <1>2, <1>3, <1>4
  DEF Next, vars, git, Edit, UserCommit, Begin, CreateStart, CommitStart, AcceptStart, MergeStart,
      RejectStart, DeleteStart, CleanupStart, Continue, CreateTrack, CreateInsert, AcceptMark,
      MergeRead, MergeAnalyse, MergeApply, MergeFails, MergeMark, AcceptUpdate, AcceptRevert,
      CleanupCheck, CleanupEnd, RemoveRead, RemoveGit, RemoveUntrack, RemoveDone, Abort, Restart

\* The next commit is numbered, and reached by the branch it is made on; the
\* authors of earlier commits stay.
LEMMA NewCommits ==
    ASSUME TypeInv, [Next]_vars
    PROVE  \/ UNCHANGED author
           \/ author' = Append(author, User)
           \/ \E t \in Tasks : author' = Append(author, t) /\ Len(author) + 1 \in branch'[t]
<1>1. ASSUME NEW c \in Calls, CommitGit(c)
      PROVE  \E t \in Tasks : author' = Append(author, t) /\ Len(author) + 1 \in branch'[t]
  <2>1. call[c].t \in Tasks
    BY <1>1 DEF CommitGit, TypeInv, TypeOK
  <2>. QED
    BY <1>1, <2>1 DEF CommitGit, CommitBy, NewCommit, TypeInv, TypeOK
<1>. QED
  BY <1>1, ZenonT(60)
  DEF Next, vars, git, Edit, UserCommit, CommitBy, Begin, CreateStart, CommitStart, AcceptStart,
      MergeStart, RejectStart, DeleteStart, CleanupStart, Continue, CreateGit, CreateTrack,
      CreateInsert, AcceptMark, MergeRead, MergeAnalyse, MergeApply, MergeFails, MergeMark,
      AcceptUpdate, AcceptRevert, CleanupCheck, CleanupEnd, RemoveRead, RemoveGit, RemoveUntrack,
      RemoveDone, Abort, Restart

\* No commit made in a worktree is ever lost from its branch, for any number of
\* tasks and requests: WorktreeManager::create uses an existing branch again,
\* remove leaves it intact, and a restart forgets only the map.
THEOREM CommitsAreKept ==
    ASSUME MaxCommits \in Nat, MaxRestarts \in Nat
    PROVE  Spec => []CommitsKept
<1>1. Init => CommitsKept
  BY DEF Init, CommitsKept
<1>2. TypeInv /\ CommitsKept /\ [Next]_vars => CommitsKept'
  <2> SUFFICES ASSUME TypeInv, CommitsKept, [Next]_vars,
                      NEW m \in DOMAIN author', author'[m] # User
               PROVE  m \in branch'[author'[m]]
    BY DEF CommitsKept
  <2>1. author \in Seq(Tasks \cup {User})
    BY DEF TypeInv, TypeOK
  <2>2. CASE m \in DOMAIN author /\ author'[m] = author[m]
    <3>1. author[m] \in Tasks /\ m \in Nat \ {0} /\ m \in branch[author[m]]
      BY <2>1, <2>2 DEF CommitsKept
    <3>. QED
      BY <2>2, <3>1, BranchesGrow
  <2>3. CASE UNCHANGED author
    BY <2>2, <2>3
  <2>4. ASSUME NEW a \in Tasks \cup {User}, author' = Append(author, a)
        PROVE  \/ m \in DOMAIN author /\ author'[m] = author[m]
               \/ m = Len(author) + 1 /\ author'[m] = a
    BY <2>1, <2>4
  <2>. QED
    BY <2>2, <2>3, <2>4, NewCommits
<1>. QED
  BY <1>1, <1>2, AlwaysTypeInv, PTL DEF Spec

-----------------------------------------------------------------------------
(***************************************************************************)
(* Merges                                                                  *)
(***************************************************************************)

\* A request past its merge works on a branch that git has merged: MergedWasMerged
\* alone is not inductive, for the entry and the row are marked after the merge.
PastMerge ==
    \A c \in Calls : call[c].pc \in {"merged", "update"} => call[c].t \in merges

Merges == PastMerge /\ MergedWasMerged

\* A step that moves one request keeps the invariant if what it enters in the map,
\* in the row or in the request as merged is merged.
LEMMA KeepsMerges ==
    ASSUME TypeInv, Merges, merges \subseteq merges', NEW c \in Calls, NEW q, Goto(c, q),
           q.pc \in {"merged", "update"} => q.t \in merges',
           \A t \in Tasks : map'[t] = "Merged" => map[t] = "Merged" \/ t \in merges',
           \A t \in Tasks : row'[t] = "merged" => row[t] = "merged" \/ t \in merges'
    PROVE  Merges'
<1>1. call'[c] = q /\ \A d \in Calls \ {c} : call'[d] = call[d]
  BY DEF Goto, TypeInv, TypeOK
<1>2. PastMerge'
  BY <1>1 DEF Merges, PastMerge
<1>3. MergedWasMerged'
  BY DEF Merges, MergedWasMerged
<1>. QED
  BY <1>2, <1>3 DEF Merges

\* The merge, as far as it gets, and the steps that mark a worktree merged.
LEMMA MarkMerges ==
    ASSUME TypeInv, Merges, NEW c \in Calls,
           MergeApply(c) \/ MergeFails(c) \/ MergeMark(c) \/ AcceptUpdate(c)
    PROVE  Merges'
<1> DEFINE t == call[c].t
<1>1. CASE MergeApply(c)
  <2> DEFINE q == [pc |-> "merged", t |-> t, from |-> call[c].from]
  <2>1. Goto(c, q) /\ q.t \in merges' /\ merges \subseteq merges' /\ UNCHANGED <<map, row>>
    BY <1>1 DEF MergeApply, MergeOver
  <2>. QED
    BY <2>1, KeepsMerges
<1>2. CASE MergeMark(c)
  <2>1. call[c] \in Merging /\ t \in merges /\ UNCHANGED <<row, merges>>
    BY <1>2, Shapes DEF MergeMark, TypeInv, Merges, PastMerge
  <2>2. \A u \in Tasks : map'[u] = "Merged" => map[u] = "Merged" \/ u \in merges'
    BY <1>2, <2>1 DEF MergeMark, SetStatus, TypeInv, TypeOK
  <2>3. CASE Goto(c, Idle)
    BY <2>1, <2>2, <2>3, KeepsMerges DEF Idle
  <2>4. CASE Goto(c, [call[c] EXCEPT !.pc = "update"])
    <3> DEFINE q == [call[c] EXCEPT !.pc = "update"]
    <3>1. q.t = t
      BY <2>1, NextPc
    <3> HIDE DEF q
    <3>2. Goto(c, q)
      BY <2>4 DEF q
    <3>. QED
      BY <2>1, <2>2, <3>1, <3>2, KeepsMerges
  <2>. QED
    BY <1>2, <2>3, <2>4 DEF MergeMark, GotoPc, Return
<1>3. CASE AcceptUpdate(c)
  <2>1. t \in merges /\ UNCHANGED <<map, merges>> /\ Goto(c, Idle)
    BY <1>3 DEF AcceptUpdate, Return, Merges, PastMerge
  <2>2. \A u \in Tasks : row'[u] = "merged" => row[u] = "merged" \/ u \in merges'
    BY <1>3, <2>1 DEF AcceptUpdate, SetRow, TypeInv, TypeOK
  <2>. QED
    BY <2>1, <2>2, KeepsMerges DEF Idle
<1>4. CASE MergeFails(c)
  <2> DEFINE q == [pc |-> "unmerged", t |-> t, from |-> call[c].from]
  <2>1. Goto(c, q) /\ merges \subseteq merges' /\ UNCHANGED <<map, row>>
    BY <1>4 DEF MergeFails, MergeOver
  <2>. QED
    BY <2>1, KeepsMerges
<1>. QED
  BY <1>1, <1>2, <1>3, <1>4

\* The other steps of requests.
LEMMA OtherMerges ==
    ASSUME TypeInv, Merges, NEW c \in Calls,
           CleanupStart(c) \/ (\E t \in Tasks : Begin(c, t)) \/ Continue(c),
           ~(MergeApply(c) \/ MergeFails(c) \/ MergeMark(c) \/ AcceptUpdate(c))
    PROVE  Merges'
<1>0. call[c] \in CallType /\ UNCHANGED merges
  BY DEF TypeInv, Begin, CreateStart, CommitStart, AcceptStart, MergeStart, RejectStart, DeleteStart,
      CleanupStart, Continue, CreateGit, CreateTrack, CreateInsert, CommitGit, AcceptMark, MergeRead,
      MergeAnalyse, AcceptRevert, CleanupCheck, CleanupEnd, RemoveRead, RemoveGit,
      RemoveUntrack, RemoveDone, Abort
<1>1. \A t \in Tasks : map'[t] = "Merged" => map[t] = "Merged"
  BY DEF TypeInv, TypeOK, SetStatus, Begin, CreateStart, CommitStart, AcceptStart, MergeStart,
      RejectStart, DeleteStart, CleanupStart, Continue, CreateGit, CreateTrack, CreateInsert,
      CommitGit, AcceptMark, MergeRead, MergeAnalyse, AcceptRevert, CleanupCheck,
      CleanupEnd, RemoveRead, RemoveGit, RemoveUntrack, RemoveDone, Abort
<1>2. \A t \in Tasks : row'[t] = "merged" => row[t] = "merged"
  <2>1. CASE RemoveDone(c)
    <3>1. call[c].from \in {"reject", "delete", "cleanup"}
      BY <1>0, <2>1, Shapes DEF RemoveDone, Removing
    <3>. QED
      BY <2>1, <3>1 DEF RemoveDone, SetRow, TypeInv, TypeOK
  <2>. QED
    BY <2>1 DEF TypeInv, TypeOK, Begin, CreateStart, CommitStart, AcceptStart, MergeStart,
      RejectStart, DeleteStart, CleanupStart, Continue, CreateGit, CreateTrack, CreateInsert,
      CommitGit, AcceptMark, MergeRead, MergeAnalyse, AcceptRevert, CleanupCheck,
      CleanupEnd, RemoveRead, RemoveGit, RemoveUntrack, Abort
<1>3. ASSUME NEW q, Goto(c, q), q.pc \notin {"merged", "update"} PROVE Merges'
  BY <1>0, <1>1, <1>2, <1>3, KeepsMerges
<1>4. ASSUME NEW p, p \notin {"merged", "update"}, GotoPc(c, p),
             call[c] \in Plain \cup Merging \cup Removing
      PROVE  Merges'
  <2> DEFINE q == [call[c] EXCEPT !.pc = p]
  <2>1. q.pc = p
    BY <1>4, NextPc
  <2>2. Goto(c, q)
    BY <1>4 DEF GotoPc
  <2> HIDE DEF q
  <2>. QED
    BY <1>3, <1>4, <2>1, <2>2
<1>5. CASE CleanupStart(c) \/ \E t \in Tasks : Begin(c, t)
  BY <1>3, <1>5 DEF Begin, CreateStart, CommitStart, AcceptStart, MergeStart, RejectStart,
      DeleteStart, CleanupStart
<1>6. CASE CreateInsert(c) \/ CommitGit(c) \/ AcceptRevert(c) \/ CleanupEnd(c) \/ Abort(c)
  BY <1>3, <1>6 DEF CreateInsert, CommitGit, AcceptRevert, CleanupEnd, Abort, Return, Idle
<1>7. CASE MergeAnalyse(c)
  <2>1. PICK p \in {"upToDate", "fastForward", "mergeCommit"} :
            Goto(c, [pc |-> p, t |-> call[c].t, from |-> call[c].from, commit |-> branch[call[c].t]])
    BY <1>7 DEF MergeAnalyse
  <2>. QED
    BY <1>3, <2>1
<1>9. CASE \E t \in Tasks : CleanupCheck(c, t)
  BY <1>3, <1>9 DEF CleanupCheck
<1>10. CASE CreateGit(c)
  BY <1>0, <1>4, <1>10, Shapes DEF CreateGit
<1>11. CASE CreateTrack(c)
  BY <1>0, <1>4, <1>11, Shapes DEF CreateTrack
<1>12. CASE AcceptMark(c)
  BY <1>0, <1>4, <1>12, Shapes DEF AcceptMark
<1>13. CASE MergeRead(c)
  BY <1>0, <1>4, <1>13, Shapes DEF MergeRead
<1>14. CASE RemoveRead(c)
  BY <1>0, <1>4, <1>14, Shapes DEF RemoveRead
<1>15. CASE RemoveGit(c)
  BY <1>0, <1>4, <1>15, Shapes DEF RemoveGit
<1>16. CASE RemoveUntrack(c)
  BY <1>0, <1>4, <1>16, Shapes DEF RemoveUntrack
<1>17. CASE RemoveDone(c)
  <2>1. call[c] \in Removing /\ call[c].from \in {"reject", "delete", "cleanup"}
    BY <1>0, <1>17, Shapes DEF RemoveDone, Removing
  <2>2. Goto(c, Idle) \/ GotoPc(c, "sweep")
    BY <1>17, <2>1 DEF RemoveDone, Return
  <2>. QED
    BY <1>3, <1>4, <2>1, <2>2 DEF Idle
<1>. QED
  BY <1>5, <1>6, <1>7, <1>9, <1>10, <1>11, <1>12, <1>13, <1>14, <1>15, <1>16, <1>17 DEF Continue

\* A worktree is called Merged, in the manager's map or in the table, only when git
\* has merged its branch, however accepts, removals, new worktrees and restarts
\* interleave with the merge.
THEOREM MergedMeansMerged ==
    ASSUME MaxCommits \in Nat, MaxRestarts \in Nat
    PROVE  Spec => []MergedWasMerged
<1>1. Init => Merges
  BY DEF Init, Merges, PastMerge, MergedWasMerged, Idle
<1>2. TypeInv /\ Merges /\ [Next]_vars => Merges'
  <2> SUFFICES ASSUME TypeInv, Merges, [Next]_vars PROVE Merges'
    OBVIOUS
  <2>1. CASE (\E t \in Tasks : Edit(t)) \/ UserCommit \/ UNCHANGED vars
    BY <2>1 DEF Edit, UserCommit, vars, Merges, PastMerge, MergedWasMerged
  <2>2. CASE Restart
    BY <2>2 DEF Restart, Merges, PastMerge, MergedWasMerged, Idle
  <2>. QED
    BY <2>1, <2>2, MarkMerges, OtherMerges DEF Next
<1>3. Merges => MergedWasMerged
  BY DEF Merges
<1>. QED
  BY <1>1, <1>2, <1>3, AlwaysTypeInv, PTL DEF Spec

-----------------------------------------------------------------------------
(***************************************************************************)
(* The main branch.  merge_branch_to_main resolves and analyses in one     *)
(* step and points HEAD at the commit in another; the run WorktreeMerge    *)
(* shows what a commit in between costs.                                   *)
(***************************************************************************)

\* Nothing moves the main branch between the analysis of a fast-forward and its
\* end, except the fast-forward itself.
MergeUndisturbed ==
    \A c \in Calls : call[c].pc = "fastForward" /\ call'[c].pc = "fastForward" => main' = main

\* A fast-forward that is decided on has all of the main branch.
FastForwards == \A c \in Calls : call[c].pc = "fastForward" => main \subseteq call[c].commit

\* A request comes to a fast-forward only from an analysis that found the main
\* branch behind its commit.
LEMMA FastForwardBegins ==
    ASSUME TypeInv, NEW c \in Calls, CleanupStart(c) \/ Continue(c) \/ \E t \in Tasks : Begin(c, t)
    PROVE  /\ \A d \in Calls \ {c} : call'[d] = call[d]
           /\ call'[c].pc = "fastForward" => main' = main /\ main \subseteq call'[c].commit
<1>1. call \in [Calls -> CallType]
  BY DEF TypeInv
<1>2. ASSUME NEW q, Goto(c, q)
      PROVE  call'[c] = q /\ \A d \in Calls \ {c} : call'[d] = call[d]
  BY <1>1, <1>2 DEF Goto
<1>. DEFINE Others == \A d \in Calls \ {c} : call'[d] = call[d]
            Elsewhere == call'[c].pc # "fastForward" /\ Others
<1>3. ASSUME NEW p, GotoPc(c, p), p # "fastForward", call[c] \in Plain \cup Merging \cup Removing
      PROVE  Elsewhere
  <2>1. [call[c] EXCEPT !.pc = p].pc = p
    BY <1>3, NextPc
  <2>. QED
    BY <1>2, <1>3, <2>1 DEF GotoPc
<1>4. ASSUME Return(c) PROVE Elsewhere
  BY <1>2, <1>4 DEF Return, Idle
<1>5. call[c].pc # "sweep" /\ call[c].pc \notin {"upToDate", "fastForward", "mergeCommit"}
      /\ call[c].pc # "idle" => call[c] \in Plain \cup Merging \cup Removing
  BY <1>1 DEF CallType, Idle, Sweeping, Applying
<1>6. ASSUME NEW t \in Tasks, CreateStart(c, t) \/ CommitStart(c, t) PROVE Elsewhere
  BY <1>2, <1>6 DEF CreateStart, CommitStart
<1>7. ASSUME NEW t \in Tasks, AcceptStart(c, t) \/ MergeStart(c, t) PROVE Elsewhere
  BY <1>2, <1>7 DEF AcceptStart, MergeStart
<1>8. ASSUME NEW t \in Tasks, RejectStart(c, t) \/ DeleteStart(c, t) PROVE Elsewhere
  BY <1>2, <1>8 DEF RejectStart, DeleteStart
<1>9. ASSUME CleanupStart(c) PROVE Elsewhere
  BY <1>2, <1>9 DEF CleanupStart
<1>10. ASSUME CreateGit(c) \/ CreateTrack(c) PROVE Elsewhere
  BY <1>3, <1>5, <1>10 DEF CreateGit, CreateTrack
<1>11. ASSUME CreateInsert(c) \/ CommitGit(c) \/ AcceptUpdate(c) \/ AcceptRevert(c) \/ CleanupEnd(c)
              \/ Abort(c)
       PROVE  Elsewhere
  BY <1>4, <1>11 DEF CreateInsert, CommitGit, AcceptUpdate, AcceptRevert, CleanupEnd, Abort
<1>12. ASSUME AcceptMark(c) \/ MergeRead(c) \/ MergeMark(c) PROVE Elsewhere
  <2>1. PICK p : p # "fastForward" /\ (GotoPc(c, p) \/ Return(c))
    BY <1>12 DEF AcceptMark, MergeRead, MergeMark
  <2>2. call[c] \in Plain \cup Merging \cup Removing
    BY <1>5, <1>12 DEF AcceptMark, MergeRead, MergeMark
  <2>. QED
    BY <1>3, <1>4, <2>1, <2>2
<1>13. ASSUME MergeApply(c) \/ MergeFails(c) PROVE Elsewhere
  <2>1. PICK p \in {"merged", "unmerged"} : MergeOver(c, p)
    BY <1>13 DEF MergeApply, MergeFails
  <2>. QED
    BY <1>2, <2>1 DEF MergeOver
<1>14. ASSUME NEW t \in Tasks, CleanupCheck(c, t) PROVE Elsewhere
  BY <1>2, <1>14 DEF CleanupCheck
<1>15. ASSUME RemoveRead(c) \/ RemoveGit(c) \/ RemoveUntrack(c) \/ RemoveDone(c) PROVE Elsewhere
  <2>1. PICK p : p # "fastForward" /\ (GotoPc(c, p) \/ Return(c))
    <3>1. CASE RemoveDone(c)
      <4>1. call[c] \in Removing
        BY <1>1, <3>1, Shapes DEF RemoveDone
      <4>2. call[c].from \in {"reject", "delete", "cleanup"}
        BY <4>1 DEF Removing
      <4>. QED
        BY <3>1, <4>2 DEF RemoveDone
    <3>. QED
      BY <1>15, <3>1 DEF RemoveRead, RemoveGit, RemoveUntrack
  <2>2. call[c] \in Plain \cup Merging \cup Removing
    BY <1>5, <1>15 DEF RemoveRead, RemoveGit, RemoveUntrack, RemoveDone
  <2>. QED
    BY <1>3, <1>4, <2>1, <2>2
<1>16. ASSUME MergeAnalyse(c)
       PROVE  Others /\ (call'[c].pc = "fastForward" => main' = main /\ main \subseteq call'[c].commit)
  <2>. DEFINE b == branch[call[c].t]
              p == CASE b \subseteq main -> "upToDate"
                     [] ~(b \subseteq main) /\ main \subseteq b -> "fastForward"
                     [] OTHER -> "mergeCommit"
              q == [pc |-> p, t |-> call[c].t, from |-> call[c].from, commit |-> b]
  <2>1. Goto(c, q) /\ main' = main
    BY <1>16 DEF MergeAnalyse, git
  <2>2. q.pc = p /\ q.commit = b /\ (p = "fastForward" => main \subseteq b)
    OBVIOUS
  <2>. HIDE DEF q, p, b
  <2>3. call'[c] = q /\ Others
    BY <1>2, <2>1
  <2>. QED
    BY <2>1, <2>2, <2>3
<1>. QED
  BY <1>6, <1>7, <1>8, <1>9, <1>10, <1>11, <1>12, <1>13, <1>14, <1>15, <1>16 DEF Begin, Continue

\* A step leaves main with all it had, unless a fast-forward loses some of it.
LEMMA MainGrows ==
    ASSUME TypeInv, FastForwards, [Next]_vars
    PROVE  main \subseteq main'
<1>1. ASSUME NEW c \in Calls, MergeApply(c) \/ MergeFails(c) PROVE main \subseteq main'
  BY <1>1 DEF MergeApply, MergeFails, HeadAfter, FastForwards
<1>. QED
  BY <1>1
  DEF Next, vars, git, Edit, UserCommit, Begin, CreateStart, CommitStart, AcceptStart, MergeStart,
      RejectStart, DeleteStart, CleanupStart, Continue, CreateGit, CommitGit, CreateTrack,
      CreateInsert, AcceptMark, MergeRead, MergeAnalyse, MergeMark, AcceptUpdate,
      AcceptRevert, CleanupCheck, CleanupEnd, RemoveRead, RemoveGit, RemoveUntrack, RemoveDone,
      Abort, Restart

\* merge_branch_to_main takes nothing away from the main branch, for any number of
\* tasks and requests, as long as nothing moves main between the analysis of a
\* fast-forward and its end: the window between the two git calls is all that the
\* main branch can lose commits through.
THEOREM UndisturbedMergesGrow ==
    ASSUME MaxCommits \in Nat, MaxRestarts \in Nat
    PROVE  Spec /\ [][MergeUndisturbed]_vars => MainOnlyGrows
<1>1. Init => FastForwards
  BY DEF Init, FastForwards, Idle
<1>2. TypeInv /\ FastForwards /\ [Next]_vars /\ [MergeUndisturbed]_vars => FastForwards'
  <2>. SUFFICES ASSUME TypeInv, FastForwards, [Next]_vars, [MergeUndisturbed]_vars,
                       NEW c \in Calls, call'[c].pc = "fastForward"
                PROVE  main' \subseteq call'[c].commit
    BY DEF FastForwards
  <2>1. CASE UNCHANGED <<main, call>>
    BY <2>1 DEF FastForwards
  <2>2. ASSUME call'[c] = call[c] PROVE main' \subseteq call'[c].commit
    <3>1. main' = main
      BY <2>2 DEF MergeUndisturbed, vars, git
    <3>. QED
      BY <2>2, <3>1 DEF FastForwards
  <2>3. ASSUME NEW d \in Calls,
               CleanupStart(d) \/ Continue(d) \/ \E t \in Tasks : Begin(d, t)
        PROVE  main' \subseteq call'[c].commit
    BY <2>2, <2>3, FastForwardBegins
  <2>4. CASE UserCommit \/ \E t \in Tasks : Edit(t)
    BY <2>2, <2>4 DEF UserCommit, Edit
  <2>5. CASE Restart
    BY <2>5 DEF Restart, Idle
  <2>. QED
    BY <2>1, <2>3, <2>4, <2>5 DEF Next, vars, git
<1>3. TypeInv /\ FastForwards /\ [Next]_vars => [main \subseteq main']_vars
  BY MainGrows
<1>. QED
  BY <1>1, <1>2, <1>3, AlwaysTypeInv, PTL DEF Spec, MainOnlyGrows
=============================================================================
