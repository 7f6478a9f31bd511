------------------------------ MODULE MCTasks -------------------------------
(***************************************************************************)
(* What the daemon keeps about tasks, in one model-checking instance: the  *)
(* task engine's tables, the event log of a task and its checkpoints, and  *)
(* the worktrees.  The three share no state, so a behaviour is one of one  *)
(* of them, chosen in Init; the others rest in their initial states.       *)
(***************************************************************************)
EXTENDS TaskEngine, TLC

CONSTANTS
    Kinds,       \* event types that tasks.transition is called with
    Callers,     \* connections that call tasks.transition
    CheckpointEvery, MaxAppends, MaxCrashes,
    User, MaxCommits, MaxRestarts

ASSUME TreesAssumption == MaxCommits \in Nat /\ MaxRestarts \in Nat

VARIABLES
    which,       \* the component of this behaviour
    log, torn, garbled, lost, cps, evCall, next, crashes, acked,
    map, dir, reg, dirty, branch, main, author, row, wtCall, restarts, merges

Events == INSTANCE TaskEvents WITH
            Calls <- Callers, call <- evCall

ASSUME EventsAssumption ==
    Kinds \subseteq Events!AllKinds /\ MaxAppends \in Nat /\ MaxCrashes \in Nat

Trees == INSTANCE Worktrees WITH
            call <- wtCall

engineVars == <<phases, status, claimedBy, order, agents, events, checkpoints,
                call, passed>>
eventsVars == <<log, torn, garbled, lost, cps, evCall, next, crashes, acked>>
treesVars == <<map, dir, reg, dirty, branch, main, author, row, wtCall, restarts,
               merges>>
allVars == <<which, engineVars, eventsVars, treesVars>>

InitAll ==
    /\ which \in {"engine", "events", "trees"}
    /\ Init /\ Events!Init /\ Trees!Init

NextAll ==
    \/ which = "engine" /\ Next /\ UNCHANGED <<which, eventsVars, treesVars>>
    \/ which = "events" /\ Events!Next /\ UNCHANGED <<which, engineVars, treesVars>>
    \/ which = "trees" /\ Trees!Next /\ UNCHANGED <<which, engineVars, eventsVars>>

SpecAll == InitAll /\ [][NextAll]_allVars

SymCallsAgents == Permutations(Calls) \cup Permutations(Agents)

-----------------------------------------------------------------------------
(***************************************************************************)
(* Properties; each component's module states what they say of the code.   *)
(* Those of the task engine have their names there.                        *)
(***************************************************************************)

\* The state of every component has its type.
AllTypesOK ==
    /\ which = "engine" => TypeOK
    /\ which = "events" => Events!TypeOK
    /\ which = "trees" => Trees!TypeOK

\* A restart finds every acknowledged transition and the task of the log.
RecoveryIsExact == which = "events" => Events!RecoveryIsExact

\* No commit of a worktree is lost from its branch.
CommitsKept == which = "trees" => Trees!CommitsKept

\* A worktree called merged has been merged.
MergedWasMerged == which = "trees" => Trees!MergedWasMerged
=============================================================================
