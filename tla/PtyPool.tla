------------------------------ MODULE PtyPool -------------------------------
(***************************************************************************)
(* The pool of pre-warmed shells of the intelligence service               *)
(* (internal/pty/pool.go): a buffered channel of slots, borrowers that     *)
(* Acquire and Release them, the idle reaper, and Stop.                    *)
(*                                                                         *)
(* An action is what happens between two operations on the channel or on a *)
(* process.  A slot is the process it wraps; a killed process is not used  *)
(* again, and newSlot takes a fresh one or fails.  Release never finds a   *)
(* slot alive: alive() probes with a nil os.Signal, which Process.Signal   *)
(* refuses as an unsupported type, so every slot is replaced.              *)
(***************************************************************************)
EXTENDS Naturals, Sequences, FiniteSets

CONSTANTS
    Procs,   \* processes that newSlot may start
    Users,   \* activities that borrow slots
    Size     \* Pool.size, the capacity of the channel

VARIABLES
    live,       \* processes started and not yet killed
    used,       \* processes started so far
    slots,      \* Pool.slots
    user,       \* what each borrower is doing, with which process
    reaper,     \* what the reaper is doing, with which process
    collected,  \* slots that reaperTick has drained and not yet handled
    stopCh,     \* whether Pool.stopCh is closed
    stopper     \* where Stop is

procs == <<live, used>>
vars == <<procs, slots, user, reaper, collected, stopCh, stopper>>

Idle == [pc |-> "idle"]

SeqSet(s) == {s[i] : i \in DOMAIN s}

TypeOK ==
    /\ live \subseteq used /\ used \subseteq Procs
    /\ slots \in Seq(Procs) /\ Len(slots) <= Size
    /\ collected \in Seq(Procs)
    /\ DOMAIN user = Users
    /\ stopCh \in BOOLEAN
    /\ stopper \in {"no", "wait", "drain", "done"}

\* Start pre-warms up to Size slots; with none it fails and there is no pool.
Init ==
    /\ \E n \in 1 .. Size : \E s \in [1 .. n -> Procs] :
          /\ \A i, k \in 1 .. n : i # k => s[i] # s[k]
          /\ slots = s
          /\ live = SeqSet(s)
    /\ used = live
    /\ user = [u \in Users |-> Idle]
    /\ reaper = Idle
    /\ collected = <<>>
    /\ stopCh = FALSE
    /\ stopper = "no"

Kill(p) == live' = live \ {p} /\ UNCHANGED used

\* newSlot
New(p) == p \notin used /\ used' = used \cup {p} /\ live' = live \cup {p}

Goto(u, r) == user' = [user EXCEPT ![u] = r]

-----------------------------------------------------------------------------
(***************************************************************************)
(* Acquire: a select over the stop channel, the context and the slots,     *)
(* which takes any case that is ready                                      *)
(***************************************************************************)

AcquireBegin(u) ==
    /\ user[u] = Idle
    /\ Goto(u, [pc |-> "acquire"])
    /\ UNCHANGED <<procs, slots, reaper, collected, stopCh, stopper>>

AcquireSlot(u) ==
    /\ user[u].pc = "acquire"
    /\ slots # <<>>
    /\ Goto(u, [pc |-> "has", p |-> Head(slots)])
    /\ slots' = Tail(slots)
    /\ UNCHANGED <<procs, reaper, collected, stopCh, stopper>>

\* The pool is stopped, or the caller's context is done.
AcquireFails(u) ==
    /\ user[u].pc = "acquire"
    /\ Goto(u, Idle)
    /\ UNCHANGED <<procs, slots, reaper, collected, stopCh, stopper>>

-----------------------------------------------------------------------------
(***************************************************************************)
(* Release                                                                 *)
(***************************************************************************)

ReleaseKill(u) ==
    /\ user[u].pc = "has"
    /\ Kill(user[u].p)
    /\ Goto(u, [pc |-> "renew"])
    /\ UNCHANGED <<slots, reaper, collected, stopCh, stopper>>

\* When newSlot fails the pool has one slot less.
ReleaseRenew(u) ==
    /\ user[u].pc = "renew"
    /\ \/ \E p \in Procs : New(p) /\ Goto(u, [pc |-> "send", p |-> p])
       \/ Goto(u, Idle) /\ UNCHANGED procs
    /\ UNCHANGED <<slots, reaper, collected, stopCh, stopper>>

\* A non-blocking send; a slot that finds no room is killed.  Nothing here looks
\* at stopCh.
ReleaseSend(u) ==
    /\ user[u].pc = "send"
    /\ IF Len(slots) < Size
       THEN slots' = Append(slots, user[u].p) /\ UNCHANGED procs
       ELSE Kill(user[u].p) /\ UNCHANGED slots
    /\ Goto(u, Idle)
    /\ UNCHANGED <<reaper, collected, stopCh, stopper>>

-----------------------------------------------------------------------------
(***************************************************************************)
(* The reaper                                                              *)
(***************************************************************************)

\* The ticker may win the select even when the stop channel is closed.
ReaperTick ==
    /\ reaper = Idle
    /\ reaper' = [pc |-> "collect"]
    /\ UNCHANGED <<procs, slots, user, collected, stopCh, stopper>>

\* A drain that receives without a default case.
ReaperCollectBlocking ==
    /\ reaper.pc = "collect"
    /\ slots # <<>>
    /\ collected' = Append(collected, Head(slots))
    /\ slots' = Tail(slots)
    /\ UNCHANGED <<procs, user, reaper, stopCh, stopper>>

ReaperCollect ==
    /\ reaper.pc = "collect"
    /\ IF slots # <<>>
       THEN /\ collected' = Append(collected, Head(slots))
            /\ slots' = Tail(slots)
            /\ UNCHANGED reaper
       ELSE reaper' = [pc |-> "check"] /\ UNCHANGED <<collected, slots>>
    /\ UNCHANGED <<procs, user, stopCh, stopper>>

\* Every slot collected is idle too long or not alive, and is replaced; one that
\* cannot be replaced is gone.
ReaperKill ==
    /\ reaper.pc = "check" /\ collected # <<>>
    /\ Kill(Head(collected))
    /\ collected' = Tail(collected)
    /\ reaper' = [pc |-> "renew"]
    /\ UNCHANGED <<slots, user, stopCh, stopper>>

ReaperRenew ==
    /\ reaper.pc = "renew"
    /\ \/ \E p \in Procs : New(p) /\ reaper' = [pc |-> "send", p |-> p]
       \/ reaper' = [pc |-> "check"] /\ UNCHANGED procs
    /\ UNCHANGED <<slots, user, collected, stopCh, stopper>>

\* A reaper that gives up on stop without killing the slot in its hands.
ReaperSendLeak ==
    /\ reaper.pc = "send"
    /\ \/ /\ Len(slots) < Size
          /\ slots' = Append(slots, reaper.p)
       \/ stopCh /\ UNCHANGED slots
    /\ reaper' = [pc |-> "check"]
    /\ UNCHANGED <<procs, user, collected, stopCh, stopper>>

\* A send that blocks while the channel is full, or gives up on stop.
ReaperSend ==
    /\ reaper.pc = "send"
    /\ \/ /\ Len(slots) < Size
          /\ slots' = Append(slots, reaper.p)
          /\ UNCHANGED procs
       \/ stopCh /\ Kill(reaper.p) /\ UNCHANGED slots
    /\ reaper' = [pc |-> "check"]
    /\ UNCHANGED <<user, collected, stopCh, stopper>>

ReaperDone ==
    /\ reaper.pc = "check" /\ collected = <<>>
    /\ reaper' = Idle
    /\ UNCHANGED <<procs, slots, user, collected, stopCh, stopper>>

\* The reaper leaves its loop when the stop channel is closed.
ReaperExit ==
    /\ reaper = Idle /\ stopCh
    /\ reaper' = [pc |-> "exited"]
    /\ UNCHANGED <<procs, slots, user, collected, stopCh, stopper>>

-----------------------------------------------------------------------------
(***************************************************************************)
(* Stop                                                                    *)
(***************************************************************************)

StopClose ==
    /\ stopper = "no"
    /\ stopCh' = TRUE
    /\ stopper' = "wait"
    /\ UNCHANGED <<procs, slots, user, reaper, collected>>

\* wg.Wait
StopWait ==
    /\ stopper = "wait" /\ reaper.pc = "exited"
    /\ stopper' = "drain"
    /\ UNCHANGED <<procs, slots, user, reaper, collected, stopCh>>

StopDrain ==
    /\ stopper = "drain"
    /\ IF slots # <<>>
       THEN Kill(Head(slots)) /\ slots' = Tail(slots) /\ UNCHANGED stopper
       ELSE stopper' = "done" /\ UNCHANGED <<procs, slots>>
    /\ UNCHANGED <<user, reaper, collected, stopCh>>

UserStep(u) ==
    \/ AcquireSlot(u) \/ AcquireFails(u)
    \/ ReleaseKill(u) \/ ReleaseRenew(u) \/ ReleaseSend(u)

ReaperStep ==
    ReaperTick \/ ReaperCollect \/ ReaperKill \/ ReaperRenew \/ ReaperSend
      \/ ReaperDone \/ ReaperExit

Next ==
    \/ \E u \in Users : AcquireBegin(u) \/ UserStep(u)
    \/ ReaperStep
    \/ StopClose \/ StopWait \/ StopDrain

\* The goroutines run: the reaper goes on, and so does Stop.  select chooses at
\* random among the cases that are ready, so the closed stop channel is chosen in
\* the end although the ticker competes with it.
Fairness ==
    /\ WF_vars(ReaperStep)
    /\ SF_vars(ReaperExit)
    /\ WF_vars(StopWait \/ StopDrain)

Spec == Init /\ [][Next]_vars
FairSpec == Spec /\ Fairness

-----------------------------------------------------------------------------
(***************************************************************************)
(* Properties                                                              *)
(***************************************************************************)

Held(u) == IF user[u].pc \in {"has", "send"} THEN {user[u].p} ELSE {}
ReaperHeld == SeqSet(collected) \cup IF reaper.pc = "send" THEN {reaper.p} ELSE {}

\* Every process alive is in exactly one pair of hands (the channel, a borrower,
\* the reaper), and what is in the channel or lent out is alive: no shell is
\* shared, lost or handed out after it was killed.
SlotsHeldOnce ==
    /\ live = SeqSet(slots) \cup ReaperHeld \cup UNION {Held(u) : u \in Users}
    /\ Cardinality(live) = Len(slots) + Cardinality(ReaperHeld)
                             + Cardinality({u \in Users : Held(u) # {}})

\* There are never more shells than Size, so the channel has room for whatever
\* comes back: the full pool that Release's comment says "shouldn't happen" does
\* not, and the reaper's blocking send does not block.
RoomForAll ==
    /\ Cardinality(live) <= Size
    /\ (reaper.pc = "send" \/ \E u \in Users : user[u].pc = "send") => Len(slots) < Size

\* Stop returns: the reaper does not stay blocked on the channel.
StopReturns == (stopper = "wait") ~> (stopper = "done")

\* Shells that Stop has to deal with are not in the reaper's hands when it drains.
DrainSeesAll == stopper \in {"drain", "done"} => ReaperHeld = {}

\* Borrowers, the reaper and Stop never share, lose or overfill the shells.
ShellsAccountedFor == SlotsHeldOnce /\ RoomForAll /\ DrainSeesAll
=============================================================================
