----------------------------- MODULE Approvals ------------------------------
(***************************************************************************)
(* ApprovalRouter of clawd (policy/approval.rs): approval requests, the    *)
(* humans who grant or deny them, and the agents that wait for a decision. *)
(*                                                                         *)
(* The requests are behind a mutex that is taken and given up for every    *)
(* look; decisions are announced on a broadcast channel after the mutex is *)
(* given up.  A wait has a deadline, which passes at any time.             *)
(***************************************************************************)
EXTENDS Naturals, Sequences, FiniteSets

CONSTANTS
    Requests, \* approval ids
    Humans,   \* callers of grant and deny
    Waiters,  \* callers of wait_for_decision
    Cap       \* the capacity of the broadcast channel, 256 in the code

VARIABLES
    status,   \* the status of each request, "none" before request_approval
    told,     \* the ids announced so far
    human,    \* the humans
    wait,     \* the waits
    said      \* what a grant or a deny that returned Ok decided

vars == <<status, told, human, wait, said>>

Decisions == {"granted", "denied"}
Statuses == {"none", "pending", "timedOut"} \cup Decisions
NoWait == [pc |-> "idle"]

TypeOK ==
    /\ status \in [Requests -> Statuses]
    /\ told \in Seq(Requests) /\ Len(told) <= Cardinality(Requests)
    /\ human \in [Humans -> {"idle"} \cup Requests]
    /\ DOMAIN wait = Waiters
    /\ said \in [Requests -> {"none"} \cup Decisions]

Init ==
    /\ status = [r \in Requests |-> "none"]
    /\ told = <<>>
    /\ human = [h \in Humans |-> "idle"]
    /\ wait = [w \in Waiters |-> NoWait]
    /\ said = [r \in Requests |-> "none"]

\* request_approval
RequestApproval(r) ==
    /\ status[r] = "none"
    /\ status' = [status EXCEPT ![r] = "pending"]
    /\ UNCHANGED <<told, human, wait, said>>

\* grant and deny: only a pending request is decided; the mutex is given up ...
Decide(h, r, d) ==
    /\ human[h] = "idle" /\ status[r] = "pending"
    /\ status' = [status EXCEPT ![r] = d]
    /\ human' = [human EXCEPT ![h] = r]
    /\ said' = [said EXCEPT ![r] = d]
    /\ UNCHANGED <<told, wait>>

\* ... and the decision is announced.
Announce(h) ==
    /\ human[h] # "idle"
    /\ told' = Append(told, human[h])
    /\ human' = [human EXCEPT ![h] = "idle"]
    /\ UNCHANGED <<status, wait, said>>

-----------------------------------------------------------------------------
(***************************************************************************)
(* wait_for_decision                                                       *)
(***************************************************************************)

Goto(w, q) == wait' = [wait EXCEPT ![w] = q]

Return(w, answer) ==
    Goto(w, [pc |-> "done", id |-> wait[w].id, answer |-> answer, over |-> wait[w].over])

\* subscribe comes before the first look at the status.
Start(w, r) ==
    /\ wait[w].pc = "idle" /\ status[r] # "none"
    /\ Goto(w, [pc |-> "look", id |-> r, seen |-> Len(told), over |-> FALSE])
    /\ UNCHANGED <<status, told, human, said>>

\* The deadline passes.
Elapse(w) ==
    /\ wait[w].pc \in {"look", "turn", "recv"} /\ ~ wait[w].over
    /\ Goto(w, [wait[w] EXCEPT !.over = TRUE])
    /\ UNCHANGED <<status, told, human, said>>

\* The look at the status, under the mutex.
Look(w) ==
    LET q == wait[w] IN
    /\ q.pc = "look"
    /\ IF status[q.id] # "pending" THEN Return(w, status[q.id])
       ELSE Goto(w, [q EXCEPT !.pc = "turn"])
    /\ UNCHANGED <<status, told, human, said>>

\* remaining is zero: the request is marked whatever its status has become.
GiveUp(w) ==
    /\ wait[w].pc = "turn" /\ wait[w].over
    /\ status' = [status EXCEPT ![wait[w].id] = "timedOut"]
    /\ Return(w, "timedOut")
    /\ UNCHANGED <<told, human, said>>

\* The channel is subscribed to only after the look.
AwaitSubscribing(w) ==
    /\ wait[w].pc = "turn" /\ ~ wait[w].over
    /\ Goto(w, [wait[w] EXCEPT !.pc = "recv", !.seen = Len(told)])
    /\ UNCHANGED <<status, told, human, said>>

\* Time remains: the wait for the next announcement begins.
Await(w) ==
    /\ wait[w].pc = "turn" /\ ~ wait[w].over
    /\ Goto(w, [wait[w] EXCEPT !.pc = "recv"])
    /\ UNCHANGED <<status, told, human, said>>

Behind(w) == Len(told) - wait[w].seen

\* An announcement, of this request or another: look again.
Receive(w) ==
    /\ wait[w].pc = "recv" /\ Behind(w) \in 1 .. Cap
    /\ Goto(w, [wait[w] EXCEPT !.pc = "look", !.seen = @ + 1])
    /\ UNCHANGED <<status, told, human, said>>

\* The receiver lagged, or nothing came before the deadline: the request is
\* marked if it is still pending, and its status returned.
TimedOut(w) ==
    LET q == wait[w]
        r == q.id IN
    /\ q.pc = "recv"
    /\ Behind(w) > Cap \/ (q.over /\ Behind(w) = 0)
    /\ status' = IF status[r] = "pending" THEN [status EXCEPT ![r] = "timedOut"] ELSE status
    /\ Return(w, status'[r])
    /\ UNCHANGED <<told, human, said>>

WaiterStep(w) == Look(w) \/ GiveUp(w) \/ Await(w) \/ Receive(w) \/ TimedOut(w)

Next ==
    \/ \E r \in Requests : RequestApproval(r)
    \/ \E h \in Humans : \/ \E r \in Requests, d \in Decisions : Decide(h, r, d)
                         \/ Announce(h)
    \/ \E w \in Waiters : \/ \E r \in Requests : Start(w, r)
                          \/ Elapse(w)
                          \/ Look(w) \/ GiveUp(w) \/ Await(w) \/ Receive(w) \/ TimedOut(w)

Spec == Init /\ [][Next]_vars

\* A task that can run is run, and a grant or deny that has begun ends.
\* Nothing is assumed of the deadline.
FairSpec ==
    /\ Spec
    /\ \A h \in Humans : WF_vars(Announce(h))
    /\ \A w \in Waiters : WF_vars(WaiterStep(w))

-----------------------------------------------------------------------------
(***************************************************************************)
(* Properties                                                              *)
(***************************************************************************)

\* A decision ends every wait for it, without the help of the deadline: no
\* order of the subscription, the look at the status, the decision and its
\* announcement makes a waiter miss it.
DecisionWakes ==
    \A w \in Waiters :
        (wait[w].pc \notin {"idle", "done"} /\ said[wait[w].id] # "none")
            ~> wait[w].pc = "done"

=============================================================================
