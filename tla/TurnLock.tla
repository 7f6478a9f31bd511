------------------------------ MODULE TurnLock ------------------------------
(***************************************************************************)
(* What the claim on a session promises, whatever claims it and runs it:   *)
(* the session is a lock.  A request takes it when nobody has it, hands it *)
(* to the one turn it starts, and gives it back, as the turn does in the   *)
(* end; a crash takes it from everyone.                                    *)
(*                                                                         *)
(* SessionManager is shown to implement it, although the lock is no more   *)
(* than a word in a row that many tasks write.                             *)
(***************************************************************************)

CONSTANTS Sessions, Calls, Turns

VARIABLES
    claimers,   \* the requests that have a session and no turn yet
    workers     \* the turns of a session

Init ==
    /\ claimers = [s \in Sessions |-> {}]
    /\ workers = [s \in Sessions |-> {}]

Claim(s, c) ==
    /\ claimers[s] = {} /\ workers[s] = {}
    /\ claimers' = [claimers EXCEPT ![s] = {c}]
    /\ UNCHANGED workers

HandOver(s, c, t) ==
    /\ claimers[s] = {c} /\ workers[s] = {}
    /\ claimers' = [claimers EXCEPT ![s] = {}]
    /\ workers' = [workers EXCEPT ![s] = {t}]

Release(S) ==
    /\ claimers' = [s \in Sessions |-> IF s \in S THEN {} ELSE claimers[s]]
    /\ workers' = [s \in Sessions |-> IF s \in S THEN {} ELSE workers[s]]

Next ==
    \/ \E S \in SUBSET Sessions : Release(S)
    \/ \E s \in Sessions, c \in Calls : Claim(s, c) \/ \E t \in Turns : HandOver(s, c, t)

Spec == Init /\ [][Next]_<<claimers, workers>>
=============================================================================
