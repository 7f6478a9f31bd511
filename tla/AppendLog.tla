----------------------------- MODULE AppendLog ------------------------------
(***************************************************************************)
(* What an append-only log promises its readers, whatever writes it: one   *)
(* sequence of entries for each stream, and every step either leaves all   *)
(* of them alone or puts one entry at the end of one of them.  Nothing is  *)
(* rewritten, removed or put in the middle.                                *)
(*                                                                         *)
(* te_events, which migration 006 calls an "append-only audit log", is     *)
(* shown to implement it (TaskEngine), although its writers number their   *)
(* events in one statement and insert them in another.                     *)
(***************************************************************************)
EXTENDS Sequences

CONSTANTS Streams, Entries

VARIABLE log

Init == log = [s \in Streams |-> <<>>]

AppendEntry(s) == \E e \in Entries : log' = [log EXCEPT ![s] = Append(@, e)]

Next == \E s \in Streams : AppendEntry(s)

Spec == Init /\ [][Next]_log
=============================================================================
