------------------------- MODULE MCSessionManager ---------------------------
(***************************************************************************)
(* Model-checking instances of SessionManager: the operations each run     *)
(* allows, and the symmetry of connections and turns.                      *)
(***************************************************************************)
EXTENDS SessionManager, TLC

\* Everything that leaves the claim on a session alone.
ClaimSafeOps == {"create", "send", "pause", "delete", "setProvider", "prune", "crash"}

\* Resume lets a second turn begin on the runner of the first; cancel takes the
\* runner out from under both.
HandleOps == {"create", "send", "resume", "cancel", "crash"}

SymCallsTurns == Permutations(Calls) \cup Permutations(Turns)
=============================================================================
