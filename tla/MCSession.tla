----------------------------- MODULE MCSession -----------------------------
(* Three processes of one account scope, alike. *)
EXTENDS SessionLock, TLC

CONSTANTS p1, p2, p3

Alike == Permutations({p1, p2, p3})
=============================================================================
