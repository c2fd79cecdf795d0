---------------------------- MODULE ExitInflight ----------------------------
(***************************************************************************)
(* execution/exit_inflight.py for one epic: the token that keeps two       *)
(* closes of the epic apart.  Every operation is one critical section of   *)
(* _lock.  The time of creation is kept as an age in ticks.                *)
(***************************************************************************)
EXTENDS Naturals

CONSTANTS ExitTimeout      \* DEFAULT_EXIT_TIMEOUT_SEC, in ticks

VARIABLES token            \* _exits[epic]: its age, or NoToken

ASSUME ExitAssumption == ExitTimeout \in Nat

\* An age above the timeout is kept as one more than the timeout.
NoToken == ExitTimeout + 2
ExitTypeOK == token \in 0 .. NoToken

ExitInit == token = NoToken

\* has_exit_in_flight.
InFlight == token <= ExitTimeout

\* Wrong form of TryBeginExit: a live token is replaced.
BeginAnyway == token' = 0

\* try_begin_exit that succeeds: an expired token is replaced.
TryBeginExit == ~InFlight /\ token' = 0

\* clear_exit drops the token of the epic, whoever set it.
ClearExit == token' = NoToken

AgeExit == token' = IF token <= ExitTimeout THEN token + 1 ELSE token
=============================================================================
