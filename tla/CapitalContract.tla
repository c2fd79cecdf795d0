-------------------------- MODULE CapitalContract --------------------------
(***************************************************************************)
(* What the risk budget of the agent promises, without tokens, records,    *)
(* threads or timeouts: reserve at the gate, hold while the broker may     *)
(* have the order, give back once, never exceed the cap.  `used' is the    *)
(* figure the gate compares with the cap.                                  *)
(***************************************************************************)
EXTENDS Integers, FiniteSetsExt

CONSTANTS Orders, Risk, Cap

VARIABLES used,      \* concurrent risk in use
          holders,   \* orders that hold a reservation
          exposed    \* orders the broker may hold a position for

vars == <<used, holders, exposed>>

ContractAssumption == Cap \in Nat /\ Risk \in [Orders -> Nat]

Init == used = 0 /\ holders = {} /\ exposed = {}

Reserve(o) ==
  /\ o \notin holders /\ used + Risk[o] <= Cap
  /\ holders' = holders \cup {o} /\ used' = used + Risk[o]
  /\ UNCHANGED exposed

\* Only the holder of a reservation is exposed at the broker.
Expose(o) ==
  /\ o \in holders /\ exposed' = exposed \cup {o}
  /\ UNCHANGED <<used, holders>>

Unexpose(o) ==
  /\ exposed' = exposed \ {o}
  /\ UNCHANGED <<used, holders>>

\* A reservation is given back once, and not while the order is exposed.
Free(o) ==
  /\ o \in holders \ exposed
  /\ holders' = holders \ {o} /\ used' = used - Risk[o]
  /\ UNCHANGED exposed

Next == \E o \in Orders : Reserve(o) \/ Expose(o) \/ Unexpose(o) \/ Free(o)

Spec == Init /\ [][Next]_vars

\* It follows that the gate's figure is exactly what the holders reserved, and
\* that it covers every order the broker may execute (ContractCovers).
=============================================================================
