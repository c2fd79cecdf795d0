----------------------------- MODULE AgentBase -----------------------------
(***************************************************************************)
(* What the components of the order path share: the instruments, the       *)
(* identities of the orders, the saturation bound of every age, and the    *)
(* calendar day the process reads (date.today() and datetime.now()).       *)
(***************************************************************************)
EXTENDS Integers

CONSTANTS Epics,          \* instrument identifiers
          Orders,         \* order identities, one per accepted signal
          AgeCap          \* every age saturates here

VARIABLE today            \* calendar day, external

ASSUME AgeAssumption == AgeCap \in Nat \ {0}

\* max(0, x), the clamp of every risk counter.
AtLeastZero(x) == IF x > 0 THEN x ELSE 0
=============================================================================
