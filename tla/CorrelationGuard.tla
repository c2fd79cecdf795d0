-------------------------- MODULE CorrelationGuard --------------------------
(***************************************************************************)
(* execution/correlation_guard.py: the cap on new entries per direction    *)
(* and session day, and on the open risk ("heat") per direction.  Every    *)
(* operation is one critical section of the module's _lock and ends with   *)
(* _persist_state, so the file on disk equals the memory after each of     *)
(* them and a restart restores the same state.                             *)
(***************************************************************************)
EXTENDS AgentBase

CONSTANTS Directions,     \* {"BUY", "SELL"}
          MaxPerDirection,\* _session_entry_cap()
          HeatCap         \* max_same_direction_risk_gbp, 0 when unset

VARIABLES count,          \* _buy_count, _sell_count
          heat,           \* _buy_risk_gbp, _sell_risk_gbp
          session         \* _session_key, a calendar day (-1: not set)

ASSUME GuardAssumption == MaxPerDirection \in Nat \ {0} /\ HeatCap \in Nat

guardVars == <<count, heat, session>>

GuardTypeOK ==
  /\ count \in [Directions -> Nat] /\ heat \in [Directions -> Nat]
  /\ session \in Nat \cup {-1}

GuardInit ==
  /\ count = [d \in Directions |-> 0] /\ heat = [d \in Directions |-> 0]
  /\ session = -1

\* _maybe_auto_reset: a new calendar day clears the counts and the heat.
NewSession == session # -1 /\ session # today
CountNow(d) == IF NewSession THEN 0 ELSE count[d]
HeatNow(d) == IF NewSession THEN 0 ELSE heat[d]

\* Wrong form of SlotFree: one entry too many.
SlotFreeOffByOne(d, risk) == CountNow(d) <= MaxPerDirection

SlotFree(d, risk) ==
  /\ CountNow(d) < MaxPerDirection
  /\ HeatCap = 0 \/ risk = 0 \/ HeatNow(d) + risk <= HeatCap

\* check_and_record returning True: one slot of the direction is taken.
TakeSlot(d, risk) ==
  /\ SlotFree(d, risk)
  /\ count' = [x \in Directions |-> CountNow(x) + (IF x = d THEN 1 ELSE 0)]
  /\ heat' = [x \in Directions |-> HeatNow(x)]
  /\ session' = today

\* check_and_record returning False.
RefuseSlot(d, risk) ==
  /\ ~SlotFree(d, risk)
  /\ count' = [x \in Directions |-> CountNow(x)]
  /\ heat' = [x \in Directions |-> HeatNow(x)]
  /\ session' = today

\* undo: one slot back, clamped at zero, whatever the session is.
Undo(d) ==
  /\ count' = [count EXCEPT ![d] = AtLeastZero(@ - 1)]
  /\ UNCHANGED <<heat, session>>

\* confirm_direction_risk and release_direction_risk.
ConfirmHeat(d, risk) ==
  /\ heat' = [heat EXCEPT ![d] = @ + risk]
  /\ UNCHANGED <<count, session>>

ReleaseHeat(d, risk) ==
  /\ heat' = [heat EXCEPT ![d] = AtLeastZero(@ - risk)]
  /\ UNCHANGED <<count, session>>
=============================================================================
