------------------------- MODULE PortfolioEnvelope -------------------------
(***************************************************************************)
(* system/portfolio_envelope.py, class PortfolioEnvelope: the process-wide *)
(* risk budget.  Every operation is one critical section of                *)
(* _allocation_lock.  Money is an integer number of pounds.  The daily-    *)
(* loss gate cache of the same class serves the dashboard and decides no   *)
(* allocation; it is not part of this module.                              *)
(***************************************************************************)
EXTENDS AgentBase

CONSTANTS MaxConcurrent,  \* max_concurrent_risk_gbp
          MaxDaily,       \* max_daily_risk_deployed_gbp
          Usable,         \* account_balance * (1 - reserve_pct) - min_available
          SoftPause,      \* soft_pause_threshold_gbp
          HardStop        \* hard_daily_loss_limit_gbp

VARIABLES concurrent,     \* _concurrent_risk_gbp
          daily,          \* _daily_deployed_gbp
          pnl,            \* _daily_pnl_gbp
          envDay          \* _envelope_utc_day (-1: the empty string)

ASSUME EnvelopeAssumption ==
  /\ MaxConcurrent \in Nat /\ MaxDaily \in Nat /\ Usable \in Nat
  /\ SoftPause \in Nat \ {0} /\ HardStop \in Nat \ {0} /\ SoftPause <= HardStop

envVars == <<concurrent, daily, pnl, envDay>>

EnvelopeTypeOK ==
  /\ concurrent \in Nat /\ daily \in Nat
  /\ pnl \in Int /\ envDay \in Nat \cup {-1}

EnvelopeInit ==
  /\ concurrent = 0 /\ daily = 0 /\ pnl = 0 /\ envDay = -1

\* _maybe_roll_utc_day_unlocked: on the first allocation of a new day the
\* deployed counter restarts and the P&L is read back from the store (booked).
Rolled == envDay # -1 /\ envDay # today
DailyNow == IF Rolled THEN 0 ELSE daily
PnlNow(booked) == IF Rolled THEN booked ELSE pnl

\* Wrong form of CapsAllow: the proposed risk is left out of the comparison.
CapsAllowBefore(risk, booked) ==
  concurrent < MaxConcurrent /\ DailyNow + risk <= MaxDaily

\* The checks of can_allocate, in the state the day roll leaves.
CapsAllow(risk, booked) ==
  LET loss == AtLeastZero(-PnlNow(booked))
  IN /\ loss < SoftPause /\ loss < HardStop
     /\ concurrent + risk <= MaxConcurrent
     /\ DailyNow + risk <= MaxDaily
     /\ concurrent + risk <= Usable

\* can_allocate(risk, reserve=True) returning True and returning False.
Reserve(risk, booked) ==
  /\ CapsAllow(risk, booked)
  /\ concurrent' = concurrent + risk
  /\ daily' = DailyNow + risk
  /\ pnl' = PnlNow(booked) /\ envDay' = today

Refuse(risk, booked) ==
  /\ ~CapsAllow(risk, booked)
  /\ daily' = DailyNow /\ pnl' = PnlNow(booked) /\ envDay' = today
  /\ UNCHANGED concurrent

\* Wrong form of ReleaseAllocation: only the daily counter is corrected.
ReleaseDailyOnly(risk) ==
  /\ daily' = AtLeastZero(daily - risk)
  /\ UNCHANGED <<concurrent, pnl, envDay>>

\* release_allocation: undo a reservation, both counters clamped at zero.
ReleaseAllocation(risk) ==
  /\ concurrent' = AtLeastZero(concurrent - risk)
  /\ daily' = AtLeastZero(daily - risk)
  /\ UNCHANGED <<pnl, envDay>>

\* record_exit: a closed trade returns its concurrent risk and books its P&L.
RecordExit(risk, gain) ==
  /\ concurrent' = AtLeastZero(concurrent - risk)
  /\ pnl' = pnl + gain
  /\ UNCHANGED <<daily, envDay>>

\* rehydrate: the three counters are overwritten.
Rehydrate(c, d, p) ==
  /\ concurrent' = c /\ daily' = d /\ pnl' = p
  /\ UNCHANGED envDay
=============================================================================
