----------------------------- MODULE AgentDays -----------------------------
(***************************************************************************)
(* The order path over midnight: the envelope and the correlation guard    *)
(* each keep the day of their counters and reset them when they next look. *)
(***************************************************************************)
EXTENDS OrderProperties

CONSTANT MaxDay         \* bound of this model: the last day

ASSUME DayAssumption == MaxDay \in Nat

\* The date changes (external).
NewDay ==
  /\ today < MaxDay /\ today' = today + 1
  /\ UNCHANGED <<tableVars, pc, attempt, brokerVars, storeVars, actorVars, held>>

DaySpec == Init /\ [][Next \/ NewDay]_vars

-----------------------------------------------------------------------------

\* The open risk of a direction is the risk of its deals to be booked, until
\* midnight clears it; from then on the guard never counts more than that: the
\* exit of yesterday's position may only take away heat of today's.
HeatOverDays ==
  /\ today = 0 => HeatLedger
  /\ \A d \in Directions :
       heat[d] <= SumRisk({p \in dealRisk : DirOf[p[1]] = d})
=============================================================================
