----------------------------- MODULE RestBudget -----------------------------
(***************************************************************************)
(* system/rest_api_budget.py: class RestApiBudget and the process-wide     *)
(* counters around it (orders in flight, exemption windows).  Operators    *)
(* that describe one critical section of its lock; RestTransport puts them *)
(* in the order in which acquire runs them.  A call is recorded with the   *)
(* thread that made it, the ticks since, whether the hard cap counts it,   *)
(* whether the cap was tested for it, and whether the preemptive throttle  *)
(* counts it.                                                              *)
(***************************************************************************)
EXTENDS Naturals, FiniteSets

CONSTANTS Callers,        \* threads that make REST calls
          Category,       \* categorize_rest_label of the calls of a thread
          Urgent,         \* threads that pass priority=True
          Interval,       \* _min_interval, in ticks
          Window,         \* 60 seconds, in ticks
          HardCap,        \* _hard_cap
          WarnCount,      \* ceil(_warn_per_minute * PREEMPTIVE_UTILIZATION_RATIO)
          Readings,       \* PREEMPTIVE_CONSECUTIVE_READINGS
          PauseUnit,      \* PREEMPTIVE_PAUSE_SEC, in ticks
          PauseMax,       \* PREEMPTIVE_PAUSE_MAX_SEC, in ticks
          DemoThroughput  \* _demo_throughput_rest_bypass

VARIABLES log,            \* _recent, the calls of the last minute
          sinceSlot,      \* now - _last_ts, saturating at Interval
          pauseLeft,      \* _preemptive_pause_until - now
          high,           \* _consecutive_high_readings
          stalePauses,    \* _stale_pause_count
          rescue,         \* _connecting_market_rescue_armed and _consumed
          flights,        \* _ORDER_IN_FLIGHT_COUNT
          windows,        \* exemption windows whose depth is positive
          stream          \* what the quote hub says of the price stream

Categories == {"market", "positions", "orders", "history", "account", "auth",
               "other"}
Windows == {"snapshot", "diagnostics", "poll", "bootstrap"}
Streams == {"fresh", "stale", "maintenance"}

ASSUME BudgetAssumption ==
  /\ IsFiniteSet(Callers)
  /\ Category \in [Callers -> Categories] /\ Urgent \subseteq Callers
  /\ {Interval, Window, HardCap, WarnCount, Readings, PauseUnit, PauseMax}
       \subseteq Nat \ {0}
  /\ DemoThroughput \in BOOLEAN

budgetVars == <<log, sinceSlot, pauseLeft, high, stalePauses, rescue>>
usageVars == <<flights, windows, stream>>

Call == [by : Callers, age : 0 .. Window, counted : BOOLEAN, tested : BOOLEAN,
         throttled : BOOLEAN]

BudgetTypeOK ==
  /\ log \subseteq Call /\ sinceSlot \in 0 .. Interval
  /\ pauseLeft \in 0 .. PauseMax /\ high \in 0 .. Readings - 1
  /\ stalePauses \in 0 .. PauseMax /\ rescue \in {"idle", "armed", "consumed"}
  /\ flights \in Nat /\ windows \subseteq Windows /\ stream \in Streams

BudgetInit ==
  /\ log = {} /\ sinceSlot = 0 /\ pauseLeft = 0 /\ high = 0
  /\ stalePauses = 0 /\ rescue = "idle"

UsageInit == flights = 0 /\ windows = {} /\ stream = "fresh"

\* ESSENTIAL_REST_CATEGORIES, which also pass while an order is in flight.
Essential(c) == Category[c] \in {"positions", "orders"}

\* _hard_cap_exceeded_locked.
CapReached == Cardinality({r \in log : r.counted}) >= HardCap

\* The preemptive pause blocks only while the stream is down.
ThrottleBlocks == ~DemoThroughput /\ stream # "fresh" /\ pauseLeft > 0

\* Early exits of _raise_if_non_essential_paused.
Waved(c) == windows \cap {"snapshot", "diagnostics", "poll"} # {}

Rescued(c) == rescue = "armed" /\ Category[c] = "market"

\* _exempt_cap, computed once before the slot loop of acquire.
ExemptFromCap(c) ==
  \/ c \in Urgent \/ Essential(c)
  \/ windows \cap {"snapshot", "diagnostics"} # {}
  \/ "poll" \in windows /\ Category[c] = "market"

\* Wrong form of SlotOpen: the minimum interval is not waited for.
SlotOpenAtOnce(c, burst) == TRUE

\* The slot loop lets a call through when the interval is over; a quote poll
\* waits 0.2 seconds, less than a tick.
SlotOpen(c, burst) == c \in Urgent \/ burst \/ sinceSlot >= Interval

\* _track_preemptive_locked, with the new call already in the record.  Beyond
\* PauseMax the number of pauses no longer changes their length.
TrackPreemptive(calls) ==
  LET busy == Cardinality({r \in calls : r.throttled}) >= WarnCount
      due == busy /\ high + 1 >= Readings
      pause == PauseUnit * (stalePauses + 1)
  IN \/ stream = "maintenance" /\ UNCHANGED <<high, stalePauses, pauseLeft>>
     \/ /\ stream = "fresh" \/ (DemoThroughput /\ stream # "maintenance")
        /\ high' = 0 /\ stalePauses' = 0 /\ pauseLeft' = 0
     \/ /\ stream = "stale" /\ ~DemoThroughput
        /\ high' = IF busy /\ ~due THEN high + 1 ELSE 0
        /\ stalePauses' = IF due /\ stalePauses < PauseMax THEN stalePauses + 1
                           ELSE stalePauses
        /\ pauseLeft' = IF ~due THEN pauseLeft
                        ELSE IF pause > PauseMax THEN PauseMax ELSE pause

\* The second critical section of acquire: the call is recorded.
RecordCall(c, tested) ==
  LET throttled == windows \cap {"bootstrap", "poll", "snapshot"} = {}
      calls == log \cup {[by |-> c, age |-> 0, tested |-> tested,
                          counted |-> throttled /\ ~Essential(c),
                          throttled |-> throttled]}
  IN /\ log' = calls
     /\ IF throttled THEN TrackPreemptive(calls)
                     ELSE UNCHANGED <<high, stalePauses, pauseLeft>>
     /\ UNCHANGED rescue

\* begin_order_in_flight, end_order_in_flight.
BeginOrderInFlight == flights' = flights + 1 /\ UNCHANGED <<windows, stream>>
EndOrderInFlight ==
  /\ flights' = IF flights = 0 THEN 0 ELSE flights - 1
  /\ UNCHANGED <<windows, stream>>

\* arm_connecting_market_rescue_once.
ArmRescue ==
  /\ rescue' = IF rescue = "idle" THEN "armed" ELSE rescue
  /\ UNCHANGED <<log, sinceSlot, pauseLeft, high, stalePauses>>

AgeBudget ==
  /\ log' = {[r EXCEPT !.age = @ + 1] : r \in {x \in log : x.age < Window}}
  /\ sinceSlot' = IF sinceSlot < Interval THEN sinceSlot + 1 ELSE sinceSlot
  /\ pauseLeft' = IF pauseLeft = 0 THEN 0 ELSE pauseLeft - 1
  /\ UNCHANGED <<high, stalePauses, rescue>>
=============================================================================
