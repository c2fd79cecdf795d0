---------------------------- MODULE OrderState ----------------------------
(***************************************************************************)
(* The state of the order path: the four tables of the components, the     *)
(* stage of every order, the broker's side, the trades table, and what the *)
(* background threads carry between two of their steps.                    *)
(***************************************************************************)
EXTENDS EntryInflight, PendingOrders, PortfolioEnvelope, CorrelationGuard,
        FiniteSetsExt

CONSTANTS
  EpicOf, DirOf, Risk,  \* instrument, direction and proposed_risk_gbp per order
  MaxAttempts,          \* max_retries + 1
  PendingTimeout,       \* DEFAULT_PENDING_TIMEOUT_SEC, in ticks
  OpenGrace,            \* OPEN_GRACE_SEC, in ticks
  ReaperTimeout,        \* REAPER_TIMEOUT_SEC, in ticks
  FractionalLots,       \* fractional_lot_execution_enabled
  Actors,               \* which other threads run
  Faults,               \* which adverse events may happen
  NoJob                 \* "no reconcile under way"

VARIABLES
  pc,         \* stage of each order
  attempt,    \* loop counter of _execute_order_blocking
  broker,     \* the broker's verdict on the referenced order
  positions,  \* positions open at the broker
  row,        \* trades table: row of each position
  rowAge,     \* age of an open row (opened_at)
  dealRisk,   \* _deal_risk_gbp: positions whose exit gives budget back
  seenIg,     \* _seen_on_ig of IgPositionSync
  view,       \* broker snapshot IgPositionSync is applying
  job,        \* epic and verdict OrderReconcilerWorker is applying
  suspects,   \* epics V2CacheReaper is about to evict
  held        \* orders whose reservation the code has not given back (ghost)

AllActors == {"reconciler", "sync", "reaper", "orphan", "closer", "market"}

\* startFail: the worker thread cannot start.  refused: a preflight check or
\* the broker refuses before a reference exists.  transport: the POST raises.
\* lostReply: the broker executed a POST whose reply was lost.  confirmFail:
\* confirm_deal raises.  apiDown: reads of the broker fail.  stopFail: the stop
\* verification fails.  recordFail: open_trade_from_execution raises.  The
\* slow* faults let the clock, or another thread, run in windows that are
\* normally short.
AllFaults == {"startFail", "refused", "transport", "lostReply", "confirmFail",
              "apiDown", "stopFail", "recordFail", "slowBroker", "slowWorker",
              "slowActor", "slowGate", "fastReconciler"}

Gate == {"correlate", "begin", "reserve", "start"}
Worker == {"post", "confirm", "filled", "success", "failref", "failnoref",
           "failexc", "closingOk", "closingFail"}
Terminal == {"confirmed", "failed", "refused", "dropped"}
Stage == {"idle"} \cup Gate \cup Worker \cup Terminal

Positions == Orders \X {"referenced", "stray"}
Referenced(o) == <<o, "referenced">>
Stray(o) == <<o, "stray">>
EpicOfPos(p) == EpicOf[p[1]]

Verdicts == {"resolve", "release"}

Snapshot == [taken : BOOLEAN, open : SUBSET Positions]
NoView == [taken |-> FALSE, open |-> {}]

ASSUME PipelineAssumption ==
  /\ EpicOf \in [Orders -> Epics] /\ DirOf \in [Orders -> Directions]
  /\ Risk \in [Orders -> Nat \ {0}] /\ MaxAttempts \in Nat \ {0}
  /\ {PendingTimeout, OpenGrace, ReaperTimeout} \subseteq 1 .. HardExpiry
  /\ FractionalLots \in BOOLEAN
  /\ Actors \subseteq AllActors /\ Faults \subseteq AllFaults
  /\ NoJob \notin [epic : Epics, verdict : Verdicts]

tableVars == <<entries, pending, stash, concurrent, daily, pnl, envDay,
               count, heat, session>>
brokerVars == <<broker, positions>>
storeVars == <<row, rowAge, dealRisk>>
actorVars == <<seenIg, view, job, suspects>>
vars == <<today, tableVars, pc, attempt, brokerVars, storeVars, actorVars, held>>

PipelineTypeOK ==
  /\ pc \in [Orders -> Stage] /\ attempt \in [Orders -> 1 .. MaxAttempts]
  /\ broker \in [Orders -> {"none", "working", "accepted", "rejected"}]
  /\ positions \subseteq Positions
  /\ row \in [Positions -> {"none", "open", "closed"}]
  /\ rowAge \in [Positions -> 0 .. AgeCap]
  /\ dealRisk \subseteq Positions /\ seenIg \subseteq Positions
  /\ view \in Snapshot
  /\ job \in {NoJob} \cup [epic : Epics, verdict : Verdicts]
  /\ suspects \subseteq Epics /\ held \subseteq Orders
  /\ today \in Nat

Init ==
  /\ today = 0
  /\ EntryInit /\ PendingInit /\ EnvelopeInit /\ GuardInit
  /\ pc = [o \in Orders |-> "idle"] /\ attempt = [o \in Orders |-> 1]
  /\ broker = [o \in Orders |-> "none"] /\ positions = {}
  /\ row = [p \in Positions |-> "none"] /\ rowAge = [p \in Positions |-> 0]
  /\ dealRisk = {} /\ seenIg = {} /\ view = NoView /\ job = NoJob
  /\ suspects = {} /\ held = {}

Go(o, stage) == pc' = [pc EXCEPT ![o] = stage]

Rivals(o) == {x \in Orders \ {o} : EpicOf[x] = EpicOf[o]}
OpenRows == {p \in Positions : row[p] = "open"}
\* The broker has a transaction for p: it was open and is not any more.
ClosedAtBroker(p) ==
  p \notin positions /\ (p[2] = "referenced" => broker[p[1]] = "accepted")
EpicOpen(e) == \E p \in positions : EpicOfPos(p) = e

\* A worker's clear_entry falls between another order's has_pending and its
\* try_begin_entry only when that gate is slow.
GateQuiet(o) == "slowGate" \in Faults \/ \A x \in Rivals(o) : pc[x] \notin Gate
=============================================================================
