-------------------------- MODULE OrderProperties --------------------------
(***************************************************************************)
(* What the order path should guarantee, and its fairness.                 *)
(***************************************************************************)
EXTENDS OrderPipeline

\* The broker works on the order or holds a position for it.
Exposed(o) == broker[o] = "working" \/ Referenced(o) \in positions
                                    \/ Stray(o) \in positions
ExposedOrders == {o \in Orders : Exposed(o)}

Working(o) == pc[o] \in {"post", "confirm", "filled"}

\* Every table and every thread's state has its type; in particular no worker
\* polls past its last attempt and no counter goes below zero.
TypeOK ==
  /\ PipelineTypeOK /\ EntryTypeOK /\ PendingTypeOK
  /\ EnvelopeTypeOK /\ GuardTypeOK

\* Two workers never talk to the broker about the same epic at one time: what
\* entry_inflight promises to LiveExecutor.execute.
OneWorkerPerEpic ==
  \A o \in Orders, x \in Orders :
    o # x /\ Working(o) /\ Working(x) => EpicOf[o] # EpicOf[x]

\* No order is posted while a live entry record says that the outcome of an
\* order of its epic is unknown (pending_order_reconcile, module docstring).
PendingBlocksPost ==
  [][\A o \in Orders :
       pc[o] = "post" /\ pc'[o] \in {"confirm", "filled"}
         => ~(HasPending(EpicOf[o]) /\ pending[EpicOf[o]].type = "entry")]_vars

\* Once the broker has given a reference, nothing the worker does (retries,
\* polls) places the order again ("polling again (no re-post)").
NoRepostOnceReferenced ==
  [][\A o \in Orders : broker[o] # "none" =>
       /\ broker'[o] = "working" => broker[o] = "working"
       /\ Stray(o) \in positions' => Stray(o) \in positions]_vars

\* The slots counted against a direction are those of the orders that passed
\* check_and_record and were not undone, over every failure path.
SlotsTaken(d) ==
  {o \in Orders : DirOf[o] = d /\ pc[o] \notin {"idle", "correlate", "refused",
                                               "closingFail", "failed"}}
SlotLedger == \A d \in Directions : count[d] = Cardinality(SlotsTaken(d))

\* A reservation kept for an uncertain order is still counted by the gate, so
\* that giving it back later takes nothing from another order.
StashBacked == \A e \in Epics : stash[e] # NoStash => stash[e] \in held

\* While a worker is busy with the broker nobody else gives its reservation
\* back.
ReservationSurvivesWork ==
  [][\A o \in Orders : Working(o) /\ o \in held /\ Working(o)' => o \in held']_vars

\* The open risk of a direction is the risk of its deals that have not been
\* booked (release_direction_risk: "Release open risk when a position closes").
HeatLedger ==
  \A d \in Directions :
    heat[d] = SumRisk({p \in dealRisk : DirOf[p[1]] = d})

\* A failed order's reservation is released only once the broker no longer can
\* execute it (order_reconciler_worker: "releases gate reservations when the
\* broker confirms failure").
ReleaseNeedsVerdict ==
  [][\A o \in Orders :
       o \in held /\ o \notin held' /\ pc[o] = "failed"
         => broker[o] # "working"]_vars

\* The figure the gate compares with the cap is what the holders reserved
\* (release_allocation: "Undo a gate-time reservation").
UsedIsHeld == concurrent = MapThenSumSet(LAMBDA o : Risk[o], held)

\* Entries the agent confirmed stay within the direction cap, whatever fails.
ConfirmedWithinCap ==
  \A d \in Directions :
    Cardinality({o \in Orders : DirOf[o] = d /\ pc[o] = "confirmed"})
      <= MaxPerDirection

\* The risk the broker may hold stays below max_concurrent_risk_gbp.
ExposureWithinCap ==
  MapThenSumSet(LAMBDA o : Risk[o], ExposedOrders) <= MaxConcurrent

\* The order path implements the budget's contract.
Contract == INSTANCE CapitalContract WITH
  Cap <- MaxConcurrent, used <- concurrent, holders <- held,
  exposed <- ExposedOrders
ImplementsContract == Contract!Spec

-----------------------------------------------------------------------------
(* Fairness.  The worker thread runs to its end (every call it makes has a *)
(* timeout), the background threads wake at their interval, the broker     *)
(* decides, the clock advances.  Nothing is assumed of signals, of the     *)
(* market or of faults.                                                    *)

WorkerRuns(o) ==
  \/ PostReferenced(o) \/ ConfirmAccepted(o) \/ ConfirmRejected(o)
  \/ ConfirmUnclear(o) \/ RecordFill(o) \/ WorkerResolve(o) \/ FailWithRef(o)
  \/ FailNoRef(o) \/ FailException(o) \/ Finally(o)

GateRuns(o) ==
  \/ CorrelationCheck(o) \/ BeginEntry(o) \/ ReserveBudget(o) \/ StartWorker(o)

OrderFairness ==
  /\ \A o \in Orders :
       WF_vars(WorkerRuns(o)) /\ WF_vars(GateRuns(o)) /\ WF_vars(Settle(o))
  /\ WF_vars(RecApply) /\ \A e \in Epics : WF_vars(RecVerify(e))
  /\ WF_vars(Tick)

FairSpec == Spec /\ OrderFairness

\* A started worker ends and its order reaches a terminal stage.
WorkersFinish ==
  \A o \in Orders : pc[o] \in Worker ~> pc[o] \in Terminal

\* The budget of an order the broker rejected is given back in the end.
RejectedGivesBack ==
  \A o \in Orders : broker[o] = "rejected" ~> o \notin held

\* A record never blocks its epic for ever.
PendingClears ==
  \A e \in Epics : HasPending(e) ~> ~HasPending(e)

\* The trades table follows the broker: an open position gets an open row, and
\* the row of a closed position is closed, despite stale snapshots and grace.
RowsFollowBroker ==
  \A p \in Positions :
    /\ p \in positions ~> (row[p] = "open" \/ p \notin positions)
    /\ (row[p] = "open" /\ p \notin positions)
         ~> (row[p] # "open" \/ p \in positions)
=============================================================================
