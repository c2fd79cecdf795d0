--------------------------- MODULE OrderPipeline ---------------------------
(***************************************************************************)
(* The order path of the agent: execution/live_executor.py composed with   *)
(* the four tables it works on (entry tokens, pending orders, portfolio    *)
(* envelope, correlation guard) and with the threads that touch the same   *)
(* tables while an order is under way: OrderReconcilerWorker,              *)
(* IgPositionSync, V2CacheReaper, the risk gate's orphan reconciliation,   *)
(* the position closer and the booking of closed trades.                   *)
(*                                                                         *)
(* One order is one accepted signal.  The trading thread runs execute (the *)
(* Gate stages) and starts a worker thread that runs _order_worker (the    *)
(* Worker stages).  A step ends where the code releases a lock or waits    *)
(* for the broker; what happens between two steps is interleaved with the  *)
(* other threads.  The model covers one calendar day (today is constant)   *)
(* and trades that close at no profit.                                     *)
(***************************************************************************)
EXTENDS OrderState

-----------------------------------------------------------------------------
(* LiveExecutor.execute, on the trading thread.                            *)

\* Wrong form: CheckPending without the has_pending test.
CheckPendingSkipped(o) ==
  /\ pc[o] = "idle" /\ \A x \in Rivals(o) : pc[x] \notin Gate
  /\ Go(o, "correlate")
  /\ UNCHANGED <<today, tableVars, attempt, brokerVars, storeVars, actorVars, held>>

\* has_pending is read.  One thread handles the signals of an epic, so at most
\* one order per epic is inside execute.  A live record refuses the signal and
\* changes nothing.
CheckPending(o) ==
  /\ pc[o] = "idle" /\ \A x \in Rivals(o) : pc[x] \notin Gate
  /\ ~HasPending(EpicOf[o])
  /\ PopIfExpired(EpicOf[o]) /\ Go(o, "correlate")
  /\ UNCHANGED <<today, entries, envVars, guardVars, attempt, brokerVars,
                 storeVars, actorVars, held>>

CorrelationCheck(o) ==
  /\ pc[o] = "correlate"
  /\ \/ TakeSlot(DirOf[o], Risk[o]) /\ Go(o, "begin")
     \/ RefuseSlot(DirOf[o], Risk[o]) /\ Go(o, "refused")
  /\ UNCHANGED <<today, entries, pending, stash, envVars, attempt, brokerVars,
                 storeVars, actorVars, held>>

\* A duplicate is dropped; its correlation slot is not given back.
BeginEntry(o) ==
  LET e == EpicOf[o] IN
  /\ pc[o] = "begin"
  /\ \/ TryBeginEntry(e, o) /\ Go(o, "reserve")
     \/ InFlight(e) /\ FractionalLots /\ ForceBeginEntry(e, o) /\ Go(o, "reserve")
     \/ InFlight(e) /\ ~FractionalLots /\ Go(o, "dropped") /\ UNCHANGED entries
  /\ UNCHANGED <<today, pending, stash, envVars, guardVars, attempt, brokerVars,
                 storeVars, actorVars, held>>

\* can_allocate(reserve=True); a refusal clears the token, not the slot.
ReserveBudget(o) ==
  /\ pc[o] = "reserve"
  /\ \/ /\ Reserve(Risk[o], pnl) /\ held' = held \cup {o}
        /\ Go(o, "start") /\ UNCHANGED entries
     \/ /\ Refuse(Risk[o], pnl) /\ ClearEntry(EpicOf[o])
        /\ Go(o, "dropped") /\ UNCHANGED held
  /\ UNCHANGED <<today, pending, stash, guardVars, attempt, brokerVars,
                 storeVars, actorVars>>

StartWorker(o) ==
  /\ pc[o] = "start" /\ Go(o, "post")
  /\ UNCHANGED <<today, tableVars, attempt, brokerVars, storeVars, actorVars, held>>

\* worker.start() raises: execute releases the reservation, and so does the
\* failure handler it then calls.
WorkerStartFails(o) ==
  /\ pc[o] = "start" /\ "startFail" \in Faults
  /\ ClearEntry(EpicOf[o]) /\ Undo(DirOf[o])
  /\ ReleaseAllocation(2 * Risk[o]) /\ held' = held \ {o}
  /\ Go(o, "failed")
  /\ UNCHANGED <<today, pending, stash, attempt, brokerVars, storeVars, actorVars>>

-----------------------------------------------------------------------------
(* LiveExecutor._execute_order_blocking, on the worker thread.             *)

\* Wrong form: PostReferenced that marks the order pending at once.
PostMarksPending(o) ==
  /\ pc[o] = "post" /\ broker' = [broker EXCEPT ![o] = "working"]
  /\ Go(o, "confirm") /\ MarkPending(EpicOf[o], o, "entry", TRUE, TRUE)
  /\ UNCHANGED <<today, entries, envVars, guardVars, attempt, positions,
                 storeVars, actorVars, held>>

\* POST /positions/otc returned a reference.  Fractional lots trust it at once.
PostReferenced(o) ==
  /\ pc[o] = "post" /\ broker' = [broker EXCEPT ![o] = "working"]
  /\ Go(o, IF FractionalLots THEN "filled" ELSE "confirm")
  /\ UNCHANGED <<today, tableVars, attempt, positions, storeVars, actorVars, held>>

\* A preflight check, the rate limiter or a response without a reference
\* ends the order before the broker holds anything.
PostRefused(o) ==
  /\ pc[o] = "post" /\ "refused" \in Faults /\ Go(o, "failnoref")
  /\ UNCHANGED <<today, tableVars, attempt, brokerVars, storeVars, actorVars, held>>

\* IGAPIError or IGOrderError: the POST is tried again, up to MaxAttempts.  A
\* lost reply leaves behind a position the agent has no reference for.
PostErrors(o) ==
  /\ pc[o] = "post"
  /\ \/ "refused" \in Faults /\ UNCHANGED positions
     \/ "lostReply" \in Faults /\ positions' = positions \cup {Stray(o)}
  /\ IF attempt[o] < MaxAttempts
     THEN attempt' = [attempt EXCEPT ![o] = @ + 1] /\ UNCHANGED pc
     ELSE Go(o, "failnoref") /\ UNCHANGED attempt
  /\ UNCHANGED <<today, tableVars, broker, storeVars, actorVars, held>>

\* A connection error outside the REST client's own handling is raised again.
PostRaises(o) ==
  /\ pc[o] = "post" /\ "transport" \in Faults /\ Go(o, "failexc")
  /\ UNCHANGED <<today, tableVars, attempt, brokerVars, storeVars, actorVars, held>>

ConfirmAccepted(o) ==
  /\ pc[o] = "confirm" /\ broker[o] = "accepted" /\ Go(o, "filled")
  /\ UNCHANGED <<today, tableVars, attempt, brokerVars, storeVars, actorVars, held>>

ConfirmRejected(o) ==
  /\ pc[o] = "confirm" /\ broker[o] = "rejected"
  /\ ResolvePending(EpicOf[o]) /\ Go(o, "failref")
  /\ UNCHANGED <<today, entries, envVars, guardVars, attempt, brokerVars,
                 storeVars, actorVars, held>>

\* Wrong form: ConfirmUnclear that polls once more than the loop allows.
ConfirmPollsTooOften(o) ==
  /\ pc[o] = "confirm" /\ (broker[o] = "working" \/ "apiDown" \in Faults)
  /\ IF attempt[o] <= MaxAttempts
     THEN /\ attempt' = [attempt EXCEPT ![o] = @ + 1]
          /\ UNCHANGED <<pc, pending, stash>>
     ELSE /\ MarkPending(EpicOf[o], o, "entry", TRUE, TRUE)
          /\ Go(o, "failref") /\ UNCHANGED attempt
  /\ UNCHANGED <<today, entries, envVars, guardVars, brokerVars, storeVars,
                 actorVars, held>>

\* Wrong form: ConfirmUnclear that posts the order again.
ConfirmReposts(o) ==
  /\ pc[o] = "confirm" /\ (broker[o] = "working" \/ "apiDown" \in Faults)
  /\ attempt[o] < MaxAttempts
  /\ attempt' = [attempt EXCEPT ![o] = @ + 1] /\ Go(o, "post")
  /\ UNCHANGED <<today, tableVars, brokerVars, storeVars, actorVars, held>>

\* No verdict: poll again without posting; after the last poll the order is
\* marked pending and its reservation stashed.
ConfirmUnclear(o) ==
  /\ pc[o] = "confirm" /\ (broker[o] = "working" \/ "apiDown" \in Faults)
  /\ \/ /\ attempt[o] < MaxAttempts
        /\ attempt' = [attempt EXCEPT ![o] = @ + 1]
        /\ UNCHANGED <<pc, pending, stash>>
     \/ /\ attempt[o] = MaxAttempts
        /\ MarkPending(EpicOf[o], o, "entry", TRUE, TRUE)
        /\ Go(o, "failref") /\ UNCHANGED attempt
  /\ UNCHANGED <<today, entries, envVars, guardVars, brokerVars, storeVars,
                 actorVars, held>>

\* confirm_deal is called outside the try of the loop: when it raises, the
\* reference is lost with the stack frame.
ConfirmRaises(o) ==
  /\ pc[o] = "confirm" /\ "confirmFail" \in Faults /\ Go(o, "failexc")
  /\ UNCHANGED <<today, tableVars, attempt, brokerVars, storeVars, actorVars, held>>

\* verify_stop_fail_safe is false after an emergency close, which may or may
\* not have closed the position, or it raises.
StopFailsafe(o) ==
  /\ pc[o] = "filled" /\ "stopFail" \in Faults /\ ~FractionalLots
  /\ \/ positions' = positions \ {Referenced(o)}
     \/ UNCHANGED positions
  /\ Go(o, "failref")
  /\ UNCHANGED <<today, tableVars, attempt, broker, storeVars, actorVars, held>>

\* open_trade_from_execution, record_portfolio_entry, confirm_direction_risk.
RecordFill(o) ==
  LET p == Referenced(o) IN
  /\ pc[o] = "filled"
  /\ row' = [row EXCEPT ![p] = "open"] /\ rowAge' = [rowAge EXCEPT ![p] = 0]
  /\ dealRisk' = dealRisk \cup {p}
  /\ ConfirmHeat(DirOf[o], Risk[o]) /\ Go(o, "success")
  /\ UNCHANGED <<today, entries, pending, stash, envVars, attempt, brokerVars,
                 actorVars, held>>

RecordFillRaises(o) ==
  /\ pc[o] = "filled" /\ "recordFail" \in Faults /\ Go(o, "failexc")
  /\ UNCHANGED <<today, tableVars, attempt, brokerVars, storeVars, actorVars, held>>

-----------------------------------------------------------------------------
(* LiveExecutor._order_worker and _handle_order_worker_failure.            *)

WorkerResolve(o) ==
  /\ pc[o] = "success"
  /\ ResolvePending(EpicOf[o]) /\ Go(o, "closingOk")
  /\ UNCHANGED <<today, entries, envVars, guardVars, attempt, brokerVars,
                 storeVars, actorVars, held>>

\* Wrong form: FailWithRef that gives an uncertain order's budget back.
FailWithRefReleases(o) ==
  /\ pc[o] = "failref"
  /\ Undo(DirOf[o]) /\ ReleaseAllocation(Risk[o]) /\ held' = held \ {o}
  /\ MarkPending(EpicOf[o], o, "entry", TRUE, TRUE) /\ Go(o, "closingFail")
  /\ UNCHANGED <<today, entries, attempt, brokerVars, storeVars, actorVars>>

\* Wrong form: FailWithRef that forgets pending_reconcile, and so the stash.
FailWithRefNoStash(o) ==
  /\ pc[o] = "failref"
  /\ Undo(DirOf[o]) /\ MarkPending(EpicOf[o], o, "entry", TRUE, FALSE)
  /\ Go(o, "closingFail")
  /\ UNCHANGED <<today, entries, envVars, attempt, brokerVars, storeVars,
                 actorVars, held>>

\* A failure with a reference keeps the reservation and marks the order
\* pending, a second time when the confirm loop already did.
FailWithRef(o) ==
  /\ pc[o] = "failref"
  /\ Undo(DirOf[o]) /\ MarkPending(EpicOf[o], o, "entry", TRUE, TRUE)
  /\ Go(o, "closingFail")
  /\ UNCHANGED <<today, entries, envVars, attempt, brokerVars, storeVars,
                 actorVars, held>>

\* Wrong form: FailNoRef that releases in the worker and again in the handler.
FailNoRefTwice(o) ==
  /\ pc[o] = "failnoref"
  /\ Undo(DirOf[o]) /\ ReleaseAllocation(2 * Risk[o]) /\ held' = held \ {o}
  /\ Go(o, "closingFail")
  /\ UNCHANGED <<today, entries, pending, stash, attempt, brokerVars,
                 storeVars, actorVars>>

FailNoRef(o) ==
  /\ pc[o] = "failnoref"
  /\ Undo(DirOf[o]) /\ ReleaseAllocation(Risk[o]) /\ held' = held \ {o}
  /\ Go(o, "closingFail")
  /\ UNCHANGED <<today, entries, pending, stash, attempt, brokerVars,
                 storeVars, actorVars>>

\* Wrong form: FailException that does not give the correlation slot back.
FailExceptionNoUndo(o) ==
  /\ pc[o] = "failexc"
  /\ ReleaseAllocation(Risk[o]) /\ held' = held \ {o}
  /\ MarkPending(EpicOf[o], o, "entry", FALSE, FALSE) /\ Go(o, "closingFail")
  /\ UNCHANGED <<today, entries, guardVars, attempt, brokerVars, storeVars,
                 actorVars>>

\* Wrong form: FailException whose own failure is handled the same way again.
FailExceptionAgain(o) ==
  /\ pc[o] = "failexc"
  /\ Undo(DirOf[o]) /\ ReleaseAllocation(Risk[o]) /\ held' = held \ {o}
  /\ MarkPending(EpicOf[o], o, "entry", FALSE, FALSE)
  /\ UNCHANGED <<today, entries, pc, attempt, brokerVars, storeVars, actorVars>>

\* An exception releases the reservation and leaves a record without a
\* reference and without reconciliation.
FailException(o) ==
  /\ pc[o] = "failexc"
  /\ Undo(DirOf[o]) /\ ReleaseAllocation(Risk[o]) /\ held' = held \ {o}
  /\ MarkPending(EpicOf[o], o, "entry", FALSE, FALSE) /\ Go(o, "closingFail")
  /\ UNCHANGED <<today, entries, attempt, brokerVars, storeVars, actorVars>>

\* finally: clear_entry.
Finally(o) ==
  /\ \/ pc[o] = "closingOk" /\ Go(o, "confirmed")
     \/ pc[o] = "closingFail" /\ Go(o, "failed")
  /\ ClearEntry(EpicOf[o]) /\ GateQuiet(o)
  /\ UNCHANGED <<today, pending, stash, envVars, guardVars, attempt, brokerVars,
                 storeVars, actorVars, held>>

-----------------------------------------------------------------------------
(* The broker and the market (external).                                   *)

Settle(o) ==
  /\ broker[o] = "working"
  /\ \/ /\ broker' = [broker EXCEPT ![o] = "accepted"]
        /\ positions' = positions \cup {Referenced(o)}
     \/ broker' = [broker EXCEPT ![o] = "rejected"] /\ UNCHANGED positions
  /\ UNCHANGED <<today, tableVars, pc, attempt, storeVars, actorVars, held>>

\* A stop, a limit or a manual close ends a position.
BrokerCloses(p) ==
  /\ "market" \in Actors /\ p \in positions
  /\ positions' = positions \ {p}
  /\ UNCHANGED <<today, tableVars, pc, attempt, broker, storeVars, actorVars, held>>

\* IGRestClient.close_position: a verified close resolves whatever record the
\* epic has.
CloseVerified(p) ==
  /\ "closer" \in Actors /\ p \in positions
  /\ positions' = positions \ {p} /\ ResolvePending(EpicOfPos(p))
  /\ UNCHANGED <<today, entries, envVars, guardVars, pc, attempt, broker,
                 storeVars, actorVars, held>>

\* A close that raises, whether or not the broker executed it, overwrites the
\* record of the epic by an exit record.
CloseRaises(p) ==
  /\ "closer" \in Actors /\ p \in positions
  /\ positions' \in {positions, positions \ {p}}
  /\ MarkPending(EpicOfPos(p), p[1], "exit", TRUE, FALSE)
  /\ UNCHANGED <<today, entries, envVars, guardVars, pc, attempt, broker,
                 storeVars, actorVars, held>>

-----------------------------------------------------------------------------
(* OrderReconcilerWorker: verify one record against the broker, then apply *)
(* the verdict to whatever the tables hold by then.                        *)

\* Wrong form: VerdictsOn that takes any record without a position for stale.
VerdictsIgnoringAge(rec) ==
  {v \in Verdicts : v = "resolve" <=> EpicOpen(EpicOf[rec.order])}

\* What reconcile_pending_order may decide about a record; no verdict leaves
\* the record alone.  A read that fails counts as "no confirm" or "flat".
VerdictsOn(rec) ==
  LET e == EpicOf[rec.order]
      status == IF rec.ref THEN broker[rec.order] ELSE "none"
      confirms == {status} \cup (IF "apiDown" \in Faults THEN {"none"} ELSE {})
      present == {EpicOpen(e)} \cup (IF "apiDown" \in Faults THEN {FALSE} ELSE {})
      stale == rec.reconcile /\ rec.age >= PendingTimeout
  IN IF rec.type = "exit"
     THEN {v \in {"resolve"} : FALSE \in present}
     ELSE {v \in Verdicts :
             \/ v = "resolve" /\ TRUE \in present /\ confirms # {"rejected"}
             \/ v = "release" /\ "rejected" \in confirms
             \/ v = "release" /\ FALSE \in present /\ stale}

RecVerify(e) ==
  /\ "reconciler" \in Actors /\ job = NoJob /\ pending[e] # NoPending
  /\ \E v \in VerdictsOn(pending[e]) : job' = [epic |-> e, verdict |-> v]
  /\ UNCHANGED <<today, tableVars, pc, attempt, brokerVars, storeVars, seenIg,
                 view, suspects, held>>

\* A pass fits between the two marks of one failing worker only when it is fast.
RecApply ==
  LET e == job.epic
      backed == job.verdict = "release" /\ stash[e] # NoStash
  IN
  /\ job # NoJob
  /\ \/ "fastReconciler" \in Faults
     \/ \A o \in Orders : ~(EpicOf[o] = e /\ pc[o] = "failref")
  /\ IF job.verdict = "release" THEN PopStashAndResolve(e) ELSE ResolvePending(e)
  /\ IF backed THEN ReleaseAllocation(Risk[stash[e]]) /\ held' = held \ {stash[e]}
               ELSE UNCHANGED <<envVars, held>>
  /\ job' = NoJob
  /\ UNCHANGED <<today, entries, guardVars, pc, attempt, brokerVars, storeVars,
                 seenIg, view, suspects>>

-----------------------------------------------------------------------------
(* IgPositionSync: fetch the open positions, then reconcile the trades     *)
(* table, the entry tokens and the pending records with that snapshot.     *)

SyncFetch ==
  /\ "sync" \in Actors /\ ~view.taken
  /\ view' = [taken |-> TRUE, open |-> positions]
  /\ seenIg' = seenIg \cup positions
  /\ UNCHANGED <<today, tableVars, pc, attempt, brokerVars, storeVars, job,
                 suspects, held>>

\* Wrong form: Young without the age of the row.
YoungForEver(p) == seenIg # {} /\ p \notin seenIg

\* The row of a position that is in its grace period stays open without a match.
Young(p) == seenIg # {} /\ p \notin seenIg /\ rowAge[p] <= OpenGrace
LostRows == {p \in OpenRows : p \notin view.open /\ ~Young(p)}
NewRows == view.open \ OpenRows

\* Records a snapshot settles: entries of epics it shows open or that are past
\* the grace period, exits of epics it shows flat.
SettledBy(openEpics) ==
  {e \in Epics : /\ pending[e] # NoPending
                 /\ IF pending[e].type = "entry"
                    THEN e \in openEpics \/ pending[e].age >= OpenGrace
                    ELSE e \notin openEpics}

SyncApply ==
  LET openEpics == {EpicOfPos(p) : p \in view.open} IN
  /\ view.taken
  /\ row' = [p \in Positions |-> IF p \in LostRows THEN "closed"
                                 ELSE IF p \in NewRows THEN "open" ELSE row[p]]
  /\ rowAge' = [p \in Positions |-> IF p \in LostRows \cup NewRows THEN 0
                                    ELSE rowAge[p]]
  /\ ClearEntries(openEpics) /\ ResolveAll(SettledBy(openEpics))
  /\ view' = NoView
  /\ UNCHANGED <<today, envVars, guardVars, pc, attempt, brokerVars, dealRisk,
                 seenIg, job, suspects, held>>

\* Wrong form: BookExit that forgets release_direction_risk.
BookExitKeepsHeat(p) ==
  /\ p \in dealRisk /\ row[p] = "closed" /\ ClosedAtBroker(p)
  /\ dealRisk' = dealRisk \ {p} /\ RecordExit(Risk[p[1]], 0)
  /\ held' = held \ {p[1]}
  /\ UNCHANGED <<today, entries, pending, stash, guardVars, pc, attempt,
                 brokerVars, row, rowAge, actorVars>>

\* record_portfolio_exit_for_deal, when the broker's transaction for a closed
\* position is matched with its closed row.
BookExit(p) ==
  /\ p \in dealRisk /\ row[p] = "closed" /\ ClosedAtBroker(p)
  /\ dealRisk' = dealRisk \ {p}
  /\ RecordExit(Risk[p[1]], 0) /\ ReleaseHeat(DirOf[p[1]], Risk[p[1]])
  /\ held' = held \ {p[1]}
  /\ UNCHANGED <<today, entries, pending, stash, count, session, pc, attempt,
                 brokerVars, row, rowAge, actorVars>>

-----------------------------------------------------------------------------
(* V2CacheReaper: a scan finds stale records of epics the broker shows     *)
(* flat, an eviction wipes both tables of the epic.                        *)

ReaperScan(e) ==
  /\ "reaper" \in Actors /\ e \notin suspects
  /\ \/ pending[e] # NoPending /\ pending[e].age >= ReaperTimeout
     \/ entries[e] # NoEntry /\ entries[e].age >= ReaperTimeout
  /\ ~EpicOpen(e) \/ "apiDown" \in Faults
  /\ suspects' = suspects \cup {e}
  /\ UNCHANGED <<today, tableVars, pc, attempt, brokerVars, storeVars, seenIg,
                 view, job, held>>

ReaperEvict(e) ==
  /\ e \in suspects /\ suspects' = suspects \ {e}
  /\ ResolvePending(e) /\ ClearEntry(e)
  /\ UNCHANGED <<today, envVars, guardVars, pc, attempt, brokerVars, storeVars,
                 seenIg, view, job, held>>

-----------------------------------------------------------------------------
(* reconcile_portfolio_orphan_reservations, called by the risk gate of the *)
(* trading loop: reservations without an open row are taken for orphans.   *)
(* The open count of the trading loop may be behind the trades table, so   *)
(* either branch may run when no row is open.                              *)

SumRisk(S) == MapThenSumSet(LAMBDA p : Risk[p[1]], S)

OrphanReconcile ==
  LET agentRows == {p \in Positions : p[2] = "referenced" /\
                      pc[p[1]] \in {"success", "closingOk", "confirmed"}}
  IN
  /\ "orphan" \in Actors /\ concurrent > 0
  /\ \/ /\ OpenRows = {} /\ Rehydrate(0, 0, 0)
        /\ dealRisk' = {} /\ held' = {}
     \/ /\ concurrent > SumRisk(OpenRows) + 1
        /\ Rehydrate(SumRisk(OpenRows), SumRisk(agentRows), 0)
        /\ dealRisk' = OpenRows /\ held' = {p[1] : p \in OpenRows}
  /\ UNCHANGED <<today, entries, pending, stash, guardVars, pc, attempt,
                 brokerVars, row, rowAge, actorVars>>

-----------------------------------------------------------------------------
\* One tick, about 15 seconds.  Without the slow* faults a worker ends before
\* its token expires, the broker decides an order before its record is stale,
\* and a background pass ends, and settles what it can, within a tick.
WorkersInTime ==
  \A o \in Orders :
    pc[o] \in {"reserve", "start"} \cup Worker /\ Owns(o, EpicOf[o])
      => entries[EpicOf[o]].age < EntryTimeout

BrokerInTime ==
  \A e \in Epics :
    pending[e] # NoPending /\ broker[pending[e].order] = "working"
      => pending[e].age + 1 < PendingTimeout

ActorsIdle ==
  /\ job = NoJob /\ ~view.taken /\ suspects = {}
  /\ "reconciler" \in Actors =>
       \A e \in Epics : pending[e] # NoPending => VerdictsOn(pending[e]) = {}

Tick ==
  /\ "slowWorker" \in Faults \/ WorkersInTime
  /\ "slowBroker" \in Faults \/ BrokerInTime
  /\ "slowActor" \in Faults \/ ActorsIdle
  /\ AgeEntries /\ AgePending
  /\ rowAge' = [p \in Positions |-> IF row[p] = "open" /\ rowAge[p] < AgeCap
                                    THEN rowAge[p] + 1 ELSE rowAge[p]]
  /\ <<entries, pending, rowAge>>' # <<entries, pending, rowAge>>
  /\ UNCHANGED <<today, envVars, guardVars, pc, attempt, brokerVars, row,
                 dealRisk, actorVars, held>>

\* Orders stay unsubmitted, or everything submitted has ended.
Quiescent ==
  /\ \A o \in Orders : pc[o] \in {"idle"} \cup Terminal
  /\ UNCHANGED vars

GateStep(o) ==
  \/ CheckPending(o) \/ CorrelationCheck(o) \/ BeginEntry(o)
  \/ ReserveBudget(o) \/ StartWorker(o) \/ WorkerStartFails(o)

WorkerStep(o) ==
  \/ PostReferenced(o) \/ PostRefused(o) \/ PostErrors(o) \/ PostRaises(o)
  \/ ConfirmAccepted(o) \/ ConfirmRejected(o) \/ ConfirmUnclear(o)
  \/ ConfirmRaises(o) \/ StopFailsafe(o) \/ RecordFill(o) \/ RecordFillRaises(o)
  \/ WorkerResolve(o) \/ FailWithRef(o) \/ FailNoRef(o) \/ FailException(o)
  \/ Finally(o)

ReconcilerStep == RecApply \/ \E e \in Epics : RecVerify(e)

Next ==
  \/ \E o \in Orders : GateStep(o) \/ WorkerStep(o) \/ Settle(o)
  \/ \E p \in Positions : BrokerCloses(p) \/ CloseVerified(p) \/ CloseRaises(p)
                          \/ BookExit(p)
  \/ ReconcilerStep \/ SyncFetch \/ SyncApply
  \/ \E e \in Epics : ReaperScan(e) \/ ReaperEvict(e)
  \/ OrphanReconcile \/ Tick \/ Quiescent

Spec == Init /\ [][Next]_vars
=============================================================================
