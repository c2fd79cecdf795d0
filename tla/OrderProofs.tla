---------------------------- MODULE OrderProofs ----------------------------
(***************************************************************************)
(* Facts about the order path for every set of orders and instruments and  *)
(* every value of the limits and timeouts.                                 *)
(***************************************************************************)
EXTENDS OrderProperties, SumProofs

-----------------------------------------------------------------------------
(* Types.  Those of the envelope are kept apart: they need sums of risks.  *)

StateTypeOK == PipelineTypeOK /\ EntryTypeOK /\ PendingTypeOK /\ GuardTypeOK

\* The type invariant holds initially.
LEMMA InitTyped == Init => StateTypeOK
  <1> SUFFICES ASSUME Init PROVE StateTypeOK
    OBVIOUS
  <1>1. PipelineTypeOK
    BY PipelineAssumption, AgeAssumption DEF Init, PipelineTypeOK, Stage, NoView, Snapshot
  <1>2. EntryTypeOK
    BY DEF Init, EntryInit, EntryTypeOK
  <1>3. PendingTypeOK
    BY DEF Init, PendingInit, PendingTypeOK
  <1>4. GuardTypeOK
    BY DEF Init, GuardInit, GuardTypeOK
  <1> QED
    BY <1>1, <1>2, <1>3, <1>4 DEF StateTypeOK

-----------------------------------------------------------------------------
(* Every operation of a table preserves the table's type.                  *)

\* Every operation on the entry tokens keeps their type.
LEMMA EntryOpsTyped ==
  ASSUME EntryTypeOK
  PROVE  /\ \A e \in Epics, o \in Orders :
              TryBeginEntry(e, o) \/ ForceBeginEntry(e, o) => EntryTypeOK'
         /\ \A e \in Epics : ClearEntry(e) => EntryTypeOK'
         /\ \A es : ClearEntries(es) => EntryTypeOK'
         /\ AgeEntries => EntryTypeOK'
         /\ UNCHANGED entries => EntryTypeOK'
  <1> USE AgeAssumption
  <1>1. ASSUME NEW e \in Epics, NEW o \in Orders,
               TryBeginEntry(e, o) \/ ForceBeginEntry(e, o)
        PROVE  EntryTypeOK'
    BY <1>1 DEF EntryTypeOK, TryBeginEntry, ForceBeginEntry, Token
  <1>2. ASSUME NEW e \in Epics, ClearEntry(e) PROVE EntryTypeOK'
    BY <1>2 DEF EntryTypeOK, ClearEntry
  <1>3. ASSUME NEW es, ClearEntries(es) PROVE EntryTypeOK'
    BY <1>3 DEF EntryTypeOK, ClearEntries
  <1>4. ASSUME AgeEntries PROVE EntryTypeOK'
    <2> SUFFICES ASSUME NEW x \in Epics
                 PROVE  entries'[x] \in Token \cup {NoEntry}
      BY <1>4 DEF EntryTypeOK, AgeEntries
    <2>1. CASE entries[x] = NoEntry \/ entries[x].age = AgeCap
      BY <1>4, <2>1 DEF EntryTypeOK, AgeEntries
    <2>2. CASE entries[x] # NoEntry /\ entries[x].age # AgeCap
      <3>1. entries[x] \in Token /\ entries'[x] = [entries[x] EXCEPT !.age = @ + 1]
        BY <1>4, <2>2 DEF EntryTypeOK, AgeEntries
      <3> QED
        BY <2>2, <3>1 DEF Token
    <2> QED
      BY <2>1, <2>2
  <1>5. UNCHANGED entries => EntryTypeOK'
    BY DEF EntryTypeOK
  <1> QED
    BY <1>1, <1>2, <1>3, <1>4, <1>5

\* Every operation on the pending records and the stash keeps their types.
LEMMA PendingOpsTyped ==
  ASSUME PendingTypeOK
  PROVE  /\ \A e \in Epics, o \in Orders, type \in OrderTypes,
              ref \in BOOLEAN, rec \in BOOLEAN :
              MarkPending(e, o, type, ref, rec) => PendingTypeOK'
         /\ \A e \in Epics : PopIfExpired(e) \/ ResolvePending(e)
                               \/ PopStashAndResolve(e) => PendingTypeOK'
         /\ \A es : ResolveAll(es) => PendingTypeOK'
         /\ AgePending => PendingTypeOK'
         /\ UNCHANGED <<pending, stash>> => PendingTypeOK'
  <1> USE AgeAssumption
  <1>1. ASSUME NEW e \in Epics, NEW o \in Orders, NEW type \in OrderTypes,
               NEW ref \in BOOLEAN, NEW rec \in BOOLEAN,
               MarkPending(e, o, type, ref, rec)
        PROVE  PendingTypeOK'
    <2>1. [order |-> o, type |-> type, ref |-> ref, reconcile |-> rec, age |-> 0]
            \in PendingRecord
      BY DEF PendingRecord
    <2> QED
      BY <1>1, <2>1 DEF PendingTypeOK, MarkPending
  <1>2. ASSUME NEW e \in Epics,
               PopIfExpired(e) \/ ResolvePending(e) \/ PopStashAndResolve(e)
        PROVE  PendingTypeOK'
    <2>1. CASE PopIfExpired(e)
      BY <2>1 DEF PendingTypeOK, PopIfExpired
    <2>2. CASE ResolvePending(e)
      BY <2>2 DEF PendingTypeOK, ResolvePending, ResolveAll
    <2>3. CASE PopStashAndResolve(e)
      BY <2>3 DEF PendingTypeOK, PopStashAndResolve
    <2> QED
      BY <1>2, <2>1, <2>2, <2>3
  <1>3. ASSUME NEW es, ResolveAll(es) PROVE PendingTypeOK'
    BY <1>3 DEF PendingTypeOK, ResolveAll
  <1>4. ASSUME AgePending PROVE PendingTypeOK'
    <2> SUFFICES ASSUME NEW x \in Epics
                 PROVE  pending'[x] \in PendingRecord \cup {NoPending}
      BY <1>4 DEF PendingTypeOK, AgePending
    <2>1. CASE pending[x] = NoPending \/ pending[x].age = AgeCap
      BY <1>4, <2>1 DEF PendingTypeOK, AgePending, Older
    <2>2. CASE pending[x] # NoPending /\ pending[x].age # AgeCap
      <3>1. pending[x] \in PendingRecord /\ pending'[x] = [pending[x] EXCEPT !.age = @ + 1]
        BY <1>4, <2>2 DEF PendingTypeOK, AgePending, Older
      <3> QED
        BY <2>2, <3>1 DEF PendingRecord
    <2> QED
      BY <2>1, <2>2
  <1>5. UNCHANGED <<pending, stash>> => PendingTypeOK'
    BY DEF PendingTypeOK
  <1> QED
    BY <1>1, <1>2, <1>3, <1>4, <1>5

\* Every operation of the correlation guard keeps its type: undo clamps at zero.
LEMMA GuardOpsTyped ==
  ASSUME GuardTypeOK, today \in Nat
  PROVE  /\ \A d \in Directions, risk \in Nat :
              TakeSlot(d, risk) \/ RefuseSlot(d, risk) \/ ConfirmHeat(d, risk)
                \/ ReleaseHeat(d, risk) => GuardTypeOK'
         /\ \A d \in Directions : Undo(d) => GuardTypeOK'
         /\ UNCHANGED guardVars => GuardTypeOK'
  <1>1. ASSUME NEW d \in Directions, NEW risk \in Nat,
               TakeSlot(d, risk) \/ RefuseSlot(d, risk) \/ ConfirmHeat(d, risk)
                 \/ ReleaseHeat(d, risk)
        PROVE  GuardTypeOK'
    <2>1. CASE TakeSlot(d, risk)
      BY <2>1 DEF GuardTypeOK, TakeSlot, CountNow, HeatNow
    <2>2. CASE RefuseSlot(d, risk)
      BY <2>2 DEF GuardTypeOK, RefuseSlot, CountNow, HeatNow
    <2>3. CASE ConfirmHeat(d, risk)
      BY <2>3 DEF GuardTypeOK, ConfirmHeat
    <2>4. CASE ReleaseHeat(d, risk)
      BY <2>4 DEF GuardTypeOK, ReleaseHeat, AtLeastZero
    <2> QED
      BY <1>1, <2>1, <2>2, <2>3, <2>4
  <1>2. ASSUME NEW d \in Directions, Undo(d) PROVE GuardTypeOK'
    BY <1>2 DEF GuardTypeOK, Undo, AtLeastZero
  <1>3. UNCHANGED guardVars => GuardTypeOK'
    BY DEF GuardTypeOK, guardVars
  <1> QED
    BY <1>1, <1>2, <1>3

-----------------------------------------------------------------------------
(* Every step preserves the types.                                         *)

\* The steps of execute, on the trading thread, keep every type.
LEMMA GateTyped ==
  ASSUME StateTypeOK, NEW o \in Orders, GateStep(o)
  PROVE  StateTypeOK'
  <1> USE PipelineAssumption DEF StateTypeOK, PipelineTypeOK
  <1>0. /\ EpicOf[o] \in Epics /\ DirOf[o] \in Directions /\ Risk[o] \in Nat
        /\ \A stage \in Stage : Go(o, stage) => pc' \in [Orders -> Stage]
        /\ {"correlate", "begin", "reserve", "start", "post", "refused", "dropped",
            "failed"} \subseteq Stage
    BY DEF Go, Stage, Gate, Worker, Terminal
  <1>1. ASSUME CheckPending(o) PROVE StateTypeOK'
    BY <1>0, <1>1, EntryOpsTyped, PendingOpsTyped, GuardOpsTyped
    DEF CheckPending, tableVars, guardVars, envVars, brokerVars, storeVars, actorVars, Go
  <1>2. ASSUME CorrelationCheck(o) PROVE StateTypeOK'
    BY <1>0, <1>2, EntryOpsTyped, PendingOpsTyped, GuardOpsTyped
    DEF CorrelationCheck, tableVars, guardVars, envVars, brokerVars, storeVars, actorVars, Go
  <1>3. ASSUME BeginEntry(o) PROVE StateTypeOK'
    BY <1>0, <1>3, EntryOpsTyped, PendingOpsTyped, GuardOpsTyped
    DEF BeginEntry, tableVars, guardVars, envVars, brokerVars, storeVars, actorVars, Go
  <1>4. ASSUME ReserveBudget(o) PROVE StateTypeOK'
    BY <1>0, <1>4, EntryOpsTyped, PendingOpsTyped, GuardOpsTyped
    DEF ReserveBudget, tableVars, guardVars, envVars, brokerVars, storeVars, actorVars, Go
  <1>5. ASSUME StartWorker(o) PROVE StateTypeOK'
    BY <1>0, <1>5, EntryOpsTyped, PendingOpsTyped, GuardOpsTyped
    DEF StartWorker, tableVars, guardVars, envVars, brokerVars, storeVars, actorVars, Go
  <1>6. ASSUME WorkerStartFails(o) PROVE StateTypeOK'
    BY <1>0, <1>6, EntryOpsTyped, PendingOpsTyped, GuardOpsTyped
    DEF WorkerStartFails, tableVars, guardVars, envVars, brokerVars, storeVars, actorVars, Go
  <1> QED
    BY <1>1, <1>2, <1>3, <1>4, <1>5, <1>6 DEF GateStep

\* The steps of the worker thread keep every type.
LEMMA WorkerTyped ==
  ASSUME StateTypeOK, NEW o \in Orders, WorkerStep(o)
  PROVE  StateTypeOK'
  <1> USE PipelineAssumption, AgeAssumption DEF StateTypeOK, PipelineTypeOK
  <1>0. /\ EpicOf[o] \in Epics /\ DirOf[o] \in Directions /\ Risk[o] \in Nat
        /\ Referenced(o) \in Positions /\ Stray(o) \in Positions
        /\ Worker \cup Terminal \subseteq Stage
        /\ "entry" \in OrderTypes
    BY DEF Stage, Gate, Worker, Terminal, Referenced, Stray, Positions, OrderTypes
  <1>1. ASSUME PostReferenced(o) PROVE StateTypeOK'
    BY <1>0, <1>1, EntryOpsTyped, PendingOpsTyped, GuardOpsTyped
    DEF PostReferenced, tableVars, guardVars, envVars, brokerVars, storeVars,
        actorVars, Go, Worker, Terminal
  <1>2. ASSUME PostRefused(o) PROVE StateTypeOK'
    BY <1>0, <1>2, EntryOpsTyped, PendingOpsTyped, GuardOpsTyped
    DEF PostRefused, tableVars, guardVars, envVars, brokerVars, storeVars,
        actorVars, Go, Worker, Terminal
  <1>3. ASSUME PostErrors(o) PROVE StateTypeOK'
    <2>1. /\ pc' \in [Orders -> Stage]
          /\ positions' \subseteq Positions
      BY <1>0, <1>3 DEF PostErrors, Go, Worker
    <2>2. attempt' \in [Orders -> 1 .. MaxAttempts]
      BY <1>3 DEF PostErrors
    <2> QED
      BY <1>3, <2>1, <2>2, EntryOpsTyped, PendingOpsTyped, GuardOpsTyped
      DEF PostErrors, tableVars, guardVars, envVars, brokerVars, storeVars,
          actorVars, Go, Worker, Terminal
  <1>4. ASSUME PostRaises(o) PROVE StateTypeOK'
    BY <1>0, <1>4, EntryOpsTyped, PendingOpsTyped, GuardOpsTyped
    DEF PostRaises, tableVars, guardVars, envVars, brokerVars, storeVars,
        actorVars, Go, Worker, Terminal
  <1>5. ASSUME ConfirmAccepted(o) PROVE StateTypeOK'
    BY <1>0, <1>5, EntryOpsTyped, PendingOpsTyped, GuardOpsTyped
    DEF ConfirmAccepted, tableVars, guardVars, envVars, brokerVars, storeVars,
        actorVars, Go, Worker, Terminal
  <1>6. ASSUME ConfirmRejected(o) PROVE StateTypeOK'
    BY <1>0, <1>6, EntryOpsTyped, PendingOpsTyped, GuardOpsTyped
    DEF ConfirmRejected, tableVars, guardVars, envVars, brokerVars, storeVars,
        actorVars, Go, Worker, Terminal
  <1>7. ASSUME ConfirmUnclear(o) PROVE StateTypeOK'
    <2>1. pc' \in [Orders -> Stage]
      BY <1>0, <1>7 DEF ConfirmUnclear, Go, Worker
    <2>2. attempt' \in [Orders -> 1 .. MaxAttempts]
      <3>1. \/ UNCHANGED attempt
            \/ attempt[o] < MaxAttempts /\ attempt' = [attempt EXCEPT ![o] = @ + 1]
        BY <1>7 DEF ConfirmUnclear
      <3> QED
        BY <3>1
    <2>3. PendingTypeOK'
      <3>1. \/ UNCHANGED <<pending, stash>>
            \/ MarkPending(EpicOf[o], o, "entry", TRUE, TRUE)
        BY <1>7 DEF ConfirmUnclear
      <3>2. CASE UNCHANGED <<pending, stash>>
        BY <3>2, PendingOpsTyped
      <3>3. CASE MarkPending(EpicOf[o], o, "entry", TRUE, TRUE)
        BY <1>0, <3>3, PendingOpsTyped
      <3> QED
        BY <3>1, <3>2, <3>3
    <2> QED
      BY <1>7, <2>1, <2>2, <2>3, EntryOpsTyped, GuardOpsTyped
      DEF ConfirmUnclear, tableVars, guardVars, envVars, brokerVars, storeVars,
          actorVars, Go, Worker, Terminal
  <1>8. ASSUME ConfirmRaises(o) PROVE StateTypeOK'
    BY <1>0, <1>8, EntryOpsTyped, PendingOpsTyped, GuardOpsTyped
    DEF ConfirmRaises, tableVars, guardVars, envVars, brokerVars, storeVars,
        actorVars, Go, Worker, Terminal
  <1>9. ASSUME StopFailsafe(o) PROVE StateTypeOK'
    BY <1>0, <1>9, EntryOpsTyped, PendingOpsTyped, GuardOpsTyped
    DEF StopFailsafe, tableVars, guardVars, envVars, brokerVars, storeVars,
        actorVars, Go, Worker, Terminal
  <1>10. ASSUME RecordFill(o) PROVE StateTypeOK'
    <2>1. pc' \in [Orders -> Stage] /\ dealRisk' \subseteq Positions
      BY <1>0, <1>10 DEF RecordFill, Go, Worker
    <2>2. /\ row' \in [Positions -> {"none", "open", "closed"}]
          /\ rowAge' \in [Positions -> 0 .. AgeCap]
      BY <1>0, <1>10 DEF RecordFill
    <2>3. GuardTypeOK'
      BY <1>0, <1>10, GuardOpsTyped DEF RecordFill
    <2> QED
      BY <1>10, <2>1, <2>2, <2>3, <1>0, EntryOpsTyped, PendingOpsTyped
      DEF RecordFill, tableVars, guardVars, envVars, brokerVars, storeVars,
          actorVars, Go, Worker, Terminal
  <1>11. ASSUME RecordFillRaises(o) PROVE StateTypeOK'
    BY <1>0, <1>11, EntryOpsTyped, PendingOpsTyped, GuardOpsTyped
    DEF RecordFillRaises, tableVars, guardVars, envVars, brokerVars, storeVars,
        actorVars, Go, Worker, Terminal
  <1>12. ASSUME WorkerResolve(o) PROVE StateTypeOK'
    BY <1>0, <1>12, EntryOpsTyped, PendingOpsTyped, GuardOpsTyped
    DEF WorkerResolve, tableVars, guardVars, envVars, brokerVars, storeVars,
        actorVars, Go, Worker, Terminal
  <1>13. ASSUME FailWithRef(o) PROVE StateTypeOK'
    BY <1>0, <1>13, EntryOpsTyped, PendingOpsTyped, GuardOpsTyped
    DEF FailWithRef, tableVars, guardVars, envVars, brokerVars, storeVars,
        actorVars, Go, Worker, Terminal
  <1>14. ASSUME FailNoRef(o) PROVE StateTypeOK'
    BY <1>0, <1>14, EntryOpsTyped, PendingOpsTyped, GuardOpsTyped
    DEF FailNoRef, tableVars, guardVars, envVars, brokerVars, storeVars,
        actorVars, Go, Worker, Terminal
  <1>15. ASSUME FailException(o) PROVE StateTypeOK'
    BY <1>0, <1>15, EntryOpsTyped, PendingOpsTyped, GuardOpsTyped
    DEF FailException, tableVars, guardVars, envVars, brokerVars, storeVars,
        actorVars, Go, Worker, Terminal
  <1>16. ASSUME Finally(o) PROVE StateTypeOK'
    BY <1>0, <1>16, EntryOpsTyped, PendingOpsTyped, GuardOpsTyped
    DEF Finally, tableVars, guardVars, envVars, brokerVars, storeVars,
        actorVars, Go, Worker, Terminal
  <1> QED
    BY <1>1, <1>2, <1>3, <1>4, <1>5, <1>6, <1>7, <1>8, <1>9, <1>10, <1>11, <1>12, <1>13, <1>14, <1>15, <1>16 DEF WorkerStep

\* What happens to a position, at the broker and in the closer, keeps every type.
LEMMA MarketTyped ==
  ASSUME StateTypeOK, NEW p \in Positions,
         BrokerCloses(p) \/ CloseVerified(p) \/ CloseRaises(p) \/ BookExit(p)
  PROVE  StateTypeOK'
  <1> USE PipelineAssumption DEF StateTypeOK, PipelineTypeOK
  <1>0. /\ p[1] \in Orders /\ EpicOfPos(p) \in Epics
        /\ DirOf[p[1]] \in Directions /\ Risk[p[1]] \in Nat
    BY DEF Positions, EpicOfPos
  <1>1. ASSUME BrokerCloses(p) PROVE StateTypeOK'
    BY <1>1, EntryOpsTyped, PendingOpsTyped, GuardOpsTyped
    DEF BrokerCloses, tableVars, guardVars, storeVars, actorVars
  <1>2. ASSUME CloseVerified(p) PROVE StateTypeOK'
    BY <1>0, <1>2, EntryOpsTyped, PendingOpsTyped, GuardOpsTyped
    DEF CloseVerified, guardVars, storeVars, actorVars
  <1>3. ASSUME CloseRaises(p) PROVE StateTypeOK'
    <2>1. PendingTypeOK'
      BY <1>0, <1>3, PendingOpsTyped DEF CloseRaises, OrderTypes
    <2>2. positions' \subseteq Positions
      BY <1>3 DEF CloseRaises
    <2> QED
      BY <1>3, <2>1, <2>2, EntryOpsTyped, GuardOpsTyped
      DEF CloseRaises, guardVars, storeVars, actorVars
  <1>4. ASSUME BookExit(p) PROVE StateTypeOK'
    <2>1. GuardTypeOK'
      BY <1>0, <1>4, GuardOpsTyped DEF BookExit
    <2> QED
      BY <1>4, <2>1, EntryOpsTyped, PendingOpsTyped
      DEF BookExit, brokerVars, actorVars
  <1> QED
    BY <1>1, <1>2, <1>3, <1>4

\* The per-instrument steps of the reconciler and of the reaper keep every type.
LEMMA EpicStepTyped ==
  ASSUME StateTypeOK, NEW e \in Epics,
         RecVerify(e) \/ ReaperScan(e) \/ ReaperEvict(e)
  PROVE  StateTypeOK'
  <1> USE DEF StateTypeOK, PipelineTypeOK
  <1>1. ASSUME RecVerify(e) PROVE StateTypeOK'
    <2>1. VerdictsOn(pending[e]) \subseteq Verdicts
      BY DEF VerdictsOn, Verdicts
    <2>2. job' \in [epic : Epics, verdict : Verdicts]
      BY <1>1, <2>1 DEF RecVerify
    <2> QED
      BY <1>1, <2>2, EntryOpsTyped, PendingOpsTyped, GuardOpsTyped
      DEF RecVerify, tableVars, guardVars, brokerVars, storeVars
  <1>2. ASSUME ReaperScan(e) PROVE StateTypeOK'
    BY <1>2, EntryOpsTyped, PendingOpsTyped, GuardOpsTyped
    DEF ReaperScan, tableVars, guardVars, brokerVars, storeVars
  <1>3. ASSUME ReaperEvict(e) PROVE StateTypeOK'
    BY <1>3, EntryOpsTyped, PendingOpsTyped, GuardOpsTyped
    DEF ReaperEvict, guardVars, brokerVars, storeVars
  <1> QED
    BY <1>1, <1>2, <1>3

\* The remaining steps of the background threads, and the clock, keep every type.
LEMMA ThreadTyped ==
  ASSUME StateTypeOK,
         \/ RecApply \/ SyncFetch \/ SyncApply
         \/ OrphanReconcile \/ Tick \/ Quiescent
  PROVE  StateTypeOK'
  <1> USE PipelineAssumption, AgeAssumption DEF StateTypeOK, PipelineTypeOK
  <1>1. ASSUME RecApply PROVE StateTypeOK'
    <2>1. job.epic \in Epics
      BY <1>1 DEF RecApply
    <2>2. PendingTypeOK'
      BY <1>1, <2>1, PendingOpsTyped DEF RecApply
    <2> QED
      BY <1>1, <2>2, EntryOpsTyped, GuardOpsTyped
      DEF RecApply, guardVars, brokerVars, storeVars
  <1>2. ASSUME SyncFetch PROVE StateTypeOK'
    BY <1>2, EntryOpsTyped, PendingOpsTyped, GuardOpsTyped
    DEF SyncFetch, Snapshot, tableVars, guardVars, brokerVars, storeVars
  <1>3. ASSUME SyncApply PROVE StateTypeOK'
    <2>1. /\ row' \in [Positions -> {"none", "open", "closed"}]
          /\ rowAge' \in [Positions -> 0 .. AgeCap]
      BY <1>3 DEF SyncApply
    <2>2. EntryTypeOK' /\ PendingTypeOK'
      BY <1>3, EntryOpsTyped, PendingOpsTyped DEF SyncApply
    <2>3. view' \in Snapshot
      BY <1>3 DEF SyncApply, NoView, Snapshot
    <2> QED
      BY <1>3, <2>1, <2>2, <2>3, GuardOpsTyped
      DEF SyncApply, guardVars, brokerVars
  <1>4. ASSUME OrphanReconcile PROVE StateTypeOK'
    <2>1. dealRisk' \subseteq Positions /\ held' \subseteq Orders
      BY <1>4 DEF OrphanReconcile, OpenRows, Positions
    <2> QED
      BY <1>4, <2>1, EntryOpsTyped, PendingOpsTyped, GuardOpsTyped
      DEF OrphanReconcile, guardVars, brokerVars, actorVars
  <1>5. ASSUME Tick PROVE StateTypeOK'
    <2>1. rowAge' \in [Positions -> 0 .. AgeCap]
      BY <1>5 DEF Tick
    <2>2. EntryTypeOK' /\ PendingTypeOK'
      BY <1>5, EntryOpsTyped, PendingOpsTyped DEF Tick
    <2> QED
      BY <1>5, <2>1, <2>2, GuardOpsTyped DEF Tick, guardVars, brokerVars, actorVars
  <1>6. ASSUME Quiescent PROVE StateTypeOK'
    BY <1>6, EntryOpsTyped, PendingOpsTyped, GuardOpsTyped
    DEF Quiescent, vars, tableVars, guardVars, brokerVars, storeVars, actorVars
  <1> QED
    BY <1>1, <1>2, <1>3, <1>4, <1>5, <1>6

\* A step that changes nothing keeps every type.
LEMMA StutterTyped == StateTypeOK /\ UNCHANGED vars => StateTypeOK'
  BY EntryOpsTyped, PendingOpsTyped, GuardOpsTyped
  DEF StateTypeOK, PipelineTypeOK, vars, tableVars, guardVars, brokerVars,
      storeVars, actorVars

\* The broker's decision of an order keeps every type.
LEMMA SettleTyped ==
  ASSUME StateTypeOK, NEW o \in Orders, Settle(o)
  PROVE  StateTypeOK'
  <1>1. Referenced(o) \in Positions
    BY DEF Referenced, Positions
  <1> QED
    BY <1>1, EntryOpsTyped, PendingOpsTyped, GuardOpsTyped
    DEF Settle, StateTypeOK, PipelineTypeOK, tableVars, guardVars, storeVars, actorVars

\* Every step keeps every type.
LEMMA NextTyped == StateTypeOK /\ [Next]_vars => StateTypeOK'
  BY GateTyped, WorkerTyped, SettleTyped, MarketTyped, EpicStepTyped,
     ThreadTyped, StutterTyped
  DEF Next, ReconcilerStep

\* In every reachable state each table and each thread holds values of its
\* type: no poll goes past the last attempt, no direction counter is negative.
THEOREM StateTyped == Spec => []StateTypeOK
  BY InitTyped, NextTyped, PTL DEF Spec

-----------------------------------------------------------------------------
(* The envelope.                                                           *)

\* Every operation of the envelope on a natural number keeps its type.
LEMMA EnvelopeOpsTyped ==
  ASSUME EnvelopeTypeOK, today \in Nat
  PROVE  /\ \A risk \in Nat : Reserve(risk, pnl) => EnvelopeTypeOK'
         /\ \A risk \in Nat : Refuse(risk, pnl) => EnvelopeTypeOK'
         /\ \A risk \in Nat : ReleaseAllocation(risk) => EnvelopeTypeOK'
         /\ \A risk \in Nat : RecordExit(risk, 0) => EnvelopeTypeOK'
         /\ UNCHANGED envVars => EnvelopeTypeOK'
  <1>1. ASSUME NEW risk \in Nat, Reserve(risk, pnl) PROVE EnvelopeTypeOK'
    BY <1>1 DEF EnvelopeTypeOK, Reserve, DailyNow, PnlNow
  <1>2. ASSUME NEW risk \in Nat, Refuse(risk, pnl) PROVE EnvelopeTypeOK'
    BY <1>2 DEF EnvelopeTypeOK, Refuse, DailyNow, PnlNow
  <1>3. ASSUME NEW risk \in Nat, ReleaseAllocation(risk) PROVE EnvelopeTypeOK'
    BY <1>3 DEF EnvelopeTypeOK, ReleaseAllocation, AtLeastZero
  <1>4. ASSUME NEW risk \in Nat, RecordExit(risk, 0) PROVE EnvelopeTypeOK'
    BY <1>4 DEF EnvelopeTypeOK, RecordExit, AtLeastZero
  <1>5. UNCHANGED envVars => EnvelopeTypeOK'
    BY DEF EnvelopeTypeOK, envVars
  <1> QED
    BY <1>1, <1>2, <1>3, <1>4, <1>5

\* Every step is an operation of the envelope on a natural number or the orphan
\* reconciliation, or leaves the envelope alone.
LEMMA EnvelopeSteps ==
  ASSUME StateTypeOK, [Next]_vars
  PROVE  \/ \E risk \in Nat : \/ Reserve(risk, pnl) \/ Refuse(risk, pnl)
                              \/ ReleaseAllocation(risk) \/ RecordExit(risk, 0)
         \/ OrphanReconcile \/ UNCHANGED envVars
  <1> DEFINE Op(risk) == \/ Reserve(risk, pnl) \/ Refuse(risk, pnl)
                         \/ ReleaseAllocation(risk) \/ RecordExit(risk, 0)
             Goal == (\E risk \in Nat : Op(risk)) \/ OrphanReconcile \/ UNCHANGED envVars
  <1>1. ASSUME NEW o \in Orders, GateStep(o) PROVE Goal
    <2>1. Risk[o] \in Nat /\ 2 * Risk[o] \in Nat
      BY PipelineAssumption
    <2>2. CASE ReserveBudget(o)
      BY <2>1, <2>2 DEF ReserveBudget
    <2>3. CASE WorkerStartFails(o)
      BY <2>1, <2>3 DEF WorkerStartFails
    <2>4. CASE CheckPending(o) \/ CorrelationCheck(o) \/ BeginEntry(o) \/ StartWorker(o)
      BY <2>4 DEF CheckPending, CorrelationCheck, BeginEntry, StartWorker,
                  tableVars, envVars
    <2> QED
      BY <1>1, <2>2, <2>3, <2>4 DEF GateStep
  <1>2. ASSUME NEW o \in Orders, WorkerStep(o) PROVE Goal
    <2>1. Risk[o] \in Nat
      BY PipelineAssumption
    <2>2. CASE FailNoRef(o) \/ FailException(o)
      BY <2>1, <2>2 DEF FailNoRef, FailException
    <2>3. CASE \/ PostReferenced(o) \/ PostRefused(o) \/ PostErrors(o) \/ PostRaises(o)
               \/ ConfirmAccepted(o) \/ ConfirmRejected(o) \/ ConfirmUnclear(o)
               \/ ConfirmRaises(o) \/ StopFailsafe(o) \/ RecordFill(o)
               \/ RecordFillRaises(o) \/ WorkerResolve(o) \/ FailWithRef(o) \/ Finally(o)
      BY <2>3 DEF PostReferenced, PostRefused, PostErrors, PostRaises, ConfirmAccepted, ConfirmRejected,
                  ConfirmUnclear, ConfirmRaises, StopFailsafe, RecordFill,
                  RecordFillRaises, WorkerResolve, FailWithRef, Finally,
                  tableVars, envVars
    <2> QED
      BY <1>2, <2>2, <2>3 DEF WorkerStep
  <1>3. ASSUME NEW p \in Positions, BookExit(p) PROVE Goal
    <2>1. Risk[p[1]] \in Nat
      BY PipelineAssumption DEF Positions
    <2> QED
      BY <1>3, <2>1 DEF BookExit
  <1>4. ASSUME NEW p \in Positions,
               BrokerCloses(p) \/ CloseVerified(p) \/ CloseRaises(p)
        PROVE  Goal
    BY <1>4 DEF BrokerCloses, CloseVerified, CloseRaises, tableVars, envVars
  <1>5. ASSUME RecApply PROVE Goal
    <2>1. CASE job.verdict = "release" /\ stash[job.epic] # NoStash
      <3>1. stash[job.epic] \in Orders
        BY <1>5, <2>1 DEF RecApply, StateTypeOK, PipelineTypeOK, PendingTypeOK
      <3>2. Risk[stash[job.epic]] \in Nat
        BY <3>1, PipelineAssumption
      <3> QED
        BY <1>5, <2>1, <3>2 DEF RecApply
    <2> QED
      BY <1>5, <2>1 DEF RecApply
  <1>6. ASSUME NEW e \in Epics, RecVerify(e) \/ ReaperScan(e) \/ ReaperEvict(e)
        PROVE  Goal
    BY <1>6 DEF RecVerify, ReaperScan, ReaperEvict, tableVars, envVars
  <1>7. ASSUME NEW o \in Orders, Settle(o) PROVE Goal
    BY <1>7 DEF Settle, tableVars, envVars
  <1>8. ASSUME SyncFetch \/ SyncApply \/ Tick PROVE Goal
    BY <1>8 DEF SyncFetch, SyncApply, Tick, tableVars, envVars
  <1>9. UNCHANGED vars \/ Quiescent => Goal
    BY DEF Quiescent, vars, tableVars, envVars
  <1> QED
    BY <1>1, <1>2, <1>3, <1>4, <1>5, <1>6, <1>7, <1>8, <1>9
    DEF Next, ReconcilerStep

\* The risk of a position is that of its order.
PosRisk == [p \in Positions |-> Risk[p[1]]]

\* The fold of the model over positions is the sum of their risks.
LEMMA SumRiskIsSum ==
  ASSUME NEW S \in SUBSET Positions
  PROVE  SumRisk(S) = Sum(PosRisk, S)
  <1>1. \A s \in SUBSET S : s # {} => PosRisk[Pick(s)] = Risk[Pick(s)[1]]
    BY DEF Pick, PosRisk
  <1>2. \A F : Sums(F, PosRisk, S) <=>
                 F = [s \in SUBSET S |-> IF s = {} THEN 0
                                         ELSE Risk[Pick(s)[1]] + F[s \ {Pick(s)}]]
    BY <1>1 DEF Sums
  <1>3. SumRisk(S) = (CHOOSE F : F = [s \in SUBSET S |-> IF s = {} THEN 0
                                ELSE Risk[Pick(s)[1]] + F[s \ {Pick(s)}]])[S]
    BY DEF SumRisk, MapThenSumSet, MapThenFoldSet, Pick
  <1>4. (CHOOSE F : Sums(F, PosRisk, S))
          = (CHOOSE F : F = [s \in SUBSET S |-> IF s = {} THEN 0
                                ELSE Risk[Pick(s)[1]] + F[s \ {Pick(s)}]])
    BY <1>2, Zenon
  <1> QED
    BY <1>3, <1>4, Unfolded

\* The sum of the risks of some positions is a natural number.
LEMMA PositionSums ==
  ASSUME IsFiniteSet(Orders), NEW S \in SUBSET Positions
  PROVE  /\ SumRisk(S) \in Nat
         /\ \A p \in S : /\ SumRisk(S \ {p}) \in Nat
                         /\ SumRisk(S) = Risk[p[1]] + SumRisk(S \ {p})
         /\ \A p \in Positions \ S : SumRisk(S \cup {p}) = SumRisk(S) + Risk[p[1]]
  <1>1. \A p \in Positions : PosRisk[p] = Risk[p[1]] /\ PosRisk[p] \in Nat /\ PosRisk[p] \in Int
    BY PipelineAssumption DEF PosRisk, Positions
  <1>2. IsFiniteSet(Positions)
    <2>1. IsFiniteSet({"referenced", "stray"})
      <3>1. IsFiniteSet({} \cup {"referenced"})
        BY FS_EmptySet, FS_AddElement
      <3>2. IsFiniteSet(({} \cup {"referenced"}) \cup {"stray"})
        BY <3>1, FS_AddElement
      <3>3. ({} \cup {"referenced"}) \cup {"stray"} = {"referenced", "stray"}
        OBVIOUS
      <3> QED
        BY <3>2, <3>3
    <2> QED
      BY <2>1, FS_Product DEF Positions
  <1>3. ASSUME NEW T \in SUBSET Positions
        PROVE  IsFiniteSet(T) /\ SumRisk(T) = Sum(PosRisk, T) /\ SumRisk(T) \in Nat
    <2>1. IsFiniteSet(T)
      BY <1>2, FS_Subset
    <2> QED
      BY <1>1, <2>1, SumNatural, SumRiskIsSum
  <1>4. ASSUME NEW p \in S
        PROVE  /\ SumRisk(S \ {p}) \in Nat
               /\ SumRisk(S) = Risk[p[1]] + SumRisk(S \ {p})
    <2>1. Sum(PosRisk, S) = PosRisk[p] + Sum(PosRisk, S \ {p})
      BY <1>1, <1>3, SumRemove
    <2>2. S \ {p} \in SUBSET Positions
      OBVIOUS
    <2> QED
      BY <1>1, <1>3, <2>1, <2>2
  <1>5. ASSUME NEW p \in Positions \ S
        PROVE  SumRisk(S \cup {p}) = SumRisk(S) + Risk[p[1]]
    <2>1. Sum(PosRisk, S \cup {p}) = Sum(PosRisk, S) + PosRisk[p]
      BY <1>1, <1>3, SumAdd
    <2>2. S \cup {p} \in SUBSET Positions
      OBVIOUS
    <2> QED
      BY <1>1, <1>3, <2>1, <2>2
  <1> QED
    BY <1>3, <1>4, <1>5


\* The orphan reconciliation overwrites the counters by sums of risks.
LEMMA OrphanTyped ==
  ASSUME IsFiniteSet(Orders), StateTypeOK, EnvelopeTypeOK, OrphanReconcile
  PROVE  EnvelopeTypeOK'
  <1> DEFINE agentRows == {p \in Positions : p[2] = "referenced" /\
                             pc[p[1]] \in {"success", "closingOk", "confirmed"}}
  <1>1. SumRisk(OpenRows) \in Nat /\ SumRisk(agentRows) \in Nat
    BY PositionSums DEF OpenRows
  <1>2. Rehydrate(0, 0, 0) \/ Rehydrate(SumRisk(OpenRows), SumRisk(agentRows), 0)
    BY DEF OrphanReconcile
  <1> HIDE DEF agentRows
  <1> QED
    BY <1>1, <1>2 DEF Rehydrate, EnvelopeTypeOK

\* The whole type invariant, which says of the risk counters that they are
\* never negative, whatever faults occur and whichever threads run.
THEOREM TypeCorrect ==
  ASSUME IsFiniteSet(Orders)
  PROVE  Spec => []TypeOK
  <1>1. Init => EnvelopeTypeOK
    BY DEF Init, EnvelopeInit, EnvelopeTypeOK
  <1>2. StateTypeOK /\ EnvelopeTypeOK /\ [Next]_vars => EnvelopeTypeOK'
    BY EnvelopeSteps, EnvelopeOpsTyped, OrphanTyped DEF StateTypeOK, PipelineTypeOK
  <1>3. StateTypeOK /\ EnvelopeTypeOK => TypeOK
    BY DEF StateTypeOK, TypeOK
  <1> QED
    BY <1>1, <1>2, <1>3, StateTyped, PTL DEF Spec

-----------------------------------------------------------------------------
(* A referenced order is never posted again.  The invariant behind it: a   *)
(* worker that may still post has no reference, and nothing leads back to  *)
(* the post stage.                                                         *)

BeforePost == {"idle", "post"} \cup Gate
PostFresh == \A o \in Orders : pc[o] \in BeforePost => broker[o] = "none"

\* A step changes the stage of one order at most, and only a gate step makes it
\* one from which the order can still be posted.
LEMMA StageSteps ==
  ASSUME StateTypeOK, [Next]_vars
  PROVE  \/ UNCHANGED pc
         \/ \E o \in Orders, s \in Stage :
              /\ Go(o, s)
              /\ pc[o] \in BeforePost \/ s \notin BeforePost
  <1> DEFINE Move(o) == \E s \in Stage :
                          /\ Go(o, s) /\ (pc[o] \in BeforePost \/ s \notin BeforePost)
             Goal == UNCHANGED pc \/ \E o \in Orders : Move(o)
  <1> USE DEF BeforePost, Stage, Gate, Worker, Terminal
  <1>1. ASSUME NEW o \in Orders, GateStep(o) PROVE Move(o)
    BY <1>1 DEF GateStep, CheckPending, CorrelationCheck, BeginEntry, ReserveBudget,
                StartWorker, WorkerStartFails
  <1>2. ASSUME NEW o \in Orders, WorkerStep(o) PROVE Goal
    <2> DEFINE Onward == \E s \in (Worker \ {"post"}) \cup Terminal : Go(o, s)
    <2>1. Onward => Move(o)
      OBVIOUS
    <2>2. CASE PostReferenced(o)
      <3>1. Go(o, "filled") \/ Go(o, "confirm")
        BY <2>2 DEF PostReferenced
      <3> QED
        BY <2>1, <3>1
    <2>3. CASE PostErrors(o)
      <3>1. UNCHANGED pc \/ Go(o, "failnoref")
        BY <2>3 DEF PostErrors
      <3> QED
        BY <2>1, <3>1
    <2>4. CASE ConfirmUnclear(o)
      <3>1. UNCHANGED pc \/ Go(o, "failref")
        BY <2>4 DEF ConfirmUnclear
      <3> QED
        BY <2>1, <3>1
    <2>5. CASE PostRefused(o) \/ PostRaises(o) \/ ConfirmAccepted(o)
               \/ ConfirmRejected(o) \/ ConfirmRaises(o)
      <3>1. Onward
        BY <2>5 DEF PostRefused, PostRaises, ConfirmAccepted, ConfirmRejected, ConfirmRaises
      <3> QED
        BY <2>1, <3>1
    <2>6. CASE StopFailsafe(o) \/ RecordFill(o) \/ RecordFillRaises(o) \/ WorkerResolve(o)
      <3>1. Onward
        BY <2>6 DEF StopFailsafe, RecordFill, RecordFillRaises, WorkerResolve
      <3> QED
        BY <2>1, <3>1
    <2>7. CASE FailWithRef(o) \/ FailNoRef(o) \/ FailException(o) \/ Finally(o)
      <3>1. Onward
        BY <2>7 DEF FailWithRef, FailNoRef, FailException, Finally
      <3> QED
        BY <2>1, <3>1
    <2> QED
      BY <1>2, <2>2, <2>3, <2>4, <2>5, <2>6, <2>7 DEF WorkerStep
  <1>3. ASSUME \/ RecApply \/ SyncFetch \/ SyncApply \/ OrphanReconcile \/ Tick
               \/ Quiescent \/ UNCHANGED vars
        PROVE  Goal
    BY <1>3 DEF RecApply, SyncFetch, SyncApply, OrphanReconcile, Tick, Quiescent, vars
  <1>4. ASSUME NEW p \in Positions,
               BrokerCloses(p) \/ CloseVerified(p) \/ CloseRaises(p) \/ BookExit(p)
        PROVE  Goal
    BY <1>4 DEF BrokerCloses, CloseVerified, CloseRaises, BookExit
  <1>5. ASSUME NEW e \in Epics, RecVerify(e) \/ ReaperScan(e) \/ ReaperEvict(e)
        PROVE  Goal
    BY <1>5 DEF RecVerify, ReaperScan, ReaperEvict
  <1>6. ASSUME NEW o \in Orders, Settle(o) PROVE Goal
    BY <1>6 DEF Settle
  <1> QED
    BY <1>1, <1>2, <1>3, <1>4, <1>5, <1>6 DEF Next, ReconcilerStep

\* What a step may do to the broker's side: post an order that is in the post
\* stage, decide an order it works on, add a stray of a posting order, or take
\* positions away.
LEMMA BrokerSteps ==
  ASSUME StateTypeOK, [Next]_vars
  PROVE  \/ /\ UNCHANGED broker
            /\ UNCHANGED positions \/ \E p \in Positions : positions' = positions \ {p}
         \/ \E o \in Orders : PostReferenced(o) \/ Settle(o) \/ PostErrors(o)
  <1> DEFINE Quiet == /\ UNCHANGED broker
                      /\ \/ UNCHANGED positions
                         \/ \E p \in Positions : positions' = positions \ {p}
             Goal == Quiet \/ \E o \in Orders :
                       PostReferenced(o) \/ Settle(o) \/ PostErrors(o)
  <1> USE DEF brokerVars
  <1>1. ASSUME NEW o \in Orders, GateStep(o) PROVE Quiet
    BY <1>1 DEF GateStep, CheckPending, CorrelationCheck, BeginEntry, ReserveBudget,
                StartWorker, WorkerStartFails
  <1>2. ASSUME NEW o \in Orders, WorkerStep(o) PROVE Goal
    <2>1. CASE StopFailsafe(o)
      <3>1. Referenced(o) \in Positions
        BY DEF Referenced, Positions
      <3> QED
        BY <2>1, <3>1 DEF StopFailsafe
    <2>2. CASE \/ PostRefused(o) \/ PostRaises(o) \/ ConfirmAccepted(o)
               \/ ConfirmRejected(o) \/ ConfirmUnclear(o) \/ ConfirmRaises(o)
               \/ RecordFill(o) \/ RecordFillRaises(o) \/ WorkerResolve(o)
               \/ FailWithRef(o) \/ FailNoRef(o) \/ FailException(o) \/ Finally(o)
      BY <2>2 DEF PostRefused, PostRaises, ConfirmAccepted, ConfirmRejected,
         ConfirmUnclear, ConfirmRaises, RecordFill, RecordFillRaises, WorkerResolve,
         FailWithRef, FailNoRef, FailException, Finally
    <2> QED
      BY <1>2, <2>1, <2>2 DEF WorkerStep
  <1>3. ASSUME \/ RecApply \/ SyncFetch \/ SyncApply \/ OrphanReconcile \/ Tick
               \/ Quiescent \/ UNCHANGED vars
        PROVE  Quiet
    BY <1>3 DEF RecApply, SyncFetch, SyncApply, OrphanReconcile, Tick, Quiescent, vars
  <1>4. ASSUME NEW p \in Positions,
               BrokerCloses(p) \/ CloseVerified(p) \/ CloseRaises(p) \/ BookExit(p)
        PROVE  Quiet
    BY <1>4 DEF BrokerCloses, CloseVerified, CloseRaises, BookExit
  <1>5. ASSUME NEW e \in Epics, RecVerify(e) \/ ReaperScan(e) \/ ReaperEvict(e)
        PROVE  Quiet
    BY <1>5 DEF RecVerify, ReaperScan, ReaperEvict
  <1> QED
    BY <1>1, <1>2, <1>3, <1>4, <1>5 DEF Next, ReconcilerStep

\* Every step keeps the invariant: an order at or before the post stage has no
\* reference.
LEMMA PostFreshStep ==
  ASSUME StateTypeOK, PostFresh, [Next]_vars
  PROVE  PostFresh'
  <1> SUFFICES ASSUME NEW x \in Orders, pc'[x] \in BeforePost
               PROVE  broker'[x] = "none"
    BY DEF PostFresh
  <1>1. pc \in [Orders -> Stage] /\ DOMAIN broker = Orders
    BY DEF StateTypeOK, PipelineTypeOK
  <1>2. pc[x] \in BeforePost /\ broker[x] = "none"
    BY <1>1, StageSteps DEF Go, PostFresh
  <1>3. ASSUME NEW o \in Orders, PostReferenced(o) PROVE broker'[x] = "none"
    BY <1>1, <1>2, <1>3 DEF PostReferenced, Go, BeforePost, Gate
  <1>4. ASSUME NEW o \in Orders, Settle(o) PROVE broker'[x] = "none"
    BY <1>1, <1>2, <1>4 DEF Settle
  <1>5. ASSUME NEW o \in Orders, PostErrors(o) PROVE broker'[x] = "none"
    BY <1>2, <1>5 DEF PostErrors
  <1> QED
    BY <1>2, <1>3, <1>4, <1>5, BrokerSteps

\* Once the broker has given a reference, no retry, poll or other step places
\* the order a second time, whatever faults occur.
THEOREM NeverReposted == Spec => NoRepostOnceReferenced
  <1>1. Init => PostFresh
    BY DEF Init, PostFresh
  <1>2. StateTypeOK /\ PostFresh /\ [Next]_vars => PostFresh'
    BY PostFreshStep
  <1> DEFINE Once == \A o \in Orders : broker[o] # "none" =>
                       /\ broker'[o] = "working" => broker[o] = "working"
                       /\ Stray(o) \in positions' => Stray(o) \in positions
  <1>3. StateTypeOK /\ PostFresh /\ [Next]_vars => [Once]_vars
    <2> SUFFICES ASSUME StateTypeOK, PostFresh, [Next]_vars,
                        NEW x \in Orders, broker[x] # "none"
                 PROVE  /\ broker'[x] = "working" => broker[x] = "working"
                        /\ Stray(x) \in positions' => Stray(x) \in positions
      OBVIOUS
    <2>1. pc[x] # "post" /\ DOMAIN broker = Orders
      BY DEF PostFresh, BeforePost, StateTypeOK, PipelineTypeOK
    <2>2. ASSUME NEW o \in Orders, PostReferenced(o)
          PROVE  UNCHANGED positions /\ broker'[x] = broker[x]
      BY <2>1, <2>2 DEF PostReferenced
    <2>3. ASSUME NEW o \in Orders, Settle(o)
          PROVE  /\ broker'[x] = "working" => broker[x] = "working"
                 /\ Stray(x) \in positions' => Stray(x) \in positions
      BY <2>1, <2>3 DEF Settle, Stray, Referenced
    <2>4. ASSUME NEW o \in Orders, PostErrors(o)
          PROVE  /\ UNCHANGED broker
                 /\ Stray(x) \in positions' => Stray(x) \in positions
      BY <2>1, <2>4 DEF PostErrors, Stray
    <2> QED
      BY <2>2, <2>3, <2>4, BrokerSteps
  <1> QED
    BY <1>1, <1>2, <1>3, StateTyped, PTL DEF Spec, NoRepostOnceReferenced

-----------------------------------------------------------------------------
(* The direction slots.  A step keeps the set of slot holders, adds one    *)
(* through check_and_record, or removes one through undo.                  *)

NoSlot == {"idle", "correlate", "refused", "closingFail", "failed"}

\* The step changes neither the guard's counts nor who holds a slot.
SlotsKept ==
  /\ UNCHANGED <<count, session>>
  /\ \/ UNCHANGED pc
     \/ \E o \in Orders, s \in Stage :
          Go(o, s) /\ (pc[o] \in NoSlot <=> s \in NoSlot)

SlotTaken(o) == pc[o] = "correlate" /\ Go(o, "begin") /\ TakeSlot(DirOf[o], Risk[o])
SlotRefused(o) == pc[o] = "correlate" /\ Go(o, "refused") /\ RefuseSlot(DirOf[o], Risk[o])
SlotUndone(o) ==
  /\ \/ pc[o] = "start" /\ Go(o, "failed")
     \/ pc[o] \in {"failref", "failnoref", "failexc"} /\ Go(o, "closingFail")
  /\ Undo(DirOf[o])

\* Every step keeps the slots, or takes, refuses or undoes one.
LEMMA SlotSteps ==
  ASSUME StateTypeOK, [Next]_vars
  PROVE  \/ SlotsKept
         \/ \E o \in Orders : SlotTaken(o) \/ SlotRefused(o) \/ SlotUndone(o)
  <1> DEFINE Goal == \/ SlotsKept
                     \/ \E o \in Orders : SlotTaken(o) \/ SlotRefused(o) \/ SlotUndone(o)
  <1> USE DEF NoSlot, Stage, Gate, Worker, Terminal
  <1>1. ASSUME NEW o \in Orders, GateStep(o) PROVE Goal
    <2>1. CASE CorrelationCheck(o)
      BY <2>1 DEF CorrelationCheck, SlotTaken, SlotRefused
    <2>2. CASE WorkerStartFails(o)
      BY <2>2 DEF WorkerStartFails, SlotUndone
    <2>3. CASE CheckPending(o) \/ StartWorker(o)
      <3>1. UNCHANGED <<count, session>>
        BY <2>3 DEF CheckPending, StartWorker, tableVars, guardVars
      <3> QED
        BY <2>3, <3>1 DEF CheckPending, StartWorker, SlotsKept
    <2>4. CASE BeginEntry(o) \/ ReserveBudget(o)
      <3>1. UNCHANGED <<count, session>>
        BY <2>4 DEF BeginEntry, ReserveBudget, guardVars
      <3> QED
        BY <2>4, <3>1 DEF BeginEntry, ReserveBudget, SlotsKept
    <2> QED
      BY <1>1, <2>1, <2>2, <2>3, <2>4 DEF GateStep
  <1>2. ASSUME NEW o \in Orders, WorkerStep(o) PROVE Goal
    <2> DEFINE Onward == \E s \in Stage \ NoSlot : Go(o, s)
    <2>1. pc[o] \notin NoSlot /\ UNCHANGED <<count, session>> /\ (UNCHANGED pc \/ Onward)
             => Goal
      BY DEF SlotsKept
    <2>2. CASE PostReferenced(o)
      <3>1. Go(o, "filled") \/ Go(o, "confirm")
        BY <2>2 DEF PostReferenced
      <3> QED
        BY <2>1, <2>2, <3>1 DEF PostReferenced, tableVars
    <2>3. CASE PostErrors(o)
      <3>1. UNCHANGED pc \/ Go(o, "failnoref")
        BY <2>3 DEF PostErrors
      <3> QED
        BY <2>1, <2>3, <3>1 DEF PostErrors, tableVars
    <2>4. CASE ConfirmUnclear(o)
      <3>1. UNCHANGED pc \/ Go(o, "failref")
        BY <2>4 DEF ConfirmUnclear
      <3> QED
        BY <2>1, <2>4, <3>1 DEF ConfirmUnclear, guardVars
    <2>5. CASE PostRefused(o) \/ PostRaises(o) \/ ConfirmAccepted(o)
               \/ ConfirmRejected(o) \/ ConfirmRaises(o)
      <3>1. Onward /\ pc[o] \notin NoSlot
        BY <2>5 DEF PostRefused, PostRaises, ConfirmAccepted, ConfirmRejected, ConfirmRaises
      <3>2. UNCHANGED <<count, session>>
        BY <2>5 DEF PostRefused, PostRaises, ConfirmAccepted, ConfirmRejected,
                    ConfirmRaises, tableVars, guardVars
      <3> QED
        BY <2>1, <3>1, <3>2
    <2>6. CASE StopFailsafe(o) \/ RecordFill(o) \/ RecordFillRaises(o) \/ WorkerResolve(o)
      <3>1. Onward /\ pc[o] \notin NoSlot
        BY <2>6 DEF StopFailsafe, RecordFill, RecordFillRaises, WorkerResolve
      <3>2. UNCHANGED <<count, session>>
        BY <2>6 DEF StopFailsafe, RecordFill, RecordFillRaises, WorkerResolve,
                    ConfirmHeat, tableVars, guardVars
      <3> QED
        BY <2>1, <3>1, <3>2
    <2>7. CASE FailWithRef(o) \/ FailNoRef(o) \/ FailException(o)
      BY <2>7 DEF FailWithRef, FailNoRef, FailException, SlotUndone
    <2>8. CASE Finally(o)
      <3>1. UNCHANGED <<count, session>>
        BY <2>8 DEF Finally, guardVars
      <3> QED
        BY <2>8, <3>1 DEF Finally, SlotsKept
    <2> QED
      BY <1>2, <2>2, <2>3, <2>4, <2>5, <2>6, <2>7, <2>8 DEF WorkerStep
  <1>3. ASSUME \/ RecApply \/ SyncFetch \/ SyncApply \/ OrphanReconcile \/ Tick
               \/ Quiescent \/ UNCHANGED vars
        PROVE  SlotsKept
    BY <1>3 DEF RecApply, SyncFetch, SyncApply, OrphanReconcile, Tick, Quiescent, vars,
                SlotsKept, tableVars, guardVars
  <1>4. ASSUME NEW p \in Positions,
               BrokerCloses(p) \/ CloseVerified(p) \/ CloseRaises(p) \/ BookExit(p)
        PROVE  SlotsKept
    BY <1>4 DEF BrokerCloses, CloseVerified, CloseRaises, BookExit, SlotsKept,
                tableVars, guardVars
  <1>5. ASSUME NEW e \in Epics, RecVerify(e) \/ ReaperScan(e) \/ ReaperEvict(e)
        PROVE  SlotsKept
    BY <1>5 DEF RecVerify, ReaperScan, ReaperEvict, SlotsKept, tableVars, guardVars
  <1>6. ASSUME NEW o \in Orders, Settle(o) PROVE SlotsKept
    BY <1>6 DEF Settle, SlotsKept, tableVars
  <1> QED
    BY <1>1, <1>2, <1>3, <1>4, <1>5, <1>6 DEF Next, ReconcilerStep

\* No step changes the calendar day.
LEMMA DayConstant == [Next]_vars => today' = today
  <1>1. ASSUME NEW o \in Orders, GateStep(o) PROVE today' = today
    BY <1>1 DEF GateStep, CheckPending, CorrelationCheck, BeginEntry, ReserveBudget,
                StartWorker, WorkerStartFails
  <1>2. ASSUME NEW o \in Orders, WorkerStep(o) PROVE today' = today
    BY <1>2 DEF WorkerStep, PostReferenced, PostRefused, PostErrors, PostRaises,
                ConfirmAccepted, ConfirmRejected, ConfirmUnclear, ConfirmRaises,
                StopFailsafe, RecordFill, RecordFillRaises, WorkerResolve,
                FailWithRef, FailNoRef, FailException, Finally
  <1>3. ASSUME NEW o \in Orders, Settle(o) PROVE today' = today
    BY <1>3 DEF Settle
  <1>4. ASSUME NEW p \in Positions,
               BrokerCloses(p) \/ CloseVerified(p) \/ CloseRaises(p) \/ BookExit(p)
        PROVE  today' = today
    BY <1>4 DEF BrokerCloses, CloseVerified, CloseRaises, BookExit
  <1>5. ASSUME NEW e \in Epics, RecVerify(e) \/ ReaperScan(e) \/ ReaperEvict(e)
        PROVE  today' = today
    BY <1>5 DEF RecVerify, ReaperScan, ReaperEvict
  <1>6. ASSUME \/ RecApply \/ SyncFetch \/ SyncApply \/ OrphanReconcile \/ Tick
               \/ Quiescent \/ UNCHANGED vars
        PROVE  today' = today
    BY <1>6 DEF RecApply, SyncFetch, SyncApply, OrphanReconcile, Tick, Quiescent, vars
  <1> QED
    BY <1>1, <1>2, <1>3, <1>4, <1>5, <1>6 DEF Next, ReconcilerStep

\* The inductive invariant: the session of the guard is this day's or not set,
\* the counts are those of the slot holders, and none is above the cap.
SlotInv ==
  /\ session \in {-1, today}
  /\ \A d \in Directions : /\ count[d] = Cardinality(SlotsTaken(d))
                            /\ count[d] <= MaxPerDirection

\* Every step keeps the invariant of the slots.
LEMMA SlotInvStep ==
  ASSUME IsFiniteSet(Orders), StateTypeOK, SlotInv, [Next]_vars
  PROVE  SlotInv'
  <1> USE DEF SlotInv
  <1>1. pc \in [Orders -> Stage] /\ count \in [Directions -> Nat] /\ today' = today
    BY DayConstant DEF StateTypeOK, PipelineTypeOK, GuardTypeOK
  <1>2. \A d \in Directions :
          /\ SlotsTaken(d) = {o \in Orders : DirOf[o] = d /\ pc[o] \notin NoSlot}
          /\ SlotsTaken(d)' = {o \in Orders : DirOf[o] = d /\ pc'[o] \notin NoSlot}
    BY DEF SlotsTaken, NoSlot
  <1>3. \A d \in Directions : IsFiniteSet(SlotsTaken(d)) /\ Cardinality(SlotsTaken(d)) \in Nat
    BY FS_Subset, FS_CardinalityType DEF SlotsTaken
  <1>4. CASE SlotsKept
    <2>1. \A d \in Directions : SlotsTaken(d)' = SlotsTaken(d)
      <3>1. \A x \in Orders : pc[x] \in NoSlot <=> pc'[x] \in NoSlot
        BY <1>1, <1>4 DEF SlotsKept, Go
      <3> QED
        BY <1>2, <3>1
    <2>2. /\ \A d \in Directions : count'[d] = count[d]
          /\ session' = session
      BY <1>4 DEF SlotsKept
    <2> QED
      BY <1>1, <2>1, <2>2
  <1>5. ASSUME NEW o \in Orders, SlotTaken(o) PROVE SlotInv'
    <2>1. /\ session' = today /\ \A d \in Directions : CountNow(d) = count[d]
      BY <1>5 DEF SlotTaken, TakeSlot, CountNow, NewSession
    <2>2. /\ count[DirOf[o]] < MaxPerDirection
          /\ \A d \in Directions :
               count'[d] = count[d] + (IF d = DirOf[o] THEN 1 ELSE 0)
      BY <1>5, <2>1, PipelineAssumption DEF SlotTaken, TakeSlot, SlotFree
    <2>3. ASSUME NEW d \in Directions
          PROVE  /\ count'[d] = Cardinality(SlotsTaken(d)')
                 /\ count'[d] <= MaxPerDirection
      <3>1. CASE d = DirOf[o]
        <4>1. SlotsTaken(d)' = SlotsTaken(d) \cup {o} /\ o \notin SlotsTaken(d)
          BY <1>1, <1>2, <1>5, <3>1 DEF SlotTaken, Go, NoSlot
        <4>2. Cardinality(SlotsTaken(d) \cup {o}) = Cardinality(SlotsTaken(d)) + 1
          BY <1>3, <4>1, FS_AddElement
        <4> QED
          BY <1>1, <2>2, <3>1, <4>1, <4>2, GuardAssumption
      <3>2. CASE d # DirOf[o]
        <4>1. SlotsTaken(d)' = SlotsTaken(d)
          BY <1>1, <1>2, <1>5, <3>2 DEF SlotTaken, Go, NoSlot
        <4> QED
          BY <1>1, <2>2, <3>2, <4>1
      <3> QED
        BY <3>1, <3>2
    <2> QED
      BY <1>1, <2>1, <2>3
  <1>6. ASSUME NEW o \in Orders, SlotRefused(o) PROVE SlotInv'
    <2>1. /\ session' = today
          /\ \A d \in Directions : count'[d] = count[d]
      BY <1>6 DEF SlotRefused, RefuseSlot, CountNow, NewSession
    <2>2. \A d \in Directions : SlotsTaken(d)' = SlotsTaken(d)
      <3>1. pc[o] = "correlate" /\ pc' = [pc EXCEPT ![o] = "refused"]
        BY <1>6 DEF SlotRefused, Go
      <3>2. \A x \in Orders : pc[x] \in NoSlot <=> pc'[x] \in NoSlot
        BY <1>1, <3>1 DEF NoSlot
      <3> QED
        BY <1>2, <3>2
    <2> QED
      BY <1>1, <2>1, <2>2
  <1>7. ASSUME NEW o \in Orders, SlotUndone(o) PROVE SlotInv'
    <2>1. /\ session' = session /\ DirOf[o] \in Directions
          /\ count' = [count EXCEPT ![DirOf[o]] = AtLeastZero(@ - 1)]
      BY <1>7, PipelineAssumption DEF SlotUndone, Undo
    <2>2. ASSUME NEW d \in Directions
          PROVE  /\ count'[d] = Cardinality(SlotsTaken(d)')
                 /\ count'[d] <= MaxPerDirection
      <3>1. CASE d = DirOf[o]
        <4>1. SlotsTaken(d)' = SlotsTaken(d) \ {o} /\ o \in SlotsTaken(d)
          BY <1>1, <1>2, <1>7, <3>1 DEF SlotUndone, Go, NoSlot
        <4>2. Cardinality(SlotsTaken(d) \ {o}) = Cardinality(SlotsTaken(d)) - 1
          BY <1>3, <4>1, FS_RemoveElement
        <4>3. Cardinality(SlotsTaken(d) \ {o}) \in Nat
          BY <1>3, FS_RemoveElement, FS_CardinalityType
        <4>4. count[d] \in Nat /\ count[d] = Cardinality(SlotsTaken(d))
              /\ count[d] <= MaxPerDirection
          BY <1>1
        <4>5. count'[d] = AtLeastZero(count[d] - 1)
          BY <1>1, <2>1, <3>1
        <4>6. count[d] - 1 = Cardinality(SlotsTaken(d)') /\ count[d] - 1 \in Nat
          BY <4>1, <4>2, <4>3, <4>4
        <4>7. AtLeastZero(count[d] - 1) = count[d] - 1
          BY <4>6, <4>4 DEF AtLeastZero
        <4> QED
          BY <4>4, <4>5, <4>6, <4>7, GuardAssumption
      <3>2. CASE d # DirOf[o]
        <4>1. SlotsTaken(d)' = SlotsTaken(d)
          <5>1. \A x \in Orders : DirOf[x] = d => pc'[x] = pc[x]
            BY <1>1, <1>7, <3>2 DEF SlotUndone, Go
          <5> QED
            BY <1>2, <5>1
        <4> QED
          BY <1>1, <2>1, <3>2, <4>1
      <3> QED
        BY <3>1, <3>2
    <2> QED
      BY <1>1, <2>1, <2>2
  <1> QED
    BY <1>4, <1>5, <1>6, <1>7, SlotSteps

\* The invariant of the slots holds initially.
LEMMA SlotInvInit == Init => SlotInv
  <1> SUFFICES ASSUME Init PROVE SlotInv
    OBVIOUS
  <1>1. \A d \in Directions : SlotsTaken(d) = {}
    BY DEF Init, SlotsTaken
  <1> QED
    BY <1>1, FS_EmptySet, GuardAssumption DEF Init, GuardInit, SlotInv

\* Over every failure path of execute and of the worker, whatever faults occur,
\* the guard's count of a direction is the number of orders that hold a slot.
THEOREM SlotsBalance ==
  ASSUME IsFiniteSet(Orders)
  PROVE  Spec => []SlotLedger
  <1>1. SlotInv => SlotLedger
    BY DEF SlotInv, SlotLedger
  <1> QED
    BY <1>1, SlotInvInit, SlotInvStep, StateTyped, PTL DEF Spec

\* The entries the agent confirmed in a direction never exceed the session cap.
THEOREM ConfirmedCapped ==
  ASSUME IsFiniteSet(Orders)
  PROVE  Spec => []ConfirmedWithinCap
  <1>1. SlotInv => ConfirmedWithinCap
    <2> SUFFICES ASSUME SlotInv, NEW d \in Directions
                 PROVE  Cardinality({o \in Orders : DirOf[o] = d /\ pc[o] = "confirmed"})
                          <= MaxPerDirection
      BY DEF ConfirmedWithinCap
    <2> DEFINE C == {o \in Orders : DirOf[o] = d /\ pc[o] = "confirmed"}
    <2>1. C \subseteq SlotsTaken(d) /\ IsFiniteSet(SlotsTaken(d))
      BY FS_Subset DEF SlotsTaken
    <2>2. /\ Cardinality(C) <= Cardinality(SlotsTaken(d))
          /\ Cardinality(C) \in Nat /\ Cardinality(SlotsTaken(d)) \in Nat
      BY <2>1, FS_Subset, FS_CardinalityType
    <2> QED
      BY <2>2, GuardAssumption DEF SlotInv
  <1> QED
    BY <1>1, SlotInvInit, SlotInvStep, StateTyped, PTL DEF Spec
=============================================================================
