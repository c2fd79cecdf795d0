------------------------- MODULE ReservationProofs -------------------------
(***************************************************************************)
(* What an order holds while it is under way and after it failed: its      *)
(* entry token, its reservation and its pending record, and who may take   *)
(* any of them away.                                                       *)
(***************************************************************************)
EXTENDS OrderProofs

-----------------------------------------------------------------------------
(* The entry token keeps the workers of an instrument apart, as long as no *)
(* token expires under its worker and neither the position sync nor the    *)
(* cache reaper clears tokens.  The invariant behind it: from the moment   *)
(* execute has begun the entry until the worker's finally, the token of    *)
(* the order's epic is the order's own and is live.                        *)

Holding == {"reserve", "start"} \cup Worker

TokenHeld ==
  \A o \in Orders : pc[o] \in Holding =>
    Owns(o, EpicOf[o]) /\ entries[EpicOf[o]].age <= EntryTimeout

\* The threads that may clear any token have nothing to do.
NoClearers == ~view.taken /\ suspects = {}

TokenInv == TokenHeld /\ NoClearers

-----------------------------------------------------------------------------
(* What a step may do to the tokens.                                       *)

\* The step leaves the tokens alone and makes no order a holder.
TokensKept ==
  /\ UNCHANGED entries
  /\ \/ UNCHANGED pc
     \/ \E o \in Orders, s \in Stage :
          Go(o, s) /\ (s \in Holding => pc[o] \in Holding)

TokenTaken(o) == TryBeginEntry(EpicOf[o], o) /\ Go(o, "reserve")

TokenDropped(o) ==
  /\ pc[o] \in Holding /\ ClearEntry(EpicOf[o])
  /\ \E s \in Stage \ Holding : Go(o, s)

TokensAge == AgeEntries /\ WorkersInTime /\ UNCHANGED pc

\* Every step keeps the tokens, lets them age, or takes or drops one.
LEMMA TokenSteps ==
  ASSUME StateTypeOK, NoClearers, [Next]_vars,
         FractionalLots = FALSE, "slowWorker" \notin Faults, "sync" \notin Actors
  PROVE  \/ TokensKept \/ TokensAge
         \/ \E o \in Orders : TokenTaken(o) \/ TokenDropped(o)
  <1> DEFINE Goal == \/ TokensKept \/ TokensAge
                     \/ \E o \in Orders : TokenTaken(o) \/ TokenDropped(o)
  <1> USE DEF Holding, Stage, Gate, Worker, Terminal
  <1>1. ASSUME NEW o \in Orders, GateStep(o) PROVE Goal
    <2>1. CASE CheckPending(o) \/ CorrelationCheck(o) \/ StartWorker(o)
      <3>1. UNCHANGED entries
        BY <2>1 DEF CheckPending, CorrelationCheck, StartWorker, tableVars
      <3> QED
        BY <2>1, <3>1 DEF CheckPending, CorrelationCheck, StartWorker, TokensKept
    <2>2. CASE BeginEntry(o)
      BY <2>2 DEF BeginEntry, TokenTaken, TokensKept
    <2>3. CASE ReserveBudget(o)
      <3>1. \/ Go(o, "start") /\ UNCHANGED entries
            \/ ClearEntry(EpicOf[o]) /\ Go(o, "dropped")
        BY <2>3 DEF ReserveBudget
      <3>2. pc[o] \in Holding
        BY <2>3 DEF ReserveBudget
      <3> QED
        BY <3>1, <3>2 DEF TokenDropped, TokensKept
    <2>4. CASE WorkerStartFails(o)
      BY <2>4 DEF WorkerStartFails, TokenDropped
    <2> QED
      BY <1>1, <2>1, <2>2, <2>3, <2>4 DEF GateStep
  <1>2. ASSUME NEW o \in Orders, WorkerStep(o) PROVE Goal
    <2> DEFINE Onward == \E s \in Worker : Go(o, s)
    <2>1. pc[o] \in Worker /\ UNCHANGED entries /\ (UNCHANGED pc \/ Onward) => Goal
      BY DEF TokensKept
    <2>2. CASE PostReferenced(o)
      <3>1. Go(o, "filled") \/ Go(o, "confirm")
        BY <2>2 DEF PostReferenced
      <3> QED
        BY <2>1, <2>2, <3>1 DEF PostReferenced, tableVars
    <2>3. CASE PostErrors(o)
      <3>1. UNCHANGED pc \/ Go(o, "failnoref")
        BY <2>3 DEF PostErrors
      <3> QED
        BY <2>1, <2>3, <3>1 DEF PostErrors, tableVars
    <2>4. CASE ConfirmUnclear(o)
      <3>1. UNCHANGED pc \/ Go(o, "failref")
        BY <2>4 DEF ConfirmUnclear
      <3> QED
        BY <2>1, <2>4, <3>1 DEF ConfirmUnclear
    <2>5. CASE \/ PostRefused(o) \/ PostRaises(o) \/ ConfirmAccepted(o)
               \/ ConfirmRejected(o) \/ ConfirmRaises(o)
      <3>1. Onward /\ pc[o] \in Worker
        BY <2>5 DEF PostRefused, PostRaises, ConfirmAccepted, ConfirmRejected,
                    ConfirmRaises
      <3>2. UNCHANGED entries
        BY <2>5 DEF PostRefused, PostRaises, ConfirmAccepted, ConfirmRejected,
                    ConfirmRaises, tableVars
      <3> QED
        BY <2>1, <3>1, <3>2
    <2>6. CASE \/ StopFailsafe(o) \/ RecordFill(o) \/ RecordFillRaises(o)
               \/ WorkerResolve(o)
      <3>1. Onward /\ pc[o] \in Worker
        BY <2>6 DEF StopFailsafe, RecordFill, RecordFillRaises, WorkerResolve
      <3>2. UNCHANGED entries
        BY <2>6 DEF StopFailsafe, RecordFill, RecordFillRaises, WorkerResolve, tableVars
      <3> QED
        BY <2>1, <3>1, <3>2
    <2>7. CASE FailWithRef(o) \/ FailNoRef(o) \/ FailException(o)
      <3>1. Onward /\ pc[o] \in Worker
        BY <2>7 DEF FailWithRef, FailNoRef, FailException
      <3>2. UNCHANGED entries
        BY <2>7 DEF FailWithRef, FailNoRef, FailException
      <3> QED
        BY <2>1, <3>1, <3>2
    <2>8. CASE Finally(o)
      BY <2>8 DEF Finally, TokenDropped
    <2> QED
      BY <1>2, <2>2, <2>3, <2>4, <2>5, <2>6, <2>7, <2>8 DEF WorkerStep
  <1>3. ASSUME \/ RecApply \/ SyncFetch \/ OrphanReconcile \/ Quiescent
               \/ UNCHANGED vars
        PROVE  TokensKept
    BY <1>3 DEF RecApply, SyncFetch, OrphanReconcile, Quiescent, vars, tableVars,
                TokensKept
  <1>4. ~SyncApply /\ \A e \in Epics : ~ReaperEvict(e)
    BY DEF SyncApply, ReaperEvict, NoClearers
  <1>5. ASSUME Tick PROVE TokensAge
    BY <1>5 DEF Tick, TokensAge
  <1>6. ASSUME NEW p \in Positions,
               BrokerCloses(p) \/ CloseVerified(p) \/ CloseRaises(p) \/ BookExit(p)
        PROVE  TokensKept
    BY <1>6 DEF BrokerCloses, CloseVerified, CloseRaises, BookExit, tableVars, TokensKept
  <1>7. ASSUME NEW e \in Epics, RecVerify(e) \/ ReaperScan(e) PROVE TokensKept
    BY <1>7 DEF RecVerify, ReaperScan, tableVars, TokensKept
  <1>8. ASSUME NEW o \in Orders, Settle(o) PROVE TokensKept
    BY <1>8 DEF Settle, tableVars, TokensKept
  <1> QED
    BY <1>1, <1>2, <1>3, <1>4, <1>5, <1>6, <1>7, <1>8 DEF Next, ReconcilerStep

\* Without the sync and the reaper nobody becomes able to clear tokens at large.
LEMMA NoClearersStep ==
  ASSUME NoClearers, [Next]_vars, "sync" \notin Actors, "reaper" \notin Actors
  PROVE  NoClearers'
  <1> USE DEF NoClearers
  <1>1. ASSUME NEW o \in Orders, GateStep(o) PROVE NoClearers'
    BY <1>1 DEF GateStep, CheckPending, CorrelationCheck, BeginEntry, ReserveBudget,
                StartWorker, WorkerStartFails, actorVars
  <1>2. ASSUME NEW o \in Orders, WorkerStep(o) PROVE NoClearers'
    BY <1>2 DEF WorkerStep, PostReferenced, PostRefused, PostErrors, PostRaises,
                ConfirmAccepted, ConfirmRejected, ConfirmUnclear, ConfirmRaises,
                StopFailsafe, RecordFill, RecordFillRaises, WorkerResolve,
                FailWithRef, FailNoRef, FailException, Finally, actorVars
  <1>3. ASSUME NEW o \in Orders, Settle(o) PROVE NoClearers'
    BY <1>3 DEF Settle, actorVars
  <1>4. ASSUME NEW p \in Positions,
               BrokerCloses(p) \/ CloseVerified(p) \/ CloseRaises(p) \/ BookExit(p)
        PROVE  NoClearers'
    BY <1>4 DEF BrokerCloses, CloseVerified, CloseRaises, BookExit, actorVars
  <1>5. ASSUME NEW e \in Epics, RecVerify(e) \/ ReaperScan(e) \/ ReaperEvict(e)
        PROVE  NoClearers'
    BY <1>5 DEF RecVerify, ReaperScan, ReaperEvict
  <1>6. ASSUME \/ RecApply \/ SyncFetch \/ SyncApply \/ OrphanReconcile \/ Tick
               \/ Quiescent \/ UNCHANGED vars
        PROVE  NoClearers'
    BY <1>6 DEF RecApply, SyncFetch, SyncApply, OrphanReconcile, Tick, Quiescent,
                vars, actorVars
  <1> QED
    BY <1>1, <1>2, <1>3, <1>4, <1>5, <1>6 DEF Next, ReconcilerStep

-----------------------------------------------------------------------------

\* Every step keeps the token with its holder.
LEMMA TokenHeldStep ==
  ASSUME StateTypeOK, TokenInv, [Next]_vars,
         FractionalLots = FALSE, "slowWorker" \notin Faults, "sync" \notin Actors
  PROVE  TokenHeld'
  <1> SUFFICES ASSUME NEW x \in Orders, pc'[x] \in Holding
               PROVE  /\ entries'[EpicOf[x]] # NoEntry
                      /\ entries'[EpicOf[x]].owner = x
                      /\ entries'[EpicOf[x]].age <= EntryTimeout
    BY DEF TokenHeld, Owns
  <1>1. /\ pc \in [Orders -> Stage] /\ entries \in [Epics -> Token \cup {NoEntry}]
        /\ EpicOf[x] \in Epics /\ NoEntry \notin Token
        /\ EntryTimeout \in Nat /\ EntryTimeout < AgeCap /\ AgeCap \in Nat
    BY PipelineAssumption, EntryAssumption, AgeAssumption
    DEF StateTypeOK, PipelineTypeOK, EntryTypeOK, Token
  <1>2. ASSUME NEW o \in Orders, pc[o] \in Holding
        PROVE  /\ entries[EpicOf[o]] # NoEntry
               /\ entries[EpicOf[o]].owner = o
               /\ entries[EpicOf[o]].age <= EntryTimeout
    BY <1>2 DEF TokenInv, TokenHeld, Owns
  <1>3. CASE TokensKept
    <2>1. pc[x] \in Holding
      BY <1>1, <1>3 DEF TokensKept, Go
    <2> QED
      BY <1>2, <1>3, <2>1 DEF TokensKept
  <1>4. CASE TokensAge
    <2>1. pc[x] \in Holding
      BY <1>4 DEF TokensAge
    <2> DEFINE t == entries[EpicOf[x]]
    <2>2. t \in Token /\ t.owner = x /\ t.age < EntryTimeout
      BY <1>1, <1>2, <1>4, <2>1 DEF TokensAge, WorkersInTime, Holding, Owns
    <2>3. entries'[EpicOf[x]] = [t EXCEPT !.age = @ + 1]
      BY <1>1, <1>4, <2>2 DEF TokensAge, AgeEntries
    <2>4. /\ entries'[EpicOf[x]] = [owner |-> x, age |-> t.age + 1]
          /\ t.age \in 0 .. AgeCap
      BY <2>2, <2>3 DEF Token
    <2>5. entries'[EpicOf[x]] \in Token
      BY <1>1, <2>2, <2>4 DEF Token
    <2> QED
      BY <1>1, <2>2, <2>4, <2>5
  <1>5. ASSUME NEW o \in Orders, TokenTaken(o)
        PROVE  /\ entries'[EpicOf[x]] # NoEntry
               /\ entries'[EpicOf[x]].owner = x
               /\ entries'[EpicOf[x]].age <= EntryTimeout
    <2>1. /\ ~InFlight(EpicOf[o]) /\ pc' = [pc EXCEPT ![o] = "reserve"]
          /\ entries' = [entries EXCEPT ![EpicOf[o]] = [owner |-> o, age |-> 0]]
      BY <1>5 DEF TokenTaken, TryBeginEntry, Go
    <2>2. CASE x = o
      <3>1. entries'[EpicOf[x]] = [owner |-> x, age |-> 0]
        BY <1>1, <2>1, <2>2
      <3>2. [owner |-> x, age |-> 0] \in Token
        BY <1>1 DEF Token
      <3> QED
        BY <1>1, <3>1, <3>2
    <2>3. CASE x # o
      <3>1. pc[x] \in Holding
        BY <1>1, <2>1, <2>3
      <3>2. EpicOf[x] # EpicOf[o]
        <4>1. InFlight(EpicOf[x])
          <5>1. entries[EpicOf[x]] \in Token
            BY <1>1, <1>2, <3>1
          <5> QED
            BY <1>1, <1>2, <3>1, <5>1 DEF InFlight, Expired, Token
        <4> QED
          BY <2>1, <4>1
      <3> QED
        BY <1>1, <1>2, <2>1, <3>1, <3>2
    <2> QED
      BY <2>2, <2>3
  <1>6. ASSUME NEW o \in Orders, TokenDropped(o)
        PROVE  /\ entries'[EpicOf[x]] # NoEntry
               /\ entries'[EpicOf[x]].owner = x
               /\ entries'[EpicOf[x]].age <= EntryTimeout
    <2>1. PICK s \in Stage \ Holding : pc' = [pc EXCEPT ![o] = s]
      BY <1>6 DEF TokenDropped, Go
    <2>2. x # o /\ pc[x] \in Holding
      BY <1>1, <2>1
    <2>3. EpicOf[x] # EpicOf[o]
      BY <1>2, <1>6, <2>2 DEF TokenDropped
    <2>4. entries'[EpicOf[x]] = entries[EpicOf[x]]
      BY <1>1, <1>6, <2>3 DEF TokenDropped, ClearEntry
    <2> QED
      BY <1>2, <2>2, <2>4
  <1> QED
    BY <1>3, <1>4, <1>5, <1>6, TokenSteps DEF TokenInv

\* At most one worker per instrument talks to the broker, for any number of
\* orders and instruments, whatever else fails, provided that no token expires
\* under its worker and that no other thread clears it.
THEOREM OneWorker ==
  ASSUME FractionalLots = FALSE, "slowWorker" \notin Faults,
         "sync" \notin Actors, "reaper" \notin Actors
  PROVE  Spec => []OneWorkerPerEpic
  <1>1. Init => TokenInv
    BY DEF Init, TokenInv, TokenHeld, NoClearers, NoView, Holding, Worker
  <1>2. StateTypeOK /\ TokenInv /\ [Next]_vars => TokenInv'
    BY TokenHeldStep, NoClearersStep DEF TokenInv
  <1>3. TokenInv => OneWorkerPerEpic
    <2> SUFFICES ASSUME TokenHeld, NEW o \in Orders, NEW x \in Orders,
                        o # x, Working(o), Working(x)
                 PROVE  EpicOf[o] # EpicOf[x]
      BY DEF TokenInv, OneWorkerPerEpic
    <2>1. Owns(o, EpicOf[o]) /\ Owns(x, EpicOf[x])
      BY DEF TokenHeld, Working, Holding, Worker
    <2> QED
      BY <2>1 DEF Owns
  <1> QED
    BY <1>1, <1>2, <1>3, StateTyped, PTL DEF Spec

-----------------------------------------------------------------------------
(* The reservation, as long as the risk gate's orphan reconciliation does  *)
(* not run.  A stashed order has failed, and an order whose exit can be    *)
(* booked has succeeded, so neither the reconciler nor the booking of      *)
(* exits touches an order at work; and an order keeps its reservation      *)
(* until it fails without a reference, so what is stashed is still counted.*)

Stashable == {"failref", "closingFail", "failed"}
Booked == {"success", "closingOk", "confirmed"}
Unpaid == {"idle", "correlate", "begin", "reserve"}
Paid == {"start", "post", "confirm", "filled", "failref", "failnoref", "failexc"}

\* A stash belongs to a failed order of its own epic.
StashLate ==
  \A e \in Epics : stash[e] # NoStash =>
    EpicOf[stash[e]] = e /\ pc[stash[e]] \in Stashable

\* A deal whose exit gives budget back is that of an order that succeeded.
DealsLate == \A p \in dealRisk : pc[p[1]] \in Booked

HoldInv == StashLate /\ DealsLate

\* An order that has passed the gate holds its reservation until it ends.
PaidHold == \A o \in Orders : pc[o] \in Paid => o \in held

-----------------------------------------------------------------------------
(* What a step may do to the reservations.                                 *)

StashWeaker == \A e \in Epics : stash'[e] \in {stash[e], NoStash}

HeatKept == UNCHANGED <<heat, session>>

\* The guard looked at the date: the heat of an earlier day is gone.
HeatRolled ==
  /\ heat' = [d \in Directions |-> HeatNow(d)] /\ session' = today

\* No reservation changes hands; the order that moves, if one does, does not
\* become paid, and once failed or booked it stays so.
HoldKept ==
  /\ UNCHANGED <<held, dealRisk, concurrent>> /\ StashWeaker
  /\ HeatKept \/ HeatRolled
  /\ \/ UNCHANGED pc
     \/ \E o \in Orders, s \in Stage :
          /\ Go(o, s)
          /\ s \in Paid => pc[o] \in Paid
          /\ s \in Unpaid => pc[o] \in Unpaid
          /\ pc[o] \in Stashable => s \in Stashable
          /\ pc[o] \in Booked => s \in Booked

HoldTaken(o) ==
  /\ pc[o] = "reserve" /\ Go(o, "start") /\ held' = held \cup {o}
  /\ concurrent + Risk[o] <= MaxConcurrent /\ concurrent' = concurrent + Risk[o]
  /\ UNCHANGED <<stash, dealRisk, broker, positions>> /\ HeatKept

HoldDropped(o) ==
  /\ \/ /\ pc[o] = "start" /\ "startFail" \in Faults /\ Go(o, "failed")
     \/ /\ pc[o] \in {"failnoref", "failexc"} /\ Go(o, "closingFail")
        /\ concurrent' = AtLeastZero(concurrent - Risk[o])
  /\ held' = held \ {o}
  /\ UNCHANGED <<stash, dealRisk, broker, positions>> /\ HeatKept

HoldStashed(o) ==
  /\ \/ pc[o] = "confirm" /\ Go(o, "failref")
     \/ pc[o] = "failref" /\ Go(o, "closingFail")
  /\ stash' = [stash EXCEPT ![EpicOf[o]] = o]
  /\ UNCHANGED <<held, dealRisk, concurrent>> /\ HeatKept

HoldFilled(o) ==
  /\ pc[o] = "filled" /\ Go(o, "success")
  /\ dealRisk' = dealRisk \cup {Referenced(o)} /\ ConfirmHeat(DirOf[o], Risk[o])
  /\ UNCHANGED <<held, stash, concurrent>>

HoldReleased(e) ==
  /\ job # NoJob /\ job.epic = e /\ job.verdict = "release"
  /\ stash[e] # NoStash /\ held' = held \ {stash[e]}
  /\ stash' = [stash EXCEPT ![e] = NoStash]
  /\ \/ "fastReconciler" \in Faults
     \/ \A o \in Orders : ~(EpicOf[o] = e /\ pc[o] = "failref")
  /\ concurrent' = AtLeastZero(concurrent - Risk[stash[e]])
  /\ UNCHANGED <<pc, dealRisk, broker, positions>> /\ HeatKept

HoldBooked(p) ==
  /\ p \in dealRisk /\ ClosedAtBroker(p)
  /\ dealRisk' = dealRisk \ {p} /\ held' = held \ {p[1]}
  /\ concurrent' = AtLeastZero(concurrent - Risk[p[1]])
  /\ ReleaseHeat(DirOf[p[1]], Risk[p[1]])
  /\ UNCHANGED <<pc, stash, broker, positions>>

\* What the operations on the pending table do to the stash.
LEMMA StashOps ==
  ASSUME StateTypeOK
  PROVE  /\ UNCHANGED stash => StashWeaker
         /\ \A S \in SUBSET Epics : ResolveAll(S) => StashWeaker
         /\ \A e \in Epics : ResolvePending(e) => StashWeaker
         /\ \A e \in Epics : PopStashAndResolve(e) => StashWeaker
         /\ \A e \in Epics : PopIfExpired(e) => StashWeaker
  <1>1. stash \in [Epics -> Orders \cup {NoStash}]
    BY DEF StateTypeOK, PendingTypeOK
  <1>2. ASSUME NEW S \in SUBSET Epics, ResolveAll(S) PROVE StashWeaker
    BY <1>2 DEF ResolveAll, StashWeaker
  <1>3. ASSUME NEW e \in Epics, PopStashAndResolve(e) PROVE StashWeaker
    BY <1>1, <1>3 DEF PopStashAndResolve, StashWeaker
  <1> QED
    BY <1>2, <1>3 DEF StashWeaker, PopIfExpired, ResolvePending

\* Every step keeps the reservations or takes, drops, stashes, fills, releases
\* or books one.
LEMMA HoldSteps ==
  ASSUME StateTypeOK, [Next]_vars, "orphan" \notin Actors
  PROVE  \/ HoldKept
         \/ \E o \in Orders : \/ HoldTaken(o) \/ HoldDropped(o)
                              \/ HoldStashed(o) \/ HoldFilled(o)
         \/ \E e \in Epics : HoldReleased(e)
         \/ \E p \in Positions : HoldBooked(p)
  <1> DEFINE Goal == \/ HoldKept
                     \/ \E o \in Orders : \/ HoldTaken(o) \/ HoldDropped(o)
                                          \/ HoldStashed(o) \/ HoldFilled(o)
                     \/ \E e \in Epics : HoldReleased(e)
                     \/ \E p \in Positions : HoldBooked(p)
  <1> USE DEF Stashable, Booked, Paid, Unpaid, HeatKept, HeatRolled, envVars, guardVars,
              tableVars, brokerVars, Stage, Gate, Worker, Terminal
  <1>0. \A o \in Orders : EpicOf[o] \in Epics
    BY PipelineAssumption
  <1>1. ASSUME NEW o \in Orders, GateStep(o) PROVE Goal
    <2> DEFINE Onward == \E s \in Gate \cup Terminal :
                           /\ Go(o, s) /\ (s \in Paid => pc[o] \in Paid)
                           /\ (s \in Unpaid => pc[o] \in Unpaid)
    <2>1. ASSUME pc[o] \in {"idle"} \cup Gate, UNCHANGED <<held, dealRisk, concurrent>>,
                 StashWeaker, Onward, HeatKept \/ HeatRolled
          PROVE  HoldKept
      <3>1. PICK s \in Gate \cup Terminal :
               /\ Go(o, s) /\ (s \in Paid => pc[o] \in Paid)
               /\ (s \in Unpaid => pc[o] \in Unpaid)
        BY <2>1
      <3>2. pc[o] \notin Stashable /\ pc[o] \notin Booked /\ s \in Stage
        BY <2>1
      <3> QED
        BY <2>1, <3>1, <3>2 DEF HoldKept
    <2>2. CASE CheckPending(o)
      <3>1. StashWeaker /\ pc[o] = "idle" /\ Go(o, "correlate")
        BY <1>0, <2>2, StashOps DEF CheckPending
      <3>2. UNCHANGED <<held, dealRisk, concurrent, heat, session>>
        BY <2>2 DEF CheckPending, storeVars
      <3>3. Onward
        BY <3>1
      <3> QED
        BY <2>1, <3>1, <3>2, <3>3
    <2>3. CASE CorrelationCheck(o)
      <3>1. Onward /\ pc[o] \in Gate
        BY <2>3 DEF CorrelationCheck
      <3>2. UNCHANGED <<held, dealRisk, stash, concurrent>> /\ HeatRolled
        BY <2>3 DEF CorrelationCheck, storeVars, TakeSlot, RefuseSlot
      <3> QED
        BY <2>1, <3>1, <3>2, StashOps
    <2>4. CASE BeginEntry(o)
      <3>1. Onward /\ pc[o] \in Gate
        BY <2>4 DEF BeginEntry
      <3>2. UNCHANGED <<held, dealRisk, stash, concurrent, heat, session>>
        BY <2>4 DEF BeginEntry, storeVars
      <3> QED
        BY <2>1, <3>1, <3>2, StashOps
    <2>5. CASE ReserveBudget(o)
      <3>1. /\ UNCHANGED <<stash, dealRisk, broker, positions, heat, session>>
            /\ pc[o] = "reserve"
        BY <2>5 DEF ReserveBudget, storeVars
      <3>2. \/ /\ held' = held \cup {o} /\ Go(o, "start")
               /\ concurrent + Risk[o] <= MaxConcurrent
               /\ concurrent' = concurrent + Risk[o]
            \/ UNCHANGED <<held, concurrent>> /\ Go(o, "dropped")
        BY <2>5 DEF ReserveBudget, Reserve, Refuse, CapsAllow
      <3>3. Go(o, "dropped") => Onward
        OBVIOUS
      <3>4. UNCHANGED <<held, concurrent>> /\ Go(o, "dropped") => Goal
        BY <2>1, <3>1, <3>3, StashOps
      <3>5. held' = held \cup {o} /\ Go(o, "start")
              /\ concurrent + Risk[o] <= MaxConcurrent
              /\ concurrent' = concurrent + Risk[o] => HoldTaken(o)
        BY <3>1 DEF HoldTaken
      <3> QED
        BY <3>2, <3>4, <3>5
    <2>6. CASE StartWorker(o)
      <3>1. /\ UNCHANGED <<stash, dealRisk, held, concurrent, heat, session>>
            /\ pc[o] = "start" /\ Go(o, "post")
        BY <2>6 DEF StartWorker, storeVars, tableVars
      <3> QED
        BY <3>1, StashOps DEF HoldKept
    <2>7. CASE WorkerStartFails(o)
      BY <2>7 DEF WorkerStartFails, HoldDropped, storeVars, Undo
    <2> QED
      BY <1>1, <2>2, <2>3, <2>4, <2>5, <2>6, <2>7 DEF GateStep
  <1>2. ASSUME NEW o \in Orders, WorkerStep(o) PROVE Goal
    <2> DEFINE Onward == \E s \in Paid : Go(o, s)
               Early == {"post", "confirm", "filled"}
    <2>1. ASSUME pc[o] \in Early, UNCHANGED <<held, dealRisk, concurrent, heat, session>>, StashWeaker,
                 UNCHANGED pc \/ Onward
          PROVE  HoldKept
      <3>1. CASE UNCHANGED pc
        BY <2>1, <3>1 DEF HoldKept
      <3>2. CASE Onward
        <4>1. PICK s \in Paid : Go(o, s)
          BY <3>2
        <4>2. /\ pc[o] \notin Stashable /\ pc[o] \notin Booked /\ pc[o] \in Paid
              /\ s \in Stage
          BY <2>1
        <4> QED
          BY <2>1, <4>1, <4>2 DEF HoldKept
      <3> QED
        BY <2>1, <3>1, <3>2
    <2>2. CASE PostReferenced(o)
      <3>1. Go(o, "filled") \/ Go(o, "confirm")
        BY <2>2 DEF PostReferenced
      <3>2. pc[o] \in Early /\ UNCHANGED <<held, dealRisk, stash, concurrent, heat, session>>
        BY <2>2 DEF PostReferenced, tableVars, storeVars
      <3> QED
        BY <2>1, <3>1, <3>2, StashOps
    <2>3. CASE PostErrors(o)
      <3>1. UNCHANGED pc \/ Go(o, "failnoref")
        BY <2>3 DEF PostErrors
      <3>2. pc[o] \in Early /\ UNCHANGED <<held, dealRisk, stash, concurrent, heat, session>>
        BY <2>3 DEF PostErrors, tableVars, storeVars
      <3> QED
        BY <2>1, <3>1, <3>2, StashOps
    <2>4. CASE ConfirmUnclear(o)
      <3>1. /\ pc[o] = "confirm" /\ UNCHANGED <<held, dealRisk, concurrent, heat, session>>
            /\ \/ UNCHANGED <<pc, stash>>
               \/ Go(o, "failref") /\ stash' = [stash EXCEPT ![EpicOf[o]] = o]
        BY <2>4 DEF ConfirmUnclear, MarkPending, storeVars
      <3>2. CASE UNCHANGED <<pc, stash>>
        BY <2>1, <3>1, <3>2, StashOps
      <3>3. CASE Go(o, "failref") /\ stash' = [stash EXCEPT ![EpicOf[o]] = o]
        BY <3>1, <3>3 DEF HoldStashed
      <3> QED
        BY <3>1, <3>2, <3>3
    <2>5. CASE \/ PostRefused(o) \/ PostRaises(o) \/ ConfirmAccepted(o)
               \/ ConfirmRaises(o) \/ StopFailsafe(o) \/ RecordFillRaises(o)
      <3>1. Onward /\ pc[o] \in Early
        BY <2>5 DEF PostRefused, PostRaises, ConfirmAccepted, ConfirmRaises,
                    StopFailsafe, RecordFillRaises
      <3>2. UNCHANGED <<held, dealRisk, stash, concurrent, heat, session>>
        BY <2>5 DEF PostRefused, PostRaises, ConfirmAccepted, ConfirmRaises,
                    StopFailsafe, RecordFillRaises, tableVars, storeVars
      <3> QED
        BY <2>1, <3>1, <3>2, StashOps
    <2>6. CASE ConfirmRejected(o)
      <3>1. StashWeaker
        BY <1>0, <2>6, StashOps DEF ConfirmRejected
      <3> QED
        BY <2>1, <2>6, <3>1 DEF ConfirmRejected, storeVars
    <2>7. CASE RecordFill(o)
      BY <2>7 DEF RecordFill, HoldFilled
    <2>8. CASE WorkerResolve(o)
      <3>1. StashWeaker
        BY <1>0, <2>8, StashOps DEF WorkerResolve
      <3> QED
        BY <2>8, <3>1 DEF WorkerResolve, HoldKept, storeVars
    <2>9. CASE FailWithRef(o)
      BY <2>9 DEF FailWithRef, MarkPending, HoldStashed, storeVars, Undo
    <2>10. CASE FailNoRef(o) \/ FailException(o)
      BY <2>10 DEF FailNoRef, FailException, MarkPending, HoldDropped, storeVars, Undo,
                   ReleaseAllocation
    <2>11. CASE Finally(o)
      <3>1. UNCHANGED <<held, dealRisk, stash, concurrent, heat, session>>
        BY <2>11 DEF Finally, storeVars
      <3> QED
        BY <2>11, <3>1, StashOps DEF Finally, HoldKept
    <2> QED
      BY <1>2, <2>2, <2>3, <2>4, <2>5, <2>6, <2>7, <2>8, <2>9, <2>10, <2>11
      DEF WorkerStep
  <1>3. ASSUME RecApply PROVE Goal
    <2> DEFINE e == job.epic
    <2>1. e \in Epics
      BY <1>3 DEF RecApply, StateTypeOK, PipelineTypeOK
    <2>2. StashWeaker /\ UNCHANGED <<pc, dealRisk, heat, session>>
      BY <1>3, <2>1, StashOps DEF RecApply, storeVars
    <2>3. CASE job.verdict = "release" /\ stash[e] # NoStash
      <3>1. HoldReleased(e)
        BY <1>3, <2>2, <2>3
        DEF RecApply, PopStashAndResolve, HoldReleased, ReleaseAllocation
      <3> QED
        BY <2>1, <3>1
    <2>4. CASE ~(job.verdict = "release" /\ stash[e] # NoStash)
      BY <1>3, <2>2, <2>4 DEF RecApply, HoldKept
    <2> QED
      BY <2>3, <2>4
  <1>4. ASSUME SyncApply PROVE HoldKept
    <2>1. SettledBy({EpicOfPos(p) : p \in view.open}) \in SUBSET Epics
      BY DEF SettledBy
    <2>2. StashWeaker
      BY <1>4, <2>1, StashOps DEF SyncApply
    <2> QED
      BY <1>4, <2>2 DEF SyncApply, HoldKept
  <1>5. ASSUME SyncFetch \/ Tick \/ Quiescent \/ UNCHANGED vars
        PROVE  HoldKept
    <2>1. UNCHANGED <<pc, held, dealRisk, stash, concurrent, heat, session>>
      BY <1>5 DEF SyncFetch, Tick, Quiescent, vars, AgePending, tableVars, storeVars
    <2> QED
      BY <2>1, StashOps DEF HoldKept
  <1>6. ~OrphanReconcile
    BY DEF OrphanReconcile
  <1>7. ASSUME NEW p \in Positions, BrokerCloses(p) \/ CloseVerified(p) \/ CloseRaises(p)
        PROVE  HoldKept
    <2>1. EpicOfPos(p) \in Epics
      BY PipelineAssumption DEF Positions, EpicOfPos
    <2>2. UNCHANGED stash \/ ResolvePending(EpicOfPos(p))
      BY <1>7 DEF BrokerCloses, CloseVerified, CloseRaises, MarkPending, tableVars
    <2>3. UNCHANGED <<pc, held, dealRisk, concurrent, heat, session>>
      BY <1>7 DEF BrokerCloses, CloseVerified, CloseRaises, storeVars
    <2> QED
      BY <2>1, <2>2, <2>3, StashOps DEF HoldKept
  <1>8. ASSUME NEW p \in Positions, BookExit(p) PROVE HoldBooked(p)
    BY <1>8 DEF BookExit, HoldBooked, RecordExit
  <1>9. ASSUME NEW e \in Epics, RecVerify(e) \/ ReaperScan(e) \/ ReaperEvict(e)
        PROVE  HoldKept
    <2>1. UNCHANGED stash \/ ResolvePending(e)
      BY <1>9 DEF RecVerify, ReaperScan, ReaperEvict, tableVars
    <2>2. UNCHANGED <<pc, held, dealRisk, concurrent, heat, session>>
      BY <1>9 DEF RecVerify, ReaperScan, ReaperEvict, storeVars
    <2> QED
      BY <2>1, <2>2, StashOps DEF HoldKept
  <1>10. ASSUME NEW o \in Orders, Settle(o) PROVE HoldKept
    <2>1. UNCHANGED <<pc, held, dealRisk, stash, concurrent, heat, session>>
      BY <1>10 DEF Settle, tableVars, storeVars
    <2> QED
      BY <2>1, StashOps DEF HoldKept
  <1> QED
    BY <1>1, <1>2, <1>3, <1>4, <1>5, <1>6, <1>7, <1>8, <1>9, <1>10
    DEF Next, ReconcilerStep

-----------------------------------------------------------------------------
(* Nobody gives back the reservation of an order at work.                  *)

\* Every step keeps stashes with failed orders and deals with booked ones.
LEMMA HoldInvStep ==
  ASSUME StateTypeOK, HoldInv, [Next]_vars, "orphan" \notin Actors
  PROVE  HoldInv'
  <1> USE DEF HoldInv, StashLate, DealsLate, Stashable, Booked
  <1>1. /\ pc \in [Orders -> Stage] /\ stash \in [Epics -> Orders \cup {NoStash}]
        /\ dealRisk \subseteq Positions /\ EpicOf \in [Orders -> Epics]
        /\ \A p \in Positions : p[1] \in Orders
    BY PipelineAssumption DEF StateTypeOK, PipelineTypeOK, PendingTypeOK, Positions
  <1>2. CASE HoldKept
    <2>1. \A x \in Orders : /\ pc[x] \in Stashable => pc'[x] \in Stashable
                            /\ pc[x] \in Booked => pc'[x] \in Booked
      BY <1>1, <1>2 DEF HoldKept, Go
    <2>2. \A e \in Epics : stash'[e] # NoStash => stash'[e] = stash[e]
      BY <1>2 DEF HoldKept, StashWeaker
    <2>3. dealRisk' \subseteq dealRisk
      BY <1>2 DEF HoldKept
    <2>4. StashLate'
      BY <1>1, <2>1, <2>2
    <2>5. DealsLate'
      BY <1>1, <2>1, <2>3
    <2> QED
      BY <2>4, <2>5
  <1>3. ASSUME NEW o \in Orders, HoldTaken(o) \/ HoldDropped(o) PROVE HoldInv'
    <2>1. /\ pc[o] \notin Stashable /\ pc[o] \notin Booked
          /\ UNCHANGED <<stash, dealRisk>>
      BY <1>3 DEF HoldTaken, HoldDropped
    <2>2. \A x \in Orders : x # o => pc'[x] = pc[x]
      BY <1>1, <1>3 DEF HoldTaken, HoldDropped, Go
    <2> QED
      BY <1>1, <2>1, <2>2
  <1>4. ASSUME NEW o \in Orders, HoldStashed(o) PROVE HoldInv'
    <2>1. /\ pc'[o] \in Stashable /\ pc[o] \notin Booked
          /\ \A x \in Orders : x # o => pc'[x] = pc[x]
      BY <1>1, <1>4 DEF HoldStashed, Go
    <2>2. /\ dealRisk' = dealRisk
          /\ stash' = [stash EXCEPT ![EpicOf[o]] = o]
      BY <1>4 DEF HoldStashed
    <2>3. StashLate'
      BY <1>1, <2>1, <2>2
    <2>4. DealsLate'
      BY <1>1, <2>1, <2>2
    <2> QED
      BY <2>3, <2>4
  <1>5. ASSUME NEW o \in Orders, HoldFilled(o) PROVE HoldInv'
    <2>1. /\ pc[o] \notin Stashable /\ pc'[o] \in Booked
          /\ \A x \in Orders : x # o => pc'[x] = pc[x]
      BY <1>1, <1>5 DEF HoldFilled, Go
    <2>2. /\ stash' = stash /\ dealRisk' = dealRisk \cup {Referenced(o)}
          /\ Referenced(o)[1] = o
      BY <1>5 DEF HoldFilled, Referenced
    <2>3. StashLate'
      BY <1>1, <2>1, <2>2
    <2>4. DealsLate'
      BY <1>1, <2>1, <2>2
    <2> QED
      BY <2>3, <2>4
  <1>6. ASSUME NEW e \in Epics, HoldReleased(e) PROVE HoldInv'
    BY <1>1, <1>6 DEF HoldReleased
  <1>7. ASSUME NEW p \in Positions, HoldBooked(p) PROVE HoldInv'
    BY <1>1, <1>7 DEF HoldBooked
  <1> QED
    BY <1>2, <1>3, <1>4, <1>5, <1>6, <1>7, HoldSteps

\* While a worker is busy with the broker nobody gives its reservation back,
\* whatever faults occur, unless the orphan reconciliation runs.
THEOREM ReservationSurvives ==
  ASSUME "orphan" \notin Actors
  PROVE  Spec => ReservationSurvivesWork
  <1>1. Init => HoldInv
    BY DEF Init, PendingInit, HoldInv, StashLate, DealsLate
  <1>2. StateTypeOK /\ HoldInv /\ [Next]_vars => HoldInv'
    BY HoldInvStep
  <1> DEFINE Survive == \A o \in Orders :
                          Working(o) /\ o \in held /\ Working(o)' => o \in held'
  <1>3. StateTypeOK /\ HoldInv /\ [Next]_vars => [Survive]_vars
    <2> SUFFICES ASSUME StateTypeOK, HoldInv, [Next]_vars, NEW x \in Orders,
                        Working(x), x \in held, Working(x)'
                 PROVE  x \in held'
      OBVIOUS
    <2> USE DEF Working
    <2>1. /\ pc \in [Orders -> Stage] /\ dealRisk \subseteq Positions
      BY DEF StateTypeOK, PipelineTypeOK
    <2>2. ASSUME NEW o \in Orders, HoldDropped(o) PROVE x \in held'
      BY <2>1, <2>2 DEF HoldDropped, Go
    <2>3. ASSUME NEW e \in Epics, HoldReleased(e) PROVE x \in held'
      BY <2>3 DEF HoldReleased, HoldInv, StashLate, Stashable
    <2>4. ASSUME NEW p \in Positions, HoldBooked(p) PROVE x \in held'
      BY <2>4 DEF HoldBooked, HoldInv, DealsLate, Booked
    <2> QED
      BY <2>2, <2>3, <2>4, HoldSteps
      DEF HoldKept, HoldTaken, HoldStashed, HoldFilled
  <1> QED
    BY <1>1, <1>2, <1>3, StateTyped, PTL DEF Spec, ReservationSurvivesWork

-----------------------------------------------------------------------------
(* A stashed reservation is still counted.                                 *)

\* Every step keeps the reservations of paid and of stashed orders.
LEMMA BackedStep ==
  ASSUME StateTypeOK, HoldInv, PaidHold, StashBacked, [Next]_vars,
         "orphan" \notin Actors,
         "fastReconciler" \notin Faults \/ \A e \in Epics : stash[e] = NoStash
  PROVE  PaidHold' /\ StashBacked'
  <1> USE DEF PaidHold, StashBacked, Paid
  <1>1. /\ pc \in [Orders -> Stage] /\ stash \in [Epics -> Orders \cup {NoStash}]
        /\ dealRisk \subseteq Positions /\ EpicOf \in [Orders -> Epics]
        /\ NoStash \notin Orders
    BY PipelineAssumption, PendingAssumption
    DEF StateTypeOK, PipelineTypeOK, PendingTypeOK
  <1>2. CASE HoldKept
    <2>1. \A x \in Orders : pc'[x] \in Paid => pc[x] \in Paid
      BY <1>1, <1>2 DEF HoldKept, Go
    <2>2. /\ held' = held
          /\ \A e \in Epics : stash'[e] # NoStash => stash'[e] = stash[e]
      BY <1>2 DEF HoldKept, StashWeaker
    <2> QED
      BY <2>1, <2>2
  <1>3. ASSUME NEW o \in Orders, HoldTaken(o) PROVE PaidHold' /\ StashBacked'
    <2>1. /\ held' = held \cup {o} /\ stash' = stash
          /\ \A x \in Orders : x # o => pc'[x] = pc[x]
      BY <1>1, <1>3 DEF HoldTaken, Go
    <2> QED
      BY <2>1
  <1>4. ASSUME NEW o \in Orders, HoldDropped(o) PROVE PaidHold' /\ StashBacked'
    <2>1. /\ held' = held \ {o} /\ stash' = stash
          /\ pc[o] \notin Stashable /\ pc'[o] \notin Paid
          /\ \A x \in Orders : x # o => pc'[x] = pc[x]
      BY <1>1, <1>4 DEF HoldDropped, Go, Stashable
    <2>2. \A e \in Epics : stash[e] # NoStash => stash[e] # o
      BY <2>1 DEF HoldInv, StashLate
    <2> QED
      BY <2>1, <2>2
  <1>5. ASSUME NEW o \in Orders, HoldStashed(o) PROVE PaidHold' /\ StashBacked'
    <2>1. /\ held' = held /\ o \in held
          /\ stash' = [stash EXCEPT ![EpicOf[o]] = o]
          /\ \A x \in Orders : x # o => pc'[x] = pc[x]
      BY <1>1, <1>5 DEF HoldStashed, Go
    <2> QED
      BY <1>1, <2>1
  <1>6. ASSUME NEW o \in Orders, HoldFilled(o) PROVE PaidHold' /\ StashBacked'
    <2>1. /\ held' = held /\ stash' = stash /\ pc'[o] \notin Paid
          /\ \A x \in Orders : x # o => pc'[x] = pc[x]
      BY <1>1, <1>6 DEF HoldFilled, Go
    <2> QED
      BY <2>1
  <1>7. ASSUME NEW e \in Epics, HoldReleased(e) PROVE PaidHold' /\ StashBacked'
    <2> DEFINE r == stash[e]
    <2>1. /\ r \in Orders /\ EpicOf[r] = e /\ pc[r] \in Stashable
          /\ pc' = pc /\ held' = held \ {r}
          /\ stash' = [stash EXCEPT ![e] = NoStash]
      BY <1>1, <1>7 DEF HoldReleased, HoldInv, StashLate
    <2>2. pc[r] \notin Paid
      BY <1>7, <2>1 DEF HoldReleased, Stashable
    <2>3. \A f \in Epics : stash'[f] # NoStash => stash'[f] = stash[f] /\ stash[f] # r
      BY <1>1, <2>1 DEF HoldInv, StashLate
    <2> QED
      BY <2>1, <2>2, <2>3
  <1>8. ASSUME NEW p \in Positions, HoldBooked(p) PROVE PaidHold' /\ StashBacked'
    <2>1. /\ pc[p[1]] \in Booked /\ pc' = pc /\ stash' = stash
          /\ held' = held \ {p[1]}
      BY <1>8 DEF HoldBooked, HoldInv, DealsLate
    <2>2. \A e \in Epics : stash[e] # NoStash => stash[e] # p[1]
      BY <2>1 DEF HoldInv, StashLate, Stashable, Booked
    <2>3. \A x \in Orders : pc[x] \in Paid => x # p[1]
      BY <2>1 DEF Booked
    <2> QED
      BY <2>1, <2>2, <2>3
  <1> QED
    BY <1>2, <1>3, <1>4, <1>5, <1>6, <1>7, <1>8, HoldSteps

\* The reservation of a stashed order is still counted, so that giving it back
\* takes nothing from another order, whatever faults occur, unless the orphan
\* reconciliation runs or a reconciler pass fits between a worker's two marks.
THEOREM StashIsBacked ==
  ASSUME "orphan" \notin Actors, "fastReconciler" \notin Faults
  PROVE  Spec => []StashBacked
  <1>1. Init => HoldInv /\ PaidHold /\ StashBacked
    BY DEF Init, PendingInit, HoldInv, StashLate, DealsLate, PaidHold, Paid, StashBacked
  <1>2. StateTypeOK /\ HoldInv /\ PaidHold /\ StashBacked /\ [Next]_vars
          => HoldInv' /\ PaidHold' /\ StashBacked'
    BY HoldInvStep, BackedStep
  <1> QED
    BY <1>1, <1>2, StateTyped, PTL DEF Spec

-----------------------------------------------------------------------------
(* A live record keeps its instrument to itself.  The worker that marks an *)
(* order pending still owns the token of the epic, and its finally, which  *)
(* drops the token, waits for the gates of the epic; from then on the      *)
(* record refuses every signal.                                            *)

\* Between the check of the record and the token.
Waiting == {"correlate", "begin"}

\* A record of an entry that refuses signals.
LiveEntry(e) == HasPending(e) /\ pending[e].type = "entry"

\* While a record of an entry is live no other order of its epic is at work, and
\* one that waits in the gate finds the token taken.
RecordAlone ==
  \A e \in Epics : LiveEntry(e) =>
    LET r == pending[e].order IN
    /\ EpicOf[r] = e /\ pc[r] \in Stashable
    /\ \A x \in Rivals(r) : /\ pc[x] \notin Holding
                            /\ pc[x] \in Waiting => pc[r] \in Holding

-----------------------------------------------------------------------------
(* What a step may do to the records.                                      *)

\* Who may take the record of an epic away.
Droppable(e) ==
  \/ ~HasPending(e) \/ "closer" \in Actors
  \/ job # NoJob /\ job.epic = e /\ job' = NoJob
  \/ \E x \in Orders : EpicOf[x] = e /\ pc[x] \in {"confirm", "success"}

RecordsKept ==
  /\ \A e \in Epics :
       \/ pending'[e] = pending[e] /\ stash'[e] = stash[e]
       \/ pending'[e] = NoPending /\ Droppable(e)
       \/ /\ "closer" \in Actors /\ pending'[e] # NoPending
          /\ pending'[e].type = "exit"
  /\ job' \in {job, NoJob} \/ \E e \in Epics : RecVerify(e)

\* An order enters the gate past a record that is not live, becomes a worker's
\* past a token that is not live, and once failed leaves its token when no
\* rival is in the gate.
Moves(o, s) ==
  /\ Go(o, s)
  /\ s = "correlate" => ~HasPending(EpicOf[o])
  /\ s = "begin" => pc[o] = "correlate"
  /\ s \in Holding => \/ pc[o] \in Holding
                      \/ pc[o] = "begin" /\ ~InFlight(EpicOf[o])
  /\ pc[o] \in Stashable => s \in Stashable
  /\ pc[o] \in Stashable \cap Holding /\ s \notin Holding
       => \A x \in Rivals(o) : pc[x] \notin Gate

OrderMoves == UNCHANGED pc \/ \E o \in Orders, s \in Stage : Moves(o, s)

\* A worker marks its own order; without a reference nothing is stashed.
Marked(o) ==
  /\ \/ /\ pc[o] \in {"confirm", "failref"}
        /\ MarkPending(EpicOf[o], o, "entry", TRUE, TRUE)
     \/ pc[o] = "failexc" /\ MarkPending(EpicOf[o], o, "entry", FALSE, FALSE)
  /\ \E s \in {"failref", "closingFail"} : Go(o, s)
  /\ UNCHANGED <<job, brokerVars>>

\* What the operations on the pending table do to the records.
LEMMA RecordOps ==
  ASSUME StateTypeOK
  PROVE  /\ UNCHANGED <<pending, stash>> =>
              \A e \in Epics : pending'[e] = pending[e] /\ stash'[e] = stash[e]
         /\ \A e \in Epics : ResolvePending(e) =>
              \A f \in Epics : \/ pending'[f] = pending[f] /\ stash'[f] = stash[f]
                               \/ pending'[f] = NoPending /\ f = e
         /\ \A e \in Epics : PopStashAndResolve(e) =>
              \A f \in Epics : \/ pending'[f] = pending[f] /\ stash'[f] = stash[f]
                               \/ pending'[f] = NoPending /\ f = e
         /\ \A e \in Epics : PopIfExpired(e) =>
              \A f \in Epics : \/ pending'[f] = pending[f] /\ stash'[f] = stash[f]
                               \/ pending'[f] = NoPending /\ ~HasPending(f)
         /\ \A e \in Epics, o \in Orders : MarkPending(e, o, "exit", TRUE, FALSE) =>
              \A f \in Epics : \/ pending'[f] = pending[f] /\ stash'[f] = stash[f]
                               \/ pending'[f] # NoPending /\ pending'[f].type = "exit"
  <1>1. /\ pending \in [Epics -> PendingRecord \cup {NoPending}]
        /\ stash \in [Epics -> Orders \cup {NoStash}] /\ NoPending \notin PendingRecord
    BY PendingAssumption DEF StateTypeOK, PendingTypeOK
  <1>2. ASSUME NEW e \in Epics, ResolvePending(e), NEW f \in Epics
        PROVE  \/ pending'[f] = pending[f] /\ stash'[f] = stash[f]
               \/ pending'[f] = NoPending /\ f = e
    BY <1>2 DEF ResolvePending, ResolveAll
  <1>3. ASSUME NEW e \in Epics, PopStashAndResolve(e), NEW f \in Epics
        PROVE  \/ pending'[f] = pending[f] /\ stash'[f] = stash[f]
               \/ pending'[f] = NoPending /\ f = e
    BY <1>1, <1>3 DEF PopStashAndResolve
  <1>4. ASSUME NEW e \in Epics, PopIfExpired(e), NEW f \in Epics
        PROVE  \/ pending'[f] = pending[f] /\ stash'[f] = stash[f]
               \/ pending'[f] = NoPending /\ ~HasPending(f)
    <2>1. CASE f = e
      BY <1>1, <1>4, <2>1 DEF PopIfExpired
    <2>2. CASE f # e
      BY <1>1, <1>4, <2>2 DEF PopIfExpired
    <2> QED
      BY <2>1, <2>2
  <1>5. ASSUME NEW e \in Epics, NEW o \in Orders, MarkPending(e, o, "exit", TRUE, FALSE),
               NEW f \in Epics
        PROVE  \/ pending'[f] = pending[f] /\ stash'[f] = stash[f]
               \/ pending'[f] # NoPending /\ pending'[f].type = "exit"
    <2> DEFINE rec == [order |-> o, type |-> "exit", ref |-> TRUE,
                       reconcile |-> FALSE, age |-> 0]
    <2>1. rec \in PendingRecord
      BY AgeAssumption DEF PendingRecord, OrderTypes
    <2>2. pending' = [pending EXCEPT ![e] = rec] /\ stash' = stash
      BY <1>5 DEF MarkPending
    <2> QED
      BY <1>1, <2>1, <2>2
  <1> QED
    BY <1>2, <1>3, <1>4, <1>5

\* Without the sync and the reaper every step keeps the records, marks one, or
\* is a tick.
LEMMA RecordSteps ==
  ASSUME StateTypeOK, NoClearers, [Next]_vars,
         FractionalLots = FALSE, "slowGate" \notin Faults, "sync" \notin Actors
  PROVE  \/ RecordsKept /\ OrderMoves
         \/ \E o \in Orders : Marked(o)
         \/ Tick
  <1> DEFINE Goal == \/ RecordsKept /\ OrderMoves
                     \/ \E o \in Orders : Marked(o)
                     \/ Tick
  <1> USE DEF Holding, Stage, Gate, Worker, Terminal, Stashable
  <1>0. /\ \A o \in Orders : EpicOf[o] \in Epics
        /\ \A p \in Positions : p[1] \in Orders /\ EpicOfPos(p) \in Epics
    BY PipelineAssumption DEF Positions, EpicOfPos
  <1>k. UNCHANGED <<pending, stash, job>> => RecordsKept
    BY RecordOps DEF RecordsKept
  <1>1. ASSUME NEW o \in Orders, GateStep(o) PROVE Goal
    <2>1. RecordsKept
      <3>1. CASE CheckPending(o)
        BY <1>0, <3>1, RecordOps DEF CheckPending, actorVars, RecordsKept, Droppable
      <3>2. CASE \/ CorrelationCheck(o) \/ BeginEntry(o) \/ ReserveBudget(o)
                 \/ StartWorker(o) \/ WorkerStartFails(o)
        BY <1>k, <3>2 DEF CorrelationCheck, BeginEntry, ReserveBudget, StartWorker,
                          WorkerStartFails, actorVars, tableVars
      <3> QED
        BY <1>1, <3>1, <3>2 DEF GateStep
    <2>2. \E s \in Stage : Moves(o, s)
      <3>1. CASE CheckPending(o)
        BY <3>1 DEF CheckPending, Moves
      <3>2. CASE CorrelationCheck(o)
        BY <3>2 DEF CorrelationCheck, Moves
      <3>3. CASE BeginEntry(o)
        BY <3>3 DEF BeginEntry, TryBeginEntry, Moves
      <3>4. CASE ReserveBudget(o)
        BY <3>4 DEF ReserveBudget, Moves
      <3>5. CASE StartWorker(o)
        BY <3>5 DEF StartWorker, Moves
      <3>6. CASE WorkerStartFails(o)
        BY <3>6 DEF WorkerStartFails, Moves
      <3> QED
        BY <1>1, <3>1, <3>2, <3>3, <3>4, <3>5, <3>6 DEF GateStep
    <2> QED
      BY <2>1, <2>2 DEF OrderMoves
  <1>2. ASSUME NEW o \in Orders, WorkerStep(o) PROVE Goal
    <2> DEFINE Onward == \E s \in Worker : Go(o, s)
    <2>1. ASSUME pc[o] \in Worker \ Stashable, UNCHANGED pc \/ Onward
          PROVE  OrderMoves
      BY <2>1 DEF OrderMoves, Moves
    <2>2. CASE \/ PostReferenced(o) \/ PostErrors(o) \/ PostRefused(o) \/ PostRaises(o)
               \/ ConfirmAccepted(o) \/ ConfirmRaises(o) \/ StopFailsafe(o)
               \/ RecordFill(o) \/ RecordFillRaises(o) \/ FailNoRef(o)
      <3>1. RecordsKept
        BY <1>k, <2>2 DEF PostReferenced, PostErrors, PostRefused, PostRaises,
           ConfirmAccepted, ConfirmRaises, StopFailsafe, RecordFill, RecordFillRaises,
           FailNoRef, actorVars, tableVars
      <3>2. pc[o] \in Worker \ Stashable
        BY <2>2 DEF PostReferenced, PostErrors, PostRefused, PostRaises,
           ConfirmAccepted, ConfirmRaises, StopFailsafe, RecordFill, RecordFillRaises,
           FailNoRef
      <3>3. UNCHANGED pc \/ Onward
        <4>1. CASE PostReferenced(o)
          <5>1. Go(o, "confirm")
            BY <4>1 DEF PostReferenced
          <5> QED
            BY <5>1
        <4>2. CASE \/ PostErrors(o) \/ PostRefused(o) \/ PostRaises(o)
                   \/ ConfirmAccepted(o) \/ ConfirmRaises(o)
          BY <4>2 DEF PostErrors, PostRefused, PostRaises, ConfirmAccepted, ConfirmRaises
        <4>3. CASE \/ StopFailsafe(o) \/ RecordFill(o) \/ RecordFillRaises(o)
                   \/ FailNoRef(o)
          BY <4>3 DEF StopFailsafe, RecordFill, RecordFillRaises, FailNoRef
        <4> QED
          BY <2>2, <4>1, <4>2, <4>3
      <3> QED
        BY <2>1, <3>1, <3>2, <3>3
    <2>3. CASE ConfirmRejected(o) \/ WorkerResolve(o)
      <3>1. /\ pc[o] \in {"confirm", "success"} /\ ResolvePending(EpicOf[o])
            /\ Onward /\ job' = job
        BY <2>3 DEF ConfirmRejected, WorkerResolve, actorVars
      <3>2. RecordsKept
        BY <1>0, <3>1, RecordOps DEF RecordsKept, Droppable
      <3> QED
        BY <2>1, <3>1, <3>2
    <2>4. CASE ConfirmUnclear(o)
      <3>1. /\ pc[o] = "confirm" /\ UNCHANGED <<job, brokerVars>>
            /\ \/ UNCHANGED <<pc, pending, stash>>
               \/ Go(o, "failref") /\ MarkPending(EpicOf[o], o, "entry", TRUE, TRUE)
        BY <2>4 DEF ConfirmUnclear, actorVars
      <3> QED
        BY <1>k, <3>1 DEF Marked, OrderMoves
    <2>5. CASE FailWithRef(o) \/ FailException(o)
      BY <2>5 DEF FailWithRef, FailException, Marked, actorVars
    <2>6. CASE Finally(o)
      <3>1. RecordsKept
        BY <1>k, <2>6 DEF Finally, actorVars
      <3>2. \E s \in Stage : Moves(o, s)
        BY <2>6 DEF Finally, GateQuiet, Moves
      <3> QED
        BY <3>1, <3>2 DEF OrderMoves
    <2> QED
      BY <1>2, <2>2, <2>3, <2>4, <2>5, <2>6 DEF WorkerStep
  <1>3. ASSUME RecApply PROVE RecordsKept /\ OrderMoves
    <2>1. /\ job # NoJob /\ job.epic \in Epics /\ job' = NoJob /\ pc' = pc
          /\ PopStashAndResolve(job.epic) \/ ResolvePending(job.epic)
      BY <1>3 DEF RecApply, StateTypeOK, PipelineTypeOK
    <2> QED
      BY <2>1, RecordOps DEF RecordsKept, Droppable, OrderMoves
  <1>4. ~SyncApply /\ \A e \in Epics : ~ReaperEvict(e)
    BY DEF SyncApply, ReaperEvict, NoClearers
  <1>5. ASSUME SyncFetch \/ OrphanReconcile \/ Quiescent \/ UNCHANGED vars
        PROVE  RecordsKept /\ OrderMoves
    BY <1>5, <1>k DEF SyncFetch, OrphanReconcile, Quiescent, vars, tableVars, actorVars,
                      OrderMoves
  <1>6. ASSUME NEW p \in Positions, BrokerCloses(p) \/ BookExit(p)
        PROVE  RecordsKept /\ OrderMoves
    BY <1>6, <1>k DEF BrokerCloses, BookExit, tableVars, actorVars, OrderMoves
  <1>7. ASSUME NEW p \in Positions, CloseVerified(p) \/ CloseRaises(p)
        PROVE  RecordsKept /\ OrderMoves
    <2>1. /\ "closer" \in Actors /\ pc' = pc /\ job' = job
          /\ \/ ResolvePending(EpicOfPos(p))
             \/ MarkPending(EpicOfPos(p), p[1], "exit", TRUE, FALSE)
      BY <1>7 DEF CloseVerified, CloseRaises, actorVars
    <2> QED
      BY <1>0, <2>1, RecordOps DEF RecordsKept, Droppable, OrderMoves
  <1>8. ASSUME NEW e \in Epics, RecVerify(e) PROVE RecordsKept /\ OrderMoves
    BY <1>8, RecordOps DEF RecVerify, tableVars, RecordsKept, OrderMoves
  <1>9. ASSUME NEW e \in Epics, ReaperScan(e) PROVE RecordsKept /\ OrderMoves
    BY <1>9, <1>k DEF ReaperScan, tableVars, OrderMoves
  <1>10. ASSUME NEW o \in Orders, Settle(o) PROVE RecordsKept /\ OrderMoves
    BY <1>10, <1>k DEF Settle, tableVars, actorVars, OrderMoves
  <1> QED
    BY <1>1, <1>2, <1>3, <1>4, <1>5, <1>6, <1>7, <1>8, <1>9, <1>10
    DEF Next, ReconcilerStep

-----------------------------------------------------------------------------

\* Every step leaves a live record alone with its epic.
LEMMA RecordAloneStep ==
  ASSUME StateTypeOK, TokenInv, RecordAlone, [Next]_vars, FractionalLots = FALSE,
         "slowGate" \notin Faults, "sync" \notin Actors
  PROVE  RecordAlone'
  <1> DEFINE Alone(r) ==
        /\ pc'[r] \in Stashable
        /\ \A x \in Rivals(r) : /\ pc'[x] \notin Holding
                                /\ pc'[x] \in Waiting => pc'[r] \in Holding
  <1> SUFFICES ASSUME NEW e \in Epics, LiveEntry(e)'
               PROVE  /\ EpicOf[pending'[e].order] = e
                      /\ Alone(pending'[e].order)
    BY DEF RecordAlone, Rivals
  <1> DEFINE r == pending'[e].order
  <1>1. /\ pc \in [Orders -> Stage] /\ EpicOf \in [Orders -> Epics]
        /\ pending \in [Epics -> PendingRecord \cup {NoPending}]
        /\ NoPending \notin PendingRecord /\ HardExpiry \in Nat /\ AgeCap \in Nat
    BY PipelineAssumption, PendingAssumption, AgeAssumption
    DEF StateTypeOK, PipelineTypeOK, PendingTypeOK
  <1>2. /\ pending'[e] # NoPending /\ pending'[e].age <= HardExpiry
        /\ pending'[e].type = "entry"
    BY DEF LiveEntry, HasPending
  \* A token in hand keeps every rival out of work.
  <1>3. ASSUME NEW o \in Orders, pc[o] \in Holding
        PROVE  InFlight(EpicOf[o]) /\ \A x \in Rivals(o) : pc[x] \notin Holding
    <2>1. /\ entries[EpicOf[o]] # NoEntry /\ entries[EpicOf[o]].owner = o
          /\ entries[EpicOf[o]].age <= EntryTimeout
      BY <1>3 DEF TokenInv, TokenHeld, Owns
    <2>2. InFlight(EpicOf[o])
      <3>1. entries[EpicOf[o]] \in Token /\ EntryTimeout \in Nat
        BY <1>1, <2>1, EntryAssumption DEF StateTypeOK, EntryTypeOK
      <3> QED
        BY <2>1, <3>1, AgeAssumption DEF InFlight, Expired, Token
    <2>3. ASSUME NEW x \in Rivals(o) PROVE pc[x] \notin Holding
      <3>1. x \in Orders /\ x # o /\ EpicOf[x] = EpicOf[o]
        BY DEF Rivals
      <3> QED
        BY <2>1, <3>1 DEF TokenInv, TokenHeld, Owns
    <2> QED
      BY <2>2, <2>3
  \* The record was there before the step.
  <1>4. ASSUME LiveEntry(e), pending[e].order = r, OrderMoves
        PROVE  EpicOf[r] = e /\ Alone(r)
    <2>1. /\ EpicOf[r] = e /\ pc[r] \in Stashable /\ r \in Orders
          /\ \A x \in Rivals(r) : /\ pc[x] \notin Holding
                                  /\ pc[x] \in Waiting => pc[r] \in Holding
      BY <1>1, <1>4 DEF RecordAlone, LiveEntry, HasPending, PendingRecord
    <2>2. CASE UNCHANGED pc
      BY <2>1, <2>2
    <2>3. ASSUME NEW o \in Orders, NEW s \in Stage, Moves(o, s) PROVE Alone(r)
      <3>1. pc' = [pc EXCEPT ![o] = s]
        BY <2>3 DEF Moves, Go
      <3>2. pc'[r] \in Stashable
        BY <1>1, <2>1, <2>3, <3>1 DEF Moves
      <3>3. ASSUME NEW x \in Rivals(r) PROVE pc'[x] \notin Holding
        <4>1. x \in Orders /\ EpicOf[x] = e /\ pc[x] \notin Holding
          BY <2>1 DEF Rivals
        <4>2. CASE x # o
          BY <1>1, <3>1, <4>1, <4>2
        <4>3. CASE x = o
          <5>1. ASSUME s \in Holding PROVE FALSE
            <6>1. pc[x] = "begin" /\ ~InFlight(e)
              BY <2>3, <4>1, <4>3, <5>1 DEF Moves
            <6>2. pc[r] \in Holding
              BY <2>1, <6>1 DEF Waiting
            <6> QED
              BY <1>3, <2>1, <6>1, <6>2
          <5> QED
            BY <1>1, <3>1, <4>1, <4>3, <5>1
        <4> QED
          BY <4>2, <4>3
      <3>4. ASSUME NEW x \in Rivals(r), pc'[x] \in Waiting PROVE pc'[r] \in Holding
        <4>1. x \in Orders /\ EpicOf[x] = e /\ x # r
          BY <2>1 DEF Rivals
        <4>2. pc[x] \in Waiting
          <5>1. CASE x # o
            BY <1>1, <3>1, <3>4, <4>1, <5>1
          <5>2. CASE x = o
            BY <1>1, <1>4, <2>3, <3>1, <3>4, <4>1, <5>2 DEF Moves, Waiting, LiveEntry
          <5> QED
            BY <5>1, <5>2
        <4>3. pc[r] \in Holding
          BY <2>1, <4>2
        <4>4. CASE r # o
          BY <1>1, <2>1, <3>1, <4>3, <4>4
        <4>5. CASE r = o
          <5>1. pc[x] \in Gate
            BY <4>2 DEF Waiting, Gate
          <5>2. s \in Holding
            BY <2>1, <2>3, <4>3, <4>5, <5>1 DEF Moves
          <5> QED
            BY <1>1, <2>1, <3>1, <4>5, <5>2
        <4> QED
          BY <4>4, <4>5
      <3> QED
        BY <3>2, <3>3, <3>4
    <2> QED
      BY <1>4, <2>1, <2>2, <2>3 DEF OrderMoves
  <1>5. CASE RecordsKept /\ OrderMoves
    <2>1. pending'[e] = pending[e]
      BY <1>2, <1>5 DEF RecordsKept
    <2>2. LiveEntry(e)
      BY <1>2, <2>1 DEF LiveEntry, HasPending
    <2> QED
      BY <1>4, <1>5, <2>1, <2>2
  <1>6. ASSUME NEW o \in Orders, Marked(o)
        PROVE  EpicOf[r] = e /\ Alone(r)
    <2> DEFINE f == EpicOf[o]
    <2>1. /\ pc[o] \in {"confirm", "failref", "failexc"}
          /\ \E s \in {"failref", "closingFail"} : pc' = [pc EXCEPT ![o] = s]
      BY <1>6 DEF Marked, Go
    <2>2. PICK b \in BOOLEAN : MarkPending(f, o, "entry", b, b)
      BY <1>6 DEF Marked
    <2>3. pc[o] \in Holding /\ pc'[o] \in Holding /\ pc'[o] \in Stashable
      BY <1>1, <2>1 DEF Holding, Worker, Stashable
    <2>4. \A x \in Orders : x # o => pc'[x] = pc[x]
      BY <1>1, <2>1
    <2>5. CASE e = f
      <3>1. r = o
        BY <1>1, <2>2, <2>5 DEF MarkPending
      <3> QED
        BY <1>3, <2>3, <2>4, <2>5, <3>1 DEF Rivals
    <2>6. CASE e # f
      <3>1. pending'[e] = pending[e]
        BY <1>1, <2>2, <2>6 DEF MarkPending
      <3>2. LiveEntry(e) /\ r = pending[e].order
        BY <1>2, <3>1 DEF LiveEntry, HasPending
      <3>3. EpicOf[r] = e /\ r \in Orders /\ r # o /\ o \notin Rivals(r)
        BY <1>1, <2>6, <3>2 DEF RecordAlone, Rivals, LiveEntry, HasPending, PendingRecord
      <3>4. pc'[r] = pc[r] /\ \A x \in Rivals(r) : pc'[x] = pc[x]
        BY <2>4, <3>3 DEF Rivals
      <3> QED
        BY <3>2, <3>3, <3>4 DEF RecordAlone
    <2> QED
      BY <2>5, <2>6
  <1>7. CASE Tick
    <2>1. pending'[e] = Older(pending[e]) /\ UNCHANGED pc
      BY <1>7 DEF Tick, AgePending
    <2>2. pending[e] # NoPending /\ pending[e] \in PendingRecord
      BY <1>1, <1>2, <2>1 DEF Older
    <2>3. /\ pending'[e].type = pending[e].type /\ r = pending[e].order
          /\ {pending[e].age, pending'[e].age} \subseteq Nat
          /\ pending[e].age <= pending'[e].age
      BY <1>1, <2>1, <2>2 DEF Older, PendingRecord
    <2>4. LiveEntry(e)
      BY <1>1, <1>2, <2>2, <2>3 DEF LiveEntry, HasPending
    <2> QED
      BY <1>4, <2>1, <2>3, <2>4 DEF OrderMoves
  <1> QED
    BY <1>5, <1>6, <1>7, RecordSteps DEF TokenInv

\* No order is posted while the outcome of another of its epic is unknown: the
\* token covers the time the worker runs, the record the time after it, and the
\* one is not dropped while a rival is between its two checks.
THEOREM PendingBlocks ==
  ASSUME FractionalLots = FALSE, "slowWorker" \notin Faults, "slowGate" \notin Faults,
         "sync" \notin Actors, "reaper" \notin Actors
  PROVE  Spec => PendingBlocksPost
  <1>1. Init => TokenInv /\ RecordAlone
    BY DEF Init, TokenInv, TokenHeld, NoClearers, NoView, Holding, Worker,
           PendingInit, RecordAlone, LiveEntry, HasPending
  <1>2. StateTypeOK /\ TokenInv /\ RecordAlone /\ [Next]_vars
          => TokenInv' /\ RecordAlone'
    BY TokenHeldStep, NoClearersStep, RecordAloneStep DEF TokenInv
  <1> DEFINE Blocks == \A o \in Orders :
               pc[o] = "post" /\ pc'[o] \in {"confirm", "filled"}
                 => ~(HasPending(EpicOf[o]) /\ pending[EpicOf[o]].type = "entry")
  <1>3. RecordAlone => Blocks
    <2> SUFFICES ASSUME RecordAlone, NEW o \in Orders, pc[o] = "post",
                        LiveEntry(EpicOf[o])
                 PROVE  FALSE
      BY DEF LiveEntry
    <2> DEFINE r == pending[EpicOf[o]].order
    <2>1. EpicOf[o] \in Epics
      BY PipelineAssumption
    <2>2. /\ EpicOf[r] = EpicOf[o] /\ pc[r] \in Stashable
          /\ \A x \in Rivals(r) : pc[x] \notin Holding
      BY <2>1 DEF RecordAlone
    <2>3. o \in Rivals(r)
      BY <2>2 DEF Rivals, Stashable
    <2> QED
      BY <2>2, <2>3 DEF Holding, Worker
  <1> QED
    BY <1>1, <1>2, <1>3, StateTyped, PTL DEF Spec, PendingBlocksPost

-----------------------------------------------------------------------------
(* The reconciler's verdict.  A record that asks for reconciliation stays  *)
(* with its stash, and as long as the broker decides in time and the       *)
(* reconciler settles what it can before the clock moves, it does not get  *)
(* stale while the broker works on its order or holds its position.  A     *)
(* verdict to release therefore concerns an order the broker is done with, *)
(* and since the record keeps its epic to itself, it still does when the   *)
(* verdict is applied.                                                     *)

\* The broker is not done with the order: it decides, or a position is open.
Busy(r) == broker[r] = "working" \/ Referenced(r) \in positions
BusyNext(r) == broker'[r] = "working" \/ Referenced(r) \in positions'

\* A referenced position is that of an accepted order.
PositionsAccepted == \A o \in Orders : Referenced(o) \in positions => broker[o] = "accepted"

\* The record of an order whose outcome the worker did not learn.
Uncertain(e) == pending[e] # NoPending /\ pending[e].reconcile

\* Such a record has its order's reservation stashed beside it, and does not
\* become stale while the broker is not done with the order.
RecordsSound ==
  \A e \in Epics : Uncertain(e) =>
    LET r == pending[e].order IN
    /\ pending[e].type = "entry" /\ stash[e] = r
    /\ EpicOf[r] = e /\ pc[r] \in Stashable
    /\ "reconciler" \in Actors =>
         /\ pending[e].age <= PendingTimeout
         /\ Busy(r) => pending[e].age < PendingTimeout

\* Only a record that asks for reconciliation has a reference.
ReferencedRecords ==
  \A e \in Epics : pending[e] # NoPending => /\ pending[e].type = "entry"
                                             /\ pending[e].ref => pending[e].reconcile

\* While the reconciler is about to release, the record it has read is still
\* there and the broker is done with its order.
VerdictSound ==
  job # NoJob /\ job.verdict = "release" =>
    /\ Uncertain(job.epic) /\ ~Busy(pending[job.epic].order)
    /\ "reconciler" \in Actors

\* The inductive invariant.
VerdictInv ==
  /\ TokenInv /\ RecordAlone /\ PostFresh
  /\ PositionsAccepted /\ RecordsSound /\ ReferencedRecords /\ VerdictSound

\* What the reconciler may decide about the record of an entry.
LEMMA EntryVerdicts ==
  ASSUME NEW rec, rec.type = "entry"
  PROVE  /\ rec.reconcile /\ rec.age >= PendingTimeout => VerdictsOn(rec) # {}
         /\ Referenced(rec.order) \in positions /\ broker[rec.order] = "accepted"
              => VerdictsOn(rec) # {}
         /\ "release" \in VerdictsOn(rec) =>
              \/ rec.ref /\ broker[rec.order] = "rejected"
              \/ rec.reconcile /\ rec.age >= PendingTimeout
  <1> DEFINE e == EpicOf[rec.order]
             status == IF rec.ref THEN broker[rec.order] ELSE "none"
             confirms == {status} \cup (IF "apiDown" \in Faults THEN {"none"} ELSE {})
             present == {EpicOpen(e)} \cup (IF "apiDown" \in Faults THEN {FALSE} ELSE {})
             stale == rec.reconcile /\ rec.age >= PendingTimeout
  <1>1. VerdictsOn(rec) =
          {v \in Verdicts :
             \/ v = "resolve" /\ TRUE \in present /\ confirms # {"rejected"}
             \/ v = "release" /\ "rejected" \in confirms
             \/ v = "release" /\ FALSE \in present /\ stale}
    BY DEF VerdictsOn
  <1>2. EpicOpen(e) \in BOOLEAN
    BY DEF EpicOpen
  <1>3. Referenced(rec.order) \in positions => EpicOpen(e)
    BY DEF EpicOpen, EpicOfPos, Referenced
  <1> HIDE DEF e
  <1>4. TRUE \in present \/ FALSE \in present
    BY <1>2
  <1>5. "resolve" \in Verdicts /\ "release" \in Verdicts
    BY DEF Verdicts
  <1>6. confirms = {"rejected"} => "rejected" \in confirms
    OBVIOUS
  <1>7. stale => VerdictsOn(rec) # {}
    BY <1>1, <1>4, <1>5, <1>6
  <1>8. ASSUME Referenced(rec.order) \in positions, broker[rec.order] = "accepted"
        PROVE  VerdictsOn(rec) # {}
    <2>1. TRUE \in present
      BY <1>3, <1>8
    <2>2. status \in {"accepted", "none"} /\ status \in confirms
      BY <1>8
    <2>3. confirms # {"rejected"}
      BY <2>2
    <2>4. "resolve" \in VerdictsOn(rec)
      BY <1>1, <1>5, <2>1, <2>3
    <2> QED
      BY <2>4
  <1>9. "release" \in VerdictsOn(rec) =>
          (rec.ref /\ broker[rec.order] = "rejected") \/ stale
    BY <1>1
  <1> QED
    BY <1>7, <1>8, <1>9

\* The broker takes up an order only at its post.
LEMMA BusyStep ==
  ASSUME StateTypeOK, [Next]_vars, NEW r \in Orders, pc[r] # "post", BusyNext(r)
  PROVE  Busy(r)
  <1> USE DEF BusyNext
  <1>1. DOMAIN broker = Orders
    BY DEF StateTypeOK, PipelineTypeOK
  <1>2. ASSUME NEW o \in Orders, PostReferenced(o) PROVE Busy(r)
    BY <1>1, <1>2 DEF PostReferenced, Busy
  <1>3. ASSUME NEW o \in Orders, Settle(o) PROVE Busy(r)
    BY <1>1, <1>3 DEF Settle, Busy, Referenced
  <1>4. ASSUME NEW o \in Orders, PostErrors(o) PROVE Busy(r)
    BY <1>4 DEF PostErrors, Busy, Referenced, Stray
  <1> QED
    BY <1>2, <1>3, <1>4, BrokerSteps DEF Busy

\* Every referenced position stays that of an accepted order.
LEMMA AcceptedStep ==
  ASSUME StateTypeOK, PostFresh, PositionsAccepted, [Next]_vars
  PROVE  PositionsAccepted'
  <1> SUFFICES ASSUME NEW x \in Orders, Referenced(x) \in positions'
               PROVE  broker'[x] = "accepted"
    BY DEF PositionsAccepted, Referenced
  <1>1. DOMAIN broker = Orders
    BY DEF StateTypeOK, PipelineTypeOK
  <1>2. ASSUME NEW o \in Orders, PostReferenced(o) PROVE broker'[x] = "accepted"
    BY <1>1, <1>2 DEF PostReferenced, PostFresh, PositionsAccepted, BeforePost
  <1>3. ASSUME NEW o \in Orders, Settle(o) PROVE broker'[x] = "accepted"
    BY <1>1, <1>3 DEF Settle, PositionsAccepted, Referenced
  <1>4. ASSUME NEW o \in Orders, PostErrors(o) PROVE broker'[x] = "accepted"
    BY <1>4 DEF PostErrors, PositionsAccepted, Referenced, Stray
  <1> QED
    BY <1>2, <1>3, <1>4, BrokerSteps DEF PositionsAccepted

\* Every step keeps the records that ask for reconciliation sound.
LEMMA RecordsSoundStep ==
  ASSUME StateTypeOK, VerdictInv, [Next]_vars, FractionalLots = FALSE,
         {"sync", "closer"} \cap Actors = {},
         {"slowGate", "slowBroker", "slowActor"} \cap Faults = {}
  PROVE  RecordsSound' /\ ReferencedRecords'
  <1>1. /\ pc \in [Orders -> Stage] /\ EpicOf \in [Orders -> Epics]
        /\ pending \in [Epics -> PendingRecord \cup {NoPending}]
        /\ stash \in [Epics -> Orders \cup {NoStash}]
        /\ NoPending \notin PendingRecord
        /\ PendingTimeout \in Nat /\ PendingTimeout >= 1 /\ AgeCap \in Nat
        /\ PendingTimeout < AgeCap
    BY PipelineAssumption, PendingAssumption, AgeAssumption
    DEF StateTypeOK, PipelineTypeOK, PendingTypeOK
  <1> SUFFICES ASSUME NEW e \in Epics, pending'[e] # NoPending
               PROVE  /\ pending'[e].type = "entry"
                      /\ pending'[e].ref => pending'[e].reconcile
                      /\ pending'[e].reconcile =>
                           /\ stash'[e] = pending'[e].order
                           /\ EpicOf[pending'[e].order] = e
                           /\ pc'[pending'[e].order] \in Stashable
                           /\ "reconciler" \in Actors =>
                                /\ pending'[e].age <= PendingTimeout
                                /\ BusyNext(pending'[e].order)
                                     => pending'[e].age < PendingTimeout
    BY DEF RecordsSound, ReferencedRecords, Uncertain, Busy, BusyNext
  <1> DEFINE rec == pending[e]
             r == rec.order
  <1>2. rec # NoPending => /\ rec \in PendingRecord /\ r \in Orders /\ rec.age \in Nat
                           /\ rec.type = "entry" /\ (rec.ref => rec.reconcile)
    BY <1>1 DEF PendingRecord, VerdictInv, ReferencedRecords
  <1>3. rec # NoPending /\ rec.reconcile =>
          /\ stash[e] = r /\ EpicOf[r] = e /\ pc[r] \in Stashable
          /\ "reconciler" \in Actors => /\ rec.age <= PendingTimeout
                                        /\ Busy(r) => rec.age < PendingTimeout
    BY DEF VerdictInv, RecordsSound, Uncertain
  <1>4. rec # NoPending /\ rec.reconcile /\ BusyNext(r) => Busy(r)
    BY <1>2, <1>3, BusyStep DEF Stashable
  <1>5. CASE RecordsKept /\ OrderMoves
    <2>1. pending'[e] = rec /\ stash'[e] = stash[e]
      BY <1>5 DEF RecordsKept
    <2>2. rec.reconcile => pc'[r] \in Stashable
      BY <1>1, <1>2, <1>3, <1>5, <2>1 DEF OrderMoves, Moves, Go
    <2> QED
      BY <1>2, <1>3, <1>4, <2>1, <2>2
  <1>6. ASSUME NEW o \in Orders, Marked(o)
        PROVE  /\ pending'[e].type = "entry"
               /\ pending'[e].ref => pending'[e].reconcile
               /\ pending'[e].reconcile =>
                    /\ stash'[e] = pending'[e].order
                    /\ EpicOf[pending'[e].order] = e
                    /\ pc'[pending'[e].order] \in Stashable
                    /\ "reconciler" \in Actors =>
                         /\ pending'[e].age <= PendingTimeout
                         /\ BusyNext(pending'[e].order) => pending'[e].age < PendingTimeout
    <2>1. PICK b \in BOOLEAN : MarkPending(EpicOf[o], o, "entry", b, b)
      BY <1>6 DEF Marked
    <2>2. PICK s \in Stashable : pc' = [pc EXCEPT ![o] = s]
      BY <1>6 DEF Marked, Go, Stashable
    <2>3. CASE e = EpicOf[o]
      <3>1. /\ pending'[e] = [order |-> o, type |-> "entry", ref |-> b,
                              reconcile |-> b, age |-> 0]
            /\ b => stash'[e] = o
        BY <1>1, <2>1, <2>3 DEF MarkPending
      <3> QED
        BY <1>1, <2>2, <2>3, <3>1
    <2>4. CASE e # EpicOf[o]
      <3>1. pending'[e] = rec /\ stash'[e] = stash[e]
        BY <1>1, <2>1, <2>4 DEF MarkPending
      <3>2. rec.reconcile => pc'[r] = pc[r]
        BY <1>1, <1>2, <1>3, <2>2, <2>4, <3>1
      <3> QED
        BY <1>2, <1>3, <1>4, <3>1, <3>2
    <2> QED
      BY <2>3, <2>4
  <1>7. CASE Tick
    <2>1. /\ pending'[e] = Older(rec) /\ stash' = stash /\ pc' = pc
          /\ UNCHANGED <<broker, positions>> /\ BrokerInTime /\ ActorsIdle
      BY <1>7 DEF Tick, AgePending, brokerVars
    <2>2. rec # NoPending
      BY <2>1 DEF Older
    <2>3. /\ pending'[e] = [order |-> rec.order, type |-> rec.type, ref |-> rec.ref,
                            reconcile |-> rec.reconcile, age |-> pending'[e].age]
          /\ pending'[e].age \in {rec.age, rec.age + 1}
      BY <1>2, <2>1, <2>2 DEF Older, PendingRecord
    <2>4. ASSUME rec.reconcile, "reconciler" \in Actors
          PROVE  /\ rec.age + 1 <= PendingTimeout
                 /\ Busy(r) => rec.age + 1 < PendingTimeout
      <3>1. VerdictsOn(rec) = {}
        BY <2>1, <2>2, <2>4 DEF ActorsIdle
      <3>2. ~(rec.age >= PendingTimeout)
        BY <1>2, <2>2, <2>4, <3>1, EntryVerdicts
      <3>3. Busy(r) => broker[r] = "working"
        BY <1>2, <2>2, <3>1, EntryVerdicts DEF Busy, VerdictInv, PositionsAccepted
      <3>4. broker[r] = "working" => rec.age + 1 < PendingTimeout
        BY <2>1, <2>2 DEF BrokerInTime
      <3> QED
        BY <1>1, <1>2, <2>2, <3>2, <3>3, <3>4
    <2>5. BusyNext(r) => Busy(r)
      BY <2>1 DEF Busy, BusyNext
    <2> HIDE DEF rec
    <2> QED
      BY <1>1, <1>2, <1>3, <2>1, <2>2, <2>3, <2>4, <2>5
  <1> QED
    BY <1>5, <1>6, <1>7, RecordSteps DEF VerdictInv, TokenInv

\* Every step keeps a verdict to release true of what it is applied to.
LEMMA VerdictSoundStep ==
  ASSUME StateTypeOK, VerdictInv, [Next]_vars, FractionalLots = FALSE,
         {"sync", "closer"} \cap Actors = {},
         {"slowGate", "slowBroker", "slowActor"} \cap Faults = {}
  PROVE  VerdictSound'
  <1> SUFFICES ASSUME job' # NoJob, job'.verdict = "release"
               PROVE  /\ Uncertain(job.epic)' /\ ~BusyNext(pending'[job'.epic].order)
                      /\ "reconciler" \in Actors
    BY DEF VerdictSound, Busy, BusyNext
  <1>1. /\ pc \in [Orders -> Stage] /\ EpicOf \in [Orders -> Epics]
        /\ pending \in [Epics -> PendingRecord \cup {NoPending}]
        /\ NoPending \notin PendingRecord
        /\ job \in {NoJob} \cup [epic : Epics, verdict : Verdicts]
        /\ PendingTimeout <= HardExpiry /\ PendingTimeout \in Nat /\ HardExpiry \in Nat
    BY PipelineAssumption, PendingAssumption
    DEF StateTypeOK, PipelineTypeOK, PendingTypeOK
  \* The verdict was there before the step.
  <1> DEFINE e == job.epic
             r == pending[e].order
  <1>2. ASSUME job' = job
        PROVE  /\ e \in Epics /\ pending[e] # NoPending /\ pending[e].reconcile
               /\ LiveEntry(e) /\ r \in Orders /\ EpicOf[r] = e /\ pc[r] \in Stashable
               /\ \A x \in Orders : EpicOf[x] = e /\ pc[x] \in Holding => x = r
               /\ ~Busy(r) /\ ~BusyNext(r) /\ "reconciler" \in Actors
    <2>1. /\ Uncertain(e) /\ ~Busy(r) /\ "reconciler" \in Actors /\ e \in Epics
      BY <1>1, <1>2 DEF VerdictInv, VerdictSound
    <2>2. /\ pending[e] # NoPending /\ pending[e].reconcile /\ r \in Orders
          /\ pending[e].age \in Nat
      BY <1>1, <2>1, AgeAssumption DEF Uncertain, PendingRecord
    <2>3. /\ pending[e].type = "entry" /\ EpicOf[r] = e /\ pc[r] \in Stashable
          /\ pending[e].age <= PendingTimeout
      BY <2>1 DEF VerdictInv, RecordsSound
    <2>4. LiveEntry(e)
      BY <1>1, <2>2, <2>3 DEF LiveEntry, HasPending
    <2>5. \A x \in Orders : EpicOf[x] = e /\ pc[x] \in Holding => x = r
      BY <2>1, <2>3, <2>4 DEF VerdictInv, RecordAlone, Rivals
    <2>6. ~BusyNext(r)
      BY <2>1, <2>2, <2>3, BusyStep DEF Stashable
    <2> QED
      BY <2>1, <2>2, <2>3, <2>4, <2>5, <2>6
  <1>3. CASE RecordsKept /\ job' = job
    <2>1. ~Droppable(e)
      BY <1>2, <1>3 DEF Droppable, LiveEntry, Stashable, Holding, Worker
    <2>2. pending'[e] = pending[e]
      BY <1>2, <1>3, <2>1 DEF RecordsKept
    <2> QED
      BY <1>2, <1>3, <2>2 DEF Uncertain
  <1>4. ASSUME NEW f \in Epics, RecVerify(f)
        PROVE  /\ Uncertain(job.epic)' /\ ~BusyNext(pending'[job'.epic].order)
               /\ "reconciler" \in Actors
    <2>1. /\ pending[f] # NoPending /\ "reconciler" \in Actors
          /\ \E v \in VerdictsOn(pending[f]) : job' = [epic |-> f, verdict |-> v]
          /\ UNCHANGED <<pending, broker, positions>>
      BY <1>4 DEF RecVerify, tableVars, brokerVars
    <2>2. job'.epic = f /\ "release" \in VerdictsOn(pending[f])
      BY <2>1
    <2> DEFINE x == pending[f].order
    <2>3. /\ pending[f].type = "entry" /\ (pending[f].ref => pending[f].reconcile)
          /\ pending[f].age \in Nat /\ x \in Orders
      BY <1>1, <2>1, AgeAssumption DEF VerdictInv, ReferencedRecords, PendingRecord
    <2>4. \/ pending[f].ref /\ broker[x] = "rejected"
          \/ pending[f].reconcile /\ pending[f].age >= PendingTimeout
      BY <2>2, <2>3, EntryVerdicts
    <2>5. Uncertain(f)
      BY <2>1, <2>3, <2>4 DEF Uncertain
    <2>6. Busy(x) => pending[f].age < PendingTimeout
      BY <2>1, <2>5 DEF VerdictInv, RecordsSound
    <2>7. broker[x] = "rejected" => ~Busy(x)
      BY <2>3 DEF Busy, VerdictInv, PositionsAccepted
    <2>8. ~Busy(x)
      BY <1>1, <2>3, <2>4, <2>6, <2>7
    <2> QED
      BY <2>1, <2>2, <2>5, <2>8 DEF Uncertain, Busy, BusyNext
  <1>5. ASSUME NEW o \in Orders, Marked(o)
        PROVE  /\ Uncertain(job.epic)' /\ ~BusyNext(pending'[job'.epic].order)
               /\ "reconciler" \in Actors
    <2>1. job' = job /\ pc[o] \in Holding
      BY <1>5 DEF Marked, Holding, Worker
    <2>2. CASE EpicOf[o] = e
      <3>1. o = r /\ pc[o] \in Stashable
        BY <1>2, <2>1, <2>2
      <3>2. MarkPending(e, r, "entry", TRUE, TRUE)
        BY <1>5, <2>2, <3>1 DEF Marked, Stashable
      <3>3. pending'[e] = [order |-> r, type |-> "entry", ref |-> TRUE,
                           reconcile |-> TRUE, age |-> 0]
        BY <1>1, <1>2, <2>1, <3>2 DEF MarkPending
      <3>4. pending'[e] \in PendingRecord
        BY <1>2, <2>1, <3>3, AgeAssumption DEF PendingRecord, OrderTypes
      <3>5. pending'[e] # NoPending
        BY <1>1, <3>4
      <3>6. pending'[e].reconcile /\ pending'[e].order = r
        BY <3>3
      <3> QED
        BY <1>2, <2>1, <3>5, <3>6 DEF Uncertain
    <2>3. CASE EpicOf[o] # e
      <3>1. pending'[e] = pending[e]
        BY <1>1, <1>2, <1>5, <2>1, <2>3 DEF Marked, MarkPending
      <3> QED
        BY <1>2, <2>1, <3>1 DEF Uncertain
    <2> QED
      BY <2>2, <2>3
  <1>6. ~Tick
    <2> SUFFICES ASSUME Tick PROVE FALSE
      OBVIOUS
    <2>1. job = NoJob /\ job' = job
      BY DEF Tick, ActorsIdle, actorVars
    <2> QED
      BY <2>1
  <1> QED
    BY <1>3, <1>4, <1>5, <1>6, RecordSteps DEF RecordsKept, VerdictInv, TokenInv

\* Every step keeps the whole invariant.
LEMMA VerdictInvStep ==
  ASSUME StateTypeOK, VerdictInv, [Next]_vars, FractionalLots = FALSE,
         {"sync", "reaper", "closer"} \cap Actors = {},
         {"slowGate", "slowWorker", "slowBroker", "slowActor"} \cap Faults = {}
  PROVE  VerdictInv'
  <1>1. TokenInv' /\ RecordAlone' /\ PostFresh' /\ PositionsAccepted'
    BY TokenHeldStep, NoClearersStep, RecordAloneStep, PostFreshStep, AcceptedStep
    DEF VerdictInv, TokenInv
  <1>2. RecordsSound' /\ ReferencedRecords' /\ VerdictSound'
    BY RecordsSoundStep, VerdictSoundStep
  <1> QED
    BY <1>1, <1>2 DEF VerdictInv

\* The invariant holds initially.
LEMMA VerdictInit == Init => VerdictInv
  BY DEF Init, TokenInv, TokenHeld, NoClearers, NoView, Holding, Worker,
         PendingInit, RecordAlone, LiveEntry, HasPending, PostFresh,
         VerdictInv, PositionsAccepted, RecordsSound, ReferencedRecords,
         Uncertain, VerdictSound

\* A failed order's reservation is given back only once the broker is done with
\* the order, whatever fails, provided that the broker and the background threads
\* answer in time and that no other thread takes records or tokens away.
THEOREM ReleasesNeedVerdict ==
  ASSUME FractionalLots = FALSE,
         {"sync", "reaper", "closer", "orphan"} \cap Actors = {},
         {"slowGate", "slowWorker", "slowBroker", "slowActor"} \cap Faults = {}
  PROVE  Spec => ReleaseNeedsVerdict
  <1>1. StateTypeOK /\ VerdictInv /\ [Next]_vars => VerdictInv'
    BY VerdictInvStep
  <1>2. Init => HoldInv
    BY DEF Init, PendingInit, HoldInv, StashLate, DealsLate
  <1>3. StateTypeOK /\ HoldInv /\ [Next]_vars => HoldInv'
    BY HoldInvStep
  <1> DEFINE Needs == \A o \in Orders :
               o \in held /\ o \notin held' /\ pc[o] = "failed" => broker[o] # "working"
  <1>4. StateTypeOK /\ VerdictInv /\ HoldInv /\ [Next]_vars => [Needs]_vars
    <2> SUFFICES ASSUME StateTypeOK, VerdictInv, HoldInv, [Next]_vars, NEW x \in Orders,
                        x \in held, x \notin held', pc[x] = "failed"
                 PROVE  broker[x] # "working"
      OBVIOUS
    <2>1. ASSUME NEW o \in Orders, HoldDropped(o) PROVE FALSE
      BY <2>1 DEF HoldDropped
    <2>2. ASSUME NEW p \in Positions, HoldBooked(p) PROVE FALSE
      <3>1. p[1] = x /\ pc[p[1]] \in Booked
        BY <2>2 DEF HoldBooked, HoldInv, DealsLate
      <3> QED
        BY <3>1 DEF Booked
    <2>3. ASSUME NEW e \in Epics, HoldReleased(e) PROVE broker[x] # "working"
      <3>1. x = stash[e] /\ job # NoJob /\ job.epic = e /\ job.verdict = "release"
        BY <2>3 DEF HoldReleased
      <3>2. Uncertain(e) /\ ~Busy(pending[e].order)
        BY <3>1 DEF VerdictInv, VerdictSound
      <3>3. x = pending[e].order
        BY <3>1, <3>2 DEF VerdictInv, RecordsSound
      <3> QED
        BY <3>2, <3>3 DEF Busy
    <2> QED
      BY <2>1, <2>2, <2>3, HoldSteps DEF HoldKept, HoldTaken, HoldStashed, HoldFilled
  <1> QED
    BY <1>1, <1>2, <1>3, <1>4, VerdictInit, StateTyped, PTL DEF Spec, ReleaseNeedsVerdict
=============================================================================
