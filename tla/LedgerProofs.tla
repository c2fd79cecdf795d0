---------------------------- MODULE LedgerProofs ----------------------------
(***************************************************************************)
(* The books of the agent, for any finite set of orders, any risks and any *)
(* number of days: the budget in use is the sum of what the orders at work *)
(* and the open deals reserved, the heat of a direction is that of its     *)
(* deals, the entries of a session are counted over midnight and a         *)
(* restart, and the order path implements the contract of the budget.      *)
(***************************************************************************)
EXTENDS ReservationProofs, AgentRestarts

-----------------------------------------------------------------------------
(* Midnight changes nothing but the date.                                  *)

\* The turn of the day keeps every type.
LEMMA NewDayTyped == StateTypeOK /\ NewDay => StateTypeOK'
  <1> SUFFICES ASSUME StateTypeOK, NewDay PROVE StateTypeOK'
    OBVIOUS
  <1> USE DEF StateTypeOK, NewDay, tableVars, brokerVars, storeVars, actorVars, guardVars
  <1>1. EntryTypeOK' /\ PendingTypeOK' /\ GuardTypeOK'
    BY EntryOpsTyped, PendingOpsTyped DEF GuardTypeOK
  <1>2. PipelineTypeOK'
    BY DEF PipelineTypeOK
  <1> QED
    BY <1>1, <1>2

\* In every state of the order path over midnight the types hold.
THEOREM DaysTyped == DaySpec => []StateTypeOK
  BY InitTyped, NextTyped, NewDayTyped, PTL DEF DaySpec

\* A single day is a behaviour over days: what is proved of DaySpec holds of Spec.
THEOREM OneDay == Spec => DaySpec
  BY PTL DEF Spec, DaySpec

-----------------------------------------------------------------------------
(* The budget in use.                                                      *)

\* A deal whose exit gives budget back is the referenced one of a holder.
DealsBacked == \A p \in dealRisk : p[1] \in held /\ p = Referenced(p[1])

\* An order before its reservation holds none.
NotYetHeld == \A o \in Orders : pc[o] \in Unpaid => o \notin held

\* The inductive invariant: who holds what, and that the figure of the gate is
\* the sum of it, below the cap.
LedgerInv ==
  /\ HoldInv /\ PaidHold /\ StashBacked /\ DealsBacked /\ NotYetHeld
  /\ UsedIsHeld /\ concurrent <= MaxConcurrent

\* The sum of the risks of some orders is a natural number.
LEMMA RiskSums ==
  ASSUME IsFiniteSet(Orders), NEW S \in SUBSET Orders
  PROVE  /\ IsFiniteSet(S) /\ Sum(Risk, S) \in Nat
         /\ \A o \in S : /\ Risk[o] \in Nat /\ Sum(Risk, S \ {o}) \in Nat
                         /\ Sum(Risk, S) = Risk[o] + Sum(Risk, S \ {o})
         /\ \A o \in Orders \ S : Sum(Risk, S \cup {o}) = Sum(Risk, S) + Risk[o]
  <1>1. \A o \in Orders : Risk[o] \in Nat /\ Risk[o] \in Int
    BY PipelineAssumption
  <1>2. ASSUME NEW T \in SUBSET Orders
        PROVE  IsFiniteSet(T) /\ Sum(Risk, T) \in Nat
    <2>1. IsFiniteSet(T)
      BY FS_Subset
    <2> QED
      BY <1>1, <2>1, SumNatural
  <1>3. ASSUME NEW o \in S
        PROVE  /\ Risk[o] \in Nat /\ Sum(Risk, S \ {o}) \in Nat
               /\ Sum(Risk, S) = Risk[o] + Sum(Risk, S \ {o})
    BY <1>1, <1>2, SumRemove
  <1>4. ASSUME NEW o \in Orders \ S PROVE Sum(Risk, S \cup {o}) = Sum(Risk, S) + Risk[o]
    BY <1>1, <1>2, SumAdd
  <1> QED
    BY <1>2, <1>3, <1>4

\* Giving back the reservation of a holder keeps the figure exact: the clamp at
\* zero never cuts anything off.
LEMMA UsedFreed ==
  ASSUME IsFiniteSet(Orders), held \subseteq Orders, UsedIsHeld, NEW o \in held,
         held' = held \ {o}, concurrent' = AtLeastZero(concurrent - Risk[o])
  PROVE  UsedIsHeld' /\ concurrent' = concurrent - Risk[o] /\ concurrent' <= concurrent
  <1>1. concurrent = Sum(Risk, held)
    BY DEF UsedIsHeld, Sum
  <1>2. /\ Risk[o] \in Nat /\ Sum(Risk, held \ {o}) \in Nat
        /\ Sum(Risk, held) = Risk[o] + Sum(Risk, held \ {o})
    BY RiskSums
  <1>3. concurrent - Risk[o] = Sum(Risk, held \ {o})
    BY <1>1, <1>2
  <1>4. concurrent' = Sum(Risk, held \ {o})
    BY <1>2, <1>3 DEF AtLeastZero
  <1>5. concurrent' = Sum(Risk, held')
    BY <1>4
  <1>6. UsedIsHeld'
    BY <1>5 DEF UsedIsHeld, Sum, MapThenSumSet, MapThenFoldSet
  <1> QED
    BY <1>1, <1>2, <1>3, <1>4, <1>6

\* Every step keeps the books of the budget.
LEMMA LedgerStep ==
  ASSUME IsFiniteSet(Orders), StateTypeOK, LedgerInv, [Next]_vars,
         "orphan" \notin Actors, "startFail" \notin Faults,
         "fastReconciler" \notin Faults \/ \A e \in Epics : stash[e] = NoStash
  PROVE  LedgerInv'
  <1>1. /\ pc \in [Orders -> Stage] /\ stash \in [Epics -> Orders \cup {NoStash}]
        /\ dealRisk \subseteq Positions /\ held \subseteq Orders
        /\ \A p \in Positions : p[1] \in Orders
        /\ MaxConcurrent \in Nat /\ \A o \in Orders : Risk[o] \in Nat
    BY PipelineAssumption, EnvelopeAssumption
    DEF StateTypeOK, PipelineTypeOK, PendingTypeOK, Positions
  <1>2. HoldInv' /\ PaidHold' /\ StashBacked'
    BY HoldInvStep, BackedStep DEF LedgerInv
  <1>3. concurrent = Sum(Risk, held) /\ concurrent \in Nat
    BY <1>1, RiskSums DEF LedgerInv, UsedIsHeld, Sum
  <1>u. /\ UsedIsHeld' <=> concurrent' = Sum(Risk, held')
        /\ DealsBacked /\ NotYetHeld /\ concurrent <= MaxConcurrent
    BY DEF LedgerInv, UsedIsHeld, Sum, MapThenSumSet, MapThenFoldSet
  <1> DEFINE Rest == DealsBacked' /\ NotYetHeld' /\ UsedIsHeld' /\ concurrent' <= MaxConcurrent
  <1>4. CASE HoldKept
    <2>1. \A x \in Orders : pc'[x] \in Unpaid => pc[x] \in Unpaid
      BY <1>1, <1>4 DEF HoldKept, Go
    <2>2. UNCHANGED <<held, dealRisk, concurrent>>
      BY <1>4 DEF HoldKept
    <2> QED
      BY <1>2, <1>3, <1>u, <2>1, <2>2 DEF LedgerInv, DealsBacked, NotYetHeld
  <1>5. ASSUME NEW o \in Orders, HoldTaken(o) PROVE Rest
    <2>1. /\ held' = held \cup {o} /\ dealRisk' = dealRisk /\ o \notin held
          /\ concurrent' = concurrent + Risk[o] /\ concurrent' <= MaxConcurrent
      BY <1>5 DEF HoldTaken, LedgerInv, NotYetHeld, Unpaid
    <2>2. UsedIsHeld'
      <3>1. Sum(Risk, held \cup {o}) = Sum(Risk, held) + Risk[o]
        BY <1>1, <2>1, RiskSums
      <3> QED
        BY <1>3, <1>u, <2>1, <3>1
    <2>3. NotYetHeld'
      BY <1>1, <1>5, <2>1 DEF HoldTaken, Go, LedgerInv, NotYetHeld, Unpaid
    <2> QED
      BY <2>1, <2>2, <2>3 DEF LedgerInv, DealsBacked
  <1>6. ASSUME NEW o \in Orders, HoldDropped(o) PROVE Rest
    <2>1. /\ o \in held /\ held' = held \ {o} /\ dealRisk' = dealRisk
          /\ concurrent' = AtLeastZero(concurrent - Risk[o])
          /\ pc' = [pc EXCEPT ![o] = "closingFail"]
          /\ pc[o] \notin Booked
      BY <1>6 DEF HoldDropped, Go, LedgerInv, PaidHold, Paid, Booked
    <2>2. UsedIsHeld' /\ concurrent' <= concurrent /\ concurrent' \in Int
      BY <1>1, <1>3, <2>1, UsedFreed DEF LedgerInv
    <2>3. \A p \in dealRisk : p[1] # o
      BY <2>1 DEF LedgerInv, HoldInv, DealsLate
    <2>4. NotYetHeld'
      BY <1>1, <2>1 DEF LedgerInv, NotYetHeld, Unpaid
    <2> QED
      BY <1>1, <1>3, <2>1, <2>2, <2>3, <2>4 DEF LedgerInv, DealsBacked
  <1>7. ASSUME NEW o \in Orders, HoldStashed(o) PROVE Rest
    <2>1. /\ UNCHANGED <<held, dealRisk, concurrent>>
          /\ pc' = [pc EXCEPT ![o] = "failref"] \/ pc' = [pc EXCEPT ![o] = "closingFail"]
      BY <1>7 DEF HoldStashed, Go
    <2> QED
      BY <1>1, <1>3, <1>u, <2>1 DEF DealsBacked, NotYetHeld, Unpaid
  <1>8. ASSUME NEW o \in Orders, HoldFilled(o) PROVE Rest
    <2>1. /\ UNCHANGED <<held, concurrent>> /\ dealRisk' = dealRisk \cup {Referenced(o)}
          /\ pc' = [pc EXCEPT ![o] = "success"] /\ o \in held
      BY <1>8 DEF HoldFilled, Go, LedgerInv, PaidHold, Paid
    <2>2. Referenced(o)[1] = o
      BY DEF Referenced
    <2> QED
      BY <1>1, <1>3, <1>u, <2>1, <2>2 DEF DealsBacked, NotYetHeld, Unpaid
  <1>9. ASSUME NEW e \in Epics, HoldReleased(e) PROVE Rest
    <2> DEFINE r == stash[e]
    <2>1. /\ r \in held /\ held' = held \ {r} /\ UNCHANGED <<pc, dealRisk>>
          /\ concurrent' = AtLeastZero(concurrent - Risk[r]) /\ pc[r] \in Stashable
      BY <1>9 DEF HoldReleased, LedgerInv, StashBacked, HoldInv, StashLate
    <2>2. UsedIsHeld' /\ concurrent' <= concurrent /\ concurrent' \in Int
      BY <1>1, <1>3, <2>1, UsedFreed DEF LedgerInv
    <2>3. \A p \in dealRisk : p[1] # r
      BY <2>1 DEF LedgerInv, HoldInv, DealsLate, Stashable, Booked
    <2> QED
      BY <1>1, <1>3, <2>1, <2>2, <2>3 DEF LedgerInv, DealsBacked, NotYetHeld
  <1>10. ASSUME NEW p \in Positions, HoldBooked(p) PROVE Rest
    <2>1. /\ p[1] \in held /\ held' = held \ {p[1]} /\ dealRisk' = dealRisk \ {p}
          /\ concurrent' = AtLeastZero(concurrent - Risk[p[1]]) /\ UNCHANGED pc
          /\ \A q \in dealRisk' : q[1] # p[1]
      BY <1>10 DEF HoldBooked, LedgerInv, DealsBacked
    <2>2. UsedIsHeld' /\ concurrent' <= concurrent /\ concurrent' \in Int
      BY <1>1, <1>3, <2>1, UsedFreed DEF LedgerInv
    <2> QED
      BY <1>1, <1>3, <2>1, <2>2 DEF LedgerInv, DealsBacked, NotYetHeld
  <1> QED
    BY <1>2, <1>4, <1>5, <1>6, <1>7, <1>8, <1>9, <1>10, HoldSteps DEF LedgerInv

\* Midnight moves neither a reservation nor the figure of the gate.
LEMMA LedgerDay == LedgerInv /\ NewDay => LedgerInv'
  <1> SUFFICES ASSUME LedgerInv, NewDay PROVE LedgerInv'
    OBVIOUS
  <1>1. UNCHANGED <<stash, concurrent, pc, dealRisk, held>>
    BY DEF NewDay, tableVars, envVars, storeVars
  <1>2. (HoldInv /\ PaidHold /\ StashBacked /\ DealsBacked /\ NotYetHeld)'
    BY <1>1 DEF LedgerInv, HoldInv, StashLate, DealsLate, PaidHold, StashBacked,
                DealsBacked, NotYetHeld
  <1>3. concurrent' = Sum(Risk, held') /\ concurrent' <= MaxConcurrent
    BY <1>1 DEF LedgerInv, UsedIsHeld, Sum
  <1>4. UsedIsHeld'
    BY <1>3 DEF UsedIsHeld, Sum, MapThenSumSet, MapThenFoldSet
  <1> QED
    BY <1>2, <1>3, <1>4 DEF LedgerInv

\* The books of the budget hold initially.
LEMMA LedgerInit == IsFiniteSet(Orders) /\ Init => LedgerInv
  <1> SUFFICES ASSUME IsFiniteSet(Orders), Init PROVE LedgerInv
    OBVIOUS
  <1>1. HoldInv /\ PaidHold /\ StashBacked /\ DealsBacked /\ NotYetHeld
    BY DEF Init, PendingInit, HoldInv, StashLate, DealsLate, PaidHold, Paid,
           StashBacked, DealsBacked, NotYetHeld
  <1>2. concurrent = 0 /\ held = {} /\ concurrent <= MaxConcurrent
    BY EnvelopeAssumption DEF Init, EnvelopeInit
  <1>3. concurrent = Sum(Risk, held)
    BY <1>2, SumEmpty
  <1>4. UsedIsHeld
    BY <1>3 DEF UsedIsHeld, Sum
  <1> QED
    BY <1>1, <1>2, <1>4 DEF LedgerInv

\* The figure the gate compares with the cap is exactly what the holders
\* reserved, on every day and over every failure but two: a worker thread that
\* does not start (execute gives that reservation back twice) and a reconciler
\* pass between a worker's two marks; and unless the orphan reconciliation runs.
THEOREM UsedIsExact ==
  ASSUME IsFiniteSet(Orders), "orphan" \notin Actors,
         "startFail" \notin Faults, "fastReconciler" \notin Faults
  PROVE  DaySpec => [](UsedIsHeld /\ concurrent <= MaxConcurrent)
  <1>1. Init => LedgerInv
    BY LedgerInit
  <1>2. StateTypeOK /\ LedgerInv /\ [Next \/ NewDay]_vars => LedgerInv'
    BY LedgerStep, LedgerDay
  <1>3. LedgerInv => UsedIsHeld /\ concurrent <= MaxConcurrent
    BY DEF LedgerInv
  <1> QED
    BY <1>1, <1>2, <1>3, DaysTyped, PTL DEF DaySpec

-----------------------------------------------------------------------------
(* The heat of a direction.                                                *)

\* The deals of a direction whose exits are still to be booked.
DealsOf(d) == {p \in dealRisk : DirOf[p[1]] = d}

\* The inductive invariant: deals belong to orders that succeeded, the session
\* of the guard is not ahead of the date, and the heat of a direction is at
\* most, and on the first day exactly, that of its deals.
HeatInv ==
  /\ HoldInv /\ session \in Int /\ session <= today
  /\ \A d \in Directions :
       /\ heat[d] <= SumRisk(DealsOf(d))
       /\ today = 0 => heat[d] = SumRisk(DealsOf(d))

\* Every step keeps the books of the heat.
LEMMA HeatStep ==
  ASSUME IsFiniteSet(Orders), StateTypeOK, HeatInv, [Next]_vars, "orphan" \notin Actors
  PROVE  HeatInv'
  <1> USE DEF HeatInv
  <1>1. /\ pc \in [Orders -> Stage] /\ dealRisk \subseteq Positions
        /\ heat \in [Directions -> Nat] /\ today \in Nat /\ today' = today
        /\ session \in Nat \cup {-1}
        /\ \A p \in Positions : p[1] \in Orders
        /\ \A o \in Orders : Risk[o] \in Nat /\ DirOf[o] \in Directions
    BY PipelineAssumption, DayConstant
    DEF StateTypeOK, PipelineTypeOK, GuardTypeOK, Positions
  <1>2. HoldInv'
    BY HoldInvStep
  <1>3. \A d \in Directions : SumRisk(DealsOf(d)) \in Nat /\ DealsOf(d) \subseteq Positions
    BY <1>1, PositionSums DEF DealsOf
  <1> DEFINE Books == /\ session' \in Int /\ session' <= today
                      /\ \A d \in Directions :
                           /\ heat'[d] <= SumRisk(DealsOf(d)')
                           /\ today = 0 => heat'[d] = SumRisk(DealsOf(d)')
  <1>d. \A d \in Directions : DealsOf(d)' = {p \in dealRisk' : DirOf[p[1]] = d}
    BY DEF DealsOf
  <1>4. ASSUME HeatKept, UNCHANGED dealRisk PROVE Books
    BY <1>4, <1>1 DEF HeatKept, DealsOf
  <1>5. ASSUME HeatRolled, UNCHANGED dealRisk PROVE Books
    <2>1. \A d \in Directions : DealsOf(d)' = DealsOf(d)
      BY <1>5 DEF DealsOf
    <2>2. session' = today /\ \A d \in Directions : heat'[d] = HeatNow(d)
      BY <1>5 DEF HeatRolled
    <2>3. \A d \in Directions : HeatNow(d) \in {0, heat[d]} /\ (today = 0 => HeatNow(d) = heat[d])
      BY <1>1 DEF HeatNow, NewSession
    <2> QED
      BY <1>1, <1>3, <2>1, <2>2, <2>3
  <1>6. ASSUME NEW o \in Orders, HoldFilled(o) PROVE Books
    <2> DEFINE p == Referenced(o)
    <2>1. /\ pc[o] = "filled" /\ dealRisk' = dealRisk \cup {p} /\ session' = session
          /\ heat' = [heat EXCEPT ![DirOf[o]] = @ + Risk[o]]
      BY <1>6 DEF HoldFilled, ConfirmHeat
    <2>2. p \in Positions /\ p[1] = o /\ p \notin dealRisk
      BY <2>1 DEF Referenced, Positions, HoldInv, DealsLate, Booked
    <2>3. ASSUME NEW d \in Directions
          PROVE  /\ heat'[d] <= SumRisk(DealsOf(d)')
                 /\ today = 0 => heat'[d] = SumRisk(DealsOf(d)')
      <3>1. CASE d = DirOf[o]
        <4>1. DealsOf(d)' = DealsOf(d) \cup {p} /\ p \notin DealsOf(d)
          BY <1>d, <2>1, <2>2, <3>1 DEF DealsOf
        <4>2. SumRisk(DealsOf(d)') = SumRisk(DealsOf(d)) + Risk[o]
          BY <1>3, <2>2, <4>1, PositionSums
        <4> QED
          BY <1>1, <1>3, <2>1, <3>1, <4>2
      <3>2. CASE d # DirOf[o]
        <4>1. DealsOf(d)' = DealsOf(d)
          BY <1>d, <2>1, <2>2, <3>2 DEF DealsOf
        <4> QED
          BY <1>1, <2>1, <3>2, <4>1
      <3> QED
        BY <3>1, <3>2
    <2> QED
      BY <1>1, <2>1, <2>3
  <1>7. ASSUME NEW p \in Positions, HoldBooked(p) PROVE Books
    <2>1. /\ p \in dealRisk /\ dealRisk' = dealRisk \ {p} /\ session' = session
          /\ heat' = [heat EXCEPT ![DirOf[p[1]]] = AtLeastZero(@ - Risk[p[1]])]
      BY <1>7 DEF HoldBooked, ReleaseHeat
    <2>3. ASSUME NEW d \in Directions
          PROVE  /\ heat'[d] <= SumRisk(DealsOf(d)')
                 /\ today = 0 => heat'[d] = SumRisk(DealsOf(d)')
      <3>1. CASE d = DirOf[p[1]]
        <4>1. DealsOf(d)' = DealsOf(d) \ {p} /\ p \in DealsOf(d)
          BY <1>d, <2>1, <3>1 DEF DealsOf
        <4>2. /\ SumRisk(DealsOf(d)) = Risk[p[1]] + SumRisk(DealsOf(d)')
              /\ SumRisk(DealsOf(d)') \in Nat
          BY <1>3, <4>1, PositionSums
        <4>3. heat'[d] = AtLeastZero(heat[d] - Risk[p[1]])
          BY <1>1, <2>1, <3>1
        <4> QED
          BY <1>1, <1>3, <4>2, <4>3 DEF AtLeastZero
      <3>2. CASE d # DirOf[p[1]]
        <4>1. DealsOf(d)' = DealsOf(d)
          BY <1>d, <2>1, <3>2 DEF DealsOf
        <4> QED
          BY <1>1, <2>1, <3>2, <4>1
      <3> QED
        BY <3>1, <3>2
    <2> QED
      BY <1>1, <2>1, <2>3
  <1>8. Books
    BY <1>4, <1>5, <1>6, <1>7, HoldSteps
    DEF HoldKept, HoldTaken, HoldDropped, HoldStashed, HoldReleased
  <1> QED
    BY <1>1, <1>2, <1>8

\* Midnight keeps the books of the heat: equality is promised of the first day.
LEMMA HeatDay == StateTypeOK /\ HeatInv /\ NewDay => HeatInv'
  <1> SUFFICES ASSUME StateTypeOK, HeatInv, NewDay PROVE HeatInv'
    OBVIOUS
  <1>1. UNCHANGED <<stash, pc, dealRisk, heat, session>> /\ today' = today + 1 /\ today \in Nat
    BY DEF NewDay, tableVars, storeVars, StateTypeOK, PipelineTypeOK
  <1>2. HoldInv' /\ \A d \in Directions : DealsOf(d)' = DealsOf(d)
    BY <1>1 DEF HeatInv, HoldInv, StashLate, DealsLate, DealsOf
  <1> QED
    BY <1>1, <1>2 DEF HeatInv

\* The open risk the guard counts for a direction is that of the deals to be
\* booked, exactly until midnight and never more after it, whatever faults
\* occur, unless the orphan reconciliation runs.
THEOREM HeatIsOfDeals ==
  ASSUME IsFiniteSet(Orders), "orphan" \notin Actors
  PROVE  DaySpec => []HeatOverDays
  <1>1. Init => HeatInv
    <2> SUFFICES ASSUME Init PROVE HeatInv
      OBVIOUS
    <2>1. HoldInv /\ today = 0 /\ session = -1 /\ dealRisk = {} /\ \A d \in Directions : heat[d] = 0
      BY DEF Init, PendingInit, GuardInit, HoldInv, StashLate, DealsLate
    <2>2. \A d \in Directions : DealsOf(d) = {}
      BY <2>1 DEF DealsOf
    <2>3. SumRisk({}) = 0
      BY SumRiskIsSum, SumEmpty
    <2> QED
      BY <2>1, <2>2, <2>3 DEF HeatInv
  <1>2. StateTypeOK /\ HeatInv /\ [Next \/ NewDay]_vars => HeatInv'
    BY HeatStep, HeatDay
  <1>3. HeatInv => HeatOverDays
    BY DEF HeatInv, HeatOverDays, HeatLedger, DealsOf
  <1> QED
    BY <1>1, <1>2, <1>3, DaysTyped, PTL DEF DaySpec

-----------------------------------------------------------------------------
(* The entries of a session, over midnight and a restart.                  *)

\* A restart leaves values of every type behind.
LEMMA RestartTyped == StateTypeOK /\ Restart => StateTypeOK'
  <1> SUFFICES ASSUME StateTypeOK, Restart PROVE StateTypeOK'
    OBVIOUS
  <1> USE DEF StateTypeOK, Restart, Forgotten, ReadBack, brokerVars, guardVars
  <1>1. pc' \in [Orders -> Stage]
    BY DEF PipelineTypeOK, Stage, Terminal
  <1>2. PipelineTypeOK'
    BY <1>1 DEF PipelineTypeOK, NoView, Snapshot
  <1>3. EntryTypeOK' /\ PendingTypeOK' /\ GuardTypeOK'
    BY DEF EntryTypeOK, PendingTypeOK, GuardTypeOK
  <1> QED
    BY <1>2, <1>3

\* In every state of the order path over midnight and a restart the types hold.
LEMMA RestartsTyped == RestartSpec => []StateTypeOK
  <1>1. RestartInit => StateTypeOK
    BY InitTyped DEF RestartInit
  <1>2. StateTypeOK /\ [RestartNext]_allVars => StateTypeOK'
    BY NextTyped, NewDayTyped, RestartTyped DEF RestartNext, allVars
  <1> QED
    BY <1>1, <1>2, PTL DEF RestartSpec

\* The orders of a direction that took a slot today and still hold it, and those
\* whose undo came on a later day.
Counted(d) == {o \in Orders : DirOf[o] = d /\ slotDay[o] = today /\ pc[o] \notin NoSlot}
LateOf(d) == {o \in lateUndo : DirOf[o] = d}

\* The inductive invariant: a slot of today belongs to today's session, an order
\* is undone once, and the slots of today are counted but for the late undos.
CountInv ==
  /\ session \in Int /\ session <= today /\ lateUndo \subseteq Orders
  /\ slotDay \in [Orders -> Int]
  /\ \A o \in Orders : slotDay[o] <= today /\ (slotDay[o] = today => session = today)
  /\ \A o \in lateUndo : pc[o] \in NoSlot \ BeforePost
  /\ \A d \in Directions :
       Cardinality(Counted(d)) <= count[d] + Cardinality(LateOf(d))

\* The sets of the invariant are finite.
LEMMA CountedFinite ==
  ASSUME IsFiniteSet(Orders), NEW S \in SUBSET Orders
  PROVE  /\ IsFiniteSet(S) /\ Cardinality(S) \in Nat
         /\ \A T \in SUBSET S : Cardinality(T) <= Cardinality(S) /\ Cardinality(T) \in Nat
         /\ \A x \in Orders \ S : Cardinality(S \cup {x}) = Cardinality(S) + 1
         /\ \A x \in S : Cardinality(S \ {x}) = Cardinality(S) - 1
  <1>1. IsFiniteSet(S)
    BY FS_Subset
  <1>2. \A T \in SUBSET S : IsFiniteSet(T) /\ Cardinality(T) <= Cardinality(S)
    BY <1>1, FS_Subset
  <1>3. \A T \in SUBSET S : Cardinality(T) \in Nat
    BY <1>2, FS_CardinalityType
  <1>4. S \in SUBSET S
    OBVIOUS
  <1> QED
    BY <1>1, <1>2, <1>3, <1>4, FS_AddElement, FS_RemoveElement

\* Every step of the order path keeps the count of today's slots.
LEMMA CountStep ==
  ASSUME IsFiniteSet(Orders), StateTypeOK, CountInv, Next, Record
  PROVE  CountInv'
  <1> USE DEF CountInv
  <1>1. /\ pc \in [Orders -> Stage] /\ count \in [Directions -> Nat]
        /\ today \in Nat /\ today' = today /\ [Next]_vars
        /\ \A o \in Orders : DirOf[o] \in Directions
    BY PipelineAssumption, DayConstant DEF StateTypeOK, PipelineTypeOK, GuardTypeOK
  <1>2. /\ slotDay' = [o \in Orders |-> IF pc[o] = "correlate" /\ pc'[o] = "begin"
                                        THEN today ELSE slotDay[o]]
        /\ lateUndo' = lateUndo \cup {o \in Orders : Undone(o) /\ slotDay[o] # today}
    BY DEF Record
  <1>3. \A d \in Directions :
          /\ Counted(d) \in SUBSET Orders /\ LateOf(d) \in SUBSET Orders
          /\ Counted(d)' = {o \in Orders : DirOf[o] = d /\ slotDay'[o] = today
                                           /\ pc'[o] \notin NoSlot}
          /\ LateOf(d)' = {o \in lateUndo' : DirOf[o] = d}
    BY <1>1 DEF Counted, LateOf
  <1>4. \A d \in Directions :
          Cardinality(Counted(d)) \in Nat /\ Cardinality(LateOf(d)) \in Nat
    BY <1>3, CountedFinite
  \* An order that is undone late does not come back.
  <1>5. \A o \in Orders : pc[o] \notin BeforePost => pc'[o] \notin BeforePost
    BY <1>1, StageSteps DEF Go
  <1>6. CASE SlotsKept
    <2>1. UNCHANGED <<count, session>> /\ \A o \in Orders : pc[o] \in NoSlot <=> pc'[o] \in NoSlot
      BY <1>1, <1>6 DEF SlotsKept, Go
    <2>2. slotDay' = slotDay /\ lateUndo' = lateUndo
      BY <1>2, <2>1 DEF Undone, NoSlot
    <2>3. \A d \in Directions : Counted(d)' = Counted(d) /\ LateOf(d)' = LateOf(d)
      BY <1>1, <1>3, <2>1, <2>2 DEF Counted, LateOf
    <2> QED
      BY <1>1, <1>5, <2>1, <2>2, <2>3
  \* When the guard starts a new session, no slot of today is held yet.
  <1>7. /\ \A d \in Directions : CountNow(d) \in Nat
        /\ \A d \in Directions :
             Cardinality(Counted(d)) <= CountNow(d) + Cardinality(LateOf(d))
    <2>1. CASE ~NewSession
      BY <1>1, <2>1 DEF CountNow
    <2>2. CASE NewSession
      <3>1. \A d \in Directions : Counted(d) = {} /\ CountNow(d) = 0
        BY <2>2 DEF NewSession, Counted, CountNow
      <3>2. \A d \in Directions : Cardinality(Counted(d)) = 0
        BY <3>1, FS_EmptySet
      <3> QED
        BY <1>4, <3>1, <3>2
    <2> QED
      BY <2>1, <2>2
  <1>8. ASSUME NEW o \in Orders, SlotTaken(o) PROVE CountInv'
    <2>1. /\ pc[o] = "correlate" /\ pc' = [pc EXCEPT ![o] = "begin"] /\ session' = today
          /\ \A d \in Directions :
               count'[d] = CountNow(d) + (IF d = DirOf[o] THEN 1 ELSE 0)
      BY <1>8 DEF SlotTaken, TakeSlot, Go
    <2>2. /\ lateUndo' = lateUndo /\ slotDay' = [slotDay EXCEPT ![o] = today]
          /\ o \notin lateUndo
      BY <1>1, <1>2, <2>1 DEF Undone, NoSlot, BeforePost, Gate
    <2>3. ASSUME NEW d \in Directions
          PROVE  Cardinality(Counted(d)') <= count'[d] + Cardinality(LateOf(d)')
      <3>1. LateOf(d)' = LateOf(d)
        BY <1>3, <2>2 DEF LateOf
      <3>2. CASE d = DirOf[o]
        <4>1. Counted(d)' = Counted(d) \cup {o} /\ o \notin Counted(d)
          BY <1>1, <1>3, <2>1, <2>2, <3>2 DEF Counted, NoSlot
        <4>2. Cardinality(Counted(d)') = Cardinality(Counted(d)) + 1
          BY <1>3, <4>1, CountedFinite
        <4> QED
          BY <1>1, <1>4, <1>7, <2>1, <3>1, <3>2, <4>2
      <3>3. CASE d # DirOf[o]
        <4>1. Counted(d)' = Counted(d)
          BY <1>1, <1>3, <2>1, <2>2, <3>3 DEF Counted, NoSlot
        <4> QED
          BY <1>1, <1>4, <1>7, <2>1, <3>1, <3>3, <4>1
      <3> QED
        BY <3>2, <3>3
    <2>4. \A x \in lateUndo' : pc'[x] \in NoSlot \ BeforePost
      BY <1>1, <2>1, <2>2
    <2> QED
      BY <1>1, <2>1, <2>2, <2>3, <2>4
  <1>9. ASSUME NEW o \in Orders, SlotRefused(o) PROVE CountInv'
    <2>1. /\ pc[o] = "correlate" /\ pc' = [pc EXCEPT ![o] = "refused"] /\ session' = today
          /\ \A d \in Directions : count'[d] = CountNow(d)
      BY <1>9 DEF SlotRefused, RefuseSlot, Go
    <2>2. lateUndo' = lateUndo /\ slotDay' = slotDay
      BY <1>1, <1>2, <2>1 DEF Undone
    <2>3. \A d \in Directions : Counted(d)' = Counted(d) /\ LateOf(d)' = LateOf(d)
      BY <1>1, <1>3, <2>1, <2>2 DEF Counted, LateOf, NoSlot
    <2>4. \A x \in lateUndo' : pc'[x] \in NoSlot \ BeforePost
      BY <1>1, <1>5, <2>1, <2>2 DEF NoSlot, BeforePost, Gate
    <2> QED
      BY <1>1, <1>7, <2>1, <2>2, <2>3, <2>4
  <1>10. ASSUME NEW o \in Orders, SlotUndone(o) PROVE CountInv'
    <2>1. /\ pc[o] \notin NoSlot /\ pc[o] # "correlate" /\ Undone(o) /\ session' = session
          /\ count' = [count EXCEPT ![DirOf[o]] = AtLeastZero(@ - 1)]
          /\ \E s \in {"closingFail", "failed"} : pc' = [pc EXCEPT ![o] = s]
      BY <1>1, <1>10 DEF SlotUndone, Undone, Undo, Go, NoSlot
    <2>2. /\ slotDay' = slotDay /\ o \notin lateUndo
          /\ lateUndo' = IF slotDay[o] = today THEN lateUndo ELSE lateUndo \cup {o}
      <3>1. \A x \in Orders : x # o => ~Undone(x) /\ pc'[x] = pc[x]
        BY <1>1, <2>1 DEF Undone
      <3> QED
        BY <1>1, <1>2, <2>1, <3>1
    <2>3. ASSUME NEW d \in Directions
          PROVE  Cardinality(Counted(d)') <= count'[d] + Cardinality(LateOf(d)')
      <3>1. CASE d = DirOf[o] /\ slotDay[o] = today
        <4>1. /\ Counted(d)' = Counted(d) \ {o} /\ o \in Counted(d)
              /\ LateOf(d)' = LateOf(d)
          BY <1>1, <1>3, <2>1, <2>2, <3>1 DEF Counted, LateOf, NoSlot
        <4>2. Cardinality(Counted(d)') = Cardinality(Counted(d)) - 1
          BY <1>3, <4>1, CountedFinite
        <4> QED
          BY <1>1, <1>4, <2>1, <3>1, <4>1, <4>2 DEF AtLeastZero
      <3>2. CASE d = DirOf[o] /\ slotDay[o] # today
        <4>1. /\ Counted(d)' = Counted(d)
              /\ LateOf(d)' = LateOf(d) \cup {o} /\ o \notin LateOf(d)
          BY <1>1, <1>3, <2>1, <2>2, <3>2 DEF Counted, LateOf, NoSlot
        <4>2. Cardinality(LateOf(d)') = Cardinality(LateOf(d)) + 1
          BY <1>3, <4>1, CountedFinite
        <4> QED
          BY <1>1, <1>4, <2>1, <3>2, <4>1, <4>2 DEF AtLeastZero
      <3>3. CASE d # DirOf[o]
        <4>1. Counted(d)' = Counted(d) /\ LateOf(d)' = LateOf(d)
          BY <1>1, <1>3, <2>1, <2>2, <3>3 DEF Counted, LateOf, NoSlot
        <4> QED
          BY <1>1, <2>1, <3>3, <4>1
      <3> QED
        BY <3>1, <3>2, <3>3
    <2>4. \A x \in lateUndo' : pc'[x] \in NoSlot \ BeforePost
      BY <1>1, <2>1, <2>2 DEF NoSlot, BeforePost, Gate
    <2> QED
      BY <1>1, <2>1, <2>2, <2>3, <2>4
  <1> QED
    BY <1>1, <1>6, <1>8, <1>9, <1>10, SlotSteps

\* Midnight and a restart only take slots out of today's account.
LEMMA CountBetween ==
  ASSUME IsFiniteSet(Orders), StateTypeOK, CountInv,
         \/ NewDay /\ UNCHANGED historyVars
         \/ Restart
         \/ UNCHANGED allVars
  PROVE  CountInv'
  <1> USE DEF CountInv, historyVars
  <1>1. /\ today \in Nat /\ UNCHANGED <<count, session, slotDay, lateUndo>>
        /\ count \in [Directions -> Nat]
    BY DEF StateTypeOK, PipelineTypeOK, GuardTypeOK, NewDay, Restart, ReadBack,
           allVars, vars, tableVars, guardVars
  <1>2. /\ today' \in {today, today + 1}
        /\ \A o \in Orders : /\ pc[o] \in NoSlot => pc'[o] \in NoSlot
                             /\ pc[o] \notin BeforePost => pc'[o] \notin BeforePost
    BY DEF NewDay, Restart, allVars, vars, NoSlot, BeforePost, Gate
  <1>3. \A d \in Directions :
          /\ Counted(d) \in SUBSET Orders /\ LateOf(d) \in SUBSET Orders
          /\ LateOf(d)' = LateOf(d)
    BY <1>1 DEF Counted, LateOf
  <1>4. ASSUME NEW d \in Directions
        PROVE  Counted(d)' \subseteq Counted(d)
    BY <1>1, <1>2 DEF Counted
  <1>5. ASSUME NEW d \in Directions
        PROVE  Cardinality(Counted(d)') <= count'[d] + Cardinality(LateOf(d)')
    <2>1. /\ Cardinality(Counted(d)') <= Cardinality(Counted(d))
          /\ Cardinality(Counted(d)') \in Nat /\ Cardinality(Counted(d)) \in Nat
          /\ Cardinality(LateOf(d)) \in Nat
      BY <1>3, <1>4, CountedFinite
    <2> QED
      BY <1>1, <1>3, <2>1
  <1> QED
    BY <1>1, <1>2, <1>5

\* Every entry of the session is counted against its direction over midnight and
\* a restart, whatever faults occur and whichever threads run; an undo that
\* comes after the reset of the session is the only thing that hides one.
THEOREM EntriesAreCounted ==
  ASSUME IsFiniteSet(Orders)
  PROVE  RestartSpec => []EntriesCounted
  <1>1. RestartInit => CountInv
    <2> SUFFICES ASSUME RestartInit PROVE CountInv
      OBVIOUS
    <2>1. /\ session = -1 /\ today = 0 /\ lateUndo = {}
          /\ slotDay = [o \in Orders |-> -1] /\ \A d \in Directions : count[d] = 0
      BY DEF RestartInit, Init, GuardInit
    <2>2. \A d \in Directions : Counted(d) = {} /\ LateOf(d) = {}
      BY <2>1 DEF Counted, LateOf
    <2> QED
      BY <2>1, <2>2, FS_EmptySet DEF CountInv
  <1>2. StateTypeOK /\ CountInv /\ [RestartNext]_allVars => CountInv'
    BY CountStep, CountBetween DEF RestartNext
  <1>3. StateTypeOK /\ CountInv => EntriesCounted
    <2> SUFFICES ASSUME StateTypeOK, CountInv, NEW d \in Directions
                 PROVE  Cardinality({o \in Orders : DirOf[o] = d /\ slotDay[o] = today
                                                    /\ pc[o] = "confirmed"})
                          <= count[d] + Cardinality({o \in lateUndo : DirOf[o] = d})
      BY DEF EntriesCounted
    <2> DEFINE C == {o \in Orders : DirOf[o] = d /\ slotDay[o] = today
                                    /\ pc[o] = "confirmed"}
    <2>1. /\ C \subseteq Counted(d) /\ Counted(d) \in SUBSET Orders
          /\ LateOf(d) \in SUBSET Orders
      BY DEF Counted, LateOf, NoSlot, CountInv
    <2>2. /\ Cardinality(C) <= Cardinality(Counted(d))
          /\ Cardinality(C) \in Nat /\ Cardinality(Counted(d)) \in Nat
          /\ Cardinality(LateOf(d)) \in Nat /\ count[d] \in Nat
      BY <2>1, CountedFinite DEF StateTypeOK, GuardTypeOK
    <2>3. Cardinality(Counted(d)) <= count[d] + Cardinality(LateOf(d))
      BY DEF CountInv
    <2> HIDE DEF C
    <2>4. Cardinality(C) <= count[d] + Cardinality(LateOf(d))
      BY <2>2, <2>3
    <2> QED
      BY <2>4 DEF C, LateOf
  <1> QED
    BY <1>1, <1>2, <1>3, RestartsTyped, PTL DEF RestartSpec

-----------------------------------------------------------------------------
(* What the contract is worth: whoever keeps it never exposes more than    *)
(* the cap.  Nothing below uses the order path, only the contract.         *)

\* The inductive invariant of the contract.
Covering ==
  /\ held \subseteq Orders /\ ExposedOrders \subseteq held
  /\ concurrent = Sum(Risk, held) /\ concurrent <= MaxConcurrent

\* Every step of the contract keeps the figure exact and within the cap.
LEMMA CoveringStep ==
  ASSUME IsFiniteSet(Orders), Covering, [Contract!Next]_Contract!vars
  PROVE  Covering'
  <1> USE DEF Covering
  <1>n. MaxConcurrent \in Nat /\ Sum(Risk, held) \in Nat
    BY EnvelopeAssumption, RiskSums
  <1>1. CASE UNCHANGED Contract!vars
    BY <1>1 DEF Contract!vars
  <1>2. ASSUME NEW o \in Orders, Contract!Reserve(o) PROVE Covering'
    BY <1>2, <1>n, RiskSums DEF Contract!Reserve
  <1>3. ASSUME NEW o \in Orders, Contract!Expose(o) PROVE Covering'
    BY <1>3 DEF Contract!Expose
  <1>4. ASSUME NEW o \in Orders, Contract!Unexpose(o) PROVE Covering'
    BY <1>4 DEF Contract!Unexpose
  <1>5. ASSUME NEW o \in Orders, Contract!Free(o) PROVE Covering'
    BY <1>5, <1>n, RiskSums DEF Contract!Free
  <1> QED
    BY <1>1, <1>2, <1>3, <1>4, <1>5 DEF Contract!Next

\* What the contract promises follows from its steps alone: the figure compared
\* with the cap is what is reserved, and what the broker may execute stays within
\* the cap.
THEOREM ContractCovers ==
  ASSUME IsFiniteSet(Orders)
  PROVE  ImplementsContract => [](UsedIsHeld /\ ExposureWithinCap)
  <1>1. Contract!Init => Covering
    BY SumEmpty, EnvelopeAssumption DEF Contract!Init, Covering
  <1>2. ASSUME Covering PROVE UsedIsHeld /\ ExposureWithinCap
    <2>1. concurrent = Sum(Risk, held)
      BY <1>2 DEF Covering
    <2>2. UsedIsHeld
      BY <2>1 DEF UsedIsHeld, Sum
    <2>3. Sum(Risk, ExposedOrders) <= Sum(Risk, held)
      <3>1. \A o \in held : Risk[o] \in Nat
        BY <1>2, PipelineAssumption DEF Covering
      <3>2. IsFiniteSet(held) /\ ExposedOrders \in SUBSET held
        BY <1>2, FS_Subset DEF Covering
      <3> QED
        BY <3>1, <3>2, SumGrows
    <2>4. Sum(Risk, ExposedOrders) <= MaxConcurrent
      <3>1. Sum(Risk, ExposedOrders) \in Nat /\ Sum(Risk, held) \in Nat
        BY <1>2, RiskSums DEF Covering
      <3> QED
        BY <1>2, <2>3, <3>1, EnvelopeAssumption DEF Covering
    <2> QED
      BY <2>2, <2>4 DEF ExposureWithinCap, Sum
  <1> QED
    BY <1>1, <1>2, CoveringStep, PTL DEF ImplementsContract, Contract!Spec

-----------------------------------------------------------------------------
(* The budget covers the broker.  Whatever the broker works on or holds a  *)
(* position for is still reserved, so that the figure of the gate bounds   *)
(* the risk at the broker, and the order path implements the contract of   *)
(* the budget: a worker that has the broker's reference keeps the          *)
(* reservation, one that fails without it has nothing at the broker, an    *)
(* exit is booked once the position is closed, and the reconciler gives    *)
(* back only what the broker is done with.                                 *)

\* Stages in which the broker has no reference of the order.
Unreferenced == BeforePost \cup {"failnoref", "failexc"}

\* Who fails without a reference has nothing at the broker.
UnreferencedFresh == \A o \in Orders : pc[o] \in Unreferenced => broker[o] = "none"

\* No position is that of an order whose reply was lost.
NoStrays == \A o \in Orders : Stray(o) \notin positions

\* The inductive invariant: whatever the broker may execute is reserved.
CoverInv ==
  /\ LedgerInv /\ PostFresh /\ PositionsAccepted
  /\ UnreferencedFresh /\ NoStrays /\ ExposedOrders \subseteq held

\* What the reconciler gives back is not at the broker.
ReleasesSafe == \A e \in Epics : HoldReleased(e) => stash[e] \notin ExposedOrders

\* Only a worker that has no reference fails without it, unless its reference is
\* lost by confirm_deal or after the fill.
LEMMA UnreferencedSteps ==
  ASSUME StateTypeOK, [Next]_vars, "recordFail" \notin Faults,
         "confirmFail" \notin Faults \/ \A o \in Orders : pc[o] # "confirm"
  PROVE  \/ UNCHANGED pc
         \/ \E o \in Orders, s \in Stage :
              Go(o, s) /\ (s \in Unreferenced => pc[o] \in Unreferenced)
  <1> DEFINE Move(o) == \E s \in Stage :
                          Go(o, s) /\ (s \in Unreferenced => pc[o] \in Unreferenced)
             Goal == UNCHANGED pc \/ \E o \in Orders : Move(o)
  <1> USE DEF Unreferenced, BeforePost, Stage, Gate, Worker, Terminal
  <1>1. ASSUME NEW o \in Orders, GateStep(o) PROVE Move(o)
    BY <1>1 DEF GateStep, CheckPending, CorrelationCheck, BeginEntry, ReserveBudget,
                StartWorker, WorkerStartFails
  <1>2. ASSUME NEW o \in Orders, WorkerStep(o) PROVE Goal
    <2> DEFINE Onward == \E s \in Stage \ Unreferenced : Go(o, s)
               Lost == \E s \in {"failnoref", "failexc"} : Go(o, s)
    <2>1. Onward \/ (Lost /\ pc[o] = "post") => Move(o)
      OBVIOUS
    <2>2. CASE PostReferenced(o)
      <3>1. Go(o, "filled") \/ Go(o, "confirm")
        BY <2>2 DEF PostReferenced
      <3> QED
        BY <2>1, <3>1
    <2>3. CASE PostErrors(o)
      <3>1. pc[o] = "post" /\ (UNCHANGED pc \/ Go(o, "failnoref"))
        BY <2>3 DEF PostErrors
      <3> QED
        BY <2>1, <3>1
    <2>4. CASE ConfirmUnclear(o)
      <3>1. UNCHANGED pc \/ Go(o, "failref")
        BY <2>4 DEF ConfirmUnclear
      <3> QED
        BY <2>1, <3>1
    <2>5. CASE PostRefused(o) \/ PostRaises(o)
      <3>1. pc[o] = "post" /\ Lost
        BY <2>5 DEF PostRefused, PostRaises
      <3> QED
        BY <2>1, <3>1
    <2>6. ~ConfirmRaises(o) /\ ~RecordFillRaises(o)
      BY DEF ConfirmRaises, RecordFillRaises
    <2>7. CASE \/ ConfirmAccepted(o) \/ ConfirmRejected(o) \/ StopFailsafe(o)
               \/ RecordFill(o) \/ WorkerResolve(o)
      <3>1. Onward
        BY <2>7 DEF ConfirmAccepted, ConfirmRejected, StopFailsafe, RecordFill,
                    WorkerResolve
      <3> QED
        BY <2>1, <3>1
    <2>8. CASE FailWithRef(o) \/ FailNoRef(o) \/ FailException(o) \/ Finally(o)
      <3>1. Onward
        BY <2>8 DEF FailWithRef, FailNoRef, FailException, Finally
      <3> QED
        BY <2>1, <3>1
    <2> QED
      BY <1>2, <2>2, <2>3, <2>4, <2>5, <2>6, <2>7, <2>8 DEF WorkerStep
  <1>3. ASSUME \/ RecApply \/ SyncFetch \/ SyncApply \/ OrphanReconcile \/ Tick
               \/ Quiescent \/ UNCHANGED vars
        PROVE  Goal
    BY <1>3 DEF RecApply, SyncFetch, SyncApply, OrphanReconcile, Tick, Quiescent, vars
  <1>4. ASSUME NEW p \in Positions,
               BrokerCloses(p) \/ CloseVerified(p) \/ CloseRaises(p) \/ BookExit(p)
        PROVE  Goal
    BY <1>4 DEF BrokerCloses, CloseVerified, CloseRaises, BookExit
  <1>5. ASSUME NEW e \in Epics, RecVerify(e) \/ ReaperScan(e) \/ ReaperEvict(e)
        PROVE  Goal
    BY <1>5 DEF RecVerify, ReaperScan, ReaperEvict
  <1>6. ASSUME NEW o \in Orders, Settle(o) PROVE Goal
    BY <1>6 DEF Settle
  <1> QED
    BY <1>1, <1>2, <1>3, <1>4, <1>5, <1>6 DEF Next, ReconcilerStep

\* Every step keeps an order without a reference unknown to the broker.
LEMMA UnreferencedStep ==
  ASSUME StateTypeOK, UnreferencedFresh, [Next]_vars, "recordFail" \notin Faults,
         "confirmFail" \notin Faults \/ \A o \in Orders : pc[o] # "confirm"
  PROVE  UnreferencedFresh'
  <1> SUFFICES ASSUME NEW x \in Orders, pc'[x] \in Unreferenced
               PROVE  broker'[x] = "none"
    BY DEF UnreferencedFresh
  <1>1. pc \in [Orders -> Stage] /\ DOMAIN broker = Orders
    BY DEF StateTypeOK, PipelineTypeOK
  <1>2. pc[x] \in Unreferenced /\ broker[x] = "none"
    BY <1>1, UnreferencedSteps DEF Go, UnreferencedFresh
  <1>3. ASSUME NEW o \in Orders, PostReferenced(o) PROVE broker'[x] = "none"
    BY <1>1, <1>2, <1>3 DEF PostReferenced, Go, Unreferenced, BeforePost, Gate
  <1>4. ASSUME NEW o \in Orders, Settle(o) PROVE broker'[x] = "none"
    BY <1>1, <1>2, <1>4 DEF Settle
  <1>5. ASSUME NEW o \in Orders, PostErrors(o) PROVE broker'[x] = "none"
    BY <1>2, <1>5 DEF PostErrors
  <1> QED
    BY <1>2, <1>3, <1>4, <1>5, BrokerSteps

\* An order enters the exposure at its post, and orders leave it one by one.
LEMMA ExposureSteps ==
  ASSUME StateTypeOK, PositionsAccepted, NoStrays, [Next]_vars,
         "lostReply" \notin Faults
  PROVE  /\ NoStrays'
         /\ UNCHANGED <<broker, positions>> => ExposedOrders' = ExposedOrders
         /\ \/ ExposedOrders' = ExposedOrders
            \/ \E o \in Orders : \/ /\ pc[o] = "post"
                                    /\ ExposedOrders' = ExposedOrders \cup {o}
                                 \/ ExposedOrders' = ExposedOrders \ {o}
  <1> DEFINE After(x) == \/ broker'[x] = "working" \/ Referenced(x) \in positions'
                         \/ Stray(x) \in positions'
             One == \/ ExposedOrders' = ExposedOrders
                    \/ \E o \in Orders : \/ /\ pc[o] = "post"
                                            /\ ExposedOrders' = ExposedOrders \cup {o}
                                         \/ ExposedOrders' = ExposedOrders \ {o}
  <1>1. /\ ExposedOrders' = {x \in Orders : After(x)}
        /\ ExposedOrders = {x \in Orders : Exposed(x)}
    BY DEF ExposedOrders, Exposed, Referenced, Stray
  <1>2. /\ DOMAIN broker = Orders
        /\ \A x \in Orders : broker[x] \in {"none", "working", "accepted", "rejected"}
    BY DEF StateTypeOK, PipelineTypeOK
  <1>3. UNCHANGED <<broker, positions>> => ExposedOrders' = ExposedOrders
    <2> SUFFICES ASSUME UNCHANGED <<broker, positions>>
                 PROVE  \A x \in Orders : After(x) <=> Exposed(x)
      BY <1>1
    <2> QED
      BY DEF Exposed
  <1>4. ASSUME NEW p \in Positions, UNCHANGED broker, positions' = positions \ {p}
        PROVE  NoStrays' /\ One
    <2>1. p[1] \in Orders /\ \A x \in Orders : x # p[1] => Referenced(x) # p /\ Stray(x) # p
      BY DEF Positions, Referenced, Stray
    <2>2. \A x \in Orders : /\ After(x) => Exposed(x)
                            /\ x # p[1] /\ Exposed(x) => After(x)
      BY <1>4, <2>1 DEF Exposed
    <2>3. NoStrays'
      BY <1>4 DEF NoStrays, Stray
    <2>4. ExposedOrders' = ExposedOrders \/ ExposedOrders' = ExposedOrders \ {p[1]}
      BY <1>1, <2>1, <2>2
    <2> QED
      BY <2>1, <2>3, <2>4
  <1>5. ASSUME NEW o \in Orders, PostReferenced(o) PROVE NoStrays' /\ One
    <2>1. /\ pc[o] = "post" /\ broker' = [broker EXCEPT ![o] = "working"]
          /\ positions' = positions
      BY <1>5 DEF PostReferenced
    <2>2. After(o) /\ \A x \in Orders : x # o => (After(x) <=> Exposed(x))
      BY <1>2, <2>1 DEF Exposed
    <2>3. ExposedOrders' = ExposedOrders \cup {o}
      BY <1>1, <2>2
    <2>4. NoStrays'
      BY <2>1 DEF NoStrays, Stray
    <2> QED
      BY <2>1, <2>3, <2>4
  <1>6. ASSUME NEW o \in Orders, Settle(o) PROVE NoStrays' /\ One
    <2>1. /\ broker[o] = "working"
          /\ \/ /\ broker' = [broker EXCEPT ![o] = "accepted"]
                /\ positions' = positions \cup {Referenced(o)}
             \/ broker' = [broker EXCEPT ![o] = "rejected"] /\ positions' = positions
      BY <1>6 DEF Settle
    <2>2. \A x \in Orders : x # o => Referenced(x) # Referenced(o) /\ Stray(x) # Referenced(o)
      BY DEF Referenced, Stray
    <2>3. Stray(o) # Referenced(o)
      BY DEF Referenced, Stray
    <2>4. NoStrays'
      BY <2>1, <2>2, <2>3 DEF NoStrays, Stray
    <2>5. \A x \in Orders : x # o => (After(x) <=> Exposed(x))
      BY <1>2, <2>1, <2>2 DEF Exposed
    <2>6. Exposed(o)
      BY <2>1 DEF Exposed
    <2>7. ExposedOrders' = ExposedOrders \/ ExposedOrders' = ExposedOrders \ {o}
      BY <1>1, <2>5, <2>6
    <2> QED
      BY <2>4, <2>7
  <1>7. ASSUME NEW o \in Orders, PostErrors(o) PROVE UNCHANGED <<broker, positions>>
    BY <1>7 DEF PostErrors
  <1>8. UNCHANGED <<broker, positions>> => NoStrays' /\ One
    BY <1>3 DEF NoStrays, Stray
  <1> QED
    BY <1>3, <1>4, <1>5, <1>6, <1>7, <1>8, BrokerSteps

\* Every step is a step of the budget's contract.
LEMMA ContractStep ==
  ASSUME IsFiniteSet(Orders), StateTypeOK, CoverInv, ReleasesSafe, [Next]_vars,
         "orphan" \notin Actors,
         {"startFail", "lostReply", "recordFail"} \cap Faults = {},
         "confirmFail" \notin Faults \/ \A o \in Orders : pc[o] # "confirm",
         "fastReconciler" \notin Faults \/ \A e \in Epics : stash[e] = NoStash
  PROVE  CoverInv' /\ [Contract!Next]_Contract!vars
  <1> DEFINE Covered == ExposedOrders' \subseteq held'
             Step == [Contract!Next]_Contract!vars
  <1>1. /\ LedgerInv /\ LedgerInv' /\ PostFresh' /\ PositionsAccepted'
        /\ UnreferencedFresh' /\ NoStrays'
    BY LedgerStep, PostFreshStep, AcceptedStep, UnreferencedStep, ExposureSteps
    DEF CoverInv
  <1>2. /\ ExposedOrders \subseteq held /\ held \subseteq Orders /\ concurrent \in Int
        /\ ExposedOrders \subseteq Orders /\ \A o \in Orders : Risk[o] \in Nat
        /\ stash \in [Epics -> Orders \cup {NoStash}]
        /\ \A p \in Positions : p[1] \in Orders
    <2>1. concurrent = Sum(Risk, held)
      BY <1>1 DEF LedgerInv, UsedIsHeld, Sum
    <2>2. held \subseteq Orders
      BY DEF StateTypeOK, PipelineTypeOK
    <2> QED
      BY <2>1, <2>2, RiskSums, PipelineAssumption
      DEF CoverInv, ExposedOrders, StateTypeOK, PendingTypeOK, Positions
  \* The figure of the gate follows a reservation that is given back.
  <1>3. ASSUME NEW o \in held, held' = held \ {o}, o \notin ExposedOrders,
               UNCHANGED <<broker, positions>>,
               concurrent' = AtLeastZero(concurrent - Risk[o])
        PROVE  Covered /\ Step
    <2>1. concurrent' = concurrent - Risk[o]
      BY <1>1, <1>2, <1>3, UsedFreed DEF LedgerInv
    <2>2. ExposedOrders' = ExposedOrders
      BY <1>3, ExposureSteps DEF CoverInv
    <2>3. Contract!Free(o)
      BY <1>3, <2>1, <2>2 DEF Contract!Free
    <2> QED
      BY <1>2, <1>3, <2>2, <2>3 DEF Contract!Next
  <1>4. ASSUME HoldKept \/ \E o \in Orders : HoldStashed(o) \/ HoldFilled(o)
        PROVE  Covered /\ Step
    <2>1. UNCHANGED <<held, concurrent>>
      BY <1>4 DEF HoldKept, HoldStashed, HoldFilled
    <2>2. CASE ExposedOrders' = ExposedOrders
      BY <1>2, <2>1, <2>2 DEF Contract!vars
    <2>3. ASSUME NEW o \in Orders, pc[o] = "post", ExposedOrders' = ExposedOrders \cup {o}
          PROVE  Covered /\ Step
      <3>1. o \in held
        BY <1>1, <2>3 DEF LedgerInv, PaidHold, Paid
      <3>2. Contract!Expose(o)
        BY <2>1, <2>3, <3>1 DEF Contract!Expose
      <3> QED
        BY <1>2, <2>1, <2>3, <3>1, <3>2 DEF Contract!Next
    <2>4. ASSUME NEW o \in Orders, ExposedOrders' = ExposedOrders \ {o}
          PROVE  Covered /\ Step
      <3>1. Contract!Unexpose(o)
        BY <2>1, <2>4 DEF Contract!Unexpose
      <3> QED
        BY <1>2, <2>1, <2>4, <3>1 DEF Contract!Next
    <2> QED
      BY <2>2, <2>3, <2>4, ExposureSteps DEF CoverInv
  <1>5. ASSUME NEW o \in Orders, HoldTaken(o) PROVE Covered /\ Step
    <2>1. /\ o \notin held /\ held' = held \cup {o} /\ UNCHANGED <<broker, positions>>
          /\ concurrent + Risk[o] <= MaxConcurrent /\ concurrent' = concurrent + Risk[o]
      BY <1>1, <1>5 DEF HoldTaken, LedgerInv, NotYetHeld, Unpaid
    <2>2. ExposedOrders' = ExposedOrders
      BY <2>1, ExposureSteps DEF CoverInv
    <2>3. Contract!Reserve(o)
      BY <2>1, <2>2 DEF Contract!Reserve
    <2> QED
      BY <1>2, <2>1, <2>2, <2>3 DEF Contract!Next
  <1>6. ASSUME NEW o \in Orders, HoldDropped(o) PROVE Covered /\ Step
    <2>1. /\ pc[o] \in {"failnoref", "failexc"} /\ o \in held /\ held' = held \ {o}
          /\ UNCHANGED <<broker, positions>>
          /\ concurrent' = AtLeastZero(concurrent - Risk[o])
      BY <1>1, <1>6 DEF HoldDropped, LedgerInv, PaidHold, Paid
    <2>2. o \notin ExposedOrders
      BY <2>1 DEF CoverInv, UnreferencedFresh, Unreferenced, PositionsAccepted, NoStrays,
                  ExposedOrders, Exposed
    <2> QED
      BY <1>3, <2>1, <2>2
  <1>7. ASSUME NEW e \in Epics, HoldReleased(e) PROVE Covered /\ Step
    <2>1. /\ stash[e] \in held /\ held' = held \ {stash[e]}
          /\ UNCHANGED <<broker, positions>>
          /\ concurrent' = AtLeastZero(concurrent - Risk[stash[e]])
      BY <1>1, <1>7 DEF HoldReleased, LedgerInv, StashBacked
    <2>2. stash[e] \notin ExposedOrders
      BY <1>7 DEF ReleasesSafe
    <2> QED
      BY <1>3, <2>1, <2>2
  <1>8. ASSUME NEW p \in Positions, HoldBooked(p) PROVE Covered /\ Step
    <2> DEFINE o == p[1]
    <2>1. /\ o \in held /\ held' = held \ {o} /\ p = Referenced(o) /\ ClosedAtBroker(p)
          /\ UNCHANGED <<broker, positions>>
          /\ concurrent' = AtLeastZero(concurrent - Risk[o])
      BY <1>1, <1>8 DEF HoldBooked, LedgerInv, DealsBacked
    <2>2. Referenced(o) \notin positions /\ broker[o] = "accepted"
      BY <2>1 DEF ClosedAtBroker, Referenced
    <2>3. o \notin ExposedOrders
      BY <1>2, <2>2 DEF CoverInv, NoStrays, ExposedOrders, Exposed
    <2> QED
      BY <1>3, <2>1, <2>3
  <1>9. Covered /\ Step
    BY <1>4, <1>5, <1>6, <1>7, <1>8, HoldSteps
  <1> QED
    BY <1>1, <1>9 DEF CoverInv

\* Midnight moves nothing of the contract.
LEMMA CoverDay ==
  ASSUME CoverInv, NewDay
  PROVE  CoverInv' /\ UNCHANGED Contract!vars
  <1>1. UNCHANGED <<pc, broker, positions, held, concurrent>>
    BY DEF NewDay, tableVars, brokerVars
  <1>2. ExposedOrders' = ExposedOrders
    BY <1>1 DEF ExposedOrders, Exposed
  <1>3. LedgerInv'
    BY LedgerDay DEF CoverInv
  <1>4. (PostFresh /\ PositionsAccepted /\ UnreferencedFresh /\ NoStrays)'
    BY <1>1 DEF CoverInv, PostFresh, PositionsAccepted, UnreferencedFresh, NoStrays,
                Referenced, Stray
  <1> QED
    BY <1>1, <1>2, <1>3, <1>4 DEF CoverInv, Contract!vars

\* The contract holds initially.
LEMMA CoverInit ==
  ASSUME IsFiniteSet(Orders), Init
  PROVE  CoverInv /\ Contract!Init
  <1>1. /\ concurrent = 0 /\ held = {} /\ positions = {}
        /\ broker = [o \in Orders |-> "none"]
    BY DEF Init, EnvelopeInit
  <1>2. ExposedOrders = {}
    BY <1>1 DEF ExposedOrders, Exposed
  <1> QED
    BY <1>1, <1>2, LedgerInit
    DEF CoverInv, PostFresh, PositionsAccepted, UnreferencedFresh, NoStrays, Contract!Init

-----------------------------------------------------------------------------
(* With fractional lots the worker trusts the reference of the POST: it    *)
(* never polls, never fails with a reference, and nothing is ever stashed. *)

NothingStashed ==
  /\ \A o \in Orders : pc[o] \notin {"confirm", "failref"}
  /\ \A e \in Epics : stash[e] = NoStash

\* With fractional lots no worker polls and nothing is stashed.
LEMMA NothingStashedStep ==
  ASSUME StateTypeOK, NothingStashed, [Next]_vars, FractionalLots = TRUE,
         "orphan" \notin Actors
  PROVE  NothingStashed'
  <1> USE DEF NothingStashed
  <1>1. pc \in [Orders -> Stage]
    BY DEF StateTypeOK, PipelineTypeOK
  <1> DEFINE Polls == {"confirm", "failref"}
             Goal == UNCHANGED pc \/ \E o \in Orders, s \in Stage \ Polls : Go(o, s)
  <1> USE DEF Stage, Gate, Worker, Terminal
  <1>2. ASSUME NEW o \in Orders, GateStep(o) PROVE Goal
    BY <1>2 DEF GateStep, CheckPending, CorrelationCheck, BeginEntry, ReserveBudget,
                StartWorker, WorkerStartFails
  <1>3. ASSUME NEW o \in Orders, WorkerStep(o) PROVE Goal
    <2>1. CASE PostReferenced(o) \/ PostRefused(o) \/ PostErrors(o) \/ PostRaises(o)
      BY <2>1 DEF PostReferenced, PostRefused, PostErrors, PostRaises
    <2>2. /\ ~ConfirmAccepted(o) /\ ~ConfirmRejected(o) /\ ~ConfirmUnclear(o)
          /\ ~ConfirmRaises(o) /\ ~StopFailsafe(o) /\ ~FailWithRef(o)
      BY DEF ConfirmAccepted, ConfirmRejected, ConfirmUnclear, ConfirmRaises,
             StopFailsafe, FailWithRef
    <2>3. CASE RecordFill(o) \/ RecordFillRaises(o) \/ WorkerResolve(o)
      BY <2>3 DEF RecordFill, RecordFillRaises, WorkerResolve
    <2>4. CASE FailNoRef(o) \/ FailException(o) \/ Finally(o)
      BY <2>4 DEF FailNoRef, FailException, Finally
    <2> QED
      BY <1>3, <2>1, <2>2, <2>3, <2>4 DEF WorkerStep
  <1>4. ASSUME \/ RecApply \/ SyncFetch \/ SyncApply \/ OrphanReconcile \/ Tick
               \/ Quiescent \/ UNCHANGED vars
        PROVE  Goal
    BY <1>4 DEF RecApply, SyncFetch, SyncApply, OrphanReconcile, Tick, Quiescent, vars
  <1>5. ASSUME NEW p \in Positions,
               BrokerCloses(p) \/ CloseVerified(p) \/ CloseRaises(p) \/ BookExit(p)
        PROVE  Goal
    BY <1>5 DEF BrokerCloses, CloseVerified, CloseRaises, BookExit
  <1>6. ASSUME NEW e \in Epics, RecVerify(e) \/ ReaperScan(e) \/ ReaperEvict(e)
        PROVE  Goal
    BY <1>6 DEF RecVerify, ReaperScan, ReaperEvict
  <1>7. ASSUME NEW o \in Orders, Settle(o) PROVE Goal
    BY <1>7 DEF Settle
  <1>8. Goal
    BY <1>2, <1>3, <1>4, <1>5, <1>6, <1>7 DEF Next, ReconcilerStep
  <1>9. \A x \in Orders : pc'[x] \notin Polls
    BY <1>1, <1>8 DEF Go
  <1>10. \A e \in Epics : stash'[e] = NoStash
    <2>1. ASSUME NEW o \in Orders, HoldStashed(o) PROVE FALSE
      BY <2>1 DEF HoldStashed
    <2>2. ASSUME NEW e \in Epics, HoldReleased(e) PROVE FALSE
      BY <2>2 DEF HoldReleased
    <2> QED
      BY <2>1, <2>2, HoldSteps
      DEF HoldKept, StashWeaker, HoldTaken, HoldDropped, HoldFilled, HoldBooked
  <1> QED
    BY <1>9, <1>10

\* With fractional lots the order path implements the contract of the budget and
\* the risk at the broker stays within the cap, on every day, whichever other
\* threads run but the orphan reconciliation, and whatever fails but a worker
\* that does not start, a reply that is lost and a fill that is not recorded.
THEOREM FractionalContract ==
  ASSUME IsFiniteSet(Orders), FractionalLots = TRUE, "orphan" \notin Actors,
         {"startFail", "lostReply", "recordFail"} \cap Faults = {}
  PROVE  DaySpec => ImplementsContract /\ []ExposureWithinCap
  <1> DEFINE Inv == CoverInv /\ NothingStashed
  <1>1. Init => Inv /\ Contract!Init
    BY CoverInit DEF Init, PendingInit, NothingStashed
  <1>2. StateTypeOK /\ Inv /\ [Next \/ NewDay]_vars
          => Inv' /\ [Contract!Next]_Contract!vars
    <2> SUFFICES ASSUME StateTypeOK, Inv, [Next \/ NewDay]_vars
                 PROVE  Inv' /\ [Contract!Next]_Contract!vars
      OBVIOUS
    <2>1. CASE [Next]_vars
      <3>1. NothingStashed'
        BY <2>1, NothingStashedStep
      <3>2. ReleasesSafe
        BY DEF ReleasesSafe, HoldReleased, NothingStashed
      <3>3. CoverInv' /\ [Contract!Next]_Contract!vars
        BY <2>1, <3>2, ContractStep DEF NothingStashed
      <3> QED
        BY <3>1, <3>3
    <2>2. CASE NewDay
      <3>1. NothingStashed'
        BY <2>2 DEF NewDay, tableVars, NothingStashed
      <3> QED
        BY <2>2, <3>1, CoverDay
    <2> QED
      BY <2>1, <2>2
  <1>3. DaySpec => ImplementsContract
    BY <1>1, <1>2, DaysTyped, PTL DEF DaySpec, ImplementsContract, Contract!Spec
  <1> QED
    BY <1>3, ContractCovers, PTL

-----------------------------------------------------------------------------
(* With whole lots the reservation of an uncertain order waits for the     *)
(* reconciler's verdict.                                                   *)

\* Midnight changes nothing a verdict rests on.
LEMMA VerdictDay ==
  ASSUME VerdictInv, NewDay
  PROVE  VerdictInv'
  <1>1. UNCHANGED <<entries, pending, stash, pc, broker, positions, view, suspects, job>>
    BY DEF NewDay, tableVars, brokerVars, actorVars
  <1>2. (TokenInv /\ RecordAlone /\ PostFresh /\ PositionsAccepted)'
    BY <1>1 DEF VerdictInv, TokenInv, TokenHeld, Owns, NoClearers, RecordAlone, LiveEntry,
                HasPending, Rivals, PostFresh, PositionsAccepted, Referenced
  <1>3. (RecordsSound /\ ReferencedRecords /\ VerdictSound)'
    BY <1>1 DEF VerdictInv, RecordsSound, ReferencedRecords, VerdictSound, Uncertain, Busy,
                Referenced
  <1> QED
    BY <1>2, <1>3 DEF VerdictInv

\* With whole lots the order path implements the contract of the budget and the
\* risk at the broker stays within the cap, on every day, with the reconciler and
\* the market at work, when orders are refused, the POST raises, reads of the
\* broker fail and the stop verification fails.
THEOREM WholeLotContract ==
  ASSUME IsFiniteSet(Orders), FractionalLots = FALSE,
         Actors \subseteq {"reconciler", "market"},
         Faults \subseteq {"refused", "transport", "apiDown", "stopFail"}
  PROVE  DaySpec => ImplementsContract /\ []ExposureWithinCap
  <1> DEFINE Inv == CoverInv /\ VerdictInv
  <1>0. /\ {"sync", "reaper", "closer"} \cap Actors = {} /\ "orphan" \notin Actors
        /\ {"slowGate", "slowWorker", "slowBroker", "slowActor"} \cap Faults = {}
        /\ {"startFail", "lostReply", "recordFail"} \cap Faults = {}
        /\ "confirmFail" \notin Faults /\ "fastReconciler" \notin Faults
    OBVIOUS
  <1>1. Init => Inv /\ Contract!Init
    BY CoverInit, VerdictInit
  <1>2. StateTypeOK /\ Inv /\ [Next \/ NewDay]_vars
          => Inv' /\ [Contract!Next]_Contract!vars
    <2> SUFFICES ASSUME StateTypeOK, Inv, [Next \/ NewDay]_vars
                 PROVE  Inv' /\ [Contract!Next]_Contract!vars
      OBVIOUS
    <2>1. CASE [Next]_vars
      <3>1. VerdictInv'
        BY <1>0, <2>1, VerdictInvStep
      <3>2. ReleasesSafe
        <4> SUFFICES ASSUME NEW e \in Epics, HoldReleased(e)
                     PROVE  stash[e] \notin ExposedOrders
          BY DEF ReleasesSafe
        <4>1. Uncertain(e) /\ ~Busy(pending[e].order)
          BY DEF HoldReleased, VerdictInv, VerdictSound
        <4>2. stash[e] = pending[e].order
          BY <4>1 DEF VerdictInv, RecordsSound
        <4> QED
          BY <4>1, <4>2 DEF ExposedOrders, Exposed, Busy, CoverInv, NoStrays
      <3>3. CoverInv' /\ [Contract!Next]_Contract!vars
        BY <1>0, <2>1, <3>2, ContractStep
      <3> QED
        BY <3>1, <3>3
    <2>2. CASE NewDay
      BY <2>2, CoverDay, VerdictDay
    <2> QED
      BY <2>1, <2>2
  <1>3. DaySpec => ImplementsContract
    BY <1>1, <1>2, DaysTyped, PTL DEF DaySpec, ImplementsContract, Contract!Spec
  <1> QED
    BY <1>3, ContractCovers, PTL
=============================================================================
