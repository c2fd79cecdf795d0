----------------------------- MODULE StopProofs -----------------------------
(***************************************************************************)
(* Theorems about StopManagement, for any prices, triggers and distances   *)
(* and every event, lost replies of the broker included.                   *)
(***************************************************************************)
EXTENDS StopManagement, TLAPS

\* Facts about the constants that the steps below need.
LEMMA Numbers ==
  /\ Top \in Nat /\ Bottom \in Nat /\ Entry \in Nat /\ BeLock \in Nat
  /\ TrailDistance \in Nat /\ BracketDistance \in Nat /\ MinDistance \in Nat
  /\ FirstStop \in Nat /\ MaxMoves \in Nat /\ MaxExtensions \in Nat
  /\ BeTrigger \in Nat /\ TrailTrigger \in Nat /\ CapProfit \in Nat
  /\ ExtendProfit \in Nat
  /\ FirstStop < Entry /\ Bottom <= Entry /\ Entry + BeLock <= Top
  BY StopAssumption

\* The breakeven floor and the first stop are levels.
LEMMA FloorIsLevel == Entry + BeLock \in Levels /\ 0 \in Levels /\ FirstStop \in Levels
  BY Numbers DEF Levels

\* A loop without a pass, and one about to close, have frames of the right type.
LEMMA NoPassFine == NoPass \in Frame /\ [NoPass EXCEPT !.at = "closing"] \in Frame
  BY FloorIsLevel DEF NoPass, Frame, Places

\* A proposal below the price and above the present stop is a level.
LEMMA ProposalIsLevel ==
  ASSUME NEW px \in Levels, NEW stop \in Levels, NEW distance \in Nat,
         px - distance > stop
  PROVE  px - distance \in Levels
  BY Numbers DEF Levels

-----------------------------------------------------------------------------
(* How a step treats the passes.                                           *)

\* The frame of one pass is replaced.
LEMMA FrameTyped ==
  ASSUME TypeOK, NEW l \in Loops, NEW f \in Frame, pass' = [pass EXCEPT ![l] = f]
  PROVE  pass' \in [Loops -> Frame]
  BY DEF TypeOK

\* A pass writes the stop.
LEMMA WriteTyped ==
  ASSUME TypeOK, NEW l \in Loops, NEW level \in Levels, NEW f \in Frame,
         WriteStop(l, level, f)
  PROVE  /\ pass' \in [Loops -> Frame] /\ row' \in [by : Closers, stop : Levels]
         /\ raced' \in BOOLEAN
<1>1. \A x \in Loops : pass[x] \in Frame
  BY DEF TypeOK
<1>2. \A x \in Loops : [pass[x] EXCEPT !.behind = ~At(x, "idle")] \in Frame
  BY <1>1 DEF Frame
<1>3. pass' \in [Loops -> Frame]
  BY <1>2 DEF WriteStop
<1>4. row' \in [by : Closers, stop : Levels]
  BY DEF WriteStop, TypeOK
<1>5. raced' \in BOOLEAN
  BY <1>1 DEF WriteStop, Frame
<1> QED
  BY <1>3, <1>4, <1>5

\* A stage that moves the stop to a level keeps the types.
LEMMA TightenTyped ==
  ASSUME TypeOK, NEW l \in Loops, NEW proposal, NEW armed, NEW next \in Places,
         proposal > pass[l].stop => proposal \in Levels,
         Tighten(l, proposal, armed, next)
  PROVE  /\ pass' \in [Loops -> Frame] /\ row' \in [by : Closers, stop : Levels]
         /\ raced' \in BOOLEAN
<1>1. pass[l] \in Frame /\ row.stop \in Levels
  BY DEF TypeOK
<1>2. CASE armed /\ proposal > pass[l].stop
  <2>1. [pass[l] EXCEPT !.at = next, !.stop = proposal] \in Frame
    BY <1>1, <1>2 DEF Frame
  <2> QED
    BY <1>2, <2>1, WriteTyped DEF Tighten
<1>3. CASE ~(armed /\ proposal > pass[l].stop)
  <2>1. [pass[l] EXCEPT !.at = next, !.stop = row.stop] \in Frame
    BY <1>1 DEF Frame
  <2>2. row' = row /\ raced' = raced
    BY <1>3 DEF Tighten, KeepStop
  <2> QED
    BY <1>3, <2>1, <2>2, FrameTyped DEF Tighten, KeepStop, TypeOK
<1> QED
  BY <1>2, <1>3

\* Closing the row keeps its type and its stop.
LEMMA CloseTyped ==
  ASSUME TypeOK, NEW by \in Closers, CloseRow(by)
  PROVE  row' \in [by : Closers, stop : Levels] /\ row'.stop = row.stop
  BY DEF TypeOK, CloseRow

\* Forgetting a trade keeps the types.
LEMMA FlushTyped ==
  ASSUME TypeOK, Flush \/ NoFlush
  PROVE  /\ row' \in [by : Closers, stop : Levels] /\ row'.stop = row.stop
         /\ pushed' \in Levels
         /\ gone' \in BOOLEAN /\ killed' \in BOOLEAN /\ recycled' \in BOOLEAN
<1>1. CASE NoFlush
  BY <1>1 DEF NoFlush, TypeOK
<1>2. CASE Flush
  <2>1. "gone" \in Closers
    BY DEF Closers
  <2> QED
    BY <1>2, <2>1, CloseTyped, FloorIsLevel DEF Flush
<1> QED
  BY <1>1, <1>2

-----------------------------------------------------------------------------
(* Type correctness.                                                       *)

\* The parts of the type invariant that the actions share.
PassTyped == pass \in [Loops -> Frame] /\ row \in [by : Closers, stop : Levels]
BrokerTyped ==
  /\ price \in Prices /\ moves \in 0 .. MaxMoves
  /\ deal \in [open : BOOLEAN, stop : Levels] /\ pending \in Jobs
  /\ worker \in [at : {"idle", "check", "put"}, stop : Levels]
  /\ pushed \in Levels /\ extended \in 0 .. MaxExtensions
FlagsTyped ==
  /\ touched \in BOOLEAN /\ recycled \in BOOLEAN /\ due \in BOOLEAN
  /\ killed \in BOOLEAN /\ gone \in BOOLEAN /\ lost \in BOOLEAN

\* The type invariant is the conjunction of its parts.
LEMMA Parts ==
  TypeOK <=> PassTyped /\ BrokerTyped /\ FlagsTyped /\ raced \in BOOLEAN
  BY DEF TypeOK, PassTyped, BrokerTyped, FlagsTyped

\* So it is in the next state.
LEMMA PartsNext ==
  TypeOK' <=> PassTyped' /\ BrokerTyped' /\ FlagsTyped' /\ raced' \in BOOLEAN
  BY DEF TypeOK, PassTyped, BrokerTyped, FlagsTyped

\* A step of a pass keeps the types of the passes.
LEMMA PassSteps ==
  ASSUME TypeOK, NEW l \in Loops, Start(l) \/ Stage(l)
  PROVE  PassTyped' /\ raced' \in BOOLEAN
<1> USE DEF PassTyped
<1>f. /\ pass[l] \in Frame /\ price \in Levels /\ row.stop \in Levels
      /\ row \in [by : Closers, stop : Levels] /\ raced \in BOOLEAN
  BY Numbers DEF TypeOK, Prices, Levels
<1>p. {"begin", "breakeven", "trail", "bracket", "ready", "preflight", "sync", "queue"}
        \subseteq Places /\ Loops = {"slow", "fast"} /\ pass \in [Loops -> Frame]
  BY DEF Places, Loops, TypeOK
<1>r. Return(l) => pass' \in [Loops -> Frame]
  BY NoPassFine, FrameTyped DEF Return
<1>1. CASE Start(l)
  <2>1. [NoPass EXCEPT !.at = "begin", !.px = price, !.stop = row.stop] \in Frame
    BY <1>f, <1>p, NoPassFine DEF Frame
  <2> QED
    BY <1>1, <1>f, <2>1, FrameTyped DEF Start
<1>2. CASE HardCap(l)
  <2>1. "cap" \in Closers
    BY DEF Closers
  <2> QED
    BY <1>2, <1>f, <1>r, <2>1, CloseTyped DEF HardCap
<1>3. CASE ForcedClose(l)
  <2>1. "forced" \in Closers
    BY DEF Closers
  <2> QED
    BY <1>3, <1>f, <2>1, CloseTyped, NoPassFine, FrameTyped DEF ForcedClose
<1>4. CASE BrokerClose(l)
  BY <1>4, <1>f, <1>r DEF BrokerClose
<1>5. CASE Recycle(l)
  <2> DEFINE next == IF l = "slow" /\ touched THEN "ready" ELSE "breakeven"
             f == [pass[l] EXCEPT !.at = next, !.stop = Entry + BeLock,
                                  !.prev = Entry + BeLock]
             g == [pass[l] EXCEPT !.at = next, !.stop = row.stop, !.prev = pass[l].stop]
  <2>0. next \in Places
    BY <1>p
  <2>1. f \in Frame
    BY <1>f, <2>0, FloorIsLevel DEF Frame
  <2>2. g \in Frame
    BY <1>f, <2>0 DEF Frame
  <2>3. CASE WriteStop(l, Entry + BeLock, f)
    BY <2>1, <2>3, FloorIsLevel, WriteTyped
  <2>4. CASE KeepStop(l, g)
    BY <1>f, <2>2, <2>4, FrameTyped DEF KeepStop
  <2> QED
    BY <1>5, <2>3, <2>4 DEF Recycle
<1>6. CASE Breakeven(l)
  BY <1>6, <1>p, FloorIsLevel, TightenTyped DEF Breakeven
<1>7. CASE Trail(l)
  <2>1. pass[l].px \in Levels /\ pass[l].stop \in Levels
    BY <1>f DEF Frame
  <2>2. pass[l].px - TrailDistance > pass[l].stop => pass[l].px - TrailDistance \in Levels
    BY <2>1, Numbers, ProposalIsLevel
  <2> QED
    BY <1>7, <1>p, <2>2, TightenTyped DEF Trail
<1>8. CASE Bracket(l)
  <2> DEFINE proposal == pass[l].px - BracketDistance
             f == [pass[l] EXCEPT !.at = "ready", !.stop = proposal]
             g == [pass[l] EXCEPT !.at = "ready"]
  <2>1. pass[l].px \in Levels /\ pass[l].stop \in Levels
    BY <1>f DEF Frame
  <2>2. g \in Frame
    BY <1>f, <1>p DEF Frame
  <2>3. CASE proposal > pass[l].stop /\ WriteStop(l, proposal, f)
    <3>1. proposal \in Levels
      BY <2>1, <2>3, Numbers, ProposalIsLevel
    <3>2. f \in Frame
      BY <1>f, <1>p, <3>1 DEF Frame
    <3> QED
      BY <2>3, <3>1, <3>2, WriteTyped
  <2>4. CASE KeepStop(l, g)
    BY <1>f, <2>2, <2>4, FrameTyped DEF KeepStop
  <2> QED
    BY <1>8, <2>3, <2>4 DEF Bracket
<1>9. CASE Ready(l)
  <2> DEFINE f == [pass[l] EXCEPT !.at = "preflight", !.limit = Extends(l), !.px = 0]
  <2>1. Extends(l) \in BOOLEAN
    BY DEF Extends
  <2>2. f \in Frame
    BY <1>f, <1>p, <2>1, FloorIsLevel DEF Frame
  <2>3. pass' = [pass EXCEPT ![l] = f]
    BY <1>9 DEF Ready
  <2> QED
    BY <1>9, <1>f, <2>2, <2>3, FrameTyped DEF Ready
<1>10. CASE Preflight(l)
  <2> DEFINE f == [pass[l] EXCEPT !.at = "sync", !.prev = 0]
  <2>1. f \in Frame
    BY <1>f, <1>p, FloorIsLevel DEF Frame
  <2>2. Return(l) \/ pass' = [pass EXCEPT ![l] = f]
    BY <1>10 DEF Preflight
  <2>3. pass' \in [Loops -> Frame]
    BY <1>r, <2>1, <2>2, FrameTyped
  <2> QED
    BY <1>10, <1>f, <2>3, FlushTyped DEF Preflight
<1>11. CASE Sync(l)
  <2> DEFINE f == [pass[l] EXCEPT !.at = "queue"]
  <2>1. f \in Frame
    BY <1>f, <1>p DEF Frame
  <2>2. Return(l) \/ pass' = [pass EXCEPT ![l] = f]
    BY <1>11, <1>p DEF Sync
  <2>3. pass' \in [Loops -> Frame]
    BY <1>r, <2>1, <2>2, FrameTyped
  <2> QED
    BY <1>11, <1>f, <2>3 DEF Sync
<1>12. CASE Enqueue(l)
  <2>1. (raced \/ pass[l].behind) \in BOOLEAN
    BY <1>f DEF Frame
  <2> QED
    BY <1>12, <1>f, <1>r, <2>1 DEF Enqueue
<1> QED
  BY <1>1, <1>2, <1>3, <1>4, <1>5, <1>6, <1>7, <1>8, <1>9, <1>10, <1>11, <1>12 DEF Stage


\* A step of a pass keeps the types of everything else.
LEMMA OtherSteps ==
  ASSUME TypeOK, NEW l \in Loops, Start(l) \/ Stage(l)
  PROVE  BrokerTyped' /\ FlagsTyped'
<1>f. BrokerTyped /\ FlagsTyped /\ pass[l] \in Frame
  BY Parts DEF PassTyped
<1>m. Moved(l) \in BOOLEAN /\ MaxExtensions \in Nat
  BY Numbers DEF Moved
<1> USE DEF market, brokerVars, flagVars, BrokerTyped, FlagsTyped
<1>1. CASE Start(l) \/ HardCap(l) \/ ForcedClose(l) \/ BrokerClose(l)
  BY <1>1, <1>f DEF Start, HardCap, ForcedClose, BrokerClose
<1>2. CASE Recycle(l)
  BY <1>2, <1>f DEF Recycle
<1>3. CASE Breakeven(l) \/ Trail(l) \/ Bracket(l)
  BY <1>3, <1>f DEF Breakeven, Trail, Bracket
<1>4. CASE Ready(l)
  <2>1. touched' \in BOOLEAN
    BY <1>4, <1>f, <1>m DEF Ready
  <2>2. extended' \in 0 .. MaxExtensions
    BY <1>4, <1>f, <1>m DEF Ready, Extends
  <2> QED
    BY <1>4, <1>f, <2>1, <2>2 DEF Ready
<1>5. CASE Preflight(l)
  <2>1. Flush \/ NoFlush
    BY <1>5 DEF Preflight
  <2>2. lost' \in BOOLEAN
    BY <1>5, <1>f, <1>m DEF Preflight
  <2>3. /\ pushed' \in Levels
        /\ gone' \in BOOLEAN /\ killed' \in BOOLEAN /\ recycled' \in BOOLEAN
    BY <2>1, FlushTyped
  <2> QED
    BY <1>5, <1>f, <2>2, <2>3 DEF Preflight
<1>6. CASE Sync(l)
  BY <1>6, <1>f DEF Sync
<1>7. CASE Enqueue(l)
  <2>1. [stop |-> pass[l].stop] \in Jobs
    BY <1>f DEF Frame, Jobs
  <2> QED
    BY <1>7, <1>f, <2>1 DEF Enqueue, Coalesce
<1> QED
  BY <1>1, <1>2, <1>3, <1>4, <1>5, <1>6, <1>7 DEF Stage

\* A step of the dispatch worker keeps the types.
LEMMA WorkerSteps ==
  ASSUME TypeOK, Worker
  PROVE  TypeOK'
<1>f. /\ PassTyped /\ BrokerTyped /\ FlagsTyped /\ raced \in BOOLEAN
      /\ NoJob \in Jobs /\ 0 \in Levels
  BY Parts, FloorIsLevel DEF NoJob, Jobs
<1> USE DEF loopVars, Rest, PassTyped, BrokerTyped, FlagsTyped
<1>1. CASE Take
  <2>1. worker' \in [at : {"idle", "check", "put"}, stop : Levels]
    BY <1>1, <1>f DEF Take, Jobs
  <2> QED
    BY <1>1, <1>f, <2>1, PartsNext DEF Take
<1>2. CASE Check
  <2>1. Flush \/ NoFlush
    BY <1>2 DEF Check
  <2>2. worker' = [at |-> "idle", stop |-> 0] \/ worker' = [worker EXCEPT !.at = "put"]
    BY <1>2 DEF Check
  <2>3. worker' \in [at : {"idle", "check", "put"}, stop : Levels]
    BY <2>2, <1>f
  <2>4. lost' = TRUE \/ lost' = lost
    BY <1>2 DEF Check
  <2>5. lost' \in BOOLEAN
    BY <2>4, <1>f
  <2> QED
    BY <1>2, <1>f, <2>1, <2>3, <2>5, FlushTyped, PartsNext DEF Check
<1>3. CASE PutDone
  <2>1. deal' \in [open : BOOLEAN, stop : Levels] /\ pushed' \in Levels
    BY <1>3, <1>f DEF PutDone
  <2> QED
    BY <1>3, <1>f, <2>1, PartsNext DEF PutDone
<1>5. CASE PutFailed
  <2>1. deal' \in [open : BOOLEAN, stop : Levels]
    BY <1>5, <1>f DEF PutFailed
  <2> QED
    BY <1>5, <1>f, <2>1, PartsNext DEF PutFailed
<1>4. CASE PutNotFound
  BY <1>4, <1>f, FlushTyped, PartsNext DEF PutNotFound
<1> QED
  BY <1>1, <1>2, <1>3, <1>4, <1>5 DEF Worker

\* Price, broker and clocks keep the types.
LEMMA OutsideSteps ==
  ASSUME TypeOK, PriceMoves \/ StopHit \/ TouchExpires \/ BecomesDue
  PROVE  TypeOK'
<1>f. PassTyped /\ BrokerTyped /\ FlagsTyped /\ raced \in BOOLEAN /\ MaxMoves \in Nat
  BY Parts, Numbers
<1> USE DEF market, brokerVars, flagVars, PassTyped, BrokerTyped, FlagsTyped
<1>1. CASE PriceMoves
  BY <1>1, <1>f, PartsNext DEF PriceMoves
<1>2. CASE StopHit
  BY <1>2, <1>f, PartsNext DEF StopHit
<1>3. CASE TouchExpires
  BY <1>3, <1>f, PartsNext DEF TouchExpires
<1>4. CASE BecomesDue
  BY <1>4, <1>f, PartsNext DEF BecomesDue
<1> QED
  BY <1>1, <1>2, <1>3, <1>4

\* The trade just opened has its type.
LEMMA InitTyped == Init => TypeOK
<1> SUFFICES ASSUME Init PROVE TypeOK
  OBVIOUS
<1>1. PassTyped
  BY NoPassFine, FloorIsLevel DEF Init, PassTyped, Closers
<1>2. BrokerTyped
  BY Numbers, FloorIsLevel DEF Init, BrokerTyped, Prices, Jobs, NoJob
<1> QED
  BY <1>1, <1>2, Parts DEF Init, FlagsTyped

\* Every step of the system keeps the types.
LEMMA StepTyped == TypeOK /\ [Next]_vars => TypeOK'
<1> SUFFICES ASSUME TypeOK, [Next]_vars PROVE TypeOK'
  OBVIOUS
<1>1. ASSUME NEW l \in Loops, Start(l) \/ Stage(l) PROVE TypeOK'
  BY <1>1, PassSteps, OtherSteps, PartsNext
<1>2. CASE UNCHANGED vars
  BY <1>2, Parts, PartsNext DEF vars, PassTyped, BrokerTyped, FlagsTyped
<1> QED
  BY <1>1, <1>2, WorkerSteps, OutsideSteps DEF Next

\* Every step keeps the stop of the row, of the broker and of every job a
\* level, through all stages of a pass and all outcomes of a push.
THEOREM Typed == Spec => []TypeOK
  BY InitTyped, StepTyped, PTL DEF Spec

-----------------------------------------------------------------------------
(* A stop is loosened only by a race.                                      *)

\* A pass that has not been overtaken works with the stop of the row.
Fresh(l) ==
  (pass[l].at \notin {"idle", "closing"} /\ ~pass[l].behind) => pass[l].stop = row.stop

\* The stops on their way to the broker are in order: the row's is the tightest,
\* then the job that waits, then the worker's, then the broker's.
Chain ==
  /\ row.stop >= deal.stop /\ row.stop >= worker.stop /\ row.stop >= pending.stop
  /\ worker.at # "idle" => worker.stop >= deal.stop
  /\ pending # NoJob => pending.stop >= deal.stop /\ pending.stop >= worker.stop

RaceInv == raced \/ (Chain /\ \A l \in Loops : Fresh(l))

\* What a step has to show.
Tightens == raced' \/ (row'.stop >= row.stop /\ deal'.stop >= deal.stop)

\* All stops are integers, so they can be compared.
LEMMA Ints ==
  ASSUME TypeOK
  PROVE  /\ row.stop \in Int /\ deal.stop \in Int /\ pending.stop \in Int
         /\ worker.stop \in Int /\ pending.stop >= 0
         /\ \A l \in Loops : pass[l].stop \in Int
  BY Numbers DEF TypeOK, Levels, Jobs, Frame

\* A pass writes a tighter stop than the one it last read.
LEMMA WriteTightens ==
  ASSUME TypeOK, RaceInv, NEW l \in Loops, NEW level \in Levels, NEW f \in Frame,
         ~At(l, "idle"), ~At(l, "closing"), level > pass[l].stop, f.stop = level,
         WriteStop(l, level, f), UNCHANGED <<deal, pending, worker>>
  PROVE  RaceInv' /\ Tightens
<1>1. CASE raced \/ pass[l].behind
  BY <1>1 DEF WriteStop, RaceInv, Tightens
<1>2. CASE ~raced /\ ~pass[l].behind
  <2>1. pass[l].stop = row.stop /\ Chain
    BY <1>2 DEF RaceInv, Fresh, At
  <2>2. row'.stop = level /\ level \in Int
    BY Numbers DEF WriteStop, TypeOK, Levels
  <2>3. Chain'
    BY <2>1, <2>2, Ints DEF Chain
  <2>4. ASSUME NEW x \in Loops PROVE Fresh(x)'
    <3>1. CASE x = l
      BY <2>2, <3>1 DEF WriteStop, Fresh, TypeOK
    <3>2. CASE x # l
      <4>1. pass'[x] = [pass[x] EXCEPT !.behind = ~At(x, "idle")] /\ pass[x] \in Frame
        BY <3>2 DEF WriteStop, TypeOK
      <4> QED
        BY <4>1 DEF Fresh, At, Frame
    <3> QED
      BY <3>1, <3>2
  <2> QED
    BY <2>1, <2>2, <2>3, <2>4, Ints DEF RaceInv, Tightens
<1> QED
  BY <1>1, <1>2

\* The stops stay, and the frame of one pass changes.
LEMMA FrameKeeps ==
  ASSUME TypeOK, RaceInv, NEW l \in Loops, NEW f \in Frame,
         \/ f.at \in {"idle", "closing"}
         \/ f.stop = row.stop
         \/ ~At(l, "idle") /\ ~At(l, "closing") /\ f.stop = pass[l].stop
            /\ f.behind = pass[l].behind,
         pass' = [pass EXCEPT ![l] = f], row'.stop = row.stop,
         raced' = raced, UNCHANGED <<deal, pending, worker>>
  PROVE  RaceInv' /\ Tightens
<1>1. Tightens
  BY Ints DEF Tightens
<1>2. ASSUME ~raced PROVE Chain' /\ \A x \in Loops : Fresh(x)'
  <2>1. Chain'
    BY <1>2 DEF RaceInv, Chain
  <2>2. ASSUME NEW x \in Loops PROVE Fresh(x)'
    BY <1>2 DEF RaceInv, Fresh, At, TypeOK
  <2> QED
    BY <2>1, <2>2
<1> QED
  BY <1>1, <1>2 DEF RaceInv

\* A fresh pass that moves the stop keeps the order of the stops.
LEMMA TightenKeeps ==
  ASSUME TypeOK, RaceInv, NEW l \in Loops, NEW proposal, NEW armed, NEW next \in Places,
         ~At(l, "idle"), ~At(l, "closing"),
         proposal > pass[l].stop => proposal \in Levels,
         Tighten(l, proposal, armed, next), UNCHANGED <<deal, pending, worker>>
  PROVE  RaceInv' /\ Tightens
<1>1. pass[l] \in Frame /\ row.stop \in Levels
  BY DEF TypeOK
<1>2. CASE armed /\ proposal > pass[l].stop
  <2> DEFINE f == [pass[l] EXCEPT !.at = next, !.stop = proposal]
  <2>1. f \in Frame /\ f.stop = proposal
    BY <1>1, <1>2 DEF Frame
  <2>2. WriteStop(l, proposal, f)
    BY <1>2 DEF Tighten
  <2> HIDE DEF f
  <2> QED
    BY <1>2, <2>1, <2>2, WriteTightens
<1>3. CASE ~(armed /\ proposal > pass[l].stop)
  <2> DEFINE f == [pass[l] EXCEPT !.at = next, !.stop = row.stop]
  <2>1. f \in Frame /\ f.stop = row.stop
    BY <1>1 DEF Frame
  <2>2. KeepStop(l, f)
    BY <1>3 DEF Tighten
  <2> HIDE DEF f
  <2> QED
    BY <2>1, <2>2, FrameKeeps DEF KeepStop
<1> QED
  BY <1>2, <1>3

\* Every step of a pass keeps the order of the stops, or is a race.
LEMMA StageKeeps ==
  ASSUME TypeOK, RaceInv, NEW l \in Loops, Start(l) \/ Stage(l)
  PROVE  RaceInv' /\ Tightens
<1>f. /\ pass[l] \in Frame /\ price \in Levels /\ row.stop \in Levels
      /\ NoPass \in Frame /\ NoPass.at = "idle" /\ raced \in BOOLEAN
  BY Numbers, NoPassFine DEF TypeOK, Prices, Levels, NoPass
<1>p. {"begin", "breakeven", "trail", "bracket", "ready", "preflight", "sync", "queue"}
        \subseteq Places
  BY DEF Places
<1>c. \A by \in Closers : CloseRow(by) => row'.stop = row.stop
  BY CloseTyped
<1>s. {"open", "cap", "forced", "gone"} = Closers
  BY DEF Closers
<1>r. ASSUME Return(l), row'.stop = row.stop, raced' = raced,
             UNCHANGED <<deal, pending, worker>>
      PROVE  RaceInv' /\ Tightens
  BY <1>f, <1>r, FrameKeeps DEF Return
<1> USE DEF market, brokerVars, flagVars
<1>1. CASE Start(l)
  <2> DEFINE f == [NoPass EXCEPT !.at = "begin", !.px = price, !.stop = row.stop]
  <2>1. f \in Frame /\ f.stop = row.stop
    BY <1>f, <1>p, NoPassFine DEF Frame
  <2>2. pass' = [pass EXCEPT ![l] = f]
    BY <1>1 DEF Start
  <2> HIDE DEF f
  <2> QED
    BY <1>1, <2>1, <2>2, FrameKeeps DEF Start
<1>2. CASE HardCap(l)
  BY <1>2, <1>c, <1>s, <1>r DEF HardCap
<1>3. CASE ForcedClose(l)
  <2> DEFINE f == [NoPass EXCEPT !.at = "closing"]
  <2>1. f \in Frame /\ f.at = "closing"
    BY <1>f, NoPassFine DEF Frame
  <2>2. pass' = [pass EXCEPT ![l] = f] /\ row'.stop = row.stop
    BY <1>3, <1>c, <1>s DEF ForcedClose
  <2> HIDE DEF f
  <2> QED
    BY <1>3, <2>1, <2>2, FrameKeeps DEF ForcedClose
<1>4. CASE BrokerClose(l)
  BY <1>4, <1>r DEF BrokerClose
<1>5. CASE Recycle(l)
  <2> DEFINE next == IF l = "slow" /\ touched THEN "ready" ELSE "breakeven"
             f == [pass[l] EXCEPT !.at = next, !.stop = Entry + BeLock,
                                  !.prev = Entry + BeLock]
             g == [pass[l] EXCEPT !.at = next, !.stop = row.stop, !.prev = pass[l].stop]
  <2>0. next \in Places /\ ~At(l, "idle") /\ ~At(l, "closing")
        /\ UNCHANGED <<deal, pending, worker>>
    BY <1>5, <1>p DEF Recycle, At
  <2>1. f \in Frame /\ f.stop = Entry + BeLock
    BY <1>f, <2>0, FloorIsLevel DEF Frame
  <2>2. g \in Frame /\ g.stop = row.stop
    BY <1>f, <2>0 DEF Frame
  <2>3. \/ pass[l].stop < Entry + BeLock /\ WriteStop(l, Entry + BeLock, f)
        \/ KeepStop(l, g)
    BY <1>5 DEF Recycle
  <2> HIDE DEF f, g, next
  <2>4. CASE pass[l].stop < Entry + BeLock /\ WriteStop(l, Entry + BeLock, f)
    <3>1. Entry + BeLock > pass[l].stop
      BY <2>4, Ints, Numbers
    <3> QED
      BY <3>1, <2>0, <2>1, <2>4, FloorIsLevel, WriteTightens
  <2>5. CASE KeepStop(l, g)
    BY <2>0, <2>2, <2>5, FrameKeeps DEF KeepStop
  <2> QED
    BY <2>3, <2>4, <2>5
<1>6. CASE Breakeven(l)
  BY <1>6, <1>p, FloorIsLevel, TightenKeeps DEF Breakeven, At
<1>7. CASE Trail(l)
  <2>1. pass[l].px \in Levels /\ pass[l].stop \in Levels
    BY <1>f DEF Frame
  <2>2. pass[l].px - TrailDistance > pass[l].stop => pass[l].px - TrailDistance \in Levels
    BY <2>1, Numbers, ProposalIsLevel
  <2> QED
    BY <1>7, <1>p, <2>2, TightenKeeps DEF Trail, At
<1>8. CASE Bracket(l)
  <2> DEFINE proposal == pass[l].px - BracketDistance
             f == [pass[l] EXCEPT !.at = "ready", !.stop = proposal]
             g == [pass[l] EXCEPT !.at = "ready"]
  <2>0. pass[l].px \in Levels /\ pass[l].stop \in Levels
    BY <1>f DEF Frame
  <2>1. g \in Frame /\ g.stop = pass[l].stop /\ g.behind = pass[l].behind
    BY <1>f, <1>p DEF Frame
  <2>2. proposal > pass[l].stop => proposal \in Levels /\ f \in Frame /\ f.stop = proposal
    <3> SUFFICES ASSUME proposal > pass[l].stop
                 PROVE  proposal \in Levels /\ f \in Frame /\ f.stop = proposal
      OBVIOUS
    <3>1. proposal \in Levels
      BY <2>0, Numbers, ProposalIsLevel
    <3> HIDE DEF proposal
    <3> QED
      BY <1>f, <1>p, <3>1 DEF Frame
  <2>3. \/ proposal > pass[l].stop /\ WriteStop(l, proposal, f)
        \/ KeepStop(l, g)
    BY <1>8 DEF Bracket
  <2>4. ~At(l, "idle") /\ ~At(l, "closing") /\ UNCHANGED <<deal, pending, worker>>
    BY <1>8 DEF Bracket, At
  <2> HIDE DEF f, g, proposal
  <2>5. CASE proposal > pass[l].stop /\ WriteStop(l, proposal, f)
    BY <2>2, <2>4, <2>5, WriteTightens
  <2>6. CASE KeepStop(l, g)
    BY <2>1, <2>4, <2>6, FrameKeeps DEF KeepStop
  <2> QED
    BY <2>3, <2>5, <2>6
<1>9. CASE Ready(l)
  <2> DEFINE f == [pass[l] EXCEPT !.at = "preflight", !.limit = Extends(l), !.px = 0]
  <2>1. Extends(l) \in BOOLEAN /\ ~At(l, "idle") /\ ~At(l, "closing")
    BY <1>9 DEF Extends, Ready, At
  <2>2. f \in Frame /\ f.stop = pass[l].stop /\ f.behind = pass[l].behind
    BY <1>f, <1>p, <2>1, FloorIsLevel DEF Frame
  <2>3. pass' = [pass EXCEPT ![l] = f]
    BY <1>9 DEF Ready
  <2> HIDE DEF f
  <2> QED
    BY <1>9, <2>1, <2>2, <2>3, FrameKeeps DEF Ready
<1>10. CASE Preflight(l)
  <2> DEFINE f == [pass[l] EXCEPT !.at = "sync", !.prev = 0]
  <2>0. ~At(l, "idle") /\ ~At(l, "closing") /\ row'.stop = row.stop
    BY <1>10, FlushTyped DEF Preflight, At, NoFlush
  <2>1. f \in Frame /\ f.stop = pass[l].stop /\ f.behind = pass[l].behind
    BY <1>f, <1>p, FloorIsLevel DEF Frame
  <2>2. Return(l) \/ pass' = [pass EXCEPT ![l] = f]
    BY <1>10 DEF Preflight
  <2> HIDE DEF f
  <2> QED
    BY <1>10, <2>0, <2>1, <2>2, <1>r, FrameKeeps DEF Preflight
<1>11. CASE Sync(l)
  <2> DEFINE f == [pass[l] EXCEPT !.at = "queue"]
  <2>1. f \in Frame /\ f.stop = pass[l].stop /\ f.behind = pass[l].behind
    BY <1>f, <1>p DEF Frame
  <2>2. Return(l) \/ pass' = [pass EXCEPT ![l] = f]
    BY <1>11 DEF Sync, TypeOK
  <2>3. ~At(l, "idle") /\ ~At(l, "closing")
    BY <1>11 DEF Sync, At
  <2> HIDE DEF f
  <2> QED
    BY <1>11, <2>1, <2>2, <2>3, <1>r, FrameKeeps DEF Sync
<1>12. CASE Enqueue(l)
  <2>1. CASE raced \/ pass[l].behind
    BY <1>12, <2>1 DEF Enqueue, RaceInv, Tightens
  <2>2. CASE ~raced /\ ~pass[l].behind
    <3>1. pass[l].stop = row.stop /\ Chain /\ \A x \in Loops : Fresh(x)
      BY <1>12, <2>2 DEF RaceInv, Fresh, Enqueue, At
    <3>2. pending' = [stop |-> row.stop] \/ pending' = pending
      BY <1>12, <3>1 DEF Enqueue, Coalesce
    <3>3. row' = row /\ deal' = deal /\ worker' = worker
          /\ pass' = [pass EXCEPT ![l] = NoPass] /\ raced' = FALSE
      BY <1>12, <2>2 DEF Enqueue, Return
    <3>4. Chain'
      BY <3>1, <3>2, <3>3, Ints DEF Chain
    <3>5. \A x \in Loops : Fresh(x)'
      BY <3>1, <3>3, <1>f DEF Fresh, TypeOK
    <3>6. Tightens
      BY <3>3, Ints DEF Tightens
    <3> QED
      BY <3>4, <3>5, <3>6 DEF RaceInv
  <2> QED
    BY <2>1, <2>2
<1> QED
  BY <1>1, <1>2, <1>3, <1>4, <1>5, <1>6, <1>7, <1>8, <1>9, <1>10, <1>11, <1>12 DEF Stage

\* The steps that touch no pass.
LEMMA OthersKeep ==
  ASSUME TypeOK, RaceInv,
         Worker \/ PriceMoves \/ StopHit \/ TouchExpires \/ BecomesDue
  PROVE  RaceInv' /\ Tightens
<1>1. row'.stop = row.stop /\ pass' = pass /\ raced' = raced
  <2>1. Flush \/ NoFlush => row'.stop = row.stop
    BY FlushTyped
  <2>2. CASE Worker
    BY <2>1, <2>2 DEF Worker, Take, Check, PutDone, PutFailed, PutNotFound, loopVars
  <2> QED
    BY <2>2 DEF PriceMoves, StopHit, TouchExpires, BecomesDue
<1>2. ASSUME Chain PROVE Chain' /\ deal'.stop >= deal.stop
  <2> USE <1>1, <1>2, Ints DEF Chain
  <2>1. CASE Take
    BY <2>1 DEF Take, NoJob
  <2>2. CASE Check
    <3>1. deal' = deal /\ pending' = pending
      BY <2>2 DEF Check, loopVars
    <3>2. worker' = [at |-> "idle", stop |-> 0] \/ worker' = [worker EXCEPT !.at = "put"]
      BY <2>2 DEF Check, Rest
    <3>3. worker.at = "check" /\ worker'.stop \in {0, worker.stop}
          /\ (worker'.at = "idle" \/ worker'.stop = worker.stop)
      BY <2>2, <3>2 DEF Check, TypeOK
    <3>4. row.stop >= 0 /\ pending.stop >= 0
      BY Numbers DEF TypeOK, Levels
    <3>5. row.stop >= worker'.stop
      BY <3>3, <3>4
    <3>6. pending # NoJob => pending.stop >= worker'.stop
      BY <3>3, <3>4
    <3> QED
      BY <3>1, <3>3, <3>5, <3>6
  <2>3. CASE PutDone \/ PutFailed \/ PutNotFound
    <3>1. /\ worker.at = "put" /\ worker' = [at |-> "idle", stop |-> 0] /\ pending' = pending
          /\ deal'.stop \in {deal.stop, worker.stop}
      BY <2>3 DEF PutDone, PutFailed, PutNotFound, Rest, loopVars, TypeOK
    <3>2. row.stop >= 0 /\ pending.stop >= 0
      BY Numbers DEF TypeOK, Levels
    <3> QED
      BY <3>1, <3>2
  <2>4. CASE PriceMoves \/ StopHit \/ TouchExpires \/ BecomesDue
    <3>1. deal'.stop = deal.stop /\ pending' = pending /\ worker' = worker
      BY <2>4 DEF PriceMoves, StopHit, TouchExpires, BecomesDue, brokerVars, TypeOK
    <3> QED
      BY <3>1
  <2> QED
    BY <2>1, <2>2, <2>3, <2>4 DEF Worker
<1>3. \A l \in Loops : Fresh(l) => Fresh(l)'
  BY <1>1 DEF Fresh
<1> QED
  BY <1>1, <1>2, <1>3, Ints DEF RaceInv, Tightens

\* The trade just opened has its stops in order.
LEMMA InitRace == Init => RaceInv
<1> SUFFICES ASSUME Init PROVE RaceInv
  OBVIOUS
<1>1. Chain
  BY Numbers DEF Init, Chain, NoJob
<1>2. \A l \in Loops : Fresh(l)
  BY DEF Init, Fresh, NoPass
<1> QED
  BY <1>1, <1>2 DEF RaceInv

\* Every step of the system keeps the order of the stops and loosens none.
LEMMA StepRace == TypeOK /\ RaceInv /\ [Next]_vars => RaceInv' /\ Tightens
<1> SUFFICES ASSUME TypeOK, RaceInv, [Next]_vars PROVE RaceInv' /\ Tightens
  OBVIOUS
<1>1. CASE UNCHANGED vars
  BY <1>1, Ints DEF vars, RaceInv, Chain, Fresh, Tightens
<1> QED
  BY <1>1, StageKeeps, OthersKeep DEF Next

\* Unless a pass has acted on a stop the other loop had already moved, no step
\* loosens the stop in the trades row or at the broker: not a lost reply, not a
\* job that was replaced, not a pass that worked with an old price.
THEOREM OnlyRaces == Spec => OnlyRacesLoosen
<1>1. Spec => [](TypeOK /\ RaceInv)
  BY InitTyped, StepTyped, InitRace, StepRace, PTL DEF Spec
<1>2. TypeOK /\ RaceInv /\ [Next]_vars
        => [raced' \/ (row'.stop >= row.stop /\ deal'.stop >= deal.stop)]_vars
  BY StepRace DEF Tightens
<1> QED
  BY <1>1, <1>2, PTL DEF Spec, OnlyRacesLoosen

-----------------------------------------------------------------------------
(* A tightened stop is not forgotten.                                      *)

\* What a pass may still write is no looser than what it had at prev_stop: a
\* write therefore counts as a move.
Forward(l) ==
  (pass[l].at \in {"breakeven", "trail", "bracket"} /\ ~pass[l].behind)
    => pass[l].prev <= pass[l].stop

\* A deal in _gone_deals is closed at the broker, and _last_ig_stop is not above
\* the broker's stop unless a reply was lost: _sync_stop_to_ig gives up only on a
\* stop that needs no push.
CarryInv ==
  /\ StopIsCarried
  /\ gone => ~deal.open
  /\ lost \/ pushed <= deal.stop
  /\ raced \/ \A l \in Loops : Forward(l)

\* Nothing that StopIsCarried exempts stops being exempt.
Lasts ==
  /\ lost => lost'
  /\ raced => raced'
  /\ deal'.open => deal.open
  /\ Open' => Open

\* The stops stay, one pass changes its frame and goes on carrying.
LEMMA FrameCarries ==
  ASSUME TypeOK, CarryInv, NEW l \in Loops, NEW f \in Frame,
         pass' = [pass EXCEPT ![l] = f], row'.stop = row.stop, deal'.stop = deal.stop,
         pending' = pending, worker' = worker, Lasts,
         \/ lost' \/ ~Open' \/ ~deal'.open
         \/ row.stop <= deal.stop
         \/ Carries(l) => Carries(l)'
  PROVE  StopIsCarried'
<1> SUFFICES ASSUME row'.stop > deal'.stop, deal'.open, Open', ~lost', ~raced'
             PROVE  \/ \E x \in Loops : Carries(x)'
                    \/ row'.stop \in {pending'.stop, worker'.stop}
  BY DEF StopIsCarried
<1>1. ~(row.stop <= deal.stop)
  BY Ints
<1>2. Carries(l) => Carries(l)'
  BY <1>1
<1>3. \A x \in Loops : x # l => (Carries(x) => Carries(x)')
  BY DEF Carries, Moved, TypeOK
<1>4. \/ \E x \in Loops : Carries(x)
      \/ row.stop \in {pending.stop, worker.stop}
  BY DEF CarryInv, StopIsCarried, Lasts
<1> QED
  BY <1>2, <1>3, <1>4

\* The pass that writes the stop carries it.
LEMMA WriteCarries ==
  ASSUME TypeOK, RaceInv, CarryInv, NEW l \in Loops, NEW level \in Levels, NEW f \in Frame,
         pass[l].at \in {"breakeven", "trail", "bracket"}, level > pass[l].stop,
         f.stop = level, f.prev = pass[l].prev, f.behind = pass[l].behind,
         f.at \in {"trail", "bracket", "ready"}, WriteStop(l, level, f)
  PROVE  StopIsCarried' /\ (raced' \/ \A x \in Loops : Forward(x)')
<1>1. CASE raced'
  BY <1>1 DEF StopIsCarried
<1>2. CASE ~raced'
  <2>1. ~raced /\ ~pass[l].behind /\ Forward(l)
    BY <1>2 DEF WriteStop, CarryInv
  <2>2. pass[l].prev \in Int /\ pass[l].stop \in Int /\ level \in Int
    BY Numbers DEF TypeOK, Frame, Levels
  <2>3. pass[l].prev < level
    BY <2>1, <2>2 DEF Forward
  <2>4. pass'[l] = f /\ row'.stop = level
    BY DEF WriteStop, TypeOK
  <2>5. f.stop # f.prev
    BY <2>2, <2>3
  <2>6. Carries(l)'
    BY <2>4, <2>5 DEF Carries, Moved
  <2>7. ASSUME NEW x \in Loops PROVE Forward(x)'
    <3>1. CASE x = l
      BY <2>2, <2>3, <2>4, <3>1 DEF Forward
    <3>2. CASE x # l
      <4>1. pass'[x] = [pass[x] EXCEPT !.behind = ~At(x, "idle")] /\ pass[x] \in Frame
        BY <3>2 DEF WriteStop, TypeOK
      <4> QED
        BY <4>1 DEF Forward, At, Frame
    <3> QED
      BY <3>1, <3>2
  <2> QED
    BY <2>6, <2>7 DEF StopIsCarried
<1> QED
  BY <1>1, <1>2

\* A new frame that writes nothing keeps the order of prev_stop and the stop.
LEMMA FrameForward ==
  ASSUME TypeOK, CarryInv, NEW l \in Loops, NEW f \in Frame,
         pass' = [pass EXCEPT ![l] = f], raced' = raced,
         \/ f.at \notin {"breakeven", "trail", "bracket"}
         \/ raced \/ f.behind \/ f.prev <= f.stop
  PROVE  raced' \/ \A x \in Loops : Forward(x)'
  BY DEF CarryInv, Forward, TypeOK

\* A stage whose proposal is not written reads the row again.
LEMMA RereadCarries ==
  ASSUME TypeOK, RaceInv, CarryInv, NEW l \in Loops, NEW f \in Frame,
         pass[l].at \in {"breakeven", "trail", "bracket"},
         f.stop = row.stop \/ f.stop = pass[l].stop, f.prev = pass[l].prev,
         f.behind = pass[l].behind, f.at \in {"trail", "bracket", "ready"},
         KeepStop(l, f), UNCHANGED <<deal, pending, worker, lost>>
  PROVE  StopIsCarried' /\ (raced' \/ \A x \in Loops : Forward(x)')
<1>1. pass' = [pass EXCEPT ![l] = f] /\ row' = row /\ raced' = raced
  BY DEF KeepStop
<1>2. Lasts
  BY <1>1 DEF Lasts, Open
<1>3. Carries(l) => Carries(l)'
  BY <1>1 DEF Carries, Moved, TypeOK
<1>4. raced \/ f.behind \/ f.prev <= f.stop
  BY DEF RaceInv, Fresh, CarryInv, Forward
<1> QED
  BY <1>1, <1>2, <1>3, <1>4, FrameCarries, FrameForward

\* A pass that moves the stop carries what it wrote.
LEMMA TightenCarries ==
  ASSUME TypeOK, RaceInv, CarryInv, NEW l \in Loops, NEW proposal, NEW armed,
         NEW next \in {"trail", "bracket", "ready"},
         pass[l].at \in {"breakeven", "trail", "bracket"},
         proposal > pass[l].stop => proposal \in Levels,
         Tighten(l, proposal, armed, next), UNCHANGED <<deal, pending, worker, lost>>
  PROVE  StopIsCarried' /\ (raced' \/ \A x \in Loops : Forward(x)')
<1>1. pass[l] \in Frame /\ row.stop \in Levels /\ next \in Places
  BY DEF TypeOK, Places
<1>2. CASE armed /\ proposal > pass[l].stop
  <2> DEFINE f == [pass[l] EXCEPT !.at = next, !.stop = proposal]
  <2>1. /\ f \in Frame /\ f.stop = proposal /\ f.at = next
        /\ f.prev = pass[l].prev /\ f.behind = pass[l].behind
    BY <1>1, <1>2 DEF Frame
  <2>2. WriteStop(l, proposal, f)
    BY <1>2 DEF Tighten
  <2> HIDE DEF f
  <2> QED
    BY <1>2, <2>1, <2>2, WriteCarries
<1>3. CASE ~(armed /\ proposal > pass[l].stop)
  <2> DEFINE f == [pass[l] EXCEPT !.at = next, !.stop = row.stop]
  <2>1. /\ f \in Frame /\ f.stop = row.stop /\ f.at = next
        /\ f.prev = pass[l].prev /\ f.behind = pass[l].behind
    BY <1>1 DEF Frame
  <2>2. KeepStop(l, f)
    BY <1>3 DEF Tighten
  <2> HIDE DEF f
  <2> QED
    BY <2>1, <2>2, RereadCarries
<1> QED
  BY <1>2, <1>3

\* _gone_deals and _last_ig_stop stay right.
Known == (gone' => ~deal'.open) /\ (lost' \/ pushed' <= deal'.stop)

\* Who leaves the books of the push alone keeps what they say of the broker.
LEMMA KnownStays ==
  ASSUME TypeOK, CarryInv, gone' = gone, pushed' = pushed, deal'.stop = deal.stop,
         deal'.open => deal.open, lost => lost'
  PROVE  Known
  BY DEF CarryInv, Known

\* Forgetting a closed trade keeps what the books say of the broker.
LEMMA FlushKnown ==
  ASSUME TypeOK, Flush, deal' = deal, ~deal.open
  PROVE  Known /\ ~Open'
<1>1. deal.stop >= 0
  BY Numbers DEF TypeOK, Levels
<1> QED
  BY <1>1 DEF Flush, Known, Open, CloseRow, TypeOK

\* Every step of a pass keeps the carrier of the stop.
LEMMA StageCarries ==
  ASSUME TypeOK, RaceInv, CarryInv, NEW l \in Loops, Start(l) \/ Stage(l)
  PROVE  CarryInv'
<1>f. /\ pass[l] \in Frame /\ price \in Levels /\ row.stop \in Levels
      /\ NoPass \in Frame /\ NoPass.at = "idle" /\ {lost, raced, gone} \subseteq BOOLEAN
  BY Numbers, NoPassFine DEF TypeOK, Prices, Levels, NoPass
<1>p. {"begin", "breakeven", "trail", "bracket", "ready", "preflight", "sync", "queue"}
        \subseteq Places
  BY DEF Places
<1>q. ASSUME StopIsCarried', raced' \/ \A x \in Loops : Forward(x)', Known
      PROVE  CarryInv'
  BY <1>q DEF CarryInv, Known
\* The pass takes frame f, and nothing the stop depends on moves.
<1>r. ASSUME NEW f \in Frame, pass' = [pass EXCEPT ![l] = f], raced' = raced,
             row'.stop = row.stop, lost => lost', Open' => Open,
             UNCHANGED <<deal, pending, worker>>, Known,
             \/ lost' \/ ~Open' \/ ~deal.open \/ row.stop <= deal.stop
             \/ Carries(l) => Carries(l)',
             \/ f.at \notin {"breakeven", "trail", "bracket"}
             \/ raced \/ f.behind \/ f.prev <= f.stop
      PROVE  CarryInv'
  <2>1. Lasts
    BY <1>r DEF Lasts
  <2> QED
    BY <1>r, <2>1, <1>q, FrameCarries, FrameForward
<1> USE DEF market, brokerVars, flagVars
<1>k. ASSUME UNCHANGED <<deal, pushed, gone>>, lost => lost' PROVE Known
  BY <1>k, KnownStays
<1>1. CASE Start(l)
  <2> DEFINE f == [NoPass EXCEPT !.at = "begin", !.px = price, !.stop = row.stop]
  <2>1. f \in Frame /\ f.at = "begin"
    BY <1>f, <1>p, NoPassFine DEF Frame
  <2>2. pass' = [pass EXCEPT ![l] = f] /\ ~Carries(l)
    BY <1>1 DEF Start, Carries, At
  <2>3. Known
    BY <1>1, <1>k DEF Start
  <2> HIDE DEF f
  <2> QED
    BY <1>1, <2>1, <2>2, <2>3, <1>r DEF Start, Open
<1>2. CASE HardCap(l)
  <2>1. Known /\ ~Open' /\ row'.stop = row.stop
    BY <1>2, <1>k, CloseTyped DEF HardCap, CloseRow, Open, TypeOK, Closers
  <2> QED
    BY <1>2, <1>f, <2>1, <1>r DEF HardCap, Return
<1>3. CASE ForcedClose(l)
  <2> DEFINE f == [NoPass EXCEPT !.at = "closing"]
  <2>1. f \in Frame /\ f.at = "closing" /\ pass' = [pass EXCEPT ![l] = f]
    BY <1>3, <1>f, NoPassFine DEF Frame, ForcedClose
  <2>2. Known /\ ~Open' /\ row'.stop = row.stop
    BY <1>3, <1>k DEF ForcedClose, CloseRow, Open, TypeOK, Closers
  <2> HIDE DEF f
  <2> QED
    BY <1>3, <2>1, <2>2, <1>r DEF ForcedClose
<1>4. CASE BrokerClose(l)
  <2>1. Known /\ ~Carries(l)
    BY <1>4, <1>k DEF BrokerClose, Carries, At
  <2> QED
    BY <1>4, <1>f, <2>1, <1>r DEF BrokerClose, Return, Open
<1>5. CASE Recycle(l)
  <2> DEFINE next == IF l = "slow" /\ touched THEN "ready" ELSE "breakeven"
             g == [pass[l] EXCEPT !.at = next, !.stop = row.stop, !.prev = pass[l].stop]
  <2>0. /\ next \in Places /\ ~Carries(l) /\ pass[l].at = "begin"
        /\ UNCHANGED <<deal, pending, worker, pushed, gone>>
    BY <1>5, <1>p DEF Recycle, At, Carries
  <2>1. /\ g \in Frame /\ g.stop = row.stop /\ g.prev = pass[l].stop
        /\ g.behind = pass[l].behind
    BY <1>f, <2>0 DEF Frame
  <2>2. CASE lost'
    <3>1. Known /\ StopIsCarried'
      BY <2>0, <2>2, <1>k DEF StopIsCarried
    <3>2. raced' \/ \A x \in Loops : Forward(x)'
      <4> DEFINE f == [pass[l] EXCEPT !.at = next, !.stop = Entry + BeLock,
                                      !.prev = Entry + BeLock]
      <4>0. /\ f.stop = Entry + BeLock /\ f.prev = Entry + BeLock
            /\ Entry + BeLock \in Int
        BY <1>f, Numbers DEF Frame
      <4>1. WriteStop(l, Entry + BeLock, f) \/ KeepStop(l, g)
        BY <1>5 DEF Recycle
      <4> HIDE DEF f, g, next
      <4>2. CASE WriteStop(l, Entry + BeLock, f)
        <5>1. raced => raced'
          BY <4>2 DEF WriteStop
        <5>2. ASSUME NEW x \in Loops, ~raced' PROVE Forward(x)'
          <6>1. CASE x = l
            BY <4>0, <4>2, <6>1 DEF Forward, WriteStop, TypeOK
          <6>2. CASE x # l
            <7>1. pass'[x] = [pass[x] EXCEPT !.behind = ~At(x, "idle")] /\ pass[x] \in Frame
              BY <4>2, <6>2 DEF WriteStop, TypeOK
            <7>2. Forward(x)
              BY <5>1, <5>2 DEF CarryInv
            <7> QED
              BY <7>1, <7>2 DEF Forward, At, Frame
          <6> QED
            BY <6>1, <6>2
        <5> QED
          BY <5>2
      <4>3. CASE KeepStop(l, g)
        <5>1. raced \/ g.behind \/ g.prev <= g.stop
          BY <2>0, <2>1, Ints DEF RaceInv, Fresh
        <5> QED
          BY <4>3, <5>1, <2>1, FrameForward DEF KeepStop
      <4> QED
        BY <4>1, <4>2, <4>3
    <3> QED
      BY <3>1, <3>2, <1>q
  <2>3. CASE ~lost'
    <3>1. KeepStop(l, g) /\ lost' = lost
      BY <1>5, <2>3 DEF Recycle
    <3>2. raced \/ g.behind \/ g.prev <= g.stop
      BY <2>0, <2>1, Ints DEF RaceInv, Fresh
    <3>3. Known
      BY <2>0, <3>1, <1>k
    <3> HIDE DEF g, next
    <3> QED
      BY <2>0, <2>1, <3>1, <3>2, <3>3, <1>r DEF KeepStop, Open
  <2> QED
    BY <2>2, <2>3
<1>6. CASE Breakeven(l)
  BY <1>6, <1>q, <1>k, FloorIsLevel, TightenCarries DEF Breakeven, At
<1>7. CASE Trail(l)
  <2>1. pass[l].px \in Levels /\ pass[l].stop \in Levels
    BY <1>f DEF Frame
  <2>2. pass[l].px - TrailDistance > pass[l].stop => pass[l].px - TrailDistance \in Levels
    BY <2>1, Numbers, ProposalIsLevel
  <2> QED
    BY <1>7, <2>2, <1>q, <1>k, TightenCarries DEF Trail, At
<1>8. CASE Bracket(l)
  <2> DEFINE proposal == pass[l].px - BracketDistance
             f == [pass[l] EXCEPT !.at = "ready", !.stop = proposal]
             g == [pass[l] EXCEPT !.at = "ready"]
  <2>0. pass[l].px \in Levels /\ pass[l].stop \in Levels
    BY <1>f DEF Frame
  <2>1. /\ g \in Frame /\ g.stop = pass[l].stop /\ g.behind = pass[l].behind
        /\ g.prev = pass[l].prev /\ g.at = "ready"
    BY <1>f, <1>p DEF Frame
  <2>2. proposal > pass[l].stop =>
          /\ proposal \in Levels /\ f \in Frame /\ f.stop = proposal
          /\ f.behind = pass[l].behind /\ f.prev = pass[l].prev /\ f.at = "ready"
    <3> SUFFICES ASSUME proposal > pass[l].stop
                 PROVE  /\ proposal \in Levels /\ f \in Frame /\ f.stop = proposal
                        /\ f.behind = pass[l].behind /\ f.prev = pass[l].prev
                        /\ f.at = "ready"
      OBVIOUS
    <3>1. proposal \in Levels
      BY <2>0, Numbers, ProposalIsLevel
    <3> HIDE DEF proposal
    <3> QED
      BY <1>f, <1>p, <3>1 DEF Frame
  <2>3. \/ proposal > pass[l].stop /\ WriteStop(l, proposal, f)
        \/ KeepStop(l, g)
    BY <1>8 DEF Bracket
  <2>4. pass[l].at = "bracket" /\ Known /\ UNCHANGED <<deal, pending, worker, lost>>
    BY <1>8, <1>k DEF Bracket, At
  <2> HIDE DEF f, g, proposal
  <2>5. CASE proposal > pass[l].stop /\ WriteStop(l, proposal, f)
    BY <2>2, <2>4, <2>5, <1>q, WriteCarries
  <2>6. CASE KeepStop(l, g)
    BY <2>1, <2>4, <2>6, <1>q, RereadCarries
  <2> QED
    BY <2>3, <2>5, <2>6
<1>9. CASE Ready(l)
  <2> DEFINE f == [pass[l] EXCEPT !.at = "preflight", !.limit = Extends(l), !.px = 0]
  <2>1. Extends(l) \in BOOLEAN /\ pass[l].at = "ready"
    BY <1>9 DEF Extends, Ready, At
  <2>2. f \in Frame /\ f.stop = pass[l].stop /\ f.prev = pass[l].prev /\ f.at = "preflight"
    BY <1>f, <1>p, <2>1, FloorIsLevel DEF Frame
  <2>3. pass' = [pass EXCEPT ![l] = f] /\ Known /\ row' = row
    BY <1>9, <1>k DEF Ready
  <2> HIDE DEF f
  <2>4. Carries(l) => Carries(l)'
    BY <2>1, <2>2, <2>3 DEF Carries, Moved, TypeOK
  <2> QED
    BY <1>9, <2>2, <2>3, <2>4, <1>r DEF Ready, Open
<1>10. CASE Preflight(l)
  <2> DEFINE f == [pass[l] EXCEPT !.at = "sync", !.prev = 0]
  <2>0. pass[l].at = "preflight" /\ UNCHANGED <<deal, pending, worker, raced>>
    BY <1>10 DEF Preflight, At
  <2>1. f \in Frame /\ f.stop = pass[l].stop /\ f.at = "sync"
    BY <1>f, <1>p, FloorIsLevel DEF Frame
  <2> HIDE DEF f
  <2>2. CASE Return(l) /\ lost' = (lost \/ Moved(l)) /\ NoFlush
    <3>1. Carries(l) => lost'
      BY <2>0, <2>2 DEF Carries
    <3>2. Known
      BY <2>0, <2>2, <1>k DEF NoFlush
    <3> QED
      BY <2>0, <2>2, <3>1, <3>2, <1>f, <1>r DEF NoFlush, Return, Open
  <2>3. CASE ~deal.open /\ Return(l) /\ Flush /\ UNCHANGED lost
    <3>1. Known /\ ~Open' /\ row'.stop = row.stop
      BY <2>0, <2>3, FlushKnown, FlushTyped
    <3> QED
      BY <2>0, <2>3, <3>1, <1>f, <1>r DEF Return
  <2>4. CASE NoFlush /\ UNCHANGED lost /\ (Moved(l) \/ pass[l].limit)
             /\ pass' = [pass EXCEPT ![l] = f]
    <3>1. Known
      BY <2>0, <2>4, <1>k DEF NoFlush
    <3>2. Carries(l) => Carries(l)'
      BY <2>0, <2>1, <2>4 DEF Carries, TypeOK, NoFlush
    <3> QED
      BY <2>0, <2>1, <2>4, <3>1, <3>2, <1>r DEF NoFlush, Open
  <2>5. CASE NoFlush /\ UNCHANGED lost /\ ~Moved(l) /\ Return(l)
    <3>1. Known
      BY <2>0, <2>5, <1>k DEF NoFlush
    <3>2. ~Carries(l)
      BY <2>0, <2>5 DEF Carries
    <3> QED
      BY <2>0, <2>5, <3>1, <3>2, <1>f, <1>r DEF NoFlush, Return, Open
  <2> QED
    BY <1>10, <2>2, <2>3, <2>4, <2>5 DEF Preflight, f
<1>11. CASE Sync(l)
  <2> DEFINE f == [pass[l] EXCEPT !.at = "queue"]
  <2>0. /\ pass[l].at = "sync" /\ UNCHANGED <<deal, pending, worker, raced, row, pushed, gone>>
        /\ lost => lost'
    BY <1>11 DEF Sync, At
  <2>1. f \in Frame /\ f.stop = pass[l].stop /\ f.at = "queue"
    BY <1>f, <1>p DEF Frame
  <2>2. Known
    BY <2>0, <1>k
  <2> HIDE DEF f
  <2>3. CASE pass' = [pass EXCEPT ![l] = f]
    <3>1. Carries(l) => Carries(l)'
      BY <2>0, <2>1, <2>3 DEF Carries, TypeOK
    <3> QED
      BY <2>0, <2>1, <2>2, <2>3, <3>1, <1>r DEF Open
  <2>4. CASE Return(l)
    <3>1. \/ lost' \/ ~deal.open \/ pass[l].stop <= deal.stop
      <4>1. \/ gone \/ pushed = pass[l].stop \/ lost' \/ pass[l].stop <= deal.stop
            \/ pass' = [pass EXCEPT ![l] = f]
        BY <1>11 DEF Sync, f
      <4>2. f # NoPass
        BY <2>1, <1>f
      <4>3. pass' # [pass EXCEPT ![l] = f]
        BY <2>4, <4>2 DEF Return, TypeOK
      <4> QED
        BY <4>1, <4>3, <2>0 DEF CarryInv
    <3>2. Carries(l) => pass[l].stop = row.stop
      BY DEF Carries
    <3> QED
      BY <2>0, <2>2, <2>4, <3>1, <3>2, <1>f, <1>r DEF Open, Return
  <2> QED
    BY <1>11, <2>3, <2>4 DEF Sync, f
<1>12. CASE Enqueue(l)
  <2>0. /\ UNCHANGED <<row, deal, worker, pushed, gone>> /\ Return(l) /\ pass[l].at = "queue"
        /\ raced' = (raced \/ pass[l].behind) /\ (lost => lost')
    BY <1>12 DEF Enqueue, At
  <2>1. Known
    BY <2>0, <1>k
  <2>2. raced' \/ \A x \in Loops : Forward(x)'
    BY <2>0, <1>f DEF CarryInv, Forward, Return, TypeOK
  <2>3. StopIsCarried'
    <3>1. CASE raced' \/ lost'
      BY <3>1 DEF StopIsCarried
    <3>2. CASE ~raced' /\ ~lost'
      <4>1. pass[l].stop = row.stop
        BY <2>0, <3>2 DEF RaceInv, Fresh
      <4>2. pending' = [stop |-> row.stop]
        BY <1>12, <3>2, <4>1 DEF Enqueue, Coalesce
      <4> QED
        BY <2>0, <4>2 DEF StopIsCarried
    <3> QED
      BY <3>1, <3>2
  <2> QED
    BY <2>1, <2>2, <2>3, <1>q
<1> QED
  BY <1>1, <1>2, <1>3, <1>4, <1>5, <1>6, <1>7, <1>8, <1>9, <1>10, <1>11, <1>12 DEF Stage

\* A worker that rests holds no stop.
WorkerRests == worker.at = "idle" => worker.stop = 0

\* A pass leaves the worker alone.
LEMMA StageRests ==
  ASSUME WorkerRests, NEW l \in Loops, Start(l) \/ Stage(l)
  PROVE  WorkerRests'
<1>1. worker' = worker
  BY DEF Start, Stage, HardCap, ForcedClose, BrokerClose, Recycle, Breakeven, Trail, Bracket,
         Ready, Preflight, Sync, Enqueue, brokerVars
<1> QED
  BY <1>1 DEF WorkerRests

\* A worker that ends a job has no stop left in its hands.
LEMMA OthersRest ==
  ASSUME TypeOK, WorkerRests, Worker \/ PriceMoves \/ StopHit \/ TouchExpires \/ BecomesDue
  PROVE  WorkerRests'
  BY DEF WorkerRests, Worker, Take, Check, PutDone, PutFailed, PutNotFound, PriceMoves,
         StopHit, TouchExpires, BecomesDue, brokerVars, Rest, TypeOK

\* The steps that touch no pass.
LEMMA OthersCarry ==
  ASSUME TypeOK, RaceInv, CarryInv, WorkerRests,
         Worker \/ PriceMoves \/ StopHit \/ TouchExpires \/ BecomesDue
  PROVE  CarryInv'
<1>1. pass' = pass /\ raced' = raced
  BY DEF Worker, Take, Check, PutDone, PutFailed, PutNotFound, PriceMoves, StopHit,
         TouchExpires, BecomesDue, loopVars
<1>2. raced' \/ \A x \in Loops : Forward(x)'
  BY <1>1 DEF CarryInv, Forward
<1>3. row' = row => \A x \in Loops : Carries(x) => Carries(x)'
  BY <1>1 DEF Carries, Moved
<1>q. ASSUME StopIsCarried', Known PROVE CarryInv'
  BY <1>q, <1>2 DEF CarryInv, Known
<1> USE DEF loopVars, brokerVars, flagVars
<1>4. CASE Take
  <2>1. Known
    BY <1>4, KnownStays DEF Take
  <2>2. worker.stop = 0 /\ deal.stop >= 0
    BY <1>4, Numbers DEF Take, WorkerRests, TypeOK, Levels
  <2>3. row.stop > deal.stop => row.stop # worker.stop
    BY <2>2, Ints
  <2>4. row' = row /\ deal' = deal /\ lost' = lost /\ worker'.stop = pending.stop
    BY <1>4 DEF Take
  <2>5. StopIsCarried'
    BY <1>1, <1>3, <2>3, <2>4 DEF StopIsCarried, CarryInv, Open
  <2> QED
    BY <2>1, <2>5, <1>q
<1>5. CASE Check
  <2>1. CASE Flush /\ ~deal.open
    <3>1. Known /\ ~Open'
      BY <1>5, <2>1, FlushKnown DEF Check
    <3> QED
      BY <3>1, <1>q DEF StopIsCarried
  <2>2. CASE NoFlush /\ lost' = TRUE
    <3>1. Known
      BY <1>5, <2>2, KnownStays DEF Check, NoFlush
    <3> QED
      BY <2>2, <3>1, <1>q DEF StopIsCarried
  <2>3. CASE NoFlush /\ lost' = lost /\ worker' = [worker EXCEPT !.at = "put"]
    <3>1. Known /\ deal' = deal /\ row' = row /\ pending' = pending
      BY <1>5, <2>3, KnownStays DEF Check, NoFlush
    <3>2. worker'.stop = worker.stop
      BY <2>3 DEF TypeOK
    <3>3. StopIsCarried'
      BY <1>1, <1>3, <2>3, <3>1, <3>2 DEF StopIsCarried, CarryInv, Open
    <3> QED
      BY <3>1, <3>3, <1>q
  <2> QED
    BY <1>5, <2>1, <2>2, <2>3 DEF Check
<1>6. CASE PutDone
  <2>1. /\ deal'.stop = worker.stop /\ deal'.open = deal.open /\ pushed' = worker.stop
        /\ row' = row /\ pending' = pending /\ lost' = lost /\ gone' = gone
        /\ worker.at = "put"
    BY <1>6 DEF PutDone, TypeOK
  <2>2. Known
    BY <2>1, Ints DEF Known, CarryInv
  <2>3. StopIsCarried'
    <3> SUFFICES ASSUME row.stop > worker.stop, deal.open, Open, ~lost, ~raced
                 PROVE  (\E x \in Loops : Carries(x)) \/ row.stop = pending.stop
      BY <1>1, <1>3, <2>1 DEF StopIsCarried, Open
    <3>1. worker.stop >= deal.stop
      BY <2>1 DEF RaceInv, Chain
    <3>2. row.stop > deal.stop /\ row.stop # worker.stop
      BY <3>1, Ints
    <3> QED
      BY <3>2 DEF CarryInv, StopIsCarried
  <2> QED
    BY <2>2, <2>3, <1>q
<1>7. CASE PutFailed
  BY <1>7, <1>q DEF PutFailed, StopIsCarried, Known, CarryInv, TypeOK
<1>8. CASE PutNotFound
  <2>1. Known /\ ~Open'
    BY <1>8, FlushKnown DEF PutNotFound
  <2> QED
    BY <2>1, <1>q DEF StopIsCarried
<1>9. CASE PriceMoves \/ StopHit \/ TouchExpires \/ BecomesDue
  <2>1. /\ row' = row /\ pending' = pending /\ worker' = worker /\ pushed' = pushed
        /\ lost' = lost /\ gone' = gone /\ deal'.stop = deal.stop
        /\ (deal'.open => deal.open)
    BY <1>9 DEF PriceMoves, StopHit, TouchExpires, BecomesDue, TypeOK
  <2>2. Known
    BY <2>1, KnownStays
  <2>3. StopIsCarried'
    BY <1>1, <1>3, <2>1 DEF StopIsCarried, CarryInv, Open
  <2> QED
    BY <2>2, <2>3, <1>q
<1> QED
  BY <1>4, <1>5, <1>6, <1>7, <1>8, <1>9 DEF Worker

\* The trade just opened needs no carrier.
LEMMA InitCarry == Init => CarryInv /\ WorkerRests
<1> SUFFICES ASSUME Init PROVE CarryInv /\ WorkerRests
  OBVIOUS
<1>1. StopIsCarried /\ WorkerRests
  BY Numbers DEF Init, StopIsCarried, WorkerRests
<1>2. pushed <= deal.stop /\ ~gone
  BY Numbers DEF Init
<1>3. \A l \in Loops : Forward(l)
  BY DEF Init, Forward, NoPass
<1> QED
  BY <1>1, <1>2, <1>3 DEF CarryInv

\* Every step of the system keeps the carrier of the stop.
LEMMA StepCarry ==
  TypeOK /\ RaceInv /\ CarryInv /\ WorkerRests /\ [Next]_vars => CarryInv' /\ WorkerRests'
<1> SUFFICES ASSUME TypeOK, RaceInv, CarryInv, WorkerRests, [Next]_vars
             PROVE  CarryInv' /\ WorkerRests'
  OBVIOUS
<1>1. CASE UNCHANGED vars
  BY <1>1 DEF vars, CarryInv, WorkerRests, StopIsCarried, Carries, Moved, Forward, Open
<1> QED
  BY <1>1, StageCarries, OthersCarry, StageRests, OthersRest DEF Next

\* While the broker's stop is looser than the row's, a pass, the queue or the
\* worker is carrying the row's stop, for any prices, triggers and distances:
\* replacing a waiting job, giving up on a known deal and skipping a stop that
\* was already pushed forget no stop.
THEOREM Carried == Spec => []StopIsCarried
<1>1. Spec => [](TypeOK /\ RaceInv)
  BY InitTyped, StepTyped, InitRace, StepRace, PTL DEF Spec
<1>2. Spec => [](CarryInv /\ WorkerRests)
  BY <1>1, InitCarry, StepCarry, PTL DEF Spec
<1>3. CarryInv => StopIsCarried
  BY DEF CarryInv
<1> QED
  BY <1>2, <1>3, PTL

=========================
