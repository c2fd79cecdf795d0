--------------------------- MODULE StopManagement ---------------------------
(***************************************************************************)
(* How the stop of one open position is moved: trading/trade_manager.py,   *)
(* run by the trading loop ("slow") and by the quote hub ("fast") without  *)
(* a common lock, the stop dispatch worker, and the broker.  The position  *)
(* is a BUY (a SELL mirrors every comparison) and is managed at the        *)
(* broker.  A pass reads the row, then each stage decides on the stop it   *)
(* last read and writes the row unconditionally: other threads act between *)
(* two stages.  Prices are small integers, the tolerance is one of them.   *)
(***************************************************************************)
EXTENDS Integers

CONSTANTS Bottom, Top,      \* bounds of this model on the price
          MaxMoves,         \* bound of this model on the moves of the price
          Entry, FirstStop, \* the position as it was opened
          BeTrigger, BeLock,            \* breakeven: profit, and points locked
          TrailTrigger, TrailDistance,  \* trailing: profit, and distance
          BracketDistance,              \* distance of the volatility bracket
          MinDistance,                  \* the broker's minimum stop distance
          CapProfit,                    \* profit of the hard cap
          ExtendProfit, MaxExtensions,  \* take-profit extension
          Events                        \* which environment events may happen

VARIABLES price,      \* the bid of the last quote
          moves,      \* how often it has moved (bound of this model)
          row,        \* the trades row: who closed it, and its stop
          deal,       \* the position at the broker
          pass,       \* what each loop is doing inside update_from_quote
          pending,    \* _pending of the dispatch worker, for this deal
          worker,     \* what the dispatch worker is doing
          pushed,     \* _last_ig_stop: zero when nothing was pushed
          touched,    \* a fast pass moved the stop in the last 8 seconds
          recycled,   \* _capital_recycle_applied
          extended,   \* _limit_ext_count
          due,        \* the age limit or the Friday window forces a close
          killed,     \* the master kill switch
          gone,       \* the deal is in _gone_deals
          lost, raced \* history: a tightened stop was not pushed; a pass
                      \* wrote or queued after the other had moved the stop

vars == <<price, moves, row, deal, pass, pending, worker, pushed, touched, recycled,
          extended, due, killed, gone, lost, raced>>

\* recycle: the trade is stale in a quiet market.  forced: it becomes due.
\* get, put, reply, full: a read fails, a write fails, its reply is lost, the
\* queue is full.  rate: the rate limit refuses the worker.
AllEvents == {"recycle", "forced", "get", "put", "reply", "full", "rate"}

Loops == {"slow", "fast"}
Prices == Bottom .. Top
Levels == 0 .. Top        \* a price, or zero for none
Closers == {"open", "cap", "forced", "gone"}
Places == {"idle", "begin", "closing", "breakeven", "trail", "bracket", "ready",
           "preflight", "sync", "queue"}

ASSUME StopAssumption ==
  /\ {Bottom, Top, MaxMoves, Entry, FirstStop, BeTrigger, BeLock, TrailTrigger, TrailDistance,
      BracketDistance, MinDistance, CapProfit, ExtendProfit, MaxExtensions} \subseteq Nat
  /\ FirstStop < Entry /\ 0 < Bottom /\ Bottom <= Entry /\ Entry + BeLock <= Top
  /\ TrailDistance > 0 /\ BracketDistance > 0 /\ FirstStop > 0
  /\ Events \subseteq AllEvents

\* One pass: the price it works with, the stop it last read, prev_stop, whether
\* it extended the limit, and whether the other loop has moved the stop since
\* the pass began (history).
Frame == [at : Places, px : Levels, stop : Levels, prev : Levels,
          limit : BOOLEAN, behind : BOOLEAN]
NoPass == [at |-> "idle", px |-> 0, stop |-> 0, prev |-> 0, limit |-> FALSE,
           behind |-> FALSE]

Jobs == [stop : Levels]
NoJob == [stop |-> 0]

TypeOK ==
  /\ price \in Prices /\ moves \in 0 .. MaxMoves /\ row \in [by : Closers, stop : Levels]
  /\ deal \in [open : BOOLEAN, stop : Levels] /\ pass \in [Loops -> Frame]
  /\ pending \in Jobs /\ worker \in [at : {"idle", "check", "put"}, stop : Levels]
  /\ pushed \in Levels /\ extended \in 0 .. MaxExtensions
  /\ {touched, recycled, due, killed, gone, lost, raced} \subseteq BOOLEAN

Init ==
  /\ price = Entry /\ moves = 0 /\ row = [by |-> "open", stop |-> FirstStop]
  /\ deal = [open |-> TRUE, stop |-> FirstStop]
  /\ pass = [l \in Loops |-> NoPass]
  /\ pending = NoJob /\ worker = [at |-> "idle", stop |-> 0] /\ pushed = 0
  /\ extended = 0
  /\ touched = FALSE /\ recycled = FALSE /\ due = FALSE
  /\ killed = FALSE /\ gone = FALSE /\ lost = FALSE /\ raced = FALSE

At(l, place) == pass[l].at = place
Open == row.by = "open"
Profit(l) == pass[l].px - Entry
Moved(l) == pass[l].stop # pass[l].prev
Return(l) == pass' = [pass EXCEPT ![l] = NoPass]

market == <<price, moves>>
brokerVars == <<deal, pending, worker, pushed>>
flagVars == <<due, killed, gone>>

-----------------------------------------------------------------------------
(* One pass of update_from_quote over the trade.                           *)

\* active_trades: only an open row is managed.
Start(l) ==
  /\ At(l, "idle") /\ Open
  /\ pass' = [pass EXCEPT ![l] = [NoPass EXCEPT !.at = "begin", !.px = price,
                                                !.stop = row.stop]]
  /\ UNCHANGED <<market, row, brokerVars, touched, recycled, extended, flagVars,
                 lost, raced>>

\* store.close_trade: a row is closed once.
CloseRow(by) == row' = IF Open THEN [row EXCEPT !.by = by] ELSE row

\* _check_hard_cap closes the row; nothing is sent to the broker.
HardCap(l) ==
  /\ At(l, "begin") /\ Profit(l) >= CapProfit
  /\ CloseRow("cap") /\ recycled' = FALSE /\ Return(l)
  /\ UNCHANGED <<market, brokerVars, touched, extended, flagVars, lost, raced>>

\* _check_max_position_age and _check_friday_close close the row first.
ForcedClose(l) ==
  /\ At(l, "begin") /\ Profit(l) < CapProfit /\ due
  /\ CloseRow("forced") /\ recycled' = FALSE
  /\ pass' = [pass EXCEPT ![l] = [NoPass EXCEPT !.at = "closing"]]
  /\ UNCHANGED <<market, brokerVars, touched, extended, flagVars, lost, raced>>

\* Their close_position(deal, side=..., size=...) does not match the signature:
\* the TypeError is logged, and no request leaves the process.
BrokerClose(l) ==
  /\ At(l, "closing") /\ Return(l)
  /\ UNCHANGED <<market, row, brokerVars, touched, recycled, extended, flagVars,
                 lost, raced>>

\* update_stop by l: the other loop, if it is inside a pass, is now behind.
WriteStop(l, level, frame) ==
  /\ row' = [row EXCEPT !.stop = level]
  /\ pass' = [x \in Loops |-> IF x = l THEN frame
                              ELSE [pass[x] EXCEPT !.behind = ~At(x, "idle")]]
  /\ raced' = (raced \/ pass[l].behind)

KeepStop(l, frame) ==
  /\ pass' = [pass EXCEPT ![l] = frame] /\ UNCHANGED <<row, raced>>

\* _apply_capital_recycle_breakeven, prev_stop, the re-read after the tranche
\* floors, and the choice to leave trailing to a recent fast pass.
Recycle(l) ==
  LET next == IF l = "slow" /\ touched THEN "ready" ELSE "breakeven"
      floor == Entry + BeLock
  IN /\ At(l, "begin") /\ Profit(l) < CapProfit /\ ~due
     /\ \/ /\ "recycle" \in Events /\ ~recycled /\ pass[l].stop < floor
           /\ WriteStop(l, floor, [pass[l] EXCEPT !.at = next, !.stop = floor,
                                                  !.prev = floor])
           /\ recycled' = TRUE /\ lost' = TRUE
        \/ /\ KeepStop(l, [pass[l] EXCEPT !.at = next, !.stop = row.stop,
                                          !.prev = pass[l].stop])
           /\ UNCHANGED <<recycled, lost>>
     /\ UNCHANGED <<market, brokerVars, touched, extended, flagVars>>

\* Wrong form of Tighten: the proposal is not compared with the current stop.
TightenAlways(l, proposal, armed, next) ==
  IF armed
  THEN WriteStop(l, proposal, [pass[l] EXCEPT !.at = next, !.stop = proposal])
  ELSE KeepStop(l, [pass[l] EXCEPT !.at = next, !.stop = row.stop])

\* A stage proposes a stop; it is written when the stage is armed and it is
\* tighter than the stop the pass last read.  _current_stop re-reads the row.
Tighten(l, proposal, armed, next) ==
  IF armed /\ proposal > pass[l].stop
  THEN WriteStop(l, proposal, [pass[l] EXCEPT !.at = next, !.stop = proposal])
  ELSE KeepStop(l, [pass[l] EXCEPT !.at = next, !.stop = row.stop])

\* _apply_breakeven with eval_breakeven_stop.
Breakeven(l) ==
  /\ At(l, "breakeven")
  /\ Tighten(l, Entry + BeLock, Profit(l) >= BeTrigger, "trail")
  /\ UNCHANGED <<market, brokerVars, touched, recycled, extended, flagVars, lost>>

\* _apply_trailing with eval_trailing_stop and the clamp to the broker minimum.
Trail(l) ==
  /\ At(l, "trail")
  /\ Tighten(l, pass[l].px - TrailDistance,
             Profit(l) >= TrailTrigger /\ TrailDistance >= MinDistance, "bracket")
  /\ UNCHANGED <<market, brokerVars, touched, recycled, extended, flagVars, lost>>

\* _apply_volatility_bracket, which does not read the row again: its proposal
\* depends on the volatility, so it may or may not be armed.
Bracket(l) ==
  LET proposal == pass[l].px - BracketDistance IN
  /\ At(l, "bracket")
  /\ \/ /\ proposal > pass[l].stop
        /\ WriteStop(l, proposal, [pass[l] EXCEPT !.at = "ready", !.stop = proposal])
     \/ KeepStop(l, [pass[l] EXCEPT !.at = "ready"])
  /\ UNCHANGED <<market, brokerVars, touched, recycled, extended, flagVars, lost>>

\* Wrong form of Extends: one extension too many.
ExtendsOnceMore(l) == Profit(l) >= ExtendProfit /\ extended <= MaxExtensions

\* The guards of _apply_limit_extension.
Extends(l) == Profit(l) >= ExtendProfit /\ extended < MaxExtensions

\* mark_fast_protect_touch and _apply_limit_extension.
Ready(l) ==
  /\ At(l, "ready")
  /\ touched' = (touched \/ (l = "fast" /\ Moved(l)))
  /\ extended' = IF Extends(l) THEN extended + 1 ELSE extended
  /\ pass' = [pass EXCEPT ![l] = [@ EXCEPT !.at = "preflight", !.limit = Extends(l),
                                           !.px = 0]]
  /\ UNCHANGED <<market, row, brokerVars, recycled, flagVars, lost, raced>>

-----------------------------------------------------------------------------
(* The broker side of a pass.                                              *)

\* handle_critical_state_mismatch with _reconcile_flush_zombie.
Flush ==
  /\ CloseRow("gone") /\ gone' = TRUE /\ killed' = TRUE /\ pushed' = 0
  /\ recycled' = FALSE

NoFlush == UNCHANGED <<row, gone, killed, pushed, recycled>>

\* _broker_trailing_preflight: the kill switch, then a fresh list of the open
\* positions.  A pass that stops here never pushes what it moved.
Preflight(l) ==
  /\ At(l, "preflight")
  /\ \/ /\ killed \/ "get" \in Events
        /\ Return(l) /\ lost' = (lost \/ Moved(l)) /\ NoFlush
     \/ ~killed /\ ~deal.open /\ Return(l) /\ Flush /\ UNCHANGED lost
     \/ /\ ~killed /\ deal.open /\ NoFlush /\ UNCHANGED lost
        /\ IF Moved(l) \/ pass[l].limit
           THEN pass' = [pass EXCEPT ![l] = [@ EXCEPT !.at = "sync", !.prev = 0]]
           ELSE Return(l)
  /\ UNCHANGED <<market, deal, pending, worker, touched, extended, due, raced>>

\* _sync_stop_to_ig up to the queue: a deal known to be gone, a stop already
\* pushed and, on the slow path, a stop no tighter than the broker's are left.
Sync(l) ==
  LET known == gone \/ (pushed = pass[l].stop /\ ~pass[l].limit)
      kept == l = "slow" /\ deal.open /\ pass[l].stop <= deal.stop /\ ~pass[l].limit
  IN /\ At(l, "sync")
     /\ \/ known /\ Return(l) /\ UNCHANGED lost
        \/ ~known /\ l = "slow" /\ "get" \in Events /\ Return(l) /\ lost' = TRUE
        \/ /\ ~known /\ UNCHANGED lost
           /\ IF kept THEN Return(l) ELSE pass' = [pass EXCEPT ![l].at = "queue"]
     /\ UNCHANGED <<market, row, brokerVars, touched, recycled, extended, flagVars,
                    raced>>

\* Wrong form of Coalesce: the job that waits is kept.
KeepWaiting(job) == pending' = IF pending = NoJob THEN job ELSE pending

\* enqueue_stop_dispatch: the latest job of a deal replaces the one that waits.
Coalesce(job) == pending' = job

Enqueue(l) ==
  /\ At(l, "queue") /\ Return(l) /\ raced' = (raced \/ pass[l].behind)
  /\ \/ Coalesce([stop |-> pass[l].stop]) /\ UNCHANGED lost
     \/ /\ "full" \in Events /\ pending = NoJob
        /\ lost' = TRUE /\ UNCHANGED pending
  /\ UNCHANGED <<market, row, deal, worker, pushed, touched, recycled, extended,
                 flagVars>>

-----------------------------------------------------------------------------
(* The stop dispatch worker: _worker_loop and _execute_stop_sync.          *)

loopVars == <<price, moves, pass, touched, extended, due, raced>>

Take ==
  /\ worker.at = "idle" /\ pending # NoJob
  /\ worker' = [at |-> "check", stop |-> pending.stop] /\ pending' = NoJob
  /\ UNCHANGED <<loopVars, row, deal, pushed, recycled, killed, gone, lost>>

Rest == worker' = [at |-> "idle", stop |-> 0]

\* The kill switch, the rate limit, and the preflight once more.
Check ==
  /\ worker.at = "check"
  /\ \/ /\ killed \/ {"rate", "get"} \cap Events # {}
        /\ Rest /\ lost' = TRUE /\ NoFlush
     \/ ~killed /\ ~deal.open /\ Rest /\ Flush /\ UNCHANGED lost
     \/ /\ ~killed /\ deal.open /\ worker' = [worker EXCEPT !.at = "put"]
        /\ NoFlush /\ UNCHANGED lost
  /\ UNCHANGED <<loopVars, deal, pending>>

TooClose == worker.stop > price - MinDistance

\* update_position_stops succeeds.
PutDone ==
  /\ worker.at = "put" /\ deal.open /\ ~TooClose
  /\ deal' = [deal EXCEPT !.stop = worker.stop] /\ pushed' = worker.stop /\ Rest
  /\ UNCHANGED <<loopVars, row, recycled, pending, killed, gone, lost>>

\* It fails, is refused because the price has come too close, or only its reply
\* is lost; nothing tries it again.
PutFailed ==
  /\ worker.at = "put" /\ deal.open /\ Rest /\ lost' = TRUE
  /\ \/ "put" \in Events /\ UNCHANGED deal
     \/ TooClose /\ UNCHANGED deal
     \/ "reply" \in Events /\ ~TooClose /\ deal' = [deal EXCEPT !.stop = worker.stop]
  /\ UNCHANGED <<loopVars, row, recycled, pending, pushed, killed, gone>>

\* HTTP 404: forensic_put_404_recovery and the flush.
PutNotFound ==
  /\ worker.at = "put" /\ ~deal.open /\ Rest /\ Flush
  /\ UNCHANGED <<loopVars, deal, pending, lost>>

-----------------------------------------------------------------------------
(* The market, the broker and the clock.                                   *)

PriceMoves ==
  /\ moves < MaxMoves /\ moves' = moves + 1 /\ price' \in Prices \ {price}
  /\ UNCHANGED <<row, brokerVars, pass, touched, recycled, extended, flagVars,
                 lost, raced>>

\* The broker closes the position at its stop (external).
StopHit ==
  /\ deal.open /\ price <= deal.stop /\ deal' = [deal EXCEPT !.open = FALSE]
  /\ UNCHANGED <<market, row, pass, pending, worker, pushed, touched, recycled,
                 extended, flagVars, lost, raced>>

\* The 8 seconds of slow_loop_should_skip_trailing pass.
TouchExpires ==
  /\ touched /\ touched' = FALSE
  /\ UNCHANGED <<market, row, brokerVars, pass, recycled, extended, flagVars,
                 lost, raced>>

BecomesDue ==
  /\ "forced" \in Events /\ ~due /\ due' = TRUE
  /\ UNCHANGED <<market, row, brokerVars, pass, touched, recycled, extended,
                 killed, gone, lost, raced>>

Stage(l) ==
  \/ HardCap(l) \/ ForcedClose(l) \/ BrokerClose(l) \/ Recycle(l) \/ Breakeven(l)
  \/ Trail(l) \/ Bracket(l) \/ Ready(l) \/ Preflight(l) \/ Sync(l) \/ Enqueue(l)

Worker == Take \/ Check \/ PutDone \/ PutFailed \/ PutNotFound

Next ==
  \/ \E l \in Loops : Start(l) \/ Stage(l)
  \/ Worker \/ PriceMoves \/ StopHit \/ TouchExpires \/ BecomesDue

Spec == Init /\ [][Next]_vars

-----------------------------------------------------------------------------
(* Properties.                                                             *)

\* As long as no pass acted on a stop the other loop had already moved, neither
\* the row nor the broker's stop is ever loosened, whatever calls fail.
OnlyRacesLoosen ==
  [][raced' \/ (row'.stop >= row.stop /\ deal'.stop >= deal.stop)]_vars

\* Who carries the stop of the row to the broker: a pass that has moved it, the
\* job that waits, or the worker.
Carries(l) ==
  /\ pass[l].stop = row.stop
  /\ \/ pass[l].at \in {"sync", "queue"}
     \/ pass[l].at \in {"breakeven", "trail", "bracket", "ready", "preflight"} /\ Moved(l)

\* A tightened stop is never forgotten: while the broker's stop is looser than
\* the row's, somebody carries it, unless a push was lost, the loops raced, or
\* the trade is over.
StopIsCarried ==
  (row.stop > deal.stop /\ deal.open /\ Open /\ ~lost /\ ~raced) =>
    \/ \E l \in Loops : Carries(l)
    \/ row.stop \in {pending.stop, worker.stop}
=============================================================================
