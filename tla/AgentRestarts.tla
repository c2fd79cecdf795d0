--------------------------- MODULE AgentRestarts ---------------------------
(***************************************************************************)
(* The order path over midnight and over a restart of the agent.  The      *)
(* entry tokens, the pending records, the stash, the envelope and the map  *)
(* of deal risks live in memory; the correlation guard reloads its file;   *)
(* the trades table and the broker go on.  The boot of the agent (gate 4)  *)
(* builds skeleton loops and returns before it would rebuild the envelope  *)
(* from the open trades, and nothing does it later.                        *)
(***************************************************************************)
EXTENDS AgentDays

VARIABLES slotDay,        \* history: the day an order took its slot (-1: none)
          lateUndo,       \* history: orders undone on a later day
          restarted       \* history: the agent was restarted (once: a bound)

historyVars == <<slotDay, lateUndo, restarted>>
allVars == <<vars, historyVars>>

RestartInit ==
  /\ Init /\ slotDay = [o \in Orders |-> -1] /\ lateUndo = {} /\ restarted = FALSE

\* The steps that call correlation_guard.undo.
Undone(o) ==
  \/ pc[o] = "start" /\ pc'[o] = "failed"
  \/ pc[o] \in {"failref", "failnoref", "failexc"} /\ pc'[o] = "closingFail"

Record ==
  /\ slotDay' = [o \in Orders |-> IF pc[o] = "correlate" /\ pc'[o] = "begin"
                                  THEN today ELSE slotDay[o]]
  /\ lateUndo' = lateUndo \cup {o \in Orders : Undone(o) /\ slotDay[o] # today}
  /\ UNCHANGED restarted

\* Wrong form of ReadBack: the guard's file is not read.
ReadNothing ==
  /\ count' = [d \in Directions |-> 0] /\ heat' = [d \in Directions |-> 0]
  /\ session' = -1

\* What a new process reads back: the state file of the correlation guard.
ReadBack == UNCHANGED guardVars

\* The tables that live in memory.
Forgotten ==
  /\ entries' = [e \in Epics |-> NoEntry]
  /\ pending' = [e \in Epics |-> NoPending] /\ stash' = [e \in Epics |-> NoStash]
  /\ concurrent' = 0 /\ daily' = 0 /\ pnl' = 0 /\ envDay' = -1
  /\ dealRisk' = {} /\ held' = {}
  /\ seenIg' = {} /\ view' = NoView /\ job' = NoJob /\ suspects' = {}

\* The process ends at any point, its threads with it, and a new one starts.
Restart ==
  /\ ~restarted /\ restarted' = TRUE
  /\ Forgotten /\ ReadBack
  /\ pc' = [o \in Orders |-> IF pc[o] \in Gate \cup Worker THEN "failed" ELSE pc[o]]
  /\ UNCHANGED <<today, attempt, brokerVars, row, rowAge, slotDay, lateUndo>>

RestartNext ==
  \/ Next /\ Record
  \/ NewDay /\ UNCHANGED historyVars
  \/ Restart

RestartSpec == RestartInit /\ [][RestartNext]_allVars

\* The position sync polls and applies what it read, and the clock goes on.
RestartFairSpec ==
  /\ RestartSpec /\ WF_vars(SyncFetch) /\ WF_vars(SyncApply) /\ WF_vars(Tick)

-----------------------------------------------------------------------------
(* Properties.                                                             *)

\* Every entry of the session is counted against its direction, over midnight
\* and a restart.  Only an undo that comes after the reset of the session takes
\* one away that is not its own, and allows one entry more.
EntriesCounted ==
  \A d \in Directions :
    Cardinality({o \in Orders : DirOf[o] = d /\ slotDay[o] = today
                                /\ pc[o] = "confirmed"})
      <= count[d] + Cardinality({o \in lateUndo : DirOf[o] = d})

\* rehydrate_risk_guards_from_store: "Portfolio envelope + correlation £ heat
\* from open trades on agent start": the envelope counts every open trade.
OpenTradesCounted == SumRisk(OpenRows) <= concurrent
=============================================================================
