--------------------------- MODULE RestTransport ---------------------------
(***************************************************************************)
(* IGRestClient.request: RestApiBudget.acquire, then the HTTP call with    *)
(* its retries, composed with the rate limit manager.  Threads interleave  *)
(* between the critical sections of acquire and between two attempts; the  *)
(* process may be restarted at any moment.                                 *)
(***************************************************************************)
EXTENDS RateLimit, RestBudget

CONSTANTS MaxRetries,     \* max_retries of the client
          AwaitMax,       \* the 30 seconds a call waits for an order, in ticks
          MaxFlights,     \* bound of this model on orders in flight
          Exemptions,     \* which exemption windows open
          Events          \* which environment events may happen

VARIABLE call     \* what each caller is doing inside request

\* stall: a thread loses the processor for a tick between taking its slot and
\* recording the call.  tear: a crash leaves a half written state file.
\* quota: the broker refuses a call with a quota error.
AllEvents == {"stall", "tear", "quota", "orders", "stream", "rescue", "restart"}

Places == {"idle", "screened", "await", "slot", "reserved", "send"}
Modes == {"capped", "exempt", "burst"}

ASSUME TransportAssumption ==
  /\ MaxRetries \in Nat \ {0} /\ AwaitMax \in Nat \ {0} /\ MaxFlights \in Nat
  /\ Exemptions \subseteq Windows /\ Events \subseteq AllEvents

vars == <<limitVars, budgetVars, usageVars, call>>

\* The frame of a call: its place, the ticks it has waited for an order, what
\* acquire decided before the slot loop, the attempt of the HTTP loop, and
\* whether it was admitted before the present cooldown began (ghost).
Frame == [at : Places, waited : 0 .. AwaitMax, mode : Modes,
          attempt : 1 .. MaxRetries, early : BOOLEAN]
NoCall == [at |-> "idle", waited |-> 0, mode |-> "capped", attempt |-> 1,
           early |-> FALSE]

TransportTypeOK == call \in [Callers -> Frame]

Init ==
  /\ LimitInit /\ BudgetInit /\ UsageInit
  /\ call = [c \in Callers |-> NoCall]

At(c, place) == call[c].at = place
Go(c, place) == call' = [call EXCEPT ![c].at = place]
Return(c) == call' = [call EXCEPT ![c] = NoCall]

\* Whoever has passed check_rest_allowed.
Admitted == {c \in Callers : call[c].at \notin {"idle", "screened"}}

-----------------------------------------------------------------------------
(* RestApiBudget.acquire.                                                  *)

\* _raise_if_non_essential_paused lets the call pass.  A thread makes at most
\* one call per tick (bound of this model); a refused call changes nothing.
Screen(c) ==
  LET tested == c \notin Urgent /\ ~Essential(c) /\ ~Waved(c) IN
  /\ At(c, "idle") /\ ~\E r \in log : r.by = c /\ r.age = 0
  /\ tested => /\ ~Blocked /\ ~CapReached
               /\ ThrottleBlocks => Category[c] = "history" \/ Rescued(c)
  /\ rescue' = IF tested /\ Rescued(c) THEN "consumed" ELSE rescue
  /\ IF tested THEN ClearIfOver ELSE UNCHANGED limitVars
  /\ Go(c, "screened")
  /\ UNCHANGED <<log, sinceSlot, pauseLeft, high, stalePauses, usageVars>>

\* Wrong form of Admit: acquire trusts the first test.
AdmitUnchecked(c) ==
  /\ At(c, "screened") /\ Go(c, "await")
  /\ UNCHANGED <<limitVars, budgetVars, usageVars>>

\* check_rest_allowed, for every call.
Admit(c) ==
  /\ At(c, "screened")
  /\ \/ ~Blocked /\ Go(c, "await")
     \/ Blocked /\ Return(c)
  /\ ClearIfOver
  /\ UNCHANGED <<budgetVars, usageVars>>

\* Wrong form of MustAwait: no deadline.
MustAwaitForEver(c) == flights > 0 /\ ~Essential(c)

\* The loop that defers a call while an order is in flight, 30 seconds at most.
MustAwait(c) == flights > 0 /\ ~Essential(c) /\ call[c].waited < AwaitMax

\* The loop is left and the exemptions are computed.
LeaveAwait(c) ==
  LET burst == "poll" \in windows /\ Category[c] = "market" IN
  /\ At(c, "await") /\ ~MustAwait(c)
  /\ call' = [call EXCEPT ![c] =
                [@ EXCEPT !.at = "slot", !.waited = 0,
                          !.mode = IF burst THEN "burst"
                                   ELSE IF ExemptFromCap(c) THEN "exempt"
                                   ELSE "capped"]]
  /\ UNCHANGED <<limitVars, budgetVars, usageVars>>

\* Wrong form of ClaimSlot: the cap is not tested again.
ClaimUntested(c) ==
  /\ At(c, "slot") /\ SlotOpen(c, call[c].mode = "burst")
  /\ Go(c, "reserved") /\ sinceSlot' = 0
  /\ UNCHANGED <<limitVars, log, pauseLeft, high, stalePauses, rescue, usageVars>>

\* The slot is claimed, or the cap refuses the call.
ClaimSlot(c) ==
  /\ At(c, "slot") /\ SlotOpen(c, call[c].mode = "burst")
  /\ \/ call[c].mode = "capped" /\ CapReached /\ Return(c) /\ UNCHANGED sinceSlot
     \/ ~(call[c].mode = "capped" /\ CapReached) /\ Go(c, "reserved") /\ sinceSlot' = 0
  /\ UNCHANGED <<limitVars, log, pauseLeft, high, stalePauses, rescue, usageVars>>

Record(c) ==
  /\ At(c, "reserved") /\ RecordCall(c, call[c].mode = "capped")
  /\ call' = [call EXCEPT ![c] = [@ EXCEPT !.at = "send", !.mode = "capped"]]
  /\ UNCHANGED <<limitVars, sinceSlot, usageVars>>

-----------------------------------------------------------------------------
(* IGRestClient.request, after acquire.                                    *)

\* The response is final: a success, or an error that is not retried.
Answered(c) ==
  /\ At(c, "send") /\ Return(c)
  /\ UNCHANGED <<limitVars, budgetVars, usageVars>>

\* Wrong form of Retry: one attempt too many.
RetryOnceMore(c) ==
  /\ At(c, "send")
  /\ IF call[c].attempt <= MaxRetries
     THEN call' = [call EXCEPT ![c].attempt = @ + 1]
     ELSE Return(c)
  /\ UNCHANGED <<limitVars, budgetVars, usageVars>>

\* A timeout, a lost connection, a 429 or 5xx, or a 401 after which the client
\* has logged in again: the next attempt asks neither the budget nor the rate
\* limit.  The last one ends the call.
Retry(c) ==
  /\ At(c, "send")
  /\ IF call[c].attempt < MaxRetries
     THEN call' = [call EXCEPT ![c].attempt = @ + 1]
     ELSE Return(c)
  /\ UNCHANGED <<limitVars, budgetVars, usageVars>>

\* The calls under way when a cooldown begins, c's own included or ended.
MarkEarly(c, ended) ==
  call' = [x \in Callers |->
             IF x = c /\ ended THEN NoCall
             ELSE IF x \in Admitted /\ ~Blocked THEN [call[x] EXCEPT !.early = TRUE]
             ELSE call[x]]

\* Wrong form of Refused: the call is tried again during the cooldown.
RefusedAgain(c) ==
  /\ At(c, "send") /\ "quota" \in Events /\ Activate /\ MarkEarly(c, FALSE)
  /\ UNCHANGED <<budgetVars, usageVars>>

\* A quota error: the cooldown starts and RateLimitError leaves the loop.
Refused(c) ==
  /\ At(c, "send") /\ "quota" \in Events /\ Activate /\ MarkEarly(c, TRUE)
  /\ UNCHANGED <<budgetVars, usageVars>>

-----------------------------------------------------------------------------
(* The environment: order workers, exemption windows, the price stream,    *)
(* the clock, and a restart of the process.                                *)

OrderStarts ==
  /\ "orders" \in Events /\ flights < MaxFlights /\ BeginOrderInFlight
  /\ UNCHANGED <<limitVars, budgetVars, call>>

OrderEnds ==
  /\ flights > 0 /\ EndOrderInFlight
  /\ UNCHANGED <<limitVars, budgetVars, call>>

ToggleWindow(w) ==
  /\ windows' = IF w \in windows THEN windows \ {w} ELSE windows \cup {w}
  /\ UNCHANGED <<limitVars, budgetVars, flights, stream, call>>

StreamChanges ==
  /\ "stream" \in Events /\ stream' \in Streams \ {stream}
  /\ UNCHANGED <<limitVars, budgetVars, flights, windows, call>>

Rescue ==
  /\ "rescue" \in Events /\ ArmRescue
  /\ UNCHANGED <<limitVars, usageVars, call>>

\* The process ends and a new one starts: only the file survives.
Restart ==
  /\ "restart" \in Events
  /\ \/ LoadPersisted(saved)
     \/ "tear" \in Events /\ LoadPersisted(NothingSaved)
  /\ log' = {} /\ sinceSlot' = 0 /\ pauseLeft' = 0 /\ high' = 0
  /\ stalePauses' = 0 /\ rescue' = "idle" /\ flights' = 0 /\ windows' = {}
  /\ call' = [c \in Callers |-> NoCall] /\ UNCHANGED stream

\* One tick, about 15 seconds.  Unless threads stall, the two critical sections
\* of one acquire fall within a tick.
Tick ==
  /\ "stall" \in Events \/ \A c \in Callers : ~At(c, "reserved")
  /\ AgeLimit /\ AgeBudget
  /\ call' = [c \in Callers |-> IF At(c, "await") /\ call[c].waited < AwaitMax
                                THEN [call[c] EXCEPT !.waited = @ + 1] ELSE call[c]]
  /\ UNCHANGED <<usageVars>>

Acquire(c) ==
  \/ Screen(c) \/ Admit(c) \/ LeaveAwait(c) \/ ClaimSlot(c) \/ Record(c)

Http(c) == Answered(c) \/ Retry(c) \/ Refused(c)

Next ==
  \/ \E c \in Callers : Acquire(c) \/ Http(c)
  \/ OrderStarts \/ OrderEnds \/ \E w \in Exemptions : ToggleWindow(w)
  \/ StreamChanges \/ Rescue \/ Restart \/ Tick

Spec == Init /\ [][Next]_vars
=============================================================================
