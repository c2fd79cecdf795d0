--------------------------- MODULE RestProperties ---------------------------
(***************************************************************************)
(* What the call budget and the rate limit should guarantee together, and  *)
(* the fairness of the threads and of the clock.                           *)
(***************************************************************************)
EXTENDS RestTransport

\* Every variable of the transport has its type.
TypeOK == LimitTypeOK /\ BudgetTypeOK /\ TransportTypeOK

\* Calls for which the hard cap was tested never exceed it within a minute,
\* although the test and the record are two critical sections (acquire: "this
\* check is definitive"); a thread that stalls between them adds its own call.
CappedCalls ==
  Cardinality({r \in log : r.counted /\ r.tested})
    <= HardCap + (IF "stall" \in Events THEN Cardinality(Callers) - 1 ELSE 0)

\* Two calls for which the cap was tested are at least the minimum interval
\* apart, whatever thread makes them (acquire: "Minimum interval between REST
\* calls (process-wide)").
Spaced ==
  \A r \in log, s \in log : r.tested /\ s.tested /\ r # s
    => r.age + Interval <= s.age \/ s.age + Interval <= r.age

\* During a cooldown nothing is sent but by calls admitted before it began:
\* those waiting for a slot or about to retry, whoever was refused.
OnlyEarlySend == \A c \in Callers : At(c, "send") /\ Blocked => call[c].early

\* The stage counts the cooldowns: a burst of refusals of concurrent calls
\* raises it once, and a restart neither forgets nor repeats one.
StageCountsCooldowns ==
  [][IF ~Blocked /\ Blocked' THEN stage' = stage + 1 ELSE stage' = stage]_vars

\* A cooldown only shrinks with the clock: no later refusal, successful call or
\* restart shortens it ("Never shorten an existing cooldown window").
CooldownKept ==
  [][/\ restLeft' >= Less(restLeft)
     /\ Blocked /\ restLeft' > 0 => Blocked']_vars

-----------------------------------------------------------------------------
\* A thread goes on with its call and its HTTP attempts end (each has a
\* timeout); the clock advances.  Orders, windows and restarts are not fair.
CallerFairness(c) ==
  WF_vars(LeaveAwait(c)) /\ WF_vars(Record(c)) /\ WF_vars(Http(c))

FairSpec == Spec /\ SF_vars(Tick) /\ \A c \in Callers : CallerFairness(c)

\* An order in flight never blocks another call for ever, even when the order
\* never ends ("Hard 30s timeout prevents permanent deadlock").
AwaitEnds == \A c \in Callers : At(c, "await") ~> ~At(c, "await")

\* Whatever the broker refuses, the agent gets to call again.
CooldownEnds == []<>~Blocked
=============================================================================
