----------------------------- MODULE RestProofs -----------------------------
(***************************************************************************)
(* Theorems about RestProperties: any threads, any categories, any lengths *)
(* of the windows and pauses, and every event.                             *)
(***************************************************************************)
EXTENDS RestProperties, FiniteSetTheorems, TLAPS

\* The file always repeats the memory, so that a restart changes nothing but the
\* flag; and the flag says whether the pause is still running.
Mirror ==
  /\ saved = [stage |-> stage, rest |-> restLeft, stream |-> streamLeft]
  /\ restLeft > 0 => limited

\* Every call admitted before the cooldown is marked.
Marked == Blocked => \A c \in Admitted : call[c].early

LimitInv == LimitTypeOK /\ Mirror

\* Every stage of the back-off has a pause of at least one tick.
LEMMA PauseSound == \A s \in Nat : PauseAt(s) \in Nat /\ PauseAt(s) > 0
  BY RateLimitAssumption DEF PauseAt

\* At the start nothing is limited and nothing is saved.
LEMMA LimitInvInit == Init => LimitInv
<1> SUFFICES ASSUME Init PROVE LimitInv
  OBVIOUS
<1>1. stage \in 0 .. MaxStage
  BY RateLimitAssumption DEF Init, LimitInit
<1>2. saved = [stage |-> stage, rest |-> restLeft, stream |-> streamLeft]
  BY DEF Init, LimitInit, NothingSaved
<1>3. saved \in SavedState
  BY DEF Init, LimitInit, NothingSaved, SavedState
<1>4. limited \in BOOLEAN /\ restLeft \in Nat /\ streamLeft \in Nat
  BY DEF Init, LimitInit
<1>5. ~(restLeft > 0)
  BY DEF Init, LimitInit
<1> QED
  BY <1>1, <1>2, <1>3, <1>4, <1>5 DEF LimitInv, LimitTypeOK, Mirror

\* Each operation of the rate limit keeps its invariant.
LEMMA ActivateSound == LimitInv /\ Activate => LimitInv'
<1> SUFFICES ASSUME LimitInv, Activate PROVE LimitInv'
  OBVIOUS
<1> DEFINE s == IF Blocked THEN stage ELSE stage + 1
<1>1. s \in 0 .. MaxStage /\ stage' = s
  BY RateLimitAssumption DEF Activate, LimitInv, LimitTypeOK
<1>2. s \in Nat /\ PauseAt(s) \in Nat
  BY <1>1, PauseSound
<1>3. restLeft' \in Nat /\ streamLeft' \in Nat /\ limited'
  BY <1>2, RateLimitAssumption DEF Activate, Longer, LimitInv, LimitTypeOK
<1>4. saved' = [stage |-> stage', rest |-> restLeft', stream |-> streamLeft']
  BY DEF Activate
<1> QED
  BY <1>1, <1>2, <1>3, <1>4 DEF LimitInv, LimitTypeOK, Mirror, SavedState

\* Clearing the flag after the pause leaves memory and file in agreement.
LEMMA ClearSound == LimitInv /\ ClearIfOver => LimitInv'
  BY DEF LimitInv, LimitTypeOK, Mirror, ClearIfOver

\* The clock shortens the pause in memory and in the file alike.
LEMMA AgeSound == LimitInv /\ AgeLimit => LimitInv'
<1> SUFFICES ASSUME LimitInv, AgeLimit PROVE LimitInv'
  OBVIOUS
<1>1. restLeft' \in Nat /\ streamLeft' \in Nat /\ (restLeft' > 0 => restLeft > 0)
  BY DEF AgeLimit, Less, LimitInv, LimitTypeOK
<1>2. saved' = [stage |-> stage, rest |-> restLeft', stream |-> streamLeft']
  BY DEF AgeLimit, LimitInv, Mirror
<1> QED
  BY <1>1, <1>2 DEF AgeLimit, LimitInv, LimitTypeOK, Mirror, SavedState

\* A start loads what the file holds, or nothing when a crash tore it.
LEMMA LoadSound ==
  ASSUME LimitInv, NEW file \in {saved, NothingSaved}, LoadPersisted(file)
  PROVE  LimitInv'
<1>1. file \in SavedState /\ file.stage \in 0 .. MaxStage
  BY RateLimitAssumption DEF LimitInv, LimitTypeOK, Mirror, NothingSaved, SavedState
<1>2. file = [stage |-> file.stage, rest |-> file.rest, stream |-> file.stream]
  BY <1>1 DEF SavedState
<1> QED
  BY <1>1, <1>2 DEF LoadPersisted, LimitInv, LimitTypeOK, Mirror, SavedState

\* The rate limit keeps its invariant over every step of the system.
LEMMA LimitInvStep == LimitInv /\ [Next]_vars => LimitInv'
<1> SUFFICES ASSUME LimitInv, [Next]_vars PROVE LimitInv'
  OBVIOUS
<1>1. CASE UNCHANGED limitVars
  BY <1>1 DEF limitVars, LimitInv, LimitTypeOK, Mirror
<1>2. ASSUME NEW c \in Callers, Acquire(c) PROVE LimitInv'
  BY <1>1, <1>2, ClearSound DEF Acquire, Screen, Admit, LeaveAwait, ClaimSlot, Record
<1>3. ASSUME NEW c \in Callers, Http(c) PROVE LimitInv'
  BY <1>1, <1>3, ActivateSound DEF Http, Answered, Retry, Refused
<1>4. CASE Restart
  BY <1>4, LoadSound DEF Restart
<1>5. CASE Tick
  BY <1>5, AgeSound DEF Tick
<1>6. CASE OrderStarts \/ OrderEnds \/ StreamChanges \/ Rescue \/ UNCHANGED vars
  BY <1>1, <1>6 DEF OrderStarts, OrderEnds, StreamChanges, Rescue, vars
<1>7. ASSUME NEW w \in Exemptions, ToggleWindow(w) PROVE LimitInv'
  BY <1>1, <1>7 DEF ToggleWindow
<1> QED
  BY <1>2, <1>3, <1>4, <1>5, <1>6, <1>7 DEF Next

\* Hence it holds in every reachable state.
LEMMA LimitAlways == Spec => []LimitInv
  BY LimitInvInit, LimitInvStep, PTL DEF Spec

-----------------------------------------------------------------------------
(* The stage and the length of a cooldown, as long as no state file is torn *)

\* One step of the rate limit, as the memory and the file show it.
LimitMoves ==
  \/ UNCHANGED limitVars \/ ClearIfOver \/ AgeLimit \/ Activate
  \/ LoadPersisted(saved)

\* When no crash tears the file, every step of the system is one of these.
LEMMA MovesOnly == "tear" \notin Events /\ [Next]_vars => LimitMoves
<1> SUFFICES ASSUME "tear" \notin Events, [Next]_vars PROVE LimitMoves
  OBVIOUS
<1> USE DEF LimitMoves
<1>1. ASSUME NEW c \in Callers, Acquire(c) \/ Http(c) PROVE LimitMoves
  BY <1>1 DEF Acquire, Screen, Admit, LeaveAwait, ClaimSlot, Record, Http, Answered,
              Retry, Refused
<1>2. CASE Restart \/ Tick \/ OrderStarts \/ OrderEnds \/ StreamChanges \/ Rescue
           \/ UNCHANGED vars
  BY <1>2 DEF Restart, Tick, OrderStarts, OrderEnds, StreamChanges, Rescue, vars
<1>3. ASSUME NEW w \in Exemptions, ToggleWindow(w) PROVE LimitMoves
  BY <1>3 DEF ToggleWindow
<1> QED
  BY <1>1, <1>2, <1>3 DEF Next

\* The stage grows by one exactly when a cooldown begins.
LEMMA StageMoves ==
  ASSUME LimitInv, LimitMoves
  PROVE  IF ~Blocked /\ Blocked' THEN stage' = stage + 1 ELSE stage' = stage
<1> USE DEF LimitInv, LimitTypeOK, Mirror, Blocked
<1>1. CASE UNCHANGED limitVars
  BY <1>1 DEF limitVars
<1>2. CASE ClearIfOver
  BY <1>2 DEF ClearIfOver
<1>3. CASE AgeLimit
  BY <1>3 DEF AgeLimit, Less
<1>4. CASE Activate
  <2> DEFINE s == IF Blocked THEN stage ELSE stage + 1
  <2>1. s \in Nat /\ stage' = s /\ limited' /\ restLeft' = Longer(restLeft, PauseAt(s))
    BY <1>4, RateLimitAssumption DEF Activate
  <2>2. restLeft' > 0
    BY <2>1, PauseSound DEF Longer
  <2> QED
    BY <2>1, <2>2
<1>5. CASE LoadPersisted(saved)
  BY <1>5 DEF LoadPersisted
<1> QED
  BY <1>1, <1>2, <1>3, <1>4, <1>5 DEF LimitMoves

\* A cooldown gets shorter by the clock alone, and lasts while time is left.
LEMMA CooldownMoves ==
  ASSUME LimitInv, LimitMoves
  PROVE  restLeft' >= Less(restLeft) /\ (Blocked /\ restLeft' > 0 => Blocked')
<1> USE DEF LimitInv, LimitTypeOK, Mirror, Blocked, Less
<1>1. CASE UNCHANGED limitVars
  BY <1>1 DEF limitVars
<1>2. CASE ClearIfOver
  BY <1>2 DEF ClearIfOver
<1>3. CASE AgeLimit
  BY <1>3 DEF AgeLimit
<1>4. CASE Activate
  <2> DEFINE s == IF Blocked THEN stage ELSE stage + 1
  <2>1. s \in Nat /\ limited' /\ restLeft' = Longer(restLeft, PauseAt(s))
    BY <1>4, RateLimitAssumption DEF Activate
  <2>2. restLeft' \in Nat /\ restLeft' >= restLeft
    BY <2>1, PauseSound DEF Longer
  <2> QED
    BY <2>1, <2>2
<1>5. CASE LoadPersisted(saved)
  BY <1>5 DEF LoadPersisted
<1> QED
  BY <1>1, <1>2, <1>3, <1>4, <1>5 DEF LimitMoves

\* A burst of refusals raises the stage once and a restart not at all, as long as
\* no crash tears the state file.
THEOREM OneStageEach == "tear" \notin Events => (Spec => StageCountsCooldowns)
<1>1. SUFFICES ASSUME "tear" \notin Events PROVE Spec => StageCountsCooldowns
  OBVIOUS
<1>2. LimitInv /\ [Next]_vars =>
        [IF ~Blocked /\ Blocked' THEN stage' = stage + 1 ELSE stage' = stage]_vars
  BY <1>1, MovesOnly, StageMoves
<1> QED
  BY <1>2, LimitAlways, PTL DEF Spec, StageCountsCooldowns

\* Only the clock shortens a cooldown: no refusal, no successful call and no
\* restart does, as long as no crash tears the state file.
THEOREM NeverShortened == "tear" \notin Events => (Spec => CooldownKept)
<1>1. SUFFICES ASSUME "tear" \notin Events PROVE Spec => CooldownKept
  OBVIOUS
<1>2. LimitInv /\ [Next]_vars =>
        [/\ restLeft' >= Less(restLeft)
         /\ Blocked /\ restLeft' > 0 => Blocked']_vars
  BY <1>1, MovesOnly, CooldownMoves
<1> QED
  BY <1>2, LimitAlways, PTL DEF Spec, CooldownKept

-----------------------------------------------------------------------------
(* The frames of the calls, and who may send.                              *)

CallInv == TransportTypeOK /\ Marked

\* A caller's frame changes and nothing starts a cooldown; a call that is past
\* check_rest_allowed afterwards was so before, and keeps its mark.
LEMMA FrameSound ==
  ASSUME CallInv, NEW c \in Callers, NEW f \in Frame, call' = [call EXCEPT ![c] = f],
         Blocked' => Blocked,
         f.at \notin {"idle", "screened"} =>
           \/ ~Blocked'
           \/ call[c].at \notin {"idle", "screened"} /\ f.early = call[c].early
  PROVE  CallInv'
<1>1. \A d \in Callers : call'[d] = IF d = c THEN f ELSE call[d]
  BY DEF CallInv, TransportTypeOK
<1>2. TransportTypeOK'
  BY <1>1 DEF CallInv, TransportTypeOK
<1>3. Marked'
  BY <1>1 DEF CallInv, Marked, Admitted
<1> QED
  BY <1>2, <1>3 DEF CallInv

\* A thread without a call has a frame of the right type.
LEMMA NoCallSound == NoCall \in Frame /\ NoCall.at = "idle"
<1>1. 0 \in 0 .. AwaitMax /\ 1 \in 1 .. MaxRetries
  BY TransportAssumption
<1> QED
  BY <1>1 DEF NoCall, Frame, Places, Modes

\* A caller goes to another place, after the check or before it.
LEMMA GoSound ==
  ASSUME CallInv, NEW c \in Callers, NEW place \in Places, Go(c, place),
         Blocked' => Blocked,
         place \notin {"idle", "screened"} =>
           ~Blocked' \/ call[c].at \notin {"idle", "screened"}
  PROVE  CallInv'
<1> DEFINE f == [call[c] EXCEPT !.at = place]
<1>1. call[c] \in Frame
  BY DEF CallInv, TransportTypeOK
<1>2. f \in Frame /\ f.at = place /\ f.early = call[c].early
  BY <1>1 DEF Frame
<1>3. call' = [call EXCEPT ![c] = f]
  BY DEF Go
<1> QED
  BY <1>2, <1>3, FrameSound

\* A thread that returns from request keeps the invariant of the calls.
LEMMA ReturnSound ==
  ASSUME CallInv, NEW c \in Callers, Return(c), Blocked' => Blocked PROVE CallInv'
  BY NoCallSound, FrameSound DEF Return

\* Clearing the flag begins no cooldown.
LEMMA ClearBlocks == ClearIfOver => (Blocked' => Blocked)
  BY DEF ClearIfOver, Blocked

\* Whoever leaves the rate limit alone begins and ends no cooldown.
LEMMA SameBlocks == UNCHANGED limitVars => (Blocked' <=> Blocked)
  BY DEF limitVars, Blocked

\* Each step of acquire keeps the invariant of the calls.
LEMMA AcquireSound == ASSUME CallInv, NEW c \in Callers, Acquire(c) PROVE CallInv'
<1>f. call[c] \in Frame
  BY DEF CallInv, TransportTypeOK
<1>1. CASE Screen(c)
  <2>1. "screened" \in Places
    BY DEF Places
  <2> QED
    BY <1>1, <2>1, GoSound, ClearBlocks, SameBlocks DEF Screen
<1>2. CASE Admit(c)
  <2>1. "await" \in Places
    BY DEF Places
  <2>2. Blocked' => Blocked
    BY <1>2, ClearBlocks DEF Admit
  <2> QED
    BY <1>2, <2>1, <2>2, GoSound, ReturnSound DEF Admit
<1>3. CASE LeaveAwait(c)
  <2>1. PICK mode \in Modes :
          call' = [call EXCEPT ![c] = [@ EXCEPT !.at = "slot", !.waited = 0, !.mode = mode]]
    BY <1>3 DEF LeaveAwait, Modes
  <2> DEFINE f == [call[c] EXCEPT !.at = "slot", !.waited = 0, !.mode = mode]
  <2>2. 0 \in 0 .. AwaitMax
    BY TransportAssumption
  <2>3. f \in Frame /\ f.early = call[c].early
    BY <1>f, <2>2 DEF Frame, Places
  <2>4. call' = [call EXCEPT ![c] = f]
    BY <2>1
  <2>5. call[c].at = "await"
    BY <1>3 DEF LeaveAwait, At
  <2> QED
    BY <1>3, <2>3, <2>4, <2>5, FrameSound, SameBlocks DEF LeaveAwait
<1>4. CASE ClaimSlot(c)
  <2>1. "reserved" \in Places
    BY DEF Places
  <2> QED
    BY <1>4, <2>1, GoSound, ReturnSound, SameBlocks DEF ClaimSlot, At
<1>5. CASE Record(c)
  <2> DEFINE f == [call[c] EXCEPT !.at = "send", !.mode = "capped"]
  <2>1. f \in Frame /\ f.early = call[c].early
    BY <1>f DEF Frame, Places, Modes
  <2>2. call' = [call EXCEPT ![c] = f] /\ call[c].at = "reserved"
    BY <1>5 DEF Record, At
  <2> QED
    BY <1>5, <2>1, <2>2, FrameSound, SameBlocks DEF Record
<1> QED
  BY <1>1, <1>2, <1>3, <1>4, <1>5 DEF Acquire

\* A refusal marks whoever was admitted; the mark changes no other field.
LEMMA RefusedSound == ASSUME CallInv, NEW c \in Callers, Refused(c) PROVE CallInv'
<1> DEFINE g(x) == IF x = c THEN NoCall
                   ELSE IF x \in Admitted /\ ~Blocked THEN [call[x] EXCEPT !.early = TRUE]
                   ELSE call[x]
<1>1. call' = [x \in Callers |-> g(x)]
  BY DEF Refused, MarkEarly
<1>2. \A x \in Callers : call[x] \in Frame
  BY DEF CallInv, TransportTypeOK
<1>3. \A x \in Callers : g(x) \in Frame
  BY <1>2, NoCallSound DEF Frame
<1>4. \A x \in Callers : g(x).at \notin {"idle", "screened"} => g(x).early
  <2> SUFFICES ASSUME NEW x \in Callers, g(x).at \notin {"idle", "screened"}
               PROVE  g(x).early
    OBVIOUS
  <2>1. x # c
    BY NoCallSound
  <2>2. CASE x \in Admitted /\ ~Blocked
    BY <1>2, <2>1, <2>2 DEF Frame
  <2>3. CASE x \in Admitted /\ Blocked
    BY <2>1, <2>3 DEF CallInv, Marked
  <2>4. CASE x \notin Admitted
    BY <2>1, <2>4 DEF Admitted
  <2> QED
    BY <2>2, <2>3, <2>4
<1>5. \A x \in Callers : call'[x] = g(x)
  BY <1>1
<1>6. TransportTypeOK'
  BY <1>1, <1>3 DEF TransportTypeOK
<1>7. Marked'
  BY <1>4, <1>5 DEF Marked, Admitted
<1> QED
  BY <1>6, <1>7 DEF CallInv

\* Each outcome of an HTTP attempt keeps the invariant of the calls.
LEMMA HttpSound == ASSUME CallInv, NEW c \in Callers, Http(c) PROVE CallInv'
<1>1. CASE Answered(c)
  BY <1>1, ReturnSound, SameBlocks DEF Answered
<1>2. CASE Retry(c)
  <2>1. CASE call[c].attempt < MaxRetries
    <3> DEFINE f == [call[c] EXCEPT !.attempt = @ + 1]
    <3>1. call[c] \in Frame /\ call[c].attempt + 1 \in 1 .. MaxRetries
      BY <2>1, TransportAssumption DEF CallInv, TransportTypeOK, Frame
    <3>2. f \in Frame /\ f.at = call[c].at /\ f.early = call[c].early
      BY <3>1 DEF Frame
    <3>3. call' = [call EXCEPT ![c] = f] /\ call[c].at = "send"
      BY <1>2, <2>1 DEF Retry, At
    <3> QED
      BY <1>2, <3>2, <3>3, FrameSound, SameBlocks DEF Retry
  <2>2. CASE ~(call[c].attempt < MaxRetries)
    BY <1>2, <2>2, ReturnSound, SameBlocks DEF Retry
  <2> QED
    BY <2>1, <2>2
<1>3. CASE Refused(c)
  BY <1>3, RefusedSound
<1> QED
  BY <1>1, <1>2, <1>3 DEF Http

\* The invariant of the calls holds over every step of the system.
LEMMA CallStep == LimitInv /\ CallInv /\ [Next]_vars => CallInv'
<1> SUFFICES ASSUME LimitInv, CallInv, [Next]_vars PROVE CallInv'
  OBVIOUS
<1>1. ASSUME NEW c \in Callers, Acquire(c) \/ Http(c) PROVE CallInv'
  BY <1>1, AcquireSound, HttpSound
<1>2. CASE Restart
  BY <1>2, NoCallSound DEF Restart, CallInv, TransportTypeOK, Marked, Admitted
<1>3. CASE Tick
  <2>1. \A c \in Callers : /\ call'[c] \in Frame
                           /\ call'[c].at = call[c].at
                           /\ call'[c].early = call[c].early
    <3> SUFFICES ASSUME NEW c \in Callers
                 PROVE  /\ call'[c] \in Frame
                        /\ call'[c].at = call[c].at
                        /\ call'[c].early = call[c].early
      OBVIOUS
    <3>1. call[c] \in Frame
      BY DEF CallInv, TransportTypeOK
    <3>2. CASE At(c, "await") /\ call[c].waited < AwaitMax
      <4>1. call'[c] = [call[c] EXCEPT !.waited = @ + 1]
        BY <1>3, <3>2 DEF Tick
      <4>2. call[c].waited + 1 \in 0 .. AwaitMax
        BY <3>1, <3>2, TransportAssumption DEF Frame
      <4> QED
        BY <3>1, <4>1, <4>2 DEF Frame
    <3>3. CASE ~(At(c, "await") /\ call[c].waited < AwaitMax)
      BY <1>3, <3>1, <3>3 DEF Tick
    <3> QED
      BY <3>2, <3>3
  <2>2. TransportTypeOK'
    BY <1>3, <2>1 DEF Tick, TransportTypeOK
  <2>3. Blocked' => Blocked
    BY <1>3 DEF Tick, AgeLimit, Blocked, Less, LimitInv, LimitTypeOK
  <2>4. Marked'
    BY <2>1, <2>3 DEF CallInv, Marked, Admitted
  <2> QED
    BY <2>2, <2>4 DEF CallInv
<1>4. CASE OrderStarts \/ OrderEnds \/ StreamChanges \/ Rescue \/ UNCHANGED vars
  <2>1. UNCHANGED <<limitVars, call>>
    BY <1>4 DEF OrderStarts, OrderEnds, StreamChanges, Rescue, vars
  <2> QED
    BY <2>1, SameBlocks DEF CallInv, TransportTypeOK, Marked, Admitted
<1>5. ASSUME NEW w \in Exemptions, ToggleWindow(w) PROVE CallInv'
  BY <1>5, SameBlocks DEF ToggleWindow, CallInv, TransportTypeOK, Marked, Admitted
<1> QED
  BY <1>1, <1>2, <1>3, <1>4, <1>5 DEF Next

\* During a cooldown only calls admitted before it began are sent, whatever the
\* interleaving, the exemptions and the restarts.
THEOREM EarlySend == Spec => []OnlyEarlySend
<1>1. Init => CallInv
  BY NoCallSound DEF Init, LimitInit, CallInv, TransportTypeOK, Marked, Blocked
<1>2. CallInv => OnlyEarlySend
  BY DEF CallInv, Marked, Admitted, OnlyEarlySend, At
<1> QED
  BY <1>1, <1>2, CallStep, LimitAlways, PTL DEF Spec

-----------------------------------------------------------------------------
(* Type correctness.                                                       *)

\* The part of the type invariant that the budget keeps.
LEMMA RecordTyped ==
  ASSUME BudgetTypeOK, NEW c \in Callers, NEW tested \in BOOLEAN,
         RecordCall(c, tested), UNCHANGED <<sinceSlot, usageVars>>
  PROVE  BudgetTypeOK'
<1> DEFINE throttled == windows \cap {"bootstrap", "poll", "snapshot"} = {}
           new == [by |-> c, age |-> 0, tested |-> tested,
                   counted |-> throttled /\ ~Essential(c), throttled |-> throttled]
<1>1. 0 \in 0 .. Window /\ Readings \in Nat \ {0} /\ PauseMax \in Nat \ {0}
        /\ PauseUnit \in Nat \ {0}
  BY BudgetAssumption
<1>2. throttled \in BOOLEAN /\ (throttled /\ ~Essential(c)) \in BOOLEAN
  OBVIOUS
<1>3. new \in Call
  BY <1>1, <1>2 DEF Call
<1>4. log' = log \cup {new} /\ UNCHANGED rescue
  BY DEF RecordCall
<1>5. log' \subseteq Call
  BY <1>3, <1>4 DEF BudgetTypeOK
<1>6. pauseLeft' \in 0 .. PauseMax /\ high' \in 0 .. Readings - 1
        /\ stalePauses' \in 0 .. PauseMax
  <2>1. CASE UNCHANGED <<high, stalePauses, pauseLeft>>
    BY <2>1 DEF BudgetTypeOK
  <2>2. CASE high' = 0 /\ stalePauses' = 0 /\ pauseLeft' = 0
    BY <1>1, <2>2
  <2>3. ASSUME NEW busy \in BOOLEAN,
               high' = IF busy /\ ~(busy /\ high + 1 >= Readings) THEN high + 1 ELSE 0,
               stalePauses' = IF (busy /\ high + 1 >= Readings) /\ stalePauses < PauseMax
                              THEN stalePauses + 1 ELSE stalePauses,
               pauseLeft' = IF ~(busy /\ high + 1 >= Readings) THEN pauseLeft
                            ELSE IF PauseUnit * (stalePauses + 1) > PauseMax THEN PauseMax
                            ELSE PauseUnit * (stalePauses + 1)
        PROVE  pauseLeft' \in 0 .. PauseMax /\ high' \in 0 .. Readings - 1
                 /\ stalePauses' \in 0 .. PauseMax
    <3>1. high \in 0 .. Readings - 1 /\ stalePauses \in 0 .. PauseMax
            /\ pauseLeft \in 0 .. PauseMax
      BY DEF BudgetTypeOK
    <3>2. PauseUnit * (stalePauses + 1) \in Nat
      BY <1>1, <3>1
    <3>3. pauseLeft' \in 0 .. PauseMax
      BY <1>1, <2>3, <3>1, <3>2
    <3>4. high' \in 0 .. Readings - 1
      BY <1>1, <2>3, <3>1
    <3>5. stalePauses' \in 0 .. PauseMax
      BY <1>1, <2>3, <3>1
    <3> QED
      BY <3>3, <3>4, <3>5
  <2>4. (Cardinality({r \in log' : r.throttled}) >= WarnCount) \in BOOLEAN
    OBVIOUS
  <2> QED
    BY <1>4, <2>1, <2>2, <2>3, <2>4 DEF RecordCall, TrackPreemptive
<1> QED
  BY <1>4, <1>5, <1>6 DEF BudgetTypeOK, usageVars

\* The clock keeps the types of the budget.
LEMMA AgeTyped ==
  ASSUME BudgetTypeOK, AgeBudget, UNCHANGED usageVars PROVE BudgetTypeOK'
<1>1. Interval \in Nat /\ Window \in Nat /\ PauseMax \in Nat
  BY BudgetAssumption
<1>2. ASSUME NEW x \in log, x.age < Window PROVE [x EXCEPT !.age = @ + 1] \in Call
  <2>1. x \in Call /\ x.age + 1 \in 0 .. Window
    BY <1>1, <1>2 DEF BudgetTypeOK, Call
  <2> QED
    BY <2>1 DEF Call
<1>3. log' \subseteq Call
  BY <1>2 DEF AgeBudget
<1>4. sinceSlot' \in 0 .. Interval /\ pauseLeft' \in 0 .. PauseMax
  BY <1>1 DEF AgeBudget, BudgetTypeOK
<1> QED
  BY <1>3, <1>4 DEF AgeBudget, BudgetTypeOK, usageVars

\* Every step of the system keeps the types of the budget.
LEMMA BudgetStep == BudgetTypeOK /\ [Next]_vars => BudgetTypeOK'
<1> SUFFICES ASSUME BudgetTypeOK, [Next]_vars PROVE BudgetTypeOK'
  OBVIOUS
<1>c. 0 \in 0 .. Interval /\ 0 \in 0 .. PauseMax /\ 0 \in 0 .. Readings - 1
  BY BudgetAssumption
<1>1. ASSUME NEW c \in Callers, Acquire(c) PROVE BudgetTypeOK'
  <2>1. CASE Record(c)
    <3>1. (call[c].mode = "capped") \in BOOLEAN
      OBVIOUS
    <3> QED
      BY <2>1, <3>1, RecordTyped DEF Record
  <2>2. CASE ClaimSlot(c)
    BY <1>c, <2>2 DEF ClaimSlot, BudgetTypeOK, usageVars
  <2>3. CASE Screen(c)
    <3>1. rescue' \in {"idle", "armed", "consumed"}
      BY <2>3 DEF Screen, BudgetTypeOK
    <3> QED
      BY <2>3, <3>1 DEF Screen, BudgetTypeOK, usageVars
  <2>4. CASE Admit(c) \/ LeaveAwait(c)
    BY <2>4 DEF Admit, LeaveAwait, BudgetTypeOK, budgetVars, usageVars
  <2> QED
    BY <1>1, <2>1, <2>2, <2>3, <2>4 DEF Acquire
<1>2. ASSUME NEW c \in Callers, Http(c) PROVE BudgetTypeOK'
  BY <1>2 DEF Http, Answered, Retry, Refused, BudgetTypeOK, budgetVars, usageVars
<1>3. CASE OrderStarts \/ OrderEnds
  BY <1>3 DEF OrderStarts, OrderEnds, BeginOrderInFlight, EndOrderInFlight,
              BudgetTypeOK, budgetVars
<1>4. ASSUME NEW w \in Exemptions, ToggleWindow(w) PROVE BudgetTypeOK'
  BY <1>4, TransportAssumption DEF ToggleWindow, BudgetTypeOK, budgetVars
<1>5. CASE StreamChanges
  BY <1>5 DEF StreamChanges, BudgetTypeOK, budgetVars
<1>6. CASE Rescue
  BY <1>6 DEF Rescue, ArmRescue, BudgetTypeOK, usageVars
<1>7. CASE Restart
  <2>1. log' = {} /\ sinceSlot' = 0 /\ pauseLeft' = 0 /\ high' = 0 /\ stalePauses' = 0
          /\ rescue' = "idle" /\ flights' = 0 /\ windows' = {} /\ stream' = stream
    BY <1>7 DEF Restart
  <2> QED
    BY <1>c, <2>1 DEF BudgetTypeOK
<1>8. CASE Tick
  BY <1>8, AgeTyped DEF Tick
<1>9. CASE UNCHANGED vars
  BY <1>9 DEF vars, BudgetTypeOK, budgetVars, usageVars
<1> QED
  BY <1>1, <1>2, <1>3, <1>4, <1>5, <1>6, <1>7, <1>8, <1>9 DEF Next

\* Every variable of the transport keeps its type: the stage within its bound,
\* the attempts within the retries, the pauses within their ceilings.
THEOREM Typed == Spec => []TypeOK
<1>1. Init => BudgetTypeOK
  BY BudgetAssumption
  DEF Init, BudgetInit, UsageInit, BudgetTypeOK, Streams, Windows
<1>2. Init => CallInv
  BY NoCallSound DEF Init, LimitInit, CallInv, TransportTypeOK, Marked, Blocked
<1>3. LimitInv /\ CallInv /\ BudgetTypeOK => TypeOK
  BY DEF LimitInv, CallInv, TypeOK
<1> QED
  BY <1>1, <1>2, <1>3, BudgetStep, CallStep, LimitAlways, PTL DEF Spec

-----------------------------------------------------------------------------
(* The two promises of RestApiBudget: the interval between calls and the   *)
(* hard cap of calls within a minute.                                      *)

\* The caller has taken its slot under the cap and has not recorded the call.
Slotted(c) == call[c].at = "reserved" /\ call[c].mode = "capped"

\* A caller past the await loop under the cap is not an urgent one: it has to
\* wait for the interval.
Ordinary ==
  \A c \in Callers :
    call[c].at \in {"slot", "reserved"} /\ call[c].mode = "capped" => c \notin Urgent

BaseInv == BudgetTypeOK /\ TransportTypeOK /\ Ordinary

\* What one step does to the places and modes of the calls.
LEMMA OrdinaryStep == BaseInv /\ [Next]_vars => Ordinary'
<1> SUFFICES ASSUME BaseInv, [Next]_vars PROVE Ordinary'
  OBVIOUS
<1>t. \A d \in Callers : call[d] \in Frame
  BY DEF BaseInv, TransportTypeOK
<1>e. ASSUME NEW c \in Callers, NEW f, call' = [call EXCEPT ![c] = f],
             f.at \in {"slot", "reserved"} /\ f.mode = "capped" => c \notin Urgent
      PROVE  Ordinary'
  <2>1. \A d \in Callers : call'[d] = IF d = c THEN f ELSE call[d]
    BY <1>e DEF BaseInv, TransportTypeOK
  <2> QED
    BY <1>e, <2>1 DEF BaseInv, Ordinary
<1>1. ASSUME NEW c \in Callers, Acquire(c) PROVE Ordinary'
  <2>1. CASE Screen(c) \/ Admit(c)
    <3>1. PICK place \in {"screened", "await", "idle"} :
            Go(c, place) \/ call' = [call EXCEPT ![c] = NoCall]
      BY <2>1 DEF Screen, Admit, Return
    <3>2. [call[c] EXCEPT !.at = place].at = place /\ NoCall.at = "idle"
      BY <1>t DEF Frame, NoCall
    <3> QED
      BY <1>e, <3>1, <3>2 DEF Go
  <2>2. CASE LeaveAwait(c)
    <3>1. PICK mode \in Modes :
            /\ call' = [call EXCEPT ![c] =
                         [@ EXCEPT !.at = "slot", !.waited = 0, !.mode = mode]]
            /\ mode = "capped" => ~ExemptFromCap(c)
      BY <2>2 DEF LeaveAwait, Modes
    <3> DEFINE f == [call[c] EXCEPT !.at = "slot", !.waited = 0, !.mode = mode]
    <3>2. f.mode = mode /\ call' = [call EXCEPT ![c] = f]
      BY <1>t, <3>1 DEF Frame
    <3> QED
      BY <1>e, <3>1, <3>2 DEF ExemptFromCap
  <2>3. CASE ClaimSlot(c)
    <3>1. CASE call' = [call EXCEPT ![c] = NoCall]
      BY <1>e, <3>1 DEF NoCall
    <3>2. CASE Go(c, "reserved")
      <4> DEFINE f == [call[c] EXCEPT !.at = "reserved"]
      <4>1. f.mode = call[c].mode /\ call' = [call EXCEPT ![c] = f]
        BY <1>t, <3>2 DEF Frame, Go
      <4>2. call[c].mode = "capped" => c \notin Urgent
        BY <2>3 DEF ClaimSlot, At, BaseInv, Ordinary
      <4> QED
        BY <1>e, <4>1, <4>2
    <3> QED
      BY <2>3, <3>1, <3>2 DEF ClaimSlot, Return
  <2>4. CASE Record(c)
    <3> DEFINE f == [call[c] EXCEPT !.at = "send", !.mode = "capped"]
    <3>1. f.at = "send" /\ call' = [call EXCEPT ![c] = f]
      BY <1>t, <2>4 DEF Record, Frame
    <3> QED
      BY <1>e, <3>1
  <2> QED
    BY <1>1, <2>1, <2>2, <2>3, <2>4 DEF Acquire
<1>2. ASSUME NEW c \in Callers, Http(c) PROVE Ordinary'
  <2>1. CASE Answered(c) \/ Retry(c)
    <3>1. call[c].at = "send" /\
            \/ call' = [call EXCEPT ![c] = NoCall]
            \/ call' = [call EXCEPT ![c] = [call[c] EXCEPT !.attempt = @ + 1]]
      BY <2>1 DEF Answered, Retry, Return, At
    <3>2. [call[c] EXCEPT !.attempt = @ + 1].at = call[c].at /\ NoCall.at = "idle"
      BY <1>t DEF Frame, NoCall
    <3> QED
      BY <1>e, <3>1, <3>2
  <2>2. CASE Refused(c)
    <3>1. \A x \in Callers : \/ call'[x] = NoCall
                             \/ call'[x] = call[x]
                             \/ call'[x] = [call[x] EXCEPT !.early = TRUE]
      BY <2>2 DEF Refused, MarkEarly
    <3>n. NoCall.at = "idle"
      BY DEF NoCall
    <3>2. \A x \in Callers : /\ [call[x] EXCEPT !.early = TRUE].at = call[x].at
                             /\ [call[x] EXCEPT !.early = TRUE].mode = call[x].mode
      BY <1>t DEF Frame
    <3>3. \A x \in Callers :
            call'[x].at = "idle" \/ (call'[x].at = call[x].at /\ call'[x].mode = call[x].mode)
      BY <3>1, <3>2, <3>n
    <3> QED
      BY <3>3 DEF BaseInv, Ordinary
  <2> QED
    BY <1>2, <2>1, <2>2 DEF Http
<1>3. CASE Restart
  BY <1>3 DEF Restart, NoCall, Ordinary
<1>4. CASE Tick
  <2>1. \A x \in Callers : call'[x] \in {call[x], [call[x] EXCEPT !.waited = @ + 1]}
    BY <1>4 DEF Tick
  <2>2. \A x \in Callers : /\ [call[x] EXCEPT !.waited = @ + 1].at = call[x].at
                           /\ [call[x] EXCEPT !.waited = @ + 1].mode = call[x].mode
    BY <1>t DEF Frame
  <2> QED
    BY <2>1, <2>2 DEF BaseInv, Ordinary
<1>5. CASE UNCHANGED call
  BY <1>5 DEF BaseInv, Ordinary
<1> QED
  BY <1>1, <1>2, <1>3, <1>4, <1>5
  DEF Next, OrderStarts, OrderEnds, ToggleWindow, StreamChanges, Rescue, vars

\* The types, and the order of a call's stages, hold in every reachable state.
LEMMA BaseAlways == Spec => []BaseInv
<1>1. Init => BaseInv
  <2> SUFFICES ASSUME Init PROVE BaseInv
    OBVIOUS
  <2>1. BudgetTypeOK
    BY BudgetAssumption DEF Init, BudgetInit, UsageInit, BudgetTypeOK, Streams, Windows
  <2>2. TransportTypeOK /\ Ordinary
    BY NoCallSound DEF Init, TransportTypeOK, Ordinary
  <2> QED
    BY <2>1, <2>2 DEF BaseInv
<1>2. BudgetTypeOK /\ TransportTypeOK /\ Ordinary <=> BaseInv
  BY DEF BaseInv
<1>3. LimitInv /\ CallInv /\ BaseInv /\ [Next]_vars => BaseInv'
  BY BudgetStep, CallStep, OrdinaryStep DEF BaseInv, CallInv
<1>4. Init => CallInv
  BY NoCallSound DEF Init, LimitInit, CallInv, TransportTypeOK, Marked, Blocked
<1> QED
  BY <1>1, <1>3, <1>4, CallStep, LimitAlways, PTL DEF Spec

-----------------------------------------------------------------------------
(* How a step changes who is slotted and what is recorded.                 *)

\* A caller claims a slot under the cap.
Claims(c) ==
  /\ ~Slotted(c) /\ Slotted(c)' /\ c \notin Urgent /\ ~CapReached
  /\ sinceSlot >= Interval /\ sinceSlot' = 0 /\ UNCHANGED log
  /\ \A d \in Callers \ {c} : Slotted(d)' <=> Slotted(d)

\* A slotted caller records its call.
Records(c) ==
  /\ Slotted(c) /\ ~Slotted(c)' /\ UNCHANGED sinceSlot
  /\ \E r : r.tested /\ r.age = 0 /\ log' = log \cup {r}
  /\ \A d \in Callers \ {c} : Slotted(d)' <=> Slotted(d)

\* Anything else: the slotted ones stay or end, an untested call is recorded, or
\* an exempt caller takes a slot.
Others ==
  /\ \A d \in Callers : Slotted(d)' => Slotted(d)
  /\ sinceSlot' \in {0, sinceSlot}
  /\ UNCHANGED log \/ \E r : ~r.tested /\ log' = log \cup {r}

Resets == log' = {} /\ \A d \in Callers : ~Slotted(d)'

Moves == Others \/ Resets \/ Tick \/ \E c \in Callers : Claims(c) \/ Records(c)

\* Every step of the system is one of these, as the budget sees it.
LEMMA BudgetMoves == BaseInv /\ [Next]_vars => Moves
<1> SUFFICES ASSUME BaseInv, [Next]_vars PROVE Moves
  OBVIOUS
<1>t. \A d \in Callers : call[d] \in Frame
  BY DEF BaseInv, TransportTypeOK
<1>e. ASSUME NEW c \in Callers, NEW f, call' = [call EXCEPT ![c] = f]
      PROVE  \A d \in Callers : call'[d] = IF d = c THEN f ELSE call[d]
  BY <1>e DEF BaseInv, TransportTypeOK
<1>q. ASSUME NEW c \in Callers, NEW f, call' = [call EXCEPT ![c] = f],
             f.at # "reserved", UNCHANGED <<log, sinceSlot>>
      PROVE  Moves
  BY <1>q, <1>e DEF Moves, Others, Slotted
<1>1. ASSUME NEW c \in Callers, Acquire(c) PROVE Moves
  <2>1. CASE Screen(c) \/ Admit(c)
    <3>1. PICK place \in {"screened", "await", "idle"} :
            Go(c, place) \/ call' = [call EXCEPT ![c] = NoCall]
      BY <2>1 DEF Screen, Admit, Return
    <3>2. [call[c] EXCEPT !.at = place].at = place /\ NoCall.at = "idle"
      BY <1>t DEF Frame, NoCall
    <3>3. UNCHANGED <<log, sinceSlot>>
      BY <2>1 DEF Screen, Admit, budgetVars
    <3> QED
      BY <1>q, <3>1, <3>2, <3>3 DEF Go
  <2>2. CASE LeaveAwait(c)
    <3>1. PICK f : call' = [call EXCEPT ![c] = f] /\ f.at = "slot"
      <4>1. PICK mode : call' = [call EXCEPT ![c] =
                          [@ EXCEPT !.at = "slot", !.waited = 0, !.mode = mode]]
        BY <2>2 DEF LeaveAwait
      <4>2. [call[c] EXCEPT !.at = "slot", !.waited = 0, !.mode = mode].at = "slot"
        BY <1>t DEF Frame
      <4> QED
        BY <4>1, <4>2
    <3> QED
      BY <1>q, <2>2, <3>1 DEF LeaveAwait, budgetVars
  <2>3. CASE ClaimSlot(c)
    <3>1. CASE call' = [call EXCEPT ![c] = NoCall] /\ UNCHANGED sinceSlot
      <4>1. NoCall.at # "reserved" /\ UNCHANGED <<log, sinceSlot>>
        BY <2>3, <3>1 DEF ClaimSlot, NoCall
      <4> QED
        BY <1>q, <3>1, <4>1
    <3>2. CASE ~(call[c].mode = "capped" /\ CapReached) /\ Go(c, "reserved")
                 /\ sinceSlot' = 0
      <4> DEFINE f == [call[c] EXCEPT !.at = "reserved"]
      <4>1. f.mode = call[c].mode /\ f.at = "reserved" /\ call' = [call EXCEPT ![c] = f]
        BY <1>t, <3>2 DEF Frame, Go
      <4>2. \A d \in Callers : call'[d] = IF d = c THEN f ELSE call[d]
        BY <1>e, <4>1
      <4>3. UNCHANGED log /\ call[c].at = "slot"
        BY <2>3 DEF ClaimSlot, At
      <4>4. CASE call[c].mode = "capped"
        <5>1. c \notin Urgent
          BY <4>3, <4>4 DEF BaseInv, Ordinary
        <5>2. sinceSlot >= Interval
          BY <2>3, <4>4, <5>1 DEF ClaimSlot, SlotOpen
        <5>3. ~Slotted(c) /\ Slotted(c)' /\ ~CapReached
          BY <3>2, <4>1, <4>2, <4>3, <4>4 DEF Slotted
        <5>4. \A d \in Callers \ {c} : Slotted(d)' <=> Slotted(d)
          BY <4>2 DEF Slotted
        <5>5. Claims(c)
          BY <3>2, <4>3, <5>1, <5>2, <5>3, <5>4 DEF Claims
        <5> QED
          BY <5>5 DEF Moves
      <4>5. CASE call[c].mode # "capped"
        BY <3>2, <4>1, <4>2, <4>3, <4>5 DEF Moves, Others, Slotted
      <4> QED
        BY <4>4, <4>5
    <3> QED
      BY <2>3, <3>1, <3>2 DEF ClaimSlot, Return
  <2>4. CASE Record(c)
    <3> DEFINE f == [call[c] EXCEPT !.at = "send", !.mode = "capped"]
               throttled == windows \cap {"bootstrap", "poll", "snapshot"} = {}
               r == [by |-> c, age |-> 0, tested |-> call[c].mode = "capped",
                     counted |-> throttled /\ ~Essential(c), throttled |-> throttled]
    <3>1. f.at = "send" /\ call' = [call EXCEPT ![c] = f] /\ call[c].at = "reserved"
      BY <1>t, <2>4 DEF Record, Frame, At
    <3>2. \A d \in Callers : call'[d] = IF d = c THEN f ELSE call[d]
      BY <1>e, <3>1
    <3>3. log' = log \cup {r} /\ UNCHANGED sinceSlot
      BY <2>4 DEF Record, RecordCall
    <3>4. r.tested = (call[c].mode = "capped") /\ r.age = 0
      OBVIOUS
    <3>5. CASE call[c].mode = "capped"
      <4>1. r.tested
        BY <3>4, <3>5
      <4>2. Slotted(c) /\ ~Slotted(c)'
        BY <3>1, <3>2, <3>5 DEF Slotted
      <4>3. \A d \in Callers \ {c} : Slotted(d)' <=> Slotted(d)
        BY <3>2 DEF Slotted
      <4>4. Records(c)
        BY <3>3, <3>4, <4>1, <4>2, <4>3 DEF Records
      <4> QED
        BY <4>4 DEF Moves
    <3>6. CASE call[c].mode # "capped"
      <4>1. ~r.tested
        BY <3>4, <3>6
      <4>2. \A d \in Callers : Slotted(d)' => Slotted(d)
        BY <3>1, <3>2, <3>6 DEF Slotted
      <4> QED
        BY <3>3, <4>1, <4>2 DEF Moves, Others
    <3> QED
      BY <3>5, <3>6
  <2> QED
    BY <1>1, <2>1, <2>2, <2>3, <2>4 DEF Acquire
<1>2. ASSUME NEW c \in Callers, Http(c) PROVE Moves
  <2>0. UNCHANGED <<log, sinceSlot>>
    BY <1>2 DEF Http, Answered, Retry, Refused, budgetVars
  <2>1. CASE Answered(c) \/ Retry(c)
    <3>1. call[c].at = "send" /\
            \/ call' = [call EXCEPT ![c] = NoCall]
            \/ call' = [call EXCEPT ![c] = [call[c] EXCEPT !.attempt = @ + 1]]
      BY <2>1 DEF Answered, Retry, Return, At
    <3>2. [call[c] EXCEPT !.attempt = @ + 1].at = call[c].at /\ NoCall.at = "idle"
      BY <1>t DEF Frame, NoCall
    <3> QED
      BY <1>q, <2>0, <3>1, <3>2
  <2>2. CASE Refused(c)
    <3>1. \A x \in Callers : \/ call'[x] = NoCall
                             \/ call'[x] = call[x]
                             \/ call'[x] = [call[x] EXCEPT !.early = TRUE]
      BY <2>2 DEF Refused, MarkEarly
    <3>n. NoCall.at = "idle"
      BY DEF NoCall
    <3>2. \A x \in Callers : /\ [call[x] EXCEPT !.early = TRUE].at = call[x].at
                             /\ [call[x] EXCEPT !.early = TRUE].mode = call[x].mode
      BY <1>t DEF Frame
    <3>3. \A x \in Callers :
            call'[x].at = "idle" \/ (call'[x].at = call[x].at /\ call'[x].mode = call[x].mode)
      BY <3>1, <3>2, <3>n
    <3> QED
      BY <2>0, <3>3 DEF Moves, Others, Slotted
  <2> QED
    BY <1>2, <2>1, <2>2 DEF Http
<1>3. CASE Restart
  BY <1>3 DEF Restart, NoCall, Moves, Resets, Slotted
<1>4. CASE UNCHANGED <<call, log, sinceSlot>>
  BY <1>4 DEF Moves, Others, Slotted
<1> QED
  BY <1>1, <1>2, <1>3, <1>4
  DEF Next, Moves, OrderStarts, OrderEnds, ToggleWindow, StreamChanges, Rescue,
      ArmRescue, vars, budgetVars

-----------------------------------------------------------------------------
(* The interval between two calls, as long as no thread stalls.            *)

\* One caller at most is slotted, in the tick of its claim; the last tested call
\* is as old as the last claim; a slotted caller's call will be far enough away
\* from every tested one.
SpaceInv ==
  /\ \A c \in Callers : Slotted(c) =>
       /\ sinceSlot = 0
       /\ \A d \in Callers : Slotted(d) => d = c
       /\ \A r \in log : r.tested => r.age >= Interval
  /\ \A r \in log : r.tested => r.age >= sinceSlot
  /\ Spaced

\* One tick for one record, and for the log.
LEMMA TickRecord ==
  ASSUME NEW x \in Call, NEW r, r = [x EXCEPT !.age = @ + 1]
  PROVE  x.age \in Nat /\ r.age = x.age + 1 /\ r.tested = x.tested /\ r.counted = x.counted
  BY BudgetAssumption DEF Call

\* Every record that the clock leaves in the log is an older record, aged by one.
LEMMA TickLog ==
  ASSUME BudgetTypeOK, AgeBudget, NEW r \in log'
  PROVE  \E x \in log : /\ x.age \in Nat /\ r.age = x.age + 1
                        /\ r.tested = x.tested /\ r.counted = x.counted
<1>1. PICK x \in log : r = [x EXCEPT !.age = @ + 1]
  BY DEF AgeBudget
<1>2. x \in Call
  BY DEF BudgetTypeOK
<1>3. x.age \in Nat /\ r.age = x.age + 1 /\ r.tested = x.tested /\ r.counted = x.counted
  BY <1>1, <1>2, TickRecord
<1> QED
  BY <1>3

\* The spacing of the calls holds over every move, when no thread stalls.
LEMMA SpaceStep ==
  ASSUME "stall" \notin Events, BaseInv, SpaceInv, Moves, BaseInv'
  PROVE  SpaceInv'
<1> USE DEF SpaceInv, Spaced
<1>i. /\ Interval \in Nat /\ Interval > 0 /\ sinceSlot \in Nat
      /\ \A r \in log : r.age \in Nat
  BY BudgetAssumption DEF BaseInv, BudgetTypeOK, Call
<1>1. CASE Resets
  BY <1>1 DEF Resets
<1>2. CASE Others
  <2>1. \A r \in log' : r.tested => r \in log
    BY <1>2 DEF Others
  <2>2. \A c \in Callers : Slotted(c)' => Slotted(c)
    BY <1>2 DEF Others
  <2>3. sinceSlot' = 0 \/ sinceSlot' = sinceSlot
    BY <1>2 DEF Others
  <2>4. \A r \in log' : r.tested => r.age >= sinceSlot'
    BY <1>i, <2>1, <2>3
  <2> QED
    BY <1>i, <2>1, <2>2, <2>3, <2>4
<1>3. ASSUME NEW c \in Callers, Claims(c) PROVE SpaceInv'
  <2>1. \A d \in Callers : ~Slotted(d)
    BY <1>i, <1>3 DEF Claims
  <2>2. \A d \in Callers : Slotted(d)' => d = c
    BY <1>3, <2>1 DEF Claims
  <2>3. \A r \in log : r.tested => r.age >= Interval
    BY <1>i, <1>3 DEF Claims
  <2>4. sinceSlot' = 0 /\ log' = log
    BY <1>3 DEF Claims
  <2>5. \A r \in log' : r.tested => r.age >= sinceSlot'
    BY <1>i, <2>4
  <2> QED
    BY <2>2, <2>3, <2>4, <2>5
<1>4. ASSUME NEW c \in Callers, Records(c) PROVE SpaceInv'
  <2>1. PICK r : r.tested /\ r.age = 0 /\ log' = log \cup {r}
    BY <1>4 DEF Records
  <2>2. Slotted(c) /\ sinceSlot = 0 /\ sinceSlot' = 0
    BY <1>4 DEF Records
  <2>3. \A d \in Callers : ~Slotted(d)'
    BY <1>4, <2>2 DEF Records
  <2>4. \A s \in log : s.tested => s.age >= Interval
    BY <2>2
  <2>5. Spaced'
    <3> SUFFICES ASSUME NEW s \in log', NEW t \in log', s.tested, t.tested, s # t
                 PROVE  s.age + Interval <= t.age \/ t.age + Interval <= s.age
      BY DEF Spaced
    <3>1. CASE s = r
      BY <1>i, <2>1, <2>4, <3>1
    <3>2. CASE t = r
      BY <1>i, <2>1, <2>4, <3>2
    <3>3. CASE s # r /\ t # r
      BY <2>1, <3>3
    <3> QED
      BY <3>1, <3>2, <3>3
  <2>6. \A s \in log' : s.tested => s.age >= sinceSlot'
    BY <1>i, <2>1, <2>2
  <2> QED
    BY <2>3, <2>5, <2>6
<1>5. CASE Tick
  <2>1. AgeBudget /\ \A c \in Callers : call[c].at # "reserved"
    BY <1>5 DEF Tick, At
  <2>2. \A c \in Callers : ~Slotted(c)'
    <3> SUFFICES ASSUME NEW c \in Callers PROVE call'[c].at # "reserved"
      BY DEF Slotted
    <3>1. call[c] \in Frame
      BY DEF BaseInv, TransportTypeOK
    <3>2. call'[c].at = call[c].at
      BY <1>5, <3>1 DEF Tick, Frame
    <3> QED
      BY <2>1, <3>2
  <2>3. \A r \in log' : \E x \in log :
          x.age \in Nat /\ r.age = x.age + 1 /\ r.tested = x.tested
    BY <2>1, TickLog DEF BaseInv
  <2>4. sinceSlot' <= sinceSlot + 1
    BY <1>i, <2>1 DEF AgeBudget
  <2>5. \A r \in log' : r.tested => r.age >= sinceSlot'
    <3> SUFFICES ASSUME NEW r \in log', r.tested PROVE r.age >= sinceSlot'
      OBVIOUS
    <3>1. PICK x \in log : x.age \in Nat /\ r.age = x.age + 1 /\ r.tested = x.tested
      BY <2>3
    <3>2. x.age >= sinceSlot
      BY <3>1
    <3>3. sinceSlot' \in Nat
      BY <1>i, <2>1 DEF AgeBudget
    <3> QED
      BY <1>i, <2>4, <3>1, <3>2, <3>3
  <2>6. Spaced'
    <3> SUFFICES ASSUME NEW s \in log', NEW t \in log', s.tested, t.tested, s # t
                 PROVE  s.age + Interval <= t.age \/ t.age + Interval <= s.age
      BY DEF Spaced
    <3>1. PICK x \in log : s = [x EXCEPT !.age = @ + 1]
      BY <2>1 DEF AgeBudget
    <3>2. PICK y \in log : t = [y EXCEPT !.age = @ + 1]
      BY <2>1 DEF AgeBudget
    <3>3. x \in Call /\ y \in Call /\ x # y
      BY <3>1, <3>2 DEF BaseInv, BudgetTypeOK
    <3>a. s.age = x.age + 1 /\ s.tested = x.tested /\ x.age \in Nat
      BY <3>1, <3>3, TickRecord
    <3>b. t.age = y.age + 1 /\ t.tested = y.tested /\ y.age \in Nat
      BY <3>2, <3>3, TickRecord
    <3>4. x.tested /\ y.tested /\ x.age \in Nat /\ y.age \in Nat
            /\ s.age = x.age + 1 /\ t.age = y.age + 1
      BY <3>a, <3>b
    <3>5. x.age + Interval <= y.age \/ y.age + Interval <= x.age
      BY <3>3, <3>4
    <3> QED
      BY <1>i, <3>4, <3>5
  <2> QED
    BY <2>2, <2>5, <2>6
<1> QED
  BY <1>1, <1>2, <1>3, <1>4, <1>5 DEF Moves

\* Calls for which the cap was tested are the minimum interval apart, for any
\* number of threads, although the claim of the slot and the record are two
\* critical sections: no tick falls between them.
THEOREM SpacedCalls == "stall" \notin Events => (Spec => []Spaced)
<1>1. SUFFICES ASSUME "stall" \notin Events PROVE Spec => []Spaced
  OBVIOUS
<1>2. Init => SpaceInv
  BY DEF Init, BudgetInit, SpaceInv, Spaced, Slotted, NoCall
<1>3. BaseInv /\ BaseInv' /\ SpaceInv /\ [Next]_vars => SpaceInv'
  BY <1>1, BudgetMoves, SpaceStep
<1>4. SpaceInv => Spaced
  BY DEF SpaceInv
<1> QED
  BY <1>2, <1>3, <1>4, BaseAlways, PTL DEF Spec

-----------------------------------------------------------------------------
(* The hard cap.  A slotted caller has its place under the cap already.    *)

TestedCalls == {r \in log : r.counted /\ r.tested}
SlottedCallers == {c \in Callers : Slotted(c)}
Allowance == IF "stall" \in Events THEN Cardinality(Callers) - 1 ELSE 0

CapInv ==
  /\ IsFiniteSet(log)
  /\ Cardinality(TestedCalls) + Cardinality(SlottedCallers) <= HardCap + Allowance

\* No more than n calls remain when each of a set of n grows older.
LEMMA AgedCalls ==
  ASSUME NEW S, IsFiniteSet(S)
  PROVE  LET T == {[r EXCEPT !.age = @ + 1] : r \in {x \in S : x.age < Window}}
         IN  IsFiniteSet(T) /\ Cardinality(T) <= Cardinality(S)
<1> DEFINE young == {x \in S : x.age < Window}
           T == {[r EXCEPT !.age = @ + 1] : r \in young}
           f == [r \in young |-> [r EXCEPT !.age = @ + 1]]
<1>1. IsFiniteSet(young) /\ Cardinality(young) <= Cardinality(S)
  BY FS_Subset
<1>2. f \in Surjection(young, T)
  BY DEF Surjection
<1>3. IsFiniteSet(T) /\ Cardinality(T) <= Cardinality(young)
  BY <1>1, <1>2, FS_Surjection
<1>4. Cardinality(T) \in Nat /\ Cardinality(young) \in Nat /\ Cardinality(S) \in Nat
  BY <1>1, <1>3, FS_CardinalityType
<1> QED
  BY <1>1, <1>3, <1>4

\* The log and the threads between the two sections can be counted.
LEMMA CapFinite ==
  ASSUME IsFiniteSet(log)
  PROVE  /\ IsFiniteSet(TestedCalls) /\ Cardinality(TestedCalls) \in Nat
         /\ IsFiniteSet(SlottedCallers) /\ Cardinality(SlottedCallers) \in Nat
         /\ Cardinality(Callers) \in Nat
         /\ Cardinality(SlottedCallers) <= Cardinality(Callers)
<1>1. TestedCalls \in SUBSET log /\ SlottedCallers \in SUBSET Callers
  BY DEF TestedCalls, SlottedCallers
<1>2. IsFiniteSet(TestedCalls) /\ IsFiniteSet(SlottedCallers)
        /\ Cardinality(SlottedCallers) <= Cardinality(Callers)
  BY <1>1, FS_Subset, BudgetAssumption
<1> QED
  BY <1>2, FS_CardinalityType, BudgetAssumption

\* The count of calls and of threads about to call holds over every move.
LEMMA CapStep ==
  ASSUME BaseInv, CapInv, Moves, "stall" \in Events \/ SpaceInv
  PROVE  CapInv'
<1>i. /\ HardCap \in Nat /\ HardCap > 0 /\ IsFiniteSet(Callers)
      /\ Cardinality(Callers) \in Nat /\ Interval \in Nat /\ Interval > 0
  BY BudgetAssumption, FS_CardinalityType
<1>f. /\ IsFiniteSet(log) /\ IsFiniteSet(TestedCalls) /\ Cardinality(TestedCalls) \in Nat
      /\ IsFiniteSet(SlottedCallers) /\ Cardinality(SlottedCallers) \in Nat
  BY CapFinite DEF CapInv
<1>a. Allowance \in Int
  BY <1>i DEF Allowance
<1>q. ASSUME IsFiniteSet(log'), Cardinality(TestedCalls') <= Cardinality(TestedCalls),
             SlottedCallers' \subseteq SlottedCallers
      PROVE  CapInv'
  <2>1. TestedCalls' \in SUBSET log'
    BY DEF TestedCalls
  <2>2. Cardinality(TestedCalls') \in Nat
    BY <1>q, <2>1, FS_Subset, FS_CardinalityType
  <2>3. IsFiniteSet(SlottedCallers') /\ Cardinality(SlottedCallers') \in Nat
          /\ Cardinality(SlottedCallers') <= Cardinality(SlottedCallers)
    BY <1>f, <1>q, FS_Subset, FS_CardinalityType
  <2>4. Cardinality(TestedCalls') + Cardinality(SlottedCallers') <= HardCap + Allowance
    BY <1>f, <1>i, <1>a, <1>q, <2>2, <2>3 DEF CapInv
  <2> QED
    BY <1>q, <2>4 DEF CapInv, Allowance
<1>1. CASE Resets
  <2>1. IsFiniteSet(log') /\ TestedCalls' = {} /\ SlottedCallers' = {}
    BY <1>1, FS_EmptySet DEF Resets, TestedCalls, SlottedCallers
  <2>2. Cardinality(TestedCalls') <= Cardinality(TestedCalls)
    BY <1>f, <2>1, FS_EmptySet
  <2> QED
    BY <1>q, <2>1, <2>2
<1>2. CASE Others
  <2>1. PICK S : IsFiniteSet(S) /\ log' = S /\ TestedCalls' = TestedCalls
    <3>1. CASE UNCHANGED log
      BY <1>f, <3>1 DEF TestedCalls
    <3>2. ASSUME NEW r, ~r.tested, log' = log \cup {r}
          PROVE  IsFiniteSet(log') /\ TestedCalls' = TestedCalls
      BY <1>f, <3>2, FS_AddElement DEF TestedCalls
    <3> QED
      BY <1>2, <3>1, <3>2 DEF Others, CapInv
  <2>2. SlottedCallers' \subseteq SlottedCallers
    BY <1>2 DEF Others, SlottedCallers
  <2> QED
    BY <1>f, <1>q, <2>1, <2>2
<1>3. ASSUME NEW c \in Callers, Claims(c) PROVE CapInv'
  <2> DEFINE counted == {r \in log : r.counted}
  <2>1. Cardinality(counted) < HardCap /\ log' = log
    <3>1. IsFiniteSet(counted) /\ Cardinality(counted) \in Nat
      BY <1>f, FS_Subset, FS_CardinalityType
    <3> QED
      BY <1>3, <1>i, <3>1 DEF Claims, CapReached
  <2>2. IsFiniteSet(counted) /\ Cardinality(counted) \in Nat /\ TestedCalls \in SUBSET counted
    BY <1>f, FS_Subset, FS_CardinalityType DEF TestedCalls
  <2>3. Cardinality(TestedCalls) < HardCap
    BY <1>f, <1>i, <2>1, <2>2, FS_Subset
  <2>4. TestedCalls' = TestedCalls
    BY <2>1 DEF TestedCalls
  <2>5. SlottedCallers' \in SUBSET Callers
    BY DEF SlottedCallers
  <2>6. Cardinality(SlottedCallers') \in Nat
          /\ Cardinality(SlottedCallers') <= 1 + Allowance
    <3>1. CASE "stall" \in Events
      BY <1>i, <2>5, <3>1, FS_Subset, FS_CardinalityType DEF Allowance
    <3>2. CASE "stall" \notin Events
      <4>1. \A d \in Callers : ~Slotted(d)
        BY <1>3, <1>i, <3>2 DEF Claims, SpaceInv
      <4>2. SlottedCallers' = {c}
        BY <1>3, <4>1 DEF Claims, SlottedCallers
      <4> QED
        BY <3>2, <4>2, FS_Singleton DEF Allowance
    <3> QED
      BY <3>1, <3>2
  <2>7. Cardinality(TestedCalls') + Cardinality(SlottedCallers') <= HardCap + Allowance
    BY <1>f, <1>i, <1>a, <2>3, <2>4, <2>6
  <2> QED
    BY <1>f, <2>1, <2>7 DEF CapInv, Allowance
<1>4. ASSUME NEW c \in Callers, Records(c) PROVE CapInv'
  <2>1. PICK r : log' = log \cup {r}
    BY <1>4 DEF Records
  <2>2. IsFiniteSet(log')
    BY <1>f, <2>1, FS_AddElement
  <2>3. TestedCalls' \in SUBSET (TestedCalls \cup {r})
    BY <2>1 DEF TestedCalls
  <2>4. IsFiniteSet(TestedCalls \cup {r})
          /\ Cardinality(TestedCalls \cup {r}) <= Cardinality(TestedCalls) + 1
    <3>1. IsFiniteSet(TestedCalls \cup {r})
            /\ Cardinality(TestedCalls \cup {r}) =
                 IF r \in TestedCalls THEN Cardinality(TestedCalls)
                 ELSE Cardinality(TestedCalls) + 1
      BY <1>f, FS_AddElement
    <3> QED
      BY <1>f, <3>1
  <2>5. Cardinality(TestedCalls \cup {r}) \in Nat /\ Cardinality(TestedCalls') \in Nat
          /\ Cardinality(TestedCalls') <= Cardinality(TestedCalls \cup {r})
    BY <2>3, <2>4, FS_Subset, FS_CardinalityType
  <2>6. c \in SlottedCallers /\ SlottedCallers' = SlottedCallers \ {c}
    BY <1>4 DEF Records, SlottedCallers
  <2>7. Cardinality(SlottedCallers') = Cardinality(SlottedCallers) - 1
    BY <1>f, <2>6, FS_RemoveElement
  <2>8. Cardinality(TestedCalls') + Cardinality(SlottedCallers') <= HardCap + Allowance
    BY <1>f, <1>i, <1>a, <2>4, <2>5, <2>7 DEF CapInv
  <2> QED
    BY <2>2, <2>8 DEF CapInv, Allowance
<1>5. CASE Tick
  <2> DEFINE aged(S) == {[r EXCEPT !.age = @ + 1] : r \in {x \in S : x.age < Window}}
  <2>1. log' = aged(log) /\ log \subseteq Call
    BY <1>5 DEF Tick, AgeBudget, BaseInv, BudgetTypeOK
  <2>2. IsFiniteSet(log')
    BY <1>f, <2>1, AgedCalls
  <2>3. TestedCalls' \in SUBSET aged(TestedCalls)
    <3> SUFFICES ASSUME NEW r \in log', r.counted, r.tested PROVE r \in aged(TestedCalls)
      BY DEF TestedCalls
    <3>1. PICK x \in log : x.age < Window /\ r = [x EXCEPT !.age = @ + 1]
      BY <2>1
    <3>2. x.counted /\ x.tested
      BY <2>1, <3>1, TickRecord
    <3> QED
      BY <3>1, <3>2 DEF TestedCalls
  <2>4. IsFiniteSet(aged(TestedCalls))
          /\ Cardinality(aged(TestedCalls)) <= Cardinality(TestedCalls)
    BY <1>f, AgedCalls
  <2>5. Cardinality(TestedCalls') <= Cardinality(TestedCalls)
    <3>1. Cardinality(TestedCalls') <= Cardinality(aged(TestedCalls))
            /\ IsFiniteSet(TestedCalls')
      BY <2>3, <2>4, FS_Subset
    <3>2. Cardinality(TestedCalls') \in Nat /\ Cardinality(aged(TestedCalls)) \in Nat
      BY <2>4, <3>1, FS_CardinalityType
    <3> QED
      BY <1>f, <2>4, <3>1, <3>2
  <2>6. SlottedCallers' \subseteq SlottedCallers
    <3> SUFFICES ASSUME NEW c \in Callers, Slotted(c)' PROVE Slotted(c)
      BY DEF SlottedCallers
    <3>1. call[c] \in Frame
      BY DEF BaseInv, TransportTypeOK
    <3>2. call'[c].at = call[c].at /\ call'[c].mode = call[c].mode
      BY <1>5, <3>1 DEF Tick, Frame
    <3> QED
      BY <3>2 DEF Slotted
  <2> QED
    BY <1>q, <2>2, <2>5, <2>6
<1> QED
  BY <1>1, <1>2, <1>3, <1>4, <1>5 DEF Moves

\* The calls for which the cap was tested never exceed it within a minute, for any
\* number of threads; threads that stall between the two critical sections exceed
\* it by one each, all but one.
THEOREM Capped == Spec => []CappedCalls
<1>1. Init => CapInv /\ SpaceInv
  <2> SUFFICES ASSUME Init PROVE CapInv /\ SpaceInv
    OBVIOUS
  <2>1. SpaceInv
    BY DEF Init, BudgetInit, SpaceInv, Spaced, Slotted, NoCall
  <2>2. IsFiniteSet(log) /\ TestedCalls = {} /\ SlottedCallers = {}
    BY FS_EmptySet DEF Init, BudgetInit, TestedCalls, SlottedCallers, Slotted, NoCall
  <2>3. Cardinality(TestedCalls) = 0 /\ Cardinality(SlottedCallers) = 0
    BY <2>2, FS_EmptySet
  <2>4. HardCap \in Nat /\ HardCap > 0 /\ Cardinality(Callers) \in Nat
    BY BudgetAssumption, FS_CardinalityType
  <2>5. 0 <= HardCap + Allowance
    BY <2>4 DEF Allowance
  <2> QED
    BY <2>1, <2>2, <2>3, <2>5 DEF CapInv
<1>2. BaseInv /\ BaseInv' /\ CapInv /\ ("stall" \in Events \/ SpaceInv) /\ [Next]_vars
        => CapInv' /\ ("stall" \in Events \/ SpaceInv')
  BY BudgetMoves, SpaceStep, CapStep
<1>3. CapInv => CappedCalls
  <2> SUFFICES ASSUME CapInv PROVE CappedCalls
    OBVIOUS
  <2>1. /\ Cardinality(TestedCalls) \in Nat /\ Cardinality(SlottedCallers) \in Nat
        /\ HardCap \in Nat /\ Cardinality(Callers) \in Nat
    BY CapFinite, BudgetAssumption DEF CapInv
  <2>2. Allowance \in Int
    BY <2>1 DEF Allowance
  <2>3. Cardinality(TestedCalls) <= HardCap + Allowance
    BY <2>1, <2>2 DEF CapInv
  <2> QED
    BY <2>3 DEF CappedCalls, TestedCalls, Allowance
<1> DEFINE Both == CapInv /\ ("stall" \in Events \/ SpaceInv)
<1>4. Init => Both
  BY <1>1
<1>5. BaseInv /\ BaseInv' /\ Both /\ [Next]_vars => Both'
  BY <1>2
<1>6. Both => CappedCalls
  BY <1>3
<1> HIDE DEF Both
<1> QED
  BY <1>4, <1>5, <1>6, BaseAlways, PTL DEF Spec
=============================================================================
