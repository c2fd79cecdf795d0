----------------------------- MODULE RateLimit -----------------------------
(***************************************************************************)
(* system/rate_limit_manager.py: the cooldown the agent imposes on itself  *)
(* after the broker refused a call for quota reasons.  Every operation is  *)
(* one critical section of _LOCK.  The two deadlines are kept as the time  *)
(* left, in ticks; so is their copy in rate_limit_state.json, which        *)
(* _persist_unlocked rewrites in place.                                    *)
(***************************************************************************)
EXTENDS Naturals

CONSTANTS RestCooldown,     \* REST_COOLDOWN_BASE_SEC, in ticks
          MaxCooldown,      \* MAX_REST_COOLDOWN_SEC, in ticks
          StreamCooldown,   \* STREAM_COOLDOWN_SEC, in ticks
          MaxStage          \* bound of this model on _backoff_stage

VARIABLES limited,          \* _active
          restLeft,         \* _rest_until - now, zero once passed
          streamLeft,       \* _stream_until - now, zero once passed
          stage,            \* _backoff_stage
          saved             \* rate_limit_state.json

ASSUME RateLimitAssumption ==
  /\ RestCooldown \in Nat \ {0} /\ MaxCooldown \in Nat \ {0}
  /\ StreamCooldown \in Nat \ {0} /\ MaxStage \in Nat \ {0}
  /\ RestCooldown <= MaxCooldown

limitVars == <<limited, restLeft, streamLeft, stage, saved>>

SavedState == [stage : Nat, rest : Nat, stream : Nat]

LimitTypeOK ==
  /\ limited \in BOOLEAN /\ restLeft \in Nat /\ streamLeft \in Nat
  /\ stage \in 0 .. MaxStage /\ saved \in SavedState

NothingSaved == [stage |-> 0, rest |-> 0, stream |-> 0]

LimitInit ==
  /\ limited = FALSE /\ restLeft = 0 /\ streamLeft = 0 /\ stage = 0
  /\ saved = NothingSaved

\* is_rest_blocked, and the test of check_rest_allowed.
Blocked == limited /\ restLeft > 0

\* _try_clear_unlocked, which runs before each of those tests.
ClearIfOver ==
  /\ limited' = (limited /\ (restLeft > 0 \/ streamLeft > 0))
  /\ UNCHANGED <<restLeft, streamLeft, stage, saved>>

\* The pause doubles with the stage, twice at most, up to the ceiling.
PauseAt(s) ==
  LET doubled == IF s <= 1 THEN RestCooldown
                 ELSE IF s = 2 THEN 2 * RestCooldown ELSE 4 * RestCooldown
  IN IF doubled > MaxCooldown THEN MaxCooldown ELSE doubled

Longer(a, b) == IF a >= b THEN a ELSE b

\* Wrong form of Activate: every refusal of a burst raises the stage.
ActivateEach ==
  LET s == IF stage < MaxStage THEN stage + 1 ELSE stage
      rest == Longer(restLeft, PauseAt(s))
      stream == Longer(streamLeft, StreamCooldown)
  IN /\ limited' = TRUE /\ stage' = s /\ restLeft' = rest /\ streamLeft' = stream
     /\ saved' = [stage |-> s, rest |-> rest, stream |-> stream]

\* _activate_unlocked: a refusal outside a cooldown raises the stage; both
\* deadlines may only move away; the result is persisted.
Activate ==
  LET s == IF Blocked THEN stage ELSE stage + 1
      rest == Longer(restLeft, PauseAt(s))
      stream == Longer(streamLeft, StreamCooldown)
  IN /\ s <= MaxStage
     /\ limited' = TRUE /\ stage' = s /\ restLeft' = rest /\ streamLeft' = stream
     /\ saved' = [stage |-> s, rest |-> rest, stream |-> stream]

\* Wrong form of LoadPersisted: the deadlines are not restored.
LoadStageOnly(file) ==
  /\ stage' = file.stage /\ limited' = FALSE
  /\ restLeft' = 0 /\ streamLeft' = 0 /\ saved' = file

\* _load_persisted, by the next process: the stage always, the deadlines when
\* one of them is still ahead.
LoadPersisted(file) ==
  /\ stage' = file.stage /\ limited' = (file.rest > 0 \/ file.stream > 0)
  /\ restLeft' = file.rest /\ streamLeft' = file.stream /\ saved' = file

Less(n) == IF n = 0 THEN 0 ELSE n - 1

\* One tick of the wall clock (external), for the memory and for the file.
AgeLimit ==
  /\ restLeft' = Less(restLeft) /\ streamLeft' = Less(streamLeft)
  /\ saved' = [saved EXCEPT !.rest = Less(@), !.stream = Less(@)]
  /\ UNCHANGED <<limited, stage>>
=============================================================================
