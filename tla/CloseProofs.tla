---------------------------- MODULE CloseProofs ----------------------------
(***************************************************************************)
(* Theorems about ClosePosition, for any set of closing threads, any       *)
(* positions, any timeout of the token and every fault.                    *)
(***************************************************************************)
EXTENDS ClosePosition, TLAPS

\* The places at which a call works on one position.
Working == {"find", "delete", "verify", "net", "recheck"}

\* A call that works on a position names it.
HasDeal == \A c \in Closers : close[c].at \in Working => close[c].deal \in Positions

TypeInv == TypeOK /\ HasDeal

\* Before the first close everything has its type.
LEMMA TypeInit == Init => TypeInv
<1> SUFFICES ASSUME Init PROVE TypeInv
  OBVIOUS
<1>1. NoCall \in Frame
  BY CloseAssumption, ExitAssumption
  DEF NoCall, Frame, Places, AllKinds, Positions, None
<1>2. close \in [Closers -> Frame] /\ HasDeal
  BY <1>1 DEF Init, HasDeal, Working, NoCall
<1>3. ExitTypeOK
  BY ExitAssumption DEF Init, ExitTypeOK, ExitInit, NoToken
<1> QED
  BY <1>2, <1>3, CloseAssumption DEF Init, TypeInv, TypeOK, Positions

\* The frames an action makes are frames, and those at work name a position.
Fine(f) == f \in Frame /\ (f.at \in Working => f.deal \in Positions)

\* A thread that closes nothing has a frame of the right shape.
LEMMA NoCallFine == Fine(NoCall)
  BY CloseAssumption, ExitAssumption
  DEF NoCall, Frame, Places, AllKinds, Positions, None, Fine, Working

\* Replacing one thread's frame by a fine one keeps the types of all frames.
LEMMA FrameStep ==
  ASSUME TypeInv, NEW c \in Closers, NEW f, Fine(f), Become(c, f)
  PROVE  close' \in [Closers -> Frame] /\ HasDeal'
  BY DEF TypeInv, TypeOK, HasDeal, Become, Fine

\* Going to another place, with the attempts counted anew.
LEMMA GoFine ==
  ASSUME TypeInv, NEW c \in Closers, NEW place \in Places,
         place \in Working => close[c].deal \in Positions
  PROVE  Fine([close[c] EXCEPT !.at = place, !.attempt = 1])
<1> DEFINE f == [close[c] EXCEPT !.at = place, !.attempt = 1]
<1>1. close[c] \in Frame
  BY DEF TypeInv, TypeOK
<1>2. 1 \in 1 .. MaxRetries
  BY CloseAssumption
<1>3. f \in Frame
  BY <1>1, <1>2 DEF Frame
<1>4. f.at = place /\ f.deal = close[c].deal
  BY <1>1 DEF Frame
<1> QED
  BY <1>3, <1>4 DEF Fine

\* What a thread does after a call, be it the next of a forced close, is fine.
LEMMA AfterFine == ASSUME TypeInv, NEW c \in Closers PROVE Fine(After(c))
  BY NoCallFine DEF TypeInv, TypeOK, Fine, Frame, After, Places, Working, NoCall, AllKinds

\* What the operators that end or repeat a call leave behind.
LEMMA TokenSteps ==
  ASSUME ExitTypeOK
  PROVE  TryBeginExit \/ ClearExit \/ AgeExit \/ UNCHANGED token => ExitTypeOK'
  BY ExitAssumption DEF ExitTypeOK, TryBeginExit, ClearExit, AgeExit, NoToken

\* What a step may do to the token, the pending record and the frames.
Sound ==
  ExitTypeOK' /\ pendingExit' \in BOOLEAN /\ close' \in [Closers -> Frame] /\ HasDeal'

\* Ending a call keeps the types.
LEMMA ReturnSound ==
  ASSUME TypeInv, NEW c \in Closers, NEW v \in BOOLEAN, Return(c, v) PROVE Sound
<1>1. Fine(After(c))
  BY AfterFine
<1>2. close' \in [Closers -> Frame] /\ HasDeal'
  BY <1>1, FrameStep DEF Return
<1>3. ExitTypeOK'
  BY TokenSteps DEF Return, TypeInv, TypeOK
<1>4. pendingExit' \in BOOLEAN
  BY DEF Return, TypeInv, TypeOK
<1> QED
  BY <1>2, <1>3, <1>4 DEF Sound

\* Leaving a call by an exception keeps the types.
LEMMA RaiseSound == ASSUME TypeInv, NEW c \in Closers, Raise(c) PROVE Sound
<1> DEFINE f == IF close[c].kind = "force"
                THEN [NoCall EXCEPT !.at = "next", !.kind = "force", !.todo = close[c].todo]
                ELSE NoCall
<1>1. Fine(f)
  BY NoCallFine DEF TypeInv, TypeOK, Fine, Frame, Places, Working, NoCall, AllKinds
<1>2. close' \in [Closers -> Frame] /\ HasDeal'
  BY <1>1, FrameStep DEF Raise
<1>3. ExitTypeOK' /\ pendingExit' \in BOOLEAN
  BY TokenSteps DEF Raise, TypeInv, TypeOK
<1> QED
  BY <1>2, <1>3 DEF Sound

\* Going on to another place of a close keeps the types.
LEMMA GoSound ==
  ASSUME TypeInv, NEW c \in Closers, NEW place \in Places,
         place \in Working => close[c].deal \in Positions, Go(c, place),
         UNCHANGED <<token, pendingExit>>
  PROVE  Sound
<1>1. close' \in [Closers -> Frame] /\ HasDeal'
  BY GoFine, FrameStep DEF Go
<1> QED
  BY <1>1, TokenSteps DEF Sound, TypeInv, TypeOK

\* Sending a request again, or giving up, keeps the types.
LEMMA SendSound ==
  ASSUME TypeInv, NEW c \in Closers, SendAgain(c) PROVE Sound
<1>1. CASE close[c].attempt < MaxRetries
  <2> DEFINE f == [close[c] EXCEPT !.attempt = @ + 1]
  <2>1. close[c] \in Frame /\ close[c].attempt + 1 \in 1 .. MaxRetries
    BY <1>1, CloseAssumption DEF TypeInv, TypeOK, Frame
  <2>2. f \in Frame /\ f.at = close[c].at /\ f.deal = close[c].deal
    BY <2>1 DEF Frame
  <2>3. Fine(f)
    BY <2>2 DEF Fine, TypeInv, HasDeal
  <2> QED
    BY <1>1, <2>3, FrameStep, TokenSteps DEF SendAgain, Sound, TypeInv, TypeOK
<1>2. CASE ~(close[c].attempt < MaxRetries)
  BY <1>2, RaiseSound DEF SendAgain
<1> QED
  BY <1>1, <1>2

\* A step of a call is sound; what it does to the positions and to the history is
\* plain.
LEMMA StepSound == ASSUME TypeInv, NEW c \in Closers, Step(c) PROVE Sound
<1> USE DEF TypeInv, TypeOK
<1>f. close[c] \in Frame /\ MaxRetries \in Nat \ {0} /\ ExitTimeout \in Nat
  BY CloseAssumption, ExitAssumption
<1>p. {"find", "delete", "verify", "net", "recheck", "nest", "next"} \subseteq Places
  BY DEF Places
<1>a. 1 \in 1 .. MaxRetries /\ 0 \in 0 .. ExitTimeout + 1
  BY <1>f
<1>d. close[c].at \in Working => close[c].deal \in Positions
  BY DEF HasDeal
<1>1. CASE ForceNext(c)
  <2>1. CASE close[c].todo = {}
    BY <1>1, <2>1, NoCallFine, FrameStep, TokenSteps DEF ForceNext, Sound
  <2>2. CASE close[c].todo # {}
    <3>1. PICK p \in close[c].todo :
            Become(c, [close[c] EXCEPT !.at = "find", !.deal = p, !.attempt = 1,
                       !.side = Against(p), !.todo = @ \ {p}])
      BY <1>1, <2>2 DEF ForceNext
    <3> DEFINE f == [close[c] EXCEPT !.at = "find", !.deal = p, !.attempt = 1,
                       !.side = Against(p), !.todo = @ \ {p}]
    <3>2. p \in Positions /\ close[c].todo \ {p} \in SUBSET Positions
      BY <1>f DEF Frame
    <3>3. Fine(f)
      BY <1>f, <1>p, <1>a, <3>2 DEF Fine, Frame, Against
    <3> QED
      BY <1>1, <3>1, <3>3, FrameStep, TokenSteps DEF ForceNext, Sound
  <2> QED
    BY <2>1, <2>2
<1>2. CASE NestNext(c)
  <2>1. PICK p \in close[c].nest : NestNext(c)!(p)
    BY <1>2 DEF NestNext
  <2> DEFINE rest == close[c].nest \ {p}
             f == [close[c] EXCEPT !.nest = rest]
             g == [close[c] EXCEPT !.at = "find", !.deal = p, !.attempt = 1,
                          !.side = Against(p), !.guarded = TRUE, !.held = 0,
                          !.inner = TRUE, !.nest = rest]
  <2>2. p \in Positions /\ rest \in SUBSET Positions
    BY <1>f DEF Frame
  <2>3. Fine(f)
    BY <1>f, <1>d, <2>2 DEF Fine, Frame
  <2>4. Fine(g)
    BY <1>f, <1>p, <1>a, <2>2 DEF Fine, Frame, Against
  <2>5. Become(c, f) \/ Become(c, g)
    BY <2>1
  <2>6. close' \in [Closers -> Frame] /\ HasDeal'
    BY <2>3, <2>4, <2>5, FrameStep
  <2> QED
    BY <2>1, <2>6, TokenSteps DEF Sound
<1>3. CASE NestEnds(c)
  BY <1>3, ReturnSound DEF NestEnds
<1>4. CASE Find(c)
  <2> DEFINE f == [close[c] EXCEPT !.at = "delete",
                !.side = IF close[c].deal \in open THEN Against(close[c].deal) ELSE @]
  <2>1. close[c].deal \in Positions
    BY <1>4, <1>d DEF Find, At, Working
  <2>2. Fine(f)
    BY <1>f, <1>p, <2>1 DEF Fine, Frame, Against
  <2> QED
    BY <1>4, <2>2, FrameStep, TokenSteps DEF Find, Sound
<1>5. CASE Delete(c)
  <2>1. close[c].deal \in Positions
    BY <1>5, <1>d DEF Delete, At, Working
  <2>2. \A place \in {"verify", "net"} :
          Go(c, place) /\ UNCHANGED <<token, pendingExit>> => Sound
    BY <2>1, <1>p, GoSound
  <2> QED
    BY <1>5, <2>2, SendSound DEF Delete
<1>6. CASE Verify(c)
  <2>1. close[c].deal \in Positions
    BY <1>6, <1>d DEF Verify, At, Working
  <2>2. Go(c, "net") /\ UNCHANGED <<token, pendingExit>> => Sound
    BY <2>1, <1>p, GoSound
  <2> QED
    BY <1>6, <2>2, ReturnSound DEF Verify
<1>7. CASE Net(c)
  <2>1. close[c].deal \in Positions
    BY <1>7, <1>d DEF Net, At, Working
  <2>2. Go(c, "recheck") /\ UNCHANGED <<token, pendingExit>> => Sound
    BY <2>1, <1>p, GoSound
  <2> QED
    BY <1>7, <2>2, RaiseSound, SendSound DEF Net
<1>8. CASE Recheck(c)
  <2> DEFINE f == [close[c] EXCEPT !.at = "nest", !.nest = open]
  <2>1. Fine(f)
    BY <1>f, <1>p DEF Fine, Frame, Working
  <2>2. Become(c, f) /\ UNCHANGED <<token, pendingExit>> => Sound
    BY <2>1, FrameStep, TokenSteps DEF Sound
  <2> QED
    BY <1>8, <2>2, ReturnSound DEF Recheck
<1>9. CASE Raises(c)
  BY <1>9, RaiseSound DEF Raises
<1> QED
  BY <1>1, <1>2, <1>3, <1>4, <1>5, <1>6, <1>7, <1>8, <1>9 DEF Step

\* The positions and the deals reported stay names of positions.
LEMMA PositionsStep ==
  ASSUME TypeInv, NEW c \in Closers, Step(c)
  PROVE  open' \subseteq Positions /\ reported' \subseteq Positions /\ strayed' = strayed
<1> USE DEF TypeInv, TypeOK
<1>d. close[c].at \in Working => close[c].deal \in Positions
  BY DEF HasDeal
<1>n. ASSUME NetOrder(close[c].side) PROVE open' \subseteq Positions
  BY <1>n DEF NetOrder, Positions
<1>1. CASE ForceNext(c) \/ NestNext(c) \/ NestEnds(c) \/ Find(c) \/ Raises(c)
  BY <1>1 DEF ForceNext, NestNext, NestEnds, Find, Raises
<1>2. CASE Delete(c)
  BY <1>2 DEF Delete
<1>3. CASE Verify(c)
  BY <1>3, <1>d DEF Verify, At, Working
<1>4. CASE Net(c)
  BY <1>4, <1>n DEF Net
<1>5. CASE Recheck(c)
  BY <1>5, <1>d DEF Recheck, At, Working
<1> QED
  BY <1>1, <1>2, <1>3, <1>4, <1>5 DEF Step

\* Every step of the system keeps the types.
LEMMA TypeStep == TypeInv /\ [Next]_vars => TypeInv'
<1> SUFFICES ASSUME TypeInv, [Next]_vars PROVE TypeInv'
  OBVIOUS
<1> USE DEF TypeInv, TypeOK
<1>1. ASSUME NEW c \in Closers, NEW p \in AtFirst, NEW kind \in AllKinds, Begin(c, p, kind)
      PROVE  TypeInv'
  <2> DEFINE f == [NoCall EXCEPT !.at = "find", !.kind = kind, !.deal = p,
                !.side = IF kind = "partial" THEN "BUY" ELSE "SELL", !.guarded = TRUE]
  <2>1. p \in Positions
    BY CloseAssumption DEF Positions
  <2>2. Fine(f)
    BY <2>1, NoCallFine DEF Fine, Frame, Places
  <2> QED
    BY <1>1, <2>2, FrameStep, TokenSteps DEF Begin
<1>2. ASSUME NEW c \in Closers, ForceTerminate(c) PROVE TypeInv'
  <2> DEFINE f == [NoCall EXCEPT !.at = "next", !.kind = "force", !.todo = open]
  <2>1. Fine(f)
    BY NoCallFine DEF Fine, Frame, Places, AllKinds, Working
  <2>2. strayed' \in BOOLEAN
    BY <1>2 DEF ForceTerminate, InFlight
  <2> QED
    BY <1>2, <2>1, <2>2, FrameStep, TokenSteps DEF ForceTerminate
<1>3. ASSUME NEW c \in Closers, Step(c) PROVE TypeInv'
  BY <1>3, StepSound, PositionsStep DEF Sound
<1>4. ASSUME NEW p \in Positions, StopHit(p) PROVE TypeInv'
  BY <1>4 DEF StopHit, HasDeal, ExitTypeOK
<1>5. CASE Tick
  <2>1. \A c \in Closers : Fine(close'[c])
    <3> SUFFICES ASSUME NEW c \in Closers PROVE Fine(close'[c])
      OBVIOUS
    <3>1. Fine(close[c]) /\ ExitTimeout \in Nat
      BY ExitAssumption DEF Fine, HasDeal
    <3>2. CASE close[c].guarded /\ close[c].held <= ExitTimeout
      <4>1. close'[c] = [close[c] EXCEPT !.held = @ + 1]
        BY <1>5, <3>2 DEF Tick
      <4>2. close[c].held + 1 \in 0 .. ExitTimeout + 1
        BY <3>1, <3>2 DEF Fine, Frame
      <4> QED
        BY <3>1, <4>1, <4>2 DEF Fine, Frame
    <3>3. CASE ~(close[c].guarded /\ close[c].held <= ExitTimeout)
      BY <1>5, <3>1, <3>3 DEF Tick
    <3> QED
      BY <3>2, <3>3
  <2>2. close' \in [Closers -> Frame] /\ HasDeal'
    BY <1>5, <2>1 DEF Tick, Fine, HasDeal
  <2>3. strayed' \in BOOLEAN
    BY <1>5 DEF Tick
  <2> QED
    BY <1>5, <2>2, <2>3, TokenSteps DEF Tick
<1>6. CASE UNCHANGED vars
  BY <1>6 DEF vars, HasDeal, ExitTypeOK
<1> QED
  BY <1>1, <1>2, <1>3, <1>4, <1>5, <1>6 DEF Next

\* Hence they hold in every reachable state.
LEMMA TypeAlways == Spec => []TypeInv
  BY TypeInit, TypeStep, PTL DEF Spec

\* Tokens, frames, positions and reports keep values of their type: no attempt
\* past the last, no position worked on that has no name.
THEOREM Typed == Spec => []TypeOK
<1>1. TypeInv => TypeOK
  BY DEF TypeInv
<1> QED
  BY <1>1, TypeAlways, PTL

-----------------------------------------------------------------------------

\* A position reported as verified closed is closed and never opens again,
\* whatever the broker answers, loses or refuses.
THEOREM VerifiedIsTrue == Spec => []ReportedIsClosed
<1>1. Init => ReportedIsClosed
  BY DEF Init, ReportedIsClosed
<1>2. TypeInv /\ ReportedIsClosed /\ [Next]_vars => ReportedIsClosed'
  <2> SUFFICES ASSUME TypeInv, ReportedIsClosed, [Next]_vars PROVE ReportedIsClosed'
    OBVIOUS
  <2> USE DEF ReportedIsClosed
  <2>1. ASSUME NEW c \in Closers, Step(c) PROVE ReportedIsClosed'
    <3>1. CASE Verify(c)
      BY <2>1, <3>1 DEF Verify
    <3>2. CASE Recheck(c)
      BY <2>1, <3>2 DEF Recheck
    <3>3. CASE Net(c)
      <4>1. ASSUME NetOrder(close[c].side), UNCHANGED reported PROVE ReportedIsClosed'
        BY <4>1 DEF NetOrder
      <4> QED
        BY <3>3, <4>1 DEF Net
    <3>4. CASE ~(Verify(c) \/ Recheck(c) \/ Net(c))
      BY <2>1, <3>4 DEF Step, ForceNext, NestNext, NestEnds, Find, Delete, Raises
    <3> QED
      BY <3>1, <3>2, <3>3, <3>4
  <2>2. CASE Tick \/ UNCHANGED vars \/ \E p \in Positions : StopHit(p)
    BY <2>2 DEF Tick, vars, StopHit
  <2>3. ASSUME NEW c \in Closers,
               ForceTerminate(c) \/ \E p \in AtFirst, kind \in AllKinds : Begin(c, p, kind)
        PROVE  ReportedIsClosed'
    BY <2>3 DEF ForceTerminate, Begin
  <2> QED
    BY <2>1, <2>2, <2>3 DEF Next
<1> QED
  BY <1>1, <1>2, TypeAlways, PTL DEF Spec

-----------------------------------------------------------------------------
(* The token.  As long as no call has strayed, the token of the epic is as old *)
(* as the only call that holds one.                                        *)

Held ==
  \/ strayed
  \/ /\ \A c \in Closers : close[c].guarded =>
          token = close[c].held /\ close[c].held <= ExitTimeout
     /\ \A c \in Closers, d \in Closers :
          c # d => ~(close[c].guarded /\ close[d].guarded)

\* Only a forced close works without a token; a nested close has one, and takes
\* it beside its caller's only after a call has strayed.
Shape(f) ==
  /\ f.at # "idle" /\ f.kind # "force" => f.guarded
  /\ f.inner => f.guarded
  /\ f.inner /\ f.kind # "force" => strayed

TokenInv == Held /\ \A c \in Closers : Shape(close[c])

\* The call goes on with what it holds.
LEMMA Continues ==
  ASSUME TypeInv, TokenInv, NEW c \in Closers, NEW f, Become(c, f),
         close[c].at # "idle", f.kind = close[c].kind, f.inner = close[c].inner,
         f.guarded = close[c].guarded, f.held = close[c].held,
         UNCHANGED <<token, strayed>>
  PROVE  TokenInv'
<1>1. \A d \in Closers : close'[d] = IF d = c THEN f ELSE close[d]
  BY DEF Become, TypeInv, TypeOK
<1>2. Held'
  BY <1>1 DEF TokenInv, Held
<1>3. \A d \in Closers : Shape(close[d])'
  BY <1>1 DEF TokenInv, Shape
<1> QED
  BY <1>2, <1>3 DEF TokenInv

\* The call ends: whoever drops the token has held it.
LEMMA Ends ==
  ASSUME TypeInv, TokenInv, NEW c \in Closers, NEW f, Become(c, f), Shape(f),
         f.guarded => strayed, UNCHANGED strayed,
         UNCHANGED token \/ close[c].guarded
  PROVE  TokenInv'
<1>1. \A d \in Closers : close'[d] = IF d = c THEN f ELSE close[d]
  BY DEF Become, TypeInv, TypeOK
<1>2. Held'
  BY <1>1 DEF TokenInv, Held
<1>3. \A d \in Closers : Shape(close[d])'
  BY <1>1 DEF TokenInv, Shape
<1> QED
  BY <1>2, <1>3 DEF TokenInv

\* The call takes the token: nobody else has one, unless a call has strayed.
LEMMA Takes ==
  ASSUME TypeInv, TokenInv, NEW c \in Closers, NEW f, Become(c, f), Shape(f),
         f.guarded, f.held = 0, UNCHANGED strayed, TryBeginExit
  PROVE  TokenInv'
<1>1. \A d \in Closers : close'[d] = IF d = c THEN f ELSE close[d]
  BY DEF Become, TypeInv, TypeOK
<1>2. strayed \/ \A d \in Closers : ~close[d].guarded
  BY DEF TokenInv, Held, TryBeginExit, InFlight
<1>3. Held'
  BY <1>1, <1>2, ExitAssumption DEF Held, TryBeginExit
<1>4. \A d \in Closers : Shape(close[d])'
  BY <1>1 DEF TokenInv, Shape
<1> QED
  BY <1>3, <1>4 DEF TokenInv

\* Ending a call keeps the invariant of the tokens.
LEMMA ReturnHeld ==
  ASSUME TypeInv, TokenInv, NEW c \in Closers, NEW v, Return(c, v), UNCHANGED strayed,
         close[c].at # "idle"
  PROVE  TokenInv'
<1>1. close[c] \in Frame /\ Shape(close[c])
  BY DEF TypeInv, TypeOK, TokenInv
<1>2. Shape(After(c)) /\ (After(c).guarded => strayed)
  <2>1. CASE close[c].inner
    BY <1>1, <2>1 DEF After, Shape, Frame
  <2>2. CASE ~close[c].inner /\ close[c].kind = "force"
    BY <2>2 DEF After, Shape, NoCall
  <2>3. CASE ~close[c].inner /\ close[c].kind # "force"
    BY <2>3 DEF After, Shape, NoCall
  <2> QED
    BY <2>1, <2>2, <2>3
<1>3. UNCHANGED token \/ close[c].guarded
  BY <1>1 DEF Return, Shape
<1> QED
  BY <1>2, <1>3, Ends DEF Return

\* Leaving a call by an exception keeps the invariant of the tokens.
LEMMA RaiseHeld ==
  ASSUME TypeInv, TokenInv, NEW c \in Closers, Raise(c), UNCHANGED strayed
  PROVE  TokenInv'
<1> DEFINE f == IF close[c].kind = "force"
                THEN [NoCall EXCEPT !.at = "next", !.kind = "force", !.todo = close[c].todo]
                ELSE NoCall
<1>1. Shape(f) /\ ~f.guarded
  BY DEF Shape, NoCall
<1>2. UNCHANGED token \/ close[c].guarded
  BY DEF Raise
<1> QED
  BY <1>1, <1>2, Ends DEF Raise

\* Going on within a close keeps the invariant of the tokens.
LEMMA GoHeld ==
  ASSUME TypeInv, TokenInv, NEW c \in Closers, NEW place, Go(c, place),
         close[c].at # "idle", UNCHANGED <<token, strayed>>
  PROVE  TokenInv'
<1>1. close[c] \in Frame
  BY DEF TypeInv, TypeOK
<1> QED
  BY <1>1, Continues DEF Go, Frame

\* Sending a request again keeps the invariant of the tokens.
LEMMA SendHeld ==
  ASSUME TypeInv, TokenInv, NEW c \in Closers, SendAgain(c), close[c].at # "idle",
         UNCHANGED strayed
  PROVE  TokenInv'
<1>1. close[c] \in Frame
  BY DEF TypeInv, TypeOK
<1>2. CASE close[c].attempt < MaxRetries
  BY <1>1, <1>2, Continues DEF SendAgain, Frame
<1>3. CASE ~(close[c].attempt < MaxRetries)
  BY <1>3, RaiseHeld DEF SendAgain
<1> QED
  BY <1>2, <1>3

\* Every step of a close keeps the invariant of the tokens.
LEMMA StepHeld ==
  ASSUME TypeInv, TokenInv, NEW c \in Closers, Step(c) PROVE TokenInv'
<1>f. close[c] \in Frame /\ Shape(close[c]) /\ UNCHANGED strayed
  BY PositionsStep DEF TypeInv, TypeOK, TokenInv
<1>1. CASE ForceNext(c)
  <2>1. CASE close[c].todo = {}
    <3>1. Shape(NoCall) /\ ~NoCall.guarded
      BY DEF Shape, NoCall
    <3> QED
      BY <1>1, <1>f, <2>1, <3>1, Ends DEF ForceNext
  <2>2. CASE close[c].todo # {}
    BY <1>1, <1>f, <2>2, Continues DEF ForceNext, At, Frame
  <2> QED
    BY <2>1, <2>2
<1>2. CASE NestNext(c)
  <2>1. PICK p \in close[c].nest : NestNext(c)!(p)
    BY <1>2 DEF NestNext
  <2> DEFINE rest == close[c].nest \ {p}
             f == [close[c] EXCEPT !.nest = rest]
             g == [close[c] EXCEPT !.at = "find", !.deal = p, !.attempt = 1,
                          !.side = Against(p), !.guarded = TRUE, !.held = 0,
                          !.inner = TRUE, !.nest = rest]
  <2>2. CASE Become(c, f) /\ UNCHANGED token
    BY <1>f, <2>1, <2>2, Continues DEF At, Frame
  <2>3. CASE TryBeginExit /\ Become(c, g)
    <3>1. g.guarded /\ g.held = 0 /\ g.kind = close[c].kind
      BY <1>f DEF Frame
    <3>2. strayed \/ close[c].kind = "force"
      BY <1>f, <2>1, <2>3 DEF TokenInv, Held, Shape, TryBeginExit, InFlight, At
    <3>3. Shape(g)
      BY <3>1, <3>2 DEF Shape
    <3> QED
      BY <1>f, <2>3, <3>1, <3>3, Takes
  <2> QED
    BY <2>1, <2>2, <2>3
<1>3. CASE NestEnds(c)
  BY <1>3, <1>f, ReturnHeld DEF NestEnds, At
<1>4. CASE Find(c)
  BY <1>4, <1>f, Continues DEF Find, At, Frame
<1>5. CASE Delete(c)
  BY <1>5, <1>f, GoHeld, SendHeld DEF Delete, At
<1>6. CASE Verify(c)
  BY <1>6, <1>f, GoHeld, ReturnHeld DEF Verify, At
<1>7. CASE Net(c)
  BY <1>7, <1>f, GoHeld, SendHeld, RaiseHeld DEF Net, At
<1>8. CASE Recheck(c)
  <2>1. Become(c, [close[c] EXCEPT !.at = "nest", !.nest = open])
          /\ UNCHANGED token => TokenInv'
    BY <1>8, <1>f, Continues DEF Recheck, At, Frame
  <2> QED
    BY <1>8, <1>f, <2>1, ReturnHeld DEF Recheck, At
<1>9. CASE Raises(c)
  BY <1>9, <1>f, RaiseHeld DEF Raises
<1> QED
  BY <1>1, <1>2, <1>3, <1>4, <1>5, <1>6, <1>7, <1>8, <1>9 DEF Step

\* Every step of the system keeps the invariant of the tokens.
LEMMA TokenStep == TypeInv /\ TokenInv /\ [Next]_vars => TokenInv'
<1> SUFFICES ASSUME TypeInv, TokenInv, [Next]_vars PROVE TokenInv'
  OBVIOUS
<1>1. ASSUME NEW c \in Closers, NEW p \in AtFirst, NEW kind \in AllKinds, Begin(c, p, kind)
      PROVE  TokenInv'
  <2> DEFINE f == [NoCall EXCEPT !.at = "find", !.kind = kind, !.deal = p,
                !.side = IF kind = "partial" THEN "BUY" ELSE "SELL", !.guarded = TRUE]
  <2>1. Shape(f) /\ f.guarded /\ f.held = 0
    BY DEF Shape, NoCall
  <2> QED
    BY <1>1, <2>1, Takes DEF Begin
<1>2. ASSUME NEW c \in Closers, ForceTerminate(c) PROVE TokenInv'
  <2> DEFINE f == [NoCall EXCEPT !.at = "next", !.kind = "force", !.todo = open]
  <2>1. \A d \in Closers : close'[d] = IF d = c THEN f ELSE close[d]
    BY <1>2 DEF ForceTerminate, Become, TypeInv, TypeOK
  <2>2. strayed' \/ \A d \in Closers : ~close[d].guarded
    BY <1>2 DEF ForceTerminate, TokenInv, Held, InFlight
  <2>3. ~f.guarded /\ ~f.inner /\ f.kind = "force"
    BY DEF NoCall
  <2>4. Held'
    BY <2>1, <2>2, <2>3 DEF Held
  <2>5. strayed => strayed'
    BY <1>2 DEF ForceTerminate
  <2>6. \A d \in Closers : Shape(close[d])'
    BY <2>1, <2>3, <2>5 DEF TokenInv, Shape
  <2> QED
    BY <2>4, <2>6 DEF TokenInv
<1>3. ASSUME NEW c \in Closers, Step(c) PROVE TokenInv'
  BY <1>3, StepHeld
<1>4. ASSUME NEW p \in Positions, StopHit(p) PROVE TokenInv'
  BY <1>4 DEF StopHit, TokenInv, Held, Shape
<1>5. CASE Tick
  <2>1. \A d \in Closers : /\ close'[d].guarded = close[d].guarded
                           /\ close'[d].inner = close[d].inner
                           /\ close'[d].kind = close[d].kind
                           /\ close'[d].at = close[d].at
    BY <1>5 DEF Tick, TypeInv, TypeOK, Frame
  <2>2. strayed => strayed'
    BY <1>5 DEF Tick
  <2>3. Held'
    <3> SUFFICES ASSUME ~strayed' PROVE Held'
      BY DEF Held
    <3>1. ASSUME NEW d \in Closers, close'[d].guarded
          PROVE  token' = close'[d].held /\ close'[d].held <= ExitTimeout
      <4>1. close[d].guarded /\ token = close[d].held /\ close[d].held <= ExitTimeout
        BY <2>1, <2>2, <3>1 DEF TokenInv, Held
      <4>2. close'[d] = [close[d] EXCEPT !.held = @ + 1] /\ token' = token + 1
        BY <1>5, <4>1 DEF Tick, AgeExit
      <4>3. close[d] \in Frame /\ ExitTimeout \in Nat
        BY ExitAssumption DEF TypeInv, TypeOK
      <4>4. close'[d].held = close[d].held + 1
        BY <4>2, <4>3 DEF Frame
      <4>5. close[d].held \in Nat
        BY <4>3 DEF Frame
      <4>6. ~(close'[d].held > ExitTimeout)
        BY <1>5 DEF Tick
      <4> QED
        BY <4>1, <4>2, <4>3, <4>4, <4>5, <4>6
    <3>2. \A c \in Closers, d \in Closers :
            c # d => ~(close'[c].guarded /\ close'[d].guarded)
      BY <2>1, <2>2 DEF TokenInv, Held
    <3> QED
      BY <3>1, <3>2 DEF Held
  <2>4. \A d \in Closers : Shape(close[d])'
    BY <2>1, <2>2 DEF TokenInv, Shape
  <2> QED
    BY <2>3, <2>4 DEF TokenInv
<1>6. CASE UNCHANGED vars
  BY <1>6 DEF vars, TokenInv, Held, Shape
<1> QED
  BY <1>1, <1>2, <1>3, <1>4, <1>5, <1>6 DEF Next

\* Two threads never hold a token of the epic at one time until a call outlives
\* its token or somebody forces a close, whatever is raised, lost or nested.
THEOREM OneAtATime == Spec => []OneCloser
<1>1. Init => TokenInv
  BY DEF Init, TokenInv, Held, Shape, NoCall
<1>2. TokenInv => OneCloser
  BY DEF TokenInv, Held, OneCloser
<1> QED
  BY <1>1, <1>2, TypeAlways, TokenStep, PTL DEF Spec

=============================================================================
