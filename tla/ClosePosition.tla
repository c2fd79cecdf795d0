--------------------------- MODULE ClosePosition ---------------------------
(***************************************************************************)
(* Closing the positions of one epic: IGRestClient.close_position with     *)
(* _do_close_position and flatten_epic_positions, called by several        *)
(* threads, force_terminate_position of manual_intervention, and the       *)
(* broker.  Every position has the same size: the size a caller asks for   *)
(* is replaced by the broker's.                                            *)
(***************************************************************************)
EXTENDS ExitInflight, FiniteSets

CONSTANTS Closers,        \* threads that close
          Long, Short,    \* names of BUY and of SELL positions of the epic
          AtFirst,        \* the positions open at the start, all BUY
          MaxRetries,     \* max_retries of the client
          Kinds,          \* which callers there are
          Faults          \* which failures happen

VARIABLES open,           \* the positions at the broker
          pendingExit,    \* an EXIT record of the epic in the pending table
          close,          \* what each closer is doing
          reported,       \* history: deals a close reported verified_closed
          strayed         \* history: a call outlived its token, or was forced

\* reply: a request is applied, its reply is lost, and it is sent again.
\* raise: a request, a read or a confirm raises.  reject: the broker refuses.
AllFaults == {"reply", "raise", "reject"}
\* flatten: a guarded close that verifies.  partial: _apply_partial_close, which
\* does not verify.  force: force_terminate_position.
AllKinds == {"flatten", "partial", "force"}

Positions == Long \cup Short
None == "none"

ASSUME CloseAssumption ==
  /\ Long \cap Short = {} /\ AtFirst \subseteq Long /\ None \notin Positions
  /\ MaxRetries \in Nat \ {0} /\ Kinds \subseteq AllKinds /\ Faults \subseteq AllFaults

vars == <<token, open, pendingExit, close, reported, strayed>>

Places == {"idle", "find", "delete", "verify", "net", "recheck", "nest", "next"}

\* One call: the position it closes, the side of its net order, the attempt of
\* the present request, whether it holds a token and for how long, whether it is
\* a close nested in flatten_epic_positions, and what force_terminate and
\* flatten have still to visit.
Frame == [at : Places, kind : AllKinds, deal : Positions \cup {None},
          side : {"BUY", "SELL"}, attempt : 1 .. MaxRetries, guarded : BOOLEAN,
          held : 0 .. ExitTimeout + 1, inner : BOOLEAN,
          todo : SUBSET Positions, nest : SUBSET Positions]
NoCall == [at |-> "idle", kind |-> "flatten", deal |-> None, side |-> "SELL",
           attempt |-> 1, guarded |-> FALSE, held |-> 0, inner |-> FALSE,
           todo |-> {}, nest |-> {}]

Init ==
  /\ ExitInit /\ open = AtFirst /\ pendingExit = FALSE
  /\ close = [c \in Closers |-> NoCall] /\ reported = {} /\ strayed = FALSE

At(c, place) == close[c].at = place
Become(c, frame) == close' = [close EXCEPT ![c] = frame]
Go(c, place) == Become(c, [close[c] EXCEPT !.at = place, !.attempt = 1])

\* The side of the order that closes a position.
Against(p) == IF p \in Long THEN "SELL" ELSE "BUY"

-----------------------------------------------------------------------------
(* Entering a close.                                                       *)

\* close_position of a position the caller believes to be open, from a row or a
\* list it has read earlier.  A caller that finds a live token returns at once.
Begin(c, p, kind) ==
  /\ At(c, "idle") /\ p \in AtFirst /\ kind \in Kinds \ {"force"} /\ TryBeginExit
  /\ Become(c, [NoCall EXCEPT !.at = "find", !.kind = kind, !.deal = p,
                !.side = IF kind = "partial" THEN "BUY" ELSE "SELL",
                !.guarded = TRUE])
  /\ UNCHANGED <<open, pendingExit, reported, strayed>>

\* force_terminate_position drops the token and lists the epic.
ForceTerminate(c) ==
  /\ At(c, "idle") /\ "force" \in Kinds /\ open # {} /\ ClearExit
  /\ Become(c, [NoCall EXCEPT !.at = "next", !.kind = "force", !.todo = open])
  /\ strayed' = (strayed \/ InFlight)
  /\ UNCHANGED <<open, pendingExit, reported>>

\* It then closes what it has listed one by one, without a token.
ForceNext(c) ==
  /\ At(c, "next")
  /\ IF close[c].todo = {} THEN Become(c, NoCall)
     ELSE \E p \in close[c].todo :
       Become(c, [close[c] EXCEPT !.at = "find", !.deal = p, !.attempt = 1,
                  !.side = Against(p), !.todo = @ \ {p}])
  /\ UNCHANGED <<token, open, pendingExit, reported, strayed>>

\* flatten_epic_positions, inside a close whose net order left the epic open:
\* one round over the list (the code makes three).  A live token, most often
\* the caller's own, turns the nested close away.
NestNext(c) ==
  \E p \in close[c].nest :
    LET rest == close[c].nest \ {p} IN
    /\ At(c, "nest")
    /\ \/ /\ InFlight /\ Become(c, [close[c] EXCEPT !.nest = rest])
          /\ UNCHANGED token
       \/ /\ TryBeginExit
          /\ Become(c, [close[c] EXCEPT !.at = "find", !.deal = p, !.attempt = 1,
                        !.side = Against(p), !.guarded = TRUE, !.held = 0,
                        !.inner = TRUE, !.nest = rest])
    /\ UNCHANGED <<open, pendingExit, reported, strayed>>

-----------------------------------------------------------------------------
(* Leaving a close.                                                        *)

\* The frame after the present close: a nested one goes back to its list.
After(c) ==
  CASE close[c].inner -> [close[c] EXCEPT !.at = "nest", !.inner = FALSE,
                                          !.guarded = close[c].kind # "force"]
    [] ~close[c].inner /\ close[c].kind = "force" ->
         [NoCall EXCEPT !.at = "next", !.kind = "force", !.todo = close[c].todo]
    [] OTHER -> NoCall

\* close_position returns: a verified close resolves the record of the epic, and
\* the token of the epic is cleared in any case.
Return(c, verified) ==
  /\ Become(c, After(c))
  /\ IF close[c].guarded \/ close[c].inner
     THEN /\ ClearExit /\ pendingExit' = (pendingExit /\ ~verified)
     ELSE UNCHANGED <<token, pendingExit>>

\* It raises: the exit is marked pending; the exception leaves a nested close
\* and its caller.
Raise(c) ==
  /\ Become(c, IF close[c].kind = "force"
               THEN [NoCall EXCEPT !.at = "next", !.kind = "force",
                                   !.todo = close[c].todo]
               ELSE NoCall)
  /\ IF close[c].guarded THEN ClearExit /\ pendingExit' = TRUE
     ELSE UNCHANGED <<token, pendingExit>>

-----------------------------------------------------------------------------
(* _do_close_position.                                                     *)

Raises(c) ==
  /\ close[c].at \in {"find", "delete", "verify", "net", "recheck"}
  /\ "raise" \in Faults /\ Raise(c) /\ UNCHANGED <<open, reported, strayed>>

\* find_open_position corrects the side; a missing position is not an error.
Find(c) ==
  /\ At(c, "find")
  /\ Become(c, [close[c] EXCEPT !.at = "delete",
                !.side = IF close[c].deal \in open THEN Against(close[c].deal) ELSE @])
  /\ UNCHANGED <<token, open, pendingExit, reported, strayed>>

\* Wrong form of SendAgain: the attempts are not counted.
SendForEver(c) == close' = close /\ UNCHANGED <<token, pendingExit>>

\* Wrong form of SendAgain: one attempt too many.
SendOnceMore(c) ==
  IF close[c].attempt <= MaxRetries
  THEN Become(c, [close[c] EXCEPT !.attempt = @ + 1]) /\ UNCHANGED <<token, pendingExit>>
  ELSE Raise(c)

\* The reply of an applied request is lost: it is sent again, or it raises.
SendAgain(c) ==
  IF close[c].attempt < MaxRetries
  THEN Become(c, [close[c] EXCEPT !.attempt = @ + 1]) /\ UNCHANGED <<token, pendingExit>>
  ELSE Raise(c)

\* DELETE /positions/otc.  An answer 2xx leads to the check, any other to the
\* net order; the broker may refuse in either way, and answer for a position
\* that is gone in either way.
Delete(c) ==
  LET p == close[c].deal IN
  /\ At(c, "delete")
  /\ \/ /\ p \in open /\ open' = open \ {p}
        /\ Go(c, "verify") /\ UNCHANGED <<token, pendingExit>>
     \/ p \in open /\ "reply" \in Faults /\ open' = open \ {p} /\ SendAgain(c)
     \/ /\ p \notin open \/ "reject" \in Faults
        /\ \E place \in {"verify", "net"} : Go(c, place)
        /\ UNCHANGED <<token, open, pendingExit>>
  /\ UNCHANGED <<reported, strayed>>

\* Wrong form of Verify: an accepted DELETE is a closed position.
VerifyNothing(c) ==
  /\ At(c, "verify") /\ Return(c, TRUE)
  /\ reported' = reported \cup {close[c].deal} /\ UNCHANGED <<open, strayed>>

\* After the confirm: is_position_open, unless the caller does not verify.
Verify(c) ==
  LET unchecked == close[c].kind = "partial" /\ ~close[c].inner
      p == close[c].deal
  IN /\ At(c, "verify")
     /\ IF unchecked \/ p \notin open
        THEN /\ Return(c, TRUE)
             /\ reported' = IF unchecked THEN reported ELSE reported \cup {p}
        ELSE Go(c, "net") /\ UNCHANGED <<token, pendingExit, reported>>
     /\ UNCHANGED <<open, strayed>>

\* What a MARKET order with forceOpen=false does (external): it closes a position
\* of the other side, and opens one when there is none.
NetOrder(side) ==
  LET opposite == open \cap (IF side = "SELL" THEN Long ELSE Short)
      fresh == (IF side = "SELL" THEN Short ELSE Long) \ (open \cup reported \cup AtFirst)
  IN IF opposite # {} THEN \E p \in opposite : open' = open \ {p}
     ELSE IF fresh = {} THEN UNCHANGED open   \* bound: the names have run out
     ELSE \E p \in fresh : open' = open \cup {p}

\* POST /positions/otc, the net close.
Net(c) ==
  /\ At(c, "net")
  /\ \/ NetOrder(close[c].side) /\ Go(c, "recheck") /\ UNCHANGED <<token, pendingExit>>
     \/ "reply" \in Faults /\ NetOrder(close[c].side) /\ SendAgain(c)
     \/ /\ "reject" \in Faults /\ UNCHANGED open
        /\ \/ Go(c, "recheck") /\ UNCHANGED <<token, pendingExit>>
           \/ Raise(c)
  /\ UNCHANGED <<reported, strayed>>

\* The check after the net order: the deal, then every position of the epic.  A
\* nested close finds its own token in the way of another flatten.
Recheck(c) ==
  LET unchecked == close[c].kind = "partial" /\ ~close[c].inner IN
  /\ At(c, "recheck")
  /\ CASE unchecked -> Return(c, TRUE) /\ UNCHANGED reported
       [] ~unchecked /\ open = {} ->
            Return(c, TRUE) /\ reported' = reported \cup {close[c].deal}
       [] ~unchecked /\ open # {} /\ close[c].inner ->
            Return(c, FALSE) /\ UNCHANGED reported
       [] OTHER -> /\ Become(c, [close[c] EXCEPT !.at = "nest", !.nest = open])
                   /\ UNCHANGED <<token, pendingExit, reported>>
  /\ UNCHANGED <<open, strayed>>

\* The flatten is over: verified_closed says that the epic is empty.
NestEnds(c) ==
  /\ At(c, "nest") /\ close[c].nest = {} /\ Return(c, open = {})
  /\ UNCHANGED <<open, reported, strayed>>

-----------------------------------------------------------------------------

\* The broker closes a position at its stop or its limit (external).
StopHit(p) ==
  /\ p \in open /\ open' = open \ {p}
  /\ UNCHANGED <<token, pendingExit, close, reported, strayed>>

\* About half a minute: a call may outlive its token.
Tick ==
  /\ AgeExit
  /\ close' = [c \in Closers |->
       IF close[c].guarded /\ close[c].held <= ExitTimeout
       THEN [close[c] EXCEPT !.held = @ + 1] ELSE close[c]]
  /\ strayed' = (strayed \/ \E c \in Closers : close'[c].held > ExitTimeout)
  /\ UNCHANGED <<open, pendingExit, reported>>

Step(c) ==
  \/ ForceNext(c) \/ NestNext(c) \/ NestEnds(c) \/ Find(c) \/ Delete(c)
  \/ Verify(c) \/ Net(c) \/ Recheck(c) \/ Raises(c)

Next ==
  \/ \E c \in Closers :
       \/ \E p \in AtFirst, kind \in AllKinds : Begin(c, p, kind)
       \/ ForceTerminate(c) \/ Step(c)
  \/ \E p \in Positions : StopHit(p)
  \/ Tick

Spec == Init /\ [][Next]_vars

\* Every request, read and pause of a close ends.
FairSpec == Spec /\ \A c \in Closers : WF_vars(Step(c))

-----------------------------------------------------------------------------
(* Properties.                                                             *)

TypeOK ==
  /\ ExitTypeOK /\ open \subseteq Positions /\ pendingExit \in BOOLEAN
  /\ close \in [Closers -> Frame] /\ reported \subseteq Positions
  /\ strayed \in BOOLEAN

\* Two threads never close the same epic at one time, until a call outlives its
\* token or somebody forces a close: from then on one clears the other's token.
OneCloser ==
  \A c \in Closers, d \in Closers :
    c # d /\ close[c].guarded /\ close[d].guarded => strayed

\* A position reported as verified closed is closed, although the broker's
\* answers to the DELETE and to the net order prove nothing.
ReportedIsClosed == reported \cap open = {}

\* Every close comes to an end, whatever is lost, refused or left open.
ClosesEnd == \A c \in Closers : ~At(c, "idle") ~> At(c, "idle")
=============================================================================
