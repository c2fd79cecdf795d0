--------------------------- MODULE EntryInflight ---------------------------
(***************************************************************************)
(* execution/entry_inflight.py: the process-wide table of per-epic entry   *)
(* tokens.  A token is taken by try_begin_entry before an order worker is  *)
(* started and dropped by clear_entry; it protects an epic from a second   *)
(* entry only while it is younger than EntryTimeout.                       *)
(*                                                                         *)
(* Every operation below is one critical section of entry_inflight._lock.  *)
(* Ages are counted in clock ticks and saturate at AgeCap.  The direction, *)
(* the size and the deal reference of a token are never read by the code   *)
(* that decides, so a token is its owner and its age; the owner stands for *)
(* the identity of the order that created the record.                      *)
(***************************************************************************)
EXTENDS AgentBase

CONSTANTS NoEntry,        \* "no token" marker
          EntryTimeout    \* DEFAULT_ENTRY_TIMEOUT_SEC, in ticks

VARIABLE entries          \* _entries: epic -> token

ASSUME EntryAssumption ==
  /\ EntryTimeout \in Nat /\ EntryTimeout < AgeCap
  /\ NoEntry \notin [owner : Orders, age : 0 .. AgeCap]

Token == [owner : Orders, age : 0 .. AgeCap]

EntryTypeOK == entries \in [Epics -> Token \cup {NoEntry}]

EntryInit == entries = [e \in Epics |-> NoEntry]

Expired(token) == token.age > EntryTimeout

\* has_entry_in_flight: a token that exists and has not timed out.
InFlight(e) == entries[e] # NoEntry /\ ~Expired(entries[e])

\* A token in the table whose owner is order o.
Owns(o, e) == entries[e] # NoEntry /\ entries[e].owner = o

\* Wrong form of TryBeginEntry: a live token is replaced.
TryBeginUnchecked(e, o) ==
  entries' = [entries EXCEPT ![e] = [owner |-> o, age |-> 0]]

\* try_begin_entry when it returns True: an absent or expired token is
\* replaced by a fresh one.
TryBeginEntry(e, o) ==
  /\ ~InFlight(e)
  /\ entries' = [entries EXCEPT ![e] = [owner |-> o, age |-> 0]]

\* clear_entry followed by try_begin_entry, the forced path of fractional lots.
ForceBeginEntry(e, o) ==
  entries' = [entries EXCEPT ![e] = [owner |-> o, age |-> 0]]

\* clear_entry is keyed by the epic alone: it drops whoever's token is there.
ClearEntry(e) == entries' = [entries EXCEPT ![e] = NoEntry]

ClearEntries(es) ==
  entries' = [e \in Epics |-> IF e \in es THEN NoEntry ELSE entries[e]]

\* One tick of the clock (external: the tokens keep a creation time).
AgeEntries ==
  entries' = [e \in Epics |->
                IF entries[e] = NoEntry \/ entries[e].age = AgeCap
                THEN entries[e]
                ELSE [entries[e] EXCEPT !.age = @ + 1]]
=============================================================================
