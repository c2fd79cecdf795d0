--------------------------- MODULE PendingOrders ---------------------------
(***************************************************************************)
(* execution/pending_order_reconcile.py and the stash of gate reservations *)
(* in execution/portfolio_hooks.py (_pending_release_params).              *)
(*                                                                         *)
(* An order whose broker outcome is unknown is recorded as "pending" under *)
(* its epic; while the record is live no further entry may be submitted    *)
(* for the epic.  A record made with pending_reconcile also stashes the    *)
(* execution parameters, so that the portfolio reservation can be released *)
(* later.  The two tables have separate critical sections in the code, but *)
(* each operation below is called as one statement by its callers.         *)
(***************************************************************************)
EXTENDS AgentBase

CONSTANTS NoPending,      \* "no record" marker
          NoStash,        \* "nothing stashed" marker
          HardExpiry      \* PENDING_HARD_EXPIRY_SEC, in ticks

VARIABLES pending,        \* _pending: epic -> record
          stash           \* _pending_release_params: epic -> order

OrderTypes == {"entry", "exit"}

PendingRecord == [order : Orders,          \* which order the reference belongs to
           type : OrderTypes,       \* order_type
           ref : BOOLEAN,           \* broker_deal_reference is not empty
           reconcile : BOOLEAN,     \* pending_reconcile
           age : 0 .. AgeCap]       \* now - local_created_at

ASSUME PendingAssumption ==
  /\ HardExpiry \in Nat /\ HardExpiry < AgeCap
  /\ NoPending \notin PendingRecord
  /\ NoStash \notin Orders

PendingTypeOK ==
  /\ pending \in [Epics -> PendingRecord \cup {NoPending}]
  /\ stash \in [Epics -> Orders \cup {NoStash}]

PendingInit ==
  /\ pending = [e \in Epics |-> NoPending]
  /\ stash = [e \in Epics |-> NoStash]

\* Wrong form of HasPending: the record never expires.
HasPendingForEver(e) == pending[e] # NoPending

\* has_pending: a record that exists and is not older than the hard expiry.
HasPending(e) == pending[e] # NoPending /\ pending[e].age <= HardExpiry

\* has_pending's side effect: an expired record is popped, its stash is not.
PopIfExpired(e) ==
  /\ pending' = [pending EXCEPT ![e] = IF HasPending(e) THEN @ ELSE NoPending]
  /\ UNCHANGED stash

\* mark_pending overwrites whatever record the epic has.  The parameters are
\* stashed only for a record that asks for reconciliation.
MarkPending(e, o, type, ref, reconcile) ==
  /\ pending' = [pending EXCEPT ![e] =
                   [order |-> o, type |-> type, ref |-> ref,
                    reconcile |-> reconcile, age |-> 0]]
  /\ stash' = IF reconcile THEN [stash EXCEPT ![e] = o] ELSE stash

\* resolve_pending: drop the record and, when there was one, the stash of the
\* same epic (clear_stashed_pending_portfolio), releasing nothing.
ResolveAll(es) ==
  LET hit == {e \in es : pending[e] # NoPending}
  IN /\ pending' = [e \in Epics |-> IF e \in hit THEN NoPending ELSE pending[e]]
     /\ stash' = [e \in Epics |-> IF e \in hit THEN NoStash ELSE stash[e]]

ResolvePending(e) == ResolveAll({e})

\* Wrong form of PopStashAndResolve: the stash is read, not popped.
ResolveKeepsStash(e) ==
  /\ pending' = [pending EXCEPT ![e] = NoPending]
  /\ UNCHANGED stash

\* release_stashed_pending_portfolio then resolve_pending: the stash is popped
\* in any case (its release is the caller's, it concerns the envelope).
PopStashAndResolve(e) ==
  /\ pending' = [pending EXCEPT ![e] = NoPending]
  /\ stash' = [stash EXCEPT ![e] = NoStash]

Older(rec) == IF rec = NoPending \/ rec.age = AgeCap
              THEN rec ELSE [rec EXCEPT !.age = @ + 1]

AgePending ==
  /\ pending' = [e \in Epics |-> Older(pending[e])]
  /\ UNCHANGED stash
=============================================================================
