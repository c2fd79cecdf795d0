------------------------------- MODULE MCRest -------------------------------
(***************************************************************************)
(* Values for RestProperties: a thread that asks for market data, one that *)
(* reads the account history, and one that confirms orders with priority.  *)
(***************************************************************************)
EXTENDS RestProperties

CONSTANTS quotes, history, confirms

AllThreads == {quotes, history, confirms}
TwoThreads == {quotes, history}
Categories3 == [c \in AllThreads |-> IF c = quotes THEN "market"
                                     ELSE IF c = history THEN "history"
                                     ELSE "orders"]
Categories2 == [c \in TwoThreads |-> IF c = quotes THEN "market" ELSE "history"]
=============================================================================
