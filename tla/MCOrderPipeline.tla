-------------------------- MODULE MCOrderPipeline --------------------------
(***************************************************************************)
(* Values for OrderProperties.  The small instance has two orders of one   *)
(* epic; the large one a third order on another epic and in the other      *)
(* direction, and a cap that cannot hold all three; the trio has three     *)
(* orders of one epic, the pair one order on each of two; the lone order   *)
(* has the agent for itself.                                               *)
(***************************************************************************)
EXTENDS OrderProperties

CONSTANTS o1, o2, o3, e1, e2

SmallOrders == {o1, o2}
SmallEpicOf == [o \in SmallOrders |-> e1]
SmallDirOf == [o \in SmallOrders |-> "BUY"]
SmallRisk == [o \in SmallOrders |-> IF o = o1 THEN 1 ELSE 2]

LargeOrders == {o1, o2, o3}
LargeEpicOf == [o \in LargeOrders |-> IF o = o3 THEN e2 ELSE e1]
LargeDirOf == [o \in LargeOrders |-> IF o = o3 THEN "SELL" ELSE "BUY"]
LargeRisk == [o \in LargeOrders |-> IF o = o2 THEN 2 ELSE 1]

TrioOrders == {o1, o2, o3}
TrioEpicOf == [o \in TrioOrders |-> e1]
TrioDirOf == [o \in TrioOrders |-> "BUY"]
TrioRisk == [o \in TrioOrders |-> 1]

PairOrders == {o1, o3}
PairEpicOf == [o \in PairOrders |-> IF o = o3 THEN e2 ELSE e1]
PairDirOf == [o \in PairOrders |-> "BUY"]
PairRisk == [o \in PairOrders |-> 1]

LoneOrders == {o1}
LoneEpicOf == [o \in LoneOrders |-> e1]
LoneDirOf == [o \in LoneOrders |-> "BUY"]
LoneRisk == [o \in LoneOrders |-> 2]
=============================================================================
