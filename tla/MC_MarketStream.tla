--------------------------- MODULE MC_MarketStream ---------------------------
(* Constant values for the run of MarketStream. *)
EXTENDS MarketStream

(* A rejected event, one that leaves a side empty, and two that move the    *)
(* midpoint in steps of different size.                                     *)
Rejected == [error |-> TRUE, midpoint |-> NoMidpoint, flow |-> 0]
OneSided == [error |-> FALSE, midpoint |-> NoMidpoint, flow |-> 1]
Low == [error |-> FALSE, midpoint |-> 1, flow |-> -1]
High == [error |-> FALSE, midpoint |-> 3, flow |-> 2]
AllKinds == {Rejected, OneSided, Low, High}
=============================================================================
