------------------------------ MODULE BookTypes ------------------------------
(***************************************************************************)
(* The vocabulary of the order book that the C++ code and the RTL share:    *)
(* include/market/event.hpp and order_book.hpp, rtl/market_types_pkg.sv.    *)
(***************************************************************************)
EXTENDS Integers

CONSTANTS
  BookDepth,     \* kBookDepth = BOOK_DEPTH = 10
  MaxPrice,      \* bound: prices of the events are 0 .. MaxPrice ticks
  MaxQuantity,   \* 2^32 - 1: where quantities saturate
  AllowCrossed   \* allow_crossed_books, ALLOW_CROSSED_BOOKS

ASSUME BookAssumption ==
  /\ BookDepth \in Nat \ {0}
  /\ MaxPrice \in Nat
  /\ MaxQuantity \in Nat \ {0}
  /\ AllowCrossed \in BOOLEAN

Price == 1 .. MaxPrice
Quantity == 0 .. MaxQuantity
Side == {"Bid", "Ask"}
EventType == {"Add", "Update", "Cancel", "Trade"}

(* A MarketEvent, without its timestamp.  Price 0 stands for the prices     *)
(* that are not positive.                                                   *)
Event == [type : EventType, side : Side, price : 0 .. MaxPrice, quantity : Quantity]

(* The event a cleared event register holds. *)
NoEvent == [type |-> "Add", side |-> "Bid", price |-> 0, quantity |-> 0]

(* What is reported for an event that changes nothing. *)
NoFlow(error) == [error |-> error, order_flow |-> 0, trade_flow |-> 0]

(* validate_event; event_is_well_formed. *)
well_formed(e) == e.price > 0 /\ (e.quantity > 0 \/ e.type = "Update")

(* The order of a side: left is the better price. *)
before(s, left, right) == IF s = "Bid" THEN left > right ELSE left < right

side_sign(s) == IF s = "Bid" THEN 1 ELSE -1

saturated_add(left, right) ==
  IF left + right > MaxQuantity THEN MaxQuantity ELSE left + right
=============================================================================
