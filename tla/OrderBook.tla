------------------------------ MODULE OrderBook ------------------------------
(***************************************************************************)
(* OrderBook::apply (src/market/order_book.cpp): the C++ book, which the    *)
(* tests use as the oracle for the RTL.  A side is an array of BookDepth    *)
(* levels, best price first, unused slots last and zero.                    *)
(***************************************************************************)
EXTENDS BookTypes, FiniteSetsExt

VARIABLES
  levels,        \* levels_: [Side -> [Slot -> PriceLevel]]
  last_event,    \* the argument of the last call of apply()
  last_result    \* what it returned

orderBookVars == <<levels, last_event, last_result>>

Slot == 1 .. BookDepth
Unused == [price_ticks |-> 0, quantity |-> 0]

-----------------------------------------------------------------------------
(* lookup(): the first slot where the search stops, and whether it matches. *)
stop_slot(ls, s, price) ==
  Min({BookDepth + 1} \cup
      {i \in Slot : \/ ls[i].quantity = 0
                    \/ before(s, price, ls[i].price_ticks)
                    \/ ls[i].price_ticks = price})

lookup(ls, s, price) ==
  LET i == stop_slot(ls, s, price)
  IN [found |-> i \in Slot /\ ls[i].quantity # 0 /\ ls[i].price_ticks = price,
      index |-> i]

remove(ls, index) ==
  [i \in Slot |-> CASE i < index -> ls[i]
                    [] i >= index /\ i < BookDepth -> ls[i + 1]
                    [] OTHER -> Unused]

(* A mistake: the level at the insertion point is overwritten. *)
insert_without_shift(ls, index, level) == [i \in Slot |-> IF i = index THEN level ELSE ls[i]]

(* At BookDepth + 1 the level is worse than the visible depth: no change. *)
insert(ls, index, level) ==
  [i \in Slot |-> CASE i < index -> ls[i]
                    [] i = index -> level
                    [] OTHER -> ls[i - 1]]

(* The checks of invariants() on one side, and the crossed-book check. *)
side_ok(ls, s) ==
  \A i \in Slot :
    IF ls[i].quantity = 0
      THEN ls[i].price_ticks = 0
      ELSE /\ \A j \in 1 .. i - 1 : ls[j].quantity # 0
           /\ ls[i].price_ticks > 0
           /\ i > 1 => before(s, ls[i - 1].price_ticks, ls[i].price_ticks)

crossed(b) ==
  /\ b["Bid"][1].quantity # 0
  /\ b["Ask"][1].quantity # 0
  /\ b["Bid"][1].price_ticks >= b["Ask"][1].price_ticks

invariants(b) ==
  CASE \E s \in Side : ~side_ok(b[s], s) -> "InvariantViolation"
    [] (\A s \in Side : side_ok(b[s], s)) /\ ~AllowCrossed /\ crossed(b) -> "CrossedBook"
    [] OTHER -> "None"

-----------------------------------------------------------------------------
(* The switch over event.type for a well-formed event, on the event's side  *)
(* of the candidate: the levels after it and the quantity it added there.   *)
changed_side(ls, e) ==
  LET at == lookup(ls, e.side, e.price)
      old == IF at.found THEN ls[at.index].quantity ELSE 0
      left == IF e.type = "Update" THEN e.quantity ELSE old - (IF e.quantity < old THEN e.quantity ELSE old)
  IN IF e.type = "Add"
       THEN IF at.found
              THEN [levels |-> [ls EXCEPT ![at.index].quantity = saturated_add(old, e.quantity)],
                    added |-> saturated_add(old, e.quantity) - old]
              ELSE [levels |-> insert(ls, at.index, [price_ticks |-> e.price, quantity |-> e.quantity]),
                    added |-> IF at.index \in Slot THEN e.quantity ELSE 0]
       ELSE [levels |-> IF left = 0 THEN remove(ls, at.index)
                                    ELSE [ls EXCEPT ![at.index].quantity = left],
             added |-> left - old]

(* apply(): the returned ApplyResult together with the book it leaves.      *)
(* A candidate that fails the checks is dropped, but its deltas are not.    *)
applied(b, e) ==
  LET changed == changed_side(b[e.side], e)
      candidate == [b EXCEPT ![e.side] = changed.levels]
      flow == side_sign(e.side) * changed.added
      error == CASE ~well_formed(e) -> "InvalidEvent"
                 [] /\ well_formed(e)
                    /\ e.type # "Add"
                    /\ ~lookup(b[e.side], e.side, e.price).found -> "MissingPrice"
                 [] OTHER -> invariants(candidate)
  IN [book |-> IF error = "None" THEN candidate ELSE b,
      result |-> IF error \in {"InvalidEvent", "MissingPrice"}
                   THEN NoFlow(error)
                   ELSE [error |-> error, order_flow |-> flow,
                         trade_flow |-> IF e.type = "Trade" THEN flow ELSE 0]]

Init ==
  /\ levels = [s \in Side |-> [i \in Slot |-> Unused]]
  /\ last_event = NoEvent
  /\ last_result = NoFlow("None")

apply(e) ==
  /\ levels' = applied(levels, e).book
  /\ last_result' = applied(levels, e).result
  /\ last_event' = e

Next == \E e \in Event : apply(e)

Spec == Init /\ [][Next]_orderBookVars

-----------------------------------------------------------------------------
(* Properties. *)

(* The map from prices to quantities that the levels of a side represent. *)
quantity_at(ls, p) ==
  LET slots == {i \in Slot : ls[i].price_ticks = p}
  IN IF slots = {} THEN 0 ELSE ls[Min(slots)].quantity
BookBar(b) == [s \in Side |-> [p \in Price |-> quantity_at(b[s], p)]]

(* The flows are meaningful to the callers only when the event succeeded.   *)
OutcomeBar ==
  {IF last_result.error = "None" THEN last_result ELSE NoFlow(last_result.error)}

Promise == INSTANCE BookSpec
  WITH book <- BookBar(levels), event <- last_event, outcome <- OutcomeBar

(* apply() is a map update truncated to the best BookDepth prices, with the *)
(* specified error, flows and all-or-nothing effect, whatever the history.  *)
ImplementsBook == Promise!Spec
=============================================================================
