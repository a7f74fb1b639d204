------------------------------- MODULE BookSpec -------------------------------
(***************************************************************************)
(* What an aggregated order book of limited depth promises, whichever of    *)
(* the two implementations serves it: the C++ OrderBook (OrderBook.tla) or  *)
(* the RTL order_book (OrderBookRtl.tla).  Here a side of the book is a map *)
(* from prices to visible quantities, with zero for a price not in the      *)
(* book, so there are no slots, no search and no shifting.                  *)
(***************************************************************************)
EXTENDS BookTypes, FiniteSets

VARIABLES
  book,       \* [Side -> [Price -> Quantity]]
  event,      \* the event being served, or served last
  outcome     \* {} while busy, {report} once event has been served

bookVars == <<book, event, outcome>>

EmptyBook == [s \in Side |-> [p \in Price |-> 0]]

Visible(m) == {p \in Price : m[p] > 0}
Better(s, m, p) == {q \in Visible(m) : before(s, q, p)}

(* The best BookDepth prices of a side. *)
Truncated(s, m) ==
  [p \in Price |-> IF Cardinality(Better(s, m, p)) < BookDepth THEN m[p] ELSE 0]

(* The quantity an event leaves at its price. *)
NewQuantity(old, e) ==
  CASE e.type = "Add" -> saturated_add(old, e.quantity)
    [] e.type = "Update" -> e.quantity
    [] OTHER -> IF e.quantity >= old THEN 0 ELSE old - e.quantity

Candidate(b, e) ==
  LET side == b[e.side]
  IN [b EXCEPT ![e.side] =
        Truncated(e.side, [side EXCEPT ![e.price] = NewQuantity(side[e.price], e)])]

Crossed(b) == \E bid \in Visible(b["Bid"]), ask \in Visible(b["Ask"]) : bid >= ask

Error(b, e) ==
  CASE ~well_formed(e) -> "InvalidEvent"
    [] well_formed(e) /\ e.type # "Add" /\ b[e.side][e.price] = 0 -> "MissingPrice"
    [] OTHER -> IF ~AllowCrossed /\ Crossed(Candidate(b, e)) THEN "CrossedBook" ELSE "None"

(* Order flow is the visible change at the event's price, bids positive;    *)
(* trade flow is positive when asks are hit.                                *)
Flow(b, e) == side_sign(e.side) * (Candidate(b, e)[e.side][e.price] - b[e.side][e.price])

Report(b, e) ==
  IF Error(b, e) = "None"
    THEN [error |-> "None", order_flow |-> Flow(b, e),
          trade_flow |-> IF e.type = "Trade" THEN Flow(b, e) ELSE 0]
    ELSE NoFlow(Error(b, e))

-----------------------------------------------------------------------------
Init ==
  /\ book = EmptyBook
  /\ event = NoEvent
  /\ outcome = {NoFlow("None")}

Accept ==
  /\ outcome # {}
  /\ event' \in Event
  /\ outcome' = {}
  /\ UNCHANGED book

(* All or nothing: a rejected event leaves the book alone. *)
Complete ==
  /\ outcome = {}
  /\ outcome' = {Report(book, event)}
  /\ book' = IF Error(book, event) = "None" THEN Candidate(book, event) ELSE book
  /\ UNCHANGED event

(* Acceptance and completion in one step, as a function call does them. *)
Serve ==
  /\ outcome # {}
  /\ event' \in Event
  /\ outcome' = {Report(book, event')}
  /\ book' = IF Error(book, event') = "None" THEN Candidate(book, event') ELSE book

Next ==
  \/ Accept
  \/ Complete
  \/ Serve

Spec == Init /\ [][Next]_bookVars
=============================================================================
