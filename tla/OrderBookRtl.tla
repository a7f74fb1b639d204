---------------------------- MODULE OrderBookRtl ----------------------------
(***************************************************************************)
(* order_book (rtl/order_book.sv): the RTL book, a state machine that       *)
(* spreads one event over many clocks.  It searches and shifts a working    *)
(* copy, and copies it to the live book in one clock if it is not crossed.  *)
(*                                                                          *)
(* Each action is one rising clock edge out of reset.  Registers the code   *)
(* indexes 0 .. BOOK_DEPTH-1 are indexed the same way here.                 *)
(***************************************************************************)
EXTENDS BookTypes, FiniteSetsExt

VARIABLES
  state,
  current_event,
  live,                    \* [Side -> [Slot -> PriceLevel]]: bids and asks
  work,                    \* work_bids and work_asks
  scan_index,
  match_index,
  insert_index,
  shift_index,
  match_found,
  insert_found,
  operation_changes_book,
  event_done,
  event_error,
  order_flow_delta,
  trade_flow_delta,
  latency                  \* clocks the event has taken, 0 when idle (not a register)

search == <<scan_index, match_index, insert_index, match_found, insert_found>>
report == <<event_error, order_flow_delta, trade_flow_delta>>
rtlVars == <<state, current_event, live, work, search, shift_index,
             operation_changes_book, event_done, report, latency>>

Slot == 0 .. BookDepth - 1
LastIndexOffByOne == BookDepth   \* a mistake
LastIndex == BookDepth - 1
Unused == [price_ticks |-> 0, quantity |-> 0]

side == current_event.side
selected_work_level(i) == work[side][i]
price_precedes_event(price) == before(side, price, current_event.price)
order_flow_sign == side_sign(side)

Reset ==
  /\ state = "IDLE"
  /\ current_event = NoEvent
  /\ live = [s \in Side |-> [i \in Slot |-> Unused]]
  /\ work = live
  /\ scan_index = 0 /\ match_index = 0 /\ insert_index = 0 /\ shift_index = 0
  /\ match_found = FALSE /\ insert_found = FALSE
  /\ operation_changes_book = FALSE
  /\ event_done = FALSE
  /\ event_error = "None"
  /\ order_flow_delta = 0 /\ trade_flow_delta = 0
  /\ latency = 0

(* A clock in a busy state: the next state, and event_done low. *)
busy(from, to) ==
  /\ state = from
  /\ state' = to
  /\ event_done' = FALSE
  /\ latency' = latency + 1
  /\ UNCHANGED current_event

-----------------------------------------------------------------------------
in_ready == state = "IDLE"

(* A mistake: the working copy of a rejected event is kept. *)
Accept_keeps_work(e) ==
  /\ in_ready
  /\ current_event' = e
  /\ event_error' = "None" /\ order_flow_delta' = 0 /\ trade_flow_delta' = 0
  /\ operation_changes_book' = FALSE
  /\ state' = "VALIDATE"
  /\ event_done' = FALSE
  /\ latency' = 0
  /\ UNCHANGED <<live, work, search, shift_index>>

(* The valid/ready handshake. *)
Accept(e) ==
  /\ in_ready
  /\ current_event' = e
  /\ event_error' = "None" /\ order_flow_delta' = 0 /\ trade_flow_delta' = 0
  /\ operation_changes_book' = FALSE
  /\ work' = live
  /\ state' = "VALIDATE"
  /\ event_done' = FALSE
  /\ latency' = 0
  /\ UNCHANGED <<live, search, shift_index>>

(* No event on offer: only event_done falls. *)
StayIdle ==
  /\ in_ready
  /\ event_done
  /\ event_done' = FALSE
  /\ UNCHANGED <<state, current_event, live, work, search, shift_index,
                 operation_changes_book, report, latency>>

Validate ==
  \/ /\ well_formed(current_event)
     /\ busy("VALIDATE", "SEARCH")
     /\ scan_index' = 0 /\ match_index' = 0 /\ insert_index' = BookDepth
     /\ match_found' = FALSE /\ insert_found' = FALSE
     /\ UNCHANGED <<live, work, shift_index, operation_changes_book, report>>
  \/ /\ ~well_formed(current_event)
     /\ busy("VALIDATE", "FINISH")
     /\ event_error' = "InvalidEvent"
     /\ UNCHANGED <<live, work, search, shift_index, operation_changes_book,
                    order_flow_delta, trade_flow_delta>>

(* One level per clock; every level is looked at. *)
Search ==
  LET level == selected_work_level(scan_index)
      matches == level.quantity # 0 /\ level.price_ticks = current_event.price
      insert_here ==
        /\ ~insert_found
        /\ ~matches
        /\ level.quantity = 0 \/ ~price_precedes_event(level.price_ticks)
  IN /\ scan_index # BookDepth
     /\ busy("SEARCH", "SEARCH")
     /\ scan_index' = scan_index + 1
     /\ match_index' = IF matches THEN scan_index ELSE match_index
     /\ match_found' = (match_found \/ matches)
     /\ insert_index' = IF insert_here THEN scan_index ELSE insert_index
     /\ insert_found' = (insert_found \/ insert_here)
     /\ UNCHANGED <<live, work, shift_index, operation_changes_book, report>>

SearchDone ==
  /\ scan_index = BookDepth
  /\ busy("SEARCH", "APPLY")
  /\ UNCHANGED <<live, work, search, shift_index, operation_changes_book, report>>

-----------------------------------------------------------------------------
(* APPLY, one action per outcome of its case statement. *)
matched == selected_work_level(match_index).quantity
set_matched(quantity) == [work EXCEPT ![side][match_index].quantity = quantity]

(* A missing price; or, unreachable behind Validate, a zero quantity. *)
ApplyReject ==
  /\ current_event.type # "Add"
  /\ ~match_found \/ (current_event.type # "Update" /\ current_event.quantity = 0)
  /\ busy("APPLY", "FINISH")
  /\ event_error' = IF match_found THEN "InvalidEvent" ELSE "MissingPrice"
  /\ UNCHANGED <<live, work, search, shift_index, operation_changes_book,
                 order_flow_delta, trade_flow_delta>>

ApplyAddToLevel ==
  /\ match_found /\ current_event.type = "Add"
  /\ busy("APPLY", "CHECK_CROSS")
  /\ work' = set_matched(saturated_add(matched, current_event.quantity))
  /\ order_flow_delta' =
       order_flow_sign * (saturated_add(matched, current_event.quantity) - matched)
  /\ operation_changes_book' = TRUE
  /\ UNCHANGED <<live, search, shift_index, event_error, trade_flow_delta>>

(* Worse than the last visible level: ignored successfully. *)
ApplyAddBeyondDepth ==
  /\ ~match_found /\ current_event.type = "Add"
  /\ insert_index = BookDepth
  /\ busy("APPLY", "CHECK_CROSS")
  /\ UNCHANGED <<live, work, search, shift_index, operation_changes_book, report>>

ApplyInsert ==
  /\ ~match_found /\ current_event.type = "Add"
  /\ insert_index # BookDepth
  /\ busy("APPLY", "SHIFT_RIGHT")
  /\ shift_index' = LastIndex
  /\ UNCHANGED <<live, work, search, operation_changes_book, report>>

(* Update to a new quantity, or a cancel or trade of a part of the level. *)
ApplyChangeLevel ==
  /\ match_found
  /\ \/ current_event.type = "Update" /\ current_event.quantity # 0
     \/ current_event.type \in {"Cancel", "Trade"} /\ current_event.quantity \in 1 .. matched - 1
  /\ busy("APPLY", "CHECK_CROSS")
  /\ LET quantity == IF current_event.type = "Update"
                       THEN current_event.quantity
                       ELSE matched - current_event.quantity
     IN /\ work' = set_matched(quantity)
        /\ order_flow_delta' = order_flow_sign * (quantity - matched)
  /\ trade_flow_delta' =
       IF current_event.type = "Trade" THEN order_flow_delta' ELSE trade_flow_delta
  /\ operation_changes_book' = TRUE
  /\ UNCHANGED <<live, search, shift_index, event_error>>

(* Update to zero, or a cancel or trade of all there is. *)
ApplyRemoveLevel ==
  /\ match_found
  /\ \/ current_event.type = "Update" /\ current_event.quantity = 0
     \/ /\ current_event.type \in {"Cancel", "Trade"}
        /\ current_event.quantity # 0 /\ current_event.quantity >= matched
  /\ busy("APPLY", "REMOVE")
  /\ order_flow_delta' = -order_flow_sign * matched
  /\ trade_flow_delta' =
       IF current_event.type = "Trade" THEN order_flow_delta' ELSE trade_flow_delta
  /\ shift_index' = match_index
  /\ operation_changes_book' = TRUE
  /\ UNCHANGED <<live, work, search, event_error>>

-----------------------------------------------------------------------------
(* Make a gap at insert_index, one level per clock, then fill it. *)
ShiftRight ==
  /\ shift_index > insert_index
  /\ busy("SHIFT_RIGHT", "SHIFT_RIGHT")
  /\ work' = [work EXCEPT ![side][shift_index] = selected_work_level(shift_index - 1)]
  /\ shift_index' = shift_index - 1
  /\ UNCHANGED <<live, search, operation_changes_book, report>>

FillGap ==
  /\ shift_index <= insert_index
  /\ busy("SHIFT_RIGHT", "CHECK_CROSS")
  /\ work' = [work EXCEPT ![side][insert_index] =
       [price_ticks |-> current_event.price, quantity |-> current_event.quantity]]
  /\ order_flow_delta' = order_flow_sign * current_event.quantity
  /\ operation_changes_book' = TRUE
  /\ UNCHANGED <<live, search, shift_index, event_error, trade_flow_delta>>

(* Close the gap the removed level leaves, then clear the last slot. *)
ShiftLeft ==
  /\ shift_index < LastIndex
  /\ busy("REMOVE", "REMOVE")
  /\ work' = [work EXCEPT ![side][shift_index] = selected_work_level(shift_index + 1)]
  /\ shift_index' = shift_index + 1
  /\ UNCHANGED <<live, search, operation_changes_book, report>>

ClearLast ==
  /\ shift_index >= LastIndex
  /\ busy("REMOVE", "CHECK_CROSS")
  /\ work' = [work EXCEPT ![side][LastIndex] = Unused]
  /\ operation_changes_book' = TRUE
  /\ UNCHANGED <<live, search, shift_index, report>>

-----------------------------------------------------------------------------
work_crossed ==
  /\ ~AllowCrossed
  /\ work["Bid"][0].quantity # 0
  /\ work["Ask"][0].quantity # 0
  /\ work["Bid"][0].price_ticks >= work["Ask"][0].price_ticks

RejectCrossed ==
  /\ work_crossed
  /\ busy("CHECK_CROSS", "FINISH")
  /\ event_error' = "CrossedBook"
  /\ order_flow_delta' = 0
  /\ trade_flow_delta' = 0
  /\ UNCHANGED <<live, work, search, shift_index, operation_changes_book>>

NotCrossed ==
  /\ ~work_crossed
  /\ busy("CHECK_CROSS", "COMMIT")
  /\ UNCHANGED <<live, work, search, shift_index, operation_changes_book, report>>

Commit ==
  /\ busy("COMMIT", "FINISH")
  /\ live' = IF operation_changes_book THEN work ELSE live
  /\ UNCHANGED <<work, search, shift_index, operation_changes_book, report>>

Finish ==
  /\ state = "FINISH"
  /\ state' = "IDLE"
  /\ event_done' = TRUE
  /\ latency' = 0
  /\ UNCHANGED <<current_event, live, work, search, shift_index,
                 operation_changes_book, report>>

(* A clock while an event is being served. *)
BusyClock ==
  \/ Validate
  \/ Search
  \/ SearchDone
  \/ ApplyReject
  \/ ApplyAddToLevel
  \/ ApplyAddBeyondDepth
  \/ ApplyInsert
  \/ ApplyChangeLevel
  \/ ApplyRemoveLevel
  \/ ShiftRight
  \/ FillGap
  \/ ShiftLeft
  \/ ClearLast
  \/ RejectCrossed
  \/ NotCrossed
  \/ Commit
  \/ Finish

Next ==
  \/ \E e \in Event : Accept(e)
  \/ StayIdle
  \/ BusyClock

Spec == Reset /\ [][Next]_rtlVars

-----------------------------------------------------------------------------
(* Properties. *)

(* The map from prices to quantities that the live book represents. *)
quantity_at(ls, p) ==
  LET slots == {i \in Slot : ls[i].price_ticks = p}
  IN IF slots = {} THEN 0 ELSE ls[Min(slots)].quantity
BookBar == [s \in Side |-> [p \in Price |-> quantity_at(live[s], p)]]

(* The report counts from the clock that decides it. *)
OutcomeBar ==
  IF state \in {"FINISH", "IDLE"}
    THEN {[error |-> event_error, order_flow |-> order_flow_delta,
           trade_flow |-> trade_flow_delta]}
    ELSE {}

Promise == INSTANCE BookSpec
  WITH book <- BookBar, event <- current_event, outcome <- OutcomeBar

(* The RTL book keeps the promise the C++ book keeps: each event is a map   *)
(* update truncated to the best BookDepth prices, visible in the live book  *)
(* all at once or not at all, with the specified error and flows.           *)
ImplementsBook == Promise!Spec
=============================================================================
