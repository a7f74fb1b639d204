-------------------------- MODULE BookDifferential --------------------------
(***************************************************************************)
(* tb/order_book_differential.cpp: the C++ book and the RTL book under the  *)
(* same events, compared after each.  The bench draws its events from the   *)
(* C++ book's snapshot; the same comparison is made here for the events of  *)
(* generate_market_csv (src/app/market_data_generator.cpp), which keeps     *)
(* price maps of its own, and for events of every kind, ill-formed ones     *)
(* included.                                                                *)
(***************************************************************************)
EXTENDS BookTypes, FixedPoint

CONSTANTS
  HighestBid,    \* 10000: bids are drawn from the BookDepth prices up to it
  LowestAsk,     \* 10002: asks from the BookDepth prices up from it
  kCycleLimit

(* The bands do not overlap, and the longest event, one that shifts every   *)
(* level, is done before the limit: 26 clocks for the built depth, of 32.   *)
ASSUME DifferentialAssumption ==
  /\ HighestBid \in Nat /\ LowestAsk \in Nat /\ kCycleLimit \in Nat
  /\ HighestBid < LowestAsk
  /\ 2 * BookDepth + 6 <= kCycleLimit

VARIABLES
  source,        \* where the events come from: "bench", "generator" or "any"
  generated,     \* the generator's maps bids and asks: [Side -> [Price -> Quantity]]
  bench_pc       \* "next_event", "wait", "compare" or "failed"

VARIABLES levels, last_event, last_result
Cpp == INSTANCE OrderBook

VARIABLES state, current_event, live, work, scan_index, match_index, insert_index,
          shift_index, match_found, insert_found, operation_changes_book, event_done,
          event_error, order_flow_delta, trade_flow_delta, latency
Rtl == INSTANCE OrderBookRtl

cppVars == <<levels, last_event, last_result>>
rtlVars ==
  <<state, current_event, live, work, scan_index, match_index, insert_index, shift_index,
    match_found, insert_found, operation_changes_book, event_done, event_error,
    order_flow_delta, trade_flow_delta, latency>>
vars == <<source, generated, bench_pc, cppVars, rtlVars>>

(* Both books start empty: reset() leaves the RTL ready. *)
Init ==
  /\ source \in {"bench", "generator", "any"}
  /\ generated = [s \in Side |-> [p \in Price |-> 0]]
  /\ bench_pc = "next_event"
  /\ Cpp!Init
  /\ Rtl!Reset

-----------------------------------------------------------------------------
(* The prices an Add is drawn from. *)
PriceBand(s) ==
  {p \in Price : IF s = "Bid" THEN p \in HighestBid - BookDepth + 1 .. HighestBid
                              ELSE p \in LowestAsk .. LowestAsk + BookDepth - 1}

(* choose_level(): a used level of the C++ book, by its price. *)
choose_level(s) == {levels[s][i].price_ticks : i \in {j \in Cpp!Slot : levels[s][j].quantity # 0}}

(* An Add in the band, or any other event at a price that is in use. *)
drawn(s, prices) ==
  [type : {"Add"}, side : {s}, price : PriceBand(s), quantity : Quantity \ {0}]
  \cup [type : {"Update"}, side : {s}, price : prices, quantity : Quantity]
  \cup [type : {"Cancel", "Trade"}, side : {s}, price : prices, quantity : Quantity \ {0}]

(* next_event(). *)
next_event == UNION {drawn(s, choose_level(s)) : s \in Side}

(* A mistake: the generator's map forgets that an Update may empty a price. *)
generated_after_sticky(e) ==
  LET old == generated[e.side][e.price]
  IN CASE e.type = "Add" -> saturated_add(old, e.quantity)
       [] e.type = "Update" -> IF e.quantity = 0 THEN old ELSE e.quantity
       [] OTHER -> IF e.quantity >= old THEN 0 ELSE old - e.quantity

(* The loop body of generate_market_csv: an event at a price of its own map *)
(* and what the event leaves there; a price at zero is erased.              *)
generator_event == UNION {drawn(s, {p \in Price : generated[s][p] > 0}) : s \in Side}
generated_after(e) ==
  LET old == generated[e.side][e.price]
  IN CASE e.type = "Add" -> saturated_add(old, e.quantity)
       [] e.type = "Update" -> e.quantity
       [] OTHER -> IF e.quantity >= old THEN 0 ELSE old - e.quantity

(* One turn of main()'s loop: draw an event, apply() it to the C++ book and *)
(* submit() it to the RTL, which is ready ...                               *)
ApplyAndSubmit(e) ==
  /\ bench_pc = "next_event"
  /\ Cpp!apply(e)
  /\ Rtl!Accept(e)
  /\ bench_pc' = "wait"
  /\ UNCHANGED source

DrawBench ==
  /\ source = "bench"
  /\ \E e \in next_event : ApplyAndSubmit(e)
  /\ UNCHANGED generated

DrawGenerator ==
  /\ source = "generator"
  /\ \E e \in generator_event :
       /\ generated' = [generated EXCEPT ![e.side][e.price] = generated_after(e)]
       /\ ApplyAndSubmit(e)

DrawAny ==
  /\ source = "any"
  /\ \E e \in Event : ApplyAndSubmit(e)
  /\ UNCHANGED generated

(* ... clock until event_done or the limit ... *)
Tick ==
  /\ bench_pc = "wait"
  /\ Rtl!BusyClock
  /\ bench_pc' = CASE event_done' -> "compare"
                   [] ~event_done' /\ latency' >= kCycleLimit -> "failed"
                   [] OTHER -> "wait"
  /\ UNCHANGED <<source, generated, cppVars>>

(* ... and compare(): the error, both flows and every level. *)
levels_match ==
  \A s \in Side : \A i \in Cpp!Slot : levels[s][i] = live[s][i - 1]
flows_match ==
  last_result.order_flow = order_flow_delta /\ last_result.trade_flow = trade_flow_delta
compare ==
  last_result.error = event_error /\ flows_match /\ levels_match

Compare ==
  /\ bench_pc = "compare"
  /\ bench_pc' = IF compare THEN "next_event" ELSE "failed"
  /\ UNCHANGED <<source, generated, cppVars, rtlVars>>

(* A replay clocks the book between events, without offering one. *)
IdleTick ==
  /\ source = "generator"
  /\ bench_pc = "next_event"
  /\ Rtl!StayIdle
  /\ UNCHANGED <<source, generated, bench_pc, cppVars>>

(* The bench reports the mismatch or timeout and ends; a replay of other    *)
(* events does not compare and goes on.                                     *)
GoOn ==
  /\ bench_pc = "failed" /\ source = "any"
  /\ bench_pc' = "next_event"
  /\ UNCHANGED <<source, generated, cppVars, rtlVars>>

Next ==
  \/ DrawBench
  \/ DrawGenerator
  \/ DrawAny
  \/ Tick
  \/ Compare
  \/ IdleTick
  \/ GoOn

Spec == Init /\ [][Next]_vars

-----------------------------------------------------------------------------
(* Properties. *)

(* The bench can only fail, by a timeout or a mismatch after any history,   *)
(* on an event that would cross the book: there OrderBook::apply() reports  *)
(* the flows of the candidate it drops and the RTL clears them.  Neither    *)
(* the bench's own events nor the generator's get there.                    *)
ReplayAgrees ==
  bench_pc = "failed" =>
    /\ source = "any"
    /\ last_result.error = "CrossedBook"
    /\ event_error = "CrossedBook"
    /\ levels_match

(* Every event of a generated file is accepted by the book it is replayed   *)
(* into: the generator's maps, which know no depth limit, and the book,     *)
(* which drops what is beyond its depth, never disagree about a price.      *)
GeneratedStreamAccepted ==
  /\ source = "generator" => last_result.error = "None"
  /\ source = "generator" /\ bench_pc = "next_event" =>
       \A s \in Side : \A p \in Price :
         (generated[s][p] > 0) <=> (p \in choose_level(s))

(* The microprice is the tick nearest to the weighted mean of the best      *)
(* prices and never outside them (the bid is the upper one in a crossed     *)
(* book), as long as the weighted sum of the two 32-bit by 32-bit products  *)
(* fits the 64-bit sum.                                                     *)
MicropriceIsNearest ==
  LET bid == levels["Bid"][1]
      ask == levels["Ask"][1]
      total == bid.quantity + ask.quantity
      micro == microprice_ticks(bid, ask)
  IN bid.quantity > 0 /\ ask.quantity > 0 /\ Representable(weighted_price(bid, ask)) =>
       /\ \/ bid.price_ticks <= micro /\ micro <= ask.price_ticks
          \/ ask.price_ticks <= micro /\ micro <= bid.price_ticks
       /\ 2 * magnitude(micro * total - weighted_price(bid, ask)) <= total

(* The two implementations keep the promise of BookSpec under these events. *)
CppImplementsBook == Cpp!ImplementsBook
RtlImplementsBook == Rtl!ImplementsBook
=============================================================================
