--------------------------- MODULE MarketPipeline ---------------------------
(***************************************************************************)
(* rtl/market_pipeline.sv clock by clock: the order book, the rolling       *)
(* window, the feature engine, the strategy model with its two parameter    *)
(* banks, and the state machine that strings them together.  One operator   *)
(* per always_ff block; all of them read the values before the clock edge.  *)
(*                                                                          *)
(* The book is its promise (OrderBookRtl): it takes an event when idle,     *)
(* changes the live book in the clock before it finishes, and pulses        *)
(* book_done in the clock in which it is idle again.                        *)
(***************************************************************************)
EXTENDS ReferenceModel

CONSTANTS
  ParamCount,     \* FEATURE_COUNT weights and two thresholds: 10 words
  MinBookClocks,  \* clocks of the shortest and of the longest event in the
  MaxBookClocks,  \*   book; the built depth needs at most 26
  EventKinds,     \* what the book may make of an event: [error, midpoint, flow]
  MaxEvents,      \* bound on the events of a behaviour
  MaxVersion      \* bound on the models written

Word == 0 .. ParamCount - 1

ASSUME PipelineAssumption ==
  /\ ParamCount \in Nat \ {0}
  /\ MinBookClocks \in Nat /\ MaxBookClocks \in Nat
  /\ 2 <= MinBookClocks /\ MinBookClocks <= MaxBookClocks
  /\ EventKinds \subseteq [error : BOOLEAN, midpoint : Midpoint, flow : Int]
  /\ EventKinds # {}
  /\ MaxEvents \in Nat
  /\ MaxVersion \in Nat

VARIABLES
  book_clocks,     \* 0: ST_IDLE; else clocks until event_done is registered
  book_event,      \* current_event
  book_done,       \* core_event_done
  book_error,      \* core_event_error
  book_flow,       \* core_order_flow_delta, core_trade_flow_delta
  book_midpoint,   \* what the live book shows: core_bids[0], core_asks[0]
  window,
  shadow,          \* shadow bank: the version each word was written with
  shadow_written,
  shadow_version,
  active,          \* active bank
  model_version,
  update_count,
  signal,          \* score, action, signal_valid, signal_timestamp_ns, ..._index
  pipeline_state,
  event_done,
  event_error,
  prior_midpoint,
  accepted_timestamp,
  next_signal_index

bookVars == <<book_clocks, book_event, book_done, book_error, book_flow, book_midpoint>>
strategyVars == <<shadow, shadow_written, shadow_version, active, model_version, update_count>>
stateVars == <<pipeline_state, event_done, event_error, prior_midpoint,
               accepted_timestamp, next_signal_index>>
pipelineVars == <<bookVars, window, strategyVars, signal, stateVars>>

(* Events carry the time stamp of their place in the stream. *)
Event == {[timestamp |-> t, error |-> k.error, midpoint |-> k.midpoint, flow |-> k.flow] :
            t \in 1 .. MaxEvents, k \in EventKinds}
NoEvent == [timestamp |-> 0, error |-> FALSE, midpoint |-> NoMidpoint, flow |-> 0]

ZeroBank == [w \in Word |-> 0]

(* Reset: every register has its reset value. *)
PipelineReset ==
  /\ book_clocks = 0 /\ book_event = NoEvent /\ book_done = FALSE
  /\ book_error = FALSE /\ book_flow = 0 /\ book_midpoint = NoMidpoint
  /\ window = EmptyWindow
  /\ shadow = ZeroBank /\ shadow_written = {} /\ shadow_version = 0
  /\ active = ZeroBank /\ model_version = 0 /\ update_count = 0
  /\ signal = NoSignal
  /\ pipeline_state = "WAIT_BOOK" /\ event_done = FALSE /\ event_error = FALSE
  /\ prior_midpoint = NoMidpoint /\ accepted_timestamp = 0 /\ next_signal_index = 0

-----------------------------------------------------------------------------
(* Combinational signals. *)

(* A mistake: a rejected event reaches the rolling sums. *)
window_push_on_error == pipeline_state = "WAIT_BOOK" /\ book_done

core_in_ready == book_clocks = 0
pipeline_in_ready == core_in_ready /\ pipeline_state = "WAIT_BOOK"
window_push == pipeline_state = "WAIT_BOOK" /\ book_done /\ ~book_error
strategy_evaluate == pipeline_state = "EMIT_FEATURE"
features == calculate_features(book_midpoint, window)

-----------------------------------------------------------------------------
(* The order book.  in is the set of events on its pins: it takes one       *)
(* whenever it is idle and in_valid is high.                                *)
BookIdle(in) ==
  /\ book_clocks = 0
  /\ in = {}
  /\ book_done' = FALSE
  /\ UNCHANGED <<book_clocks, book_event, book_error, book_flow, book_midpoint>>

BookAccept(in) ==
  /\ book_clocks = 0
  /\ \E event \in in :
       /\ book_event' = event
       /\ book_clocks' \in MinBookClocks .. MaxBookClocks
  /\ book_done' = FALSE
  /\ book_error' = FALSE
  /\ book_flow' = 0
  /\ UNCHANGED book_midpoint

BookWork ==
  /\ book_clocks > 2
  /\ book_clocks' = book_clocks - 1
  /\ book_done' = FALSE
  /\ UNCHANGED <<book_event, book_error, book_flow, book_midpoint>>

(* The clock before ST_FINISH: commit to the live book, or reject.          *)
BookCommit ==
  /\ book_clocks = 2
  /\ book_clocks' = 1
  /\ book_done' = FALSE
  /\ book_error' = book_event.error
  /\ book_flow' = IF book_event.error THEN 0 ELSE book_event.flow
  /\ book_midpoint' = IF book_event.error THEN book_midpoint ELSE book_event.midpoint
  /\ UNCHANGED book_event

BookFinish ==
  /\ book_clocks = 1
  /\ book_clocks' = 0
  /\ book_done' = TRUE
  /\ UNCHANGED <<book_event, book_error, book_flow, book_midpoint>>

BookClock(in) ==
  \/ BookIdle(in)
  \/ BookAccept(in)
  \/ BookWork
  \/ BookCommit
  \/ BookFinish

-----------------------------------------------------------------------------
(* rtl/feature_window.sv. *)
window_full == window.size = WindowSize
dropped == IF window_full THEN window.entries[window.next] ELSE [flow |-> 0, change |-> 0]

WindowClock ==
  IF window_push
    THEN LET entry == [flow |-> book_flow,
                       change |-> midpoint_change(prior_midpoint, book_midpoint)]
         IN window' =
              [entries |-> [window.entries EXCEPT ![window.next] = entry],
               next |-> (window.next + 1) % WindowSize,
               size |-> IF window_full THEN window.size ELSE window.size + 1,
               flow_sum |-> window.flow_sum - dropped.flow + entry.flow,
               change_sum |-> window.change_sum - dropped.change + entry.change]
    ELSE UNCHANGED window

(* rtl/strategy_model.sv.  write is the set of parameter writes on the pins *)
(* in this clock: at most one [word, version].  A commit takes the shadow   *)
(* bank as it was before the clock, and clears the marks even of a word     *)
(* written in the same clock.                                               *)
committing(param_commit) ==
  /\ param_commit
  /\ pipeline_state = "WAIT_BOOK"
  /\ core_in_ready
  /\ shadow_written = Word
  /\ ~strategy_evaluate

(* A mistake: a word goes straight to the bank in use. *)
ActiveBank_unbuffered(write, commit) ==
  active' = [w \in Word |-> IF \E p \in write : p.word = w
                              THEN (CHOOSE p \in write : p.word = w).version ELSE active[w]]

ActiveBank(write, commit) == active' = IF committing(commit) THEN shadow ELSE active

ShadowBank(write, commit) ==
  /\ shadow' = [w \in Word |-> IF \E p \in write : p.word = w
                                 THEN (CHOOSE p \in write : p.word = w).version
                                 ELSE shadow[w]]
  /\ shadow_version' = IF write = {} THEN shadow_version
                       ELSE (CHOOSE p \in write : TRUE).version
  /\ shadow_written' = IF committing(commit) THEN {}
                       ELSE shadow_written \cup {p.word : p \in write}

StrategyClock(write, commit) ==
  /\ ShadowBank(write, commit)
  /\ ActiveBank(write, commit)
  /\ model_version' = IF committing(commit) THEN shadow_version ELSE model_version
  /\ update_count' = IF committing(commit) THEN update_count + 1 ELSE update_count
  /\ signal' = IF strategy_evaluate
                 THEN evaluate_strategy(accepted_timestamp, next_signal_index,
                                        features, active)
                 ELSE signal

(* The pipeline's state machine. *)
WaitBook ==
  /\ pipeline_state = "WAIT_BOOK"
  /\ ~book_done
  /\ event_done' = FALSE
  /\ UNCHANGED <<pipeline_state, event_error, prior_midpoint, next_signal_index>>

BookDone ==
  /\ pipeline_state = "WAIT_BOOK"
  /\ book_done
  /\ event_done' = FALSE
  /\ event_error' = book_error
  /\ prior_midpoint' = IF ~book_error /\ book_midpoint # NoMidpoint
                         THEN book_midpoint ELSE prior_midpoint
  /\ pipeline_state' = IF book_error THEN "EMIT_ERROR" ELSE "EMIT_FEATURE"
  /\ UNCHANGED next_signal_index

EmitFeature ==
  /\ pipeline_state = "EMIT_FEATURE"
  /\ next_signal_index' = next_signal_index + 1
  /\ event_done' = TRUE
  /\ pipeline_state' = "WAIT_BOOK"
  /\ UNCHANGED <<event_error, prior_midpoint>>

EmitError ==
  /\ pipeline_state = "EMIT_ERROR"
  /\ event_done' = TRUE
  /\ pipeline_state' = "WAIT_BOOK"
  /\ UNCHANGED <<event_error, prior_midpoint, next_signal_index>>

StateClock(in) ==
  /\ WaitBook \/ BookDone \/ EmitFeature \/ EmitError
  /\ accepted_timestamp' = IF in # {} /\ pipeline_in_ready
                             THEN (CHOOSE event \in in : TRUE).timestamp
                             ELSE accepted_timestamp

PipelineClock(in, write, commit) ==
  /\ BookClock(in)
  /\ WindowClock
  /\ StrategyClock(write, commit)
  /\ StateClock(in)

=============================================================================
