--------------------------- MODULE ReferenceModel ---------------------------
(***************************************************************************)
(* The C++ answer key (src/reference/reference_model.cpp and the feature    *)
(* half of src/market/order_book.cpp) as operators: a rolling window, the   *)
(* features of a book, a signal, and process() on one event.                *)
(*                                                                          *)
(* The book is seen from outside: an event is [error] or it leaves a        *)
(* midpoint and a flow.  NoMidpoint stands for a book with a missing side.  *)
(* The order and trade flow are treated alike, so one flow stands for both; *)
(* the arithmetic of features and score is kept symbolic, as a record of    *)
(* what it is computed from.                                                *)
(***************************************************************************)
EXTENDS Integers

CONSTANTS
  WindowSize,   \* kWindowSize, FEATURE_WINDOW_SIZE: 64
  MaxMidpoint   \* bound on midpoints; prices are positive

ASSUME ReferenceAssumption == WindowSize \in Nat \ {0} /\ MaxMidpoint \in Nat

NoMidpoint == 0
Midpoint == NoMidpoint .. MaxMidpoint

EmptyWindow ==
  [entries |-> [i \in 0 .. WindowSize - 1 |-> [flow |-> 0, change |-> 0]],
   next |-> 0, size |-> 0, flow_sum |-> 0, change_sum |-> 0]

(* FeatureWindow::push(): drop the oldest entry's share when full, then add. *)
push(window, entry) ==
  LET full == window.size = WindowSize
      old == window.entries[window.next]
  IN [entries |-> [window.entries EXCEPT ![window.next] = entry],
      next |-> (window.next + 1) % WindowSize,
      size |-> IF full THEN window.size ELSE window.size + 1,
      flow_sum |-> (IF full THEN window.flow_sum - old.flow ELSE window.flow_sum)
                   + entry.flow,
      change_sum |-> (IF full THEN window.change_sum - old.change ELSE window.change_sum)
                     + entry.change]

(* Price movement counts only between two existing midpoints. *)
midpoint_change(prior, current) ==
  IF prior = NoMidpoint \/ current = NoMidpoint THEN 0
  ELSE IF current >= prior THEN current - prior ELSE prior - current

NoFeatures == [valid |-> FALSE, midpoint |-> NoMidpoint, flow_sum |-> 0,
               change_sum |-> 0, window_size |-> 0]

(* calculate_features(): nothing without both sides, else ratios of these.  *)
calculate_features(midpoint, window) ==
  IF midpoint = NoMidpoint THEN NoFeatures
  ELSE [valid |-> TRUE, midpoint |-> midpoint, flow_sum |-> window.flow_sum,
        change_sum |-> window.change_sum, window_size |-> window.size]

(* evaluate_strategy(): the score of the features under the parameters.     *)
NoScore == <<>>
evaluate_strategy(timestamp, index, features, parameters) ==
  [timestamp |-> timestamp, index |-> index, valid |-> features.valid,
   score |-> IF features.valid THEN <<features, parameters>> ELSE NoScore]

NoSignal == [timestamp |-> 0, index |-> 0, valid |-> FALSE, score |-> NoScore]

(* ReferenceModel: members, and process() on one event.  The event index is *)
(* the caller's: signals, the number of events that were not rejected, is   *)
(* what the replay passes, which stops at the first rejected event.         *)
FreshReference ==
  [error |-> FALSE, midpoint |-> NoMidpoint, prior_midpoint |-> NoMidpoint,
   window |-> EmptyWindow, features |-> NoFeatures, signal |-> NoSignal,
   signals |-> 0]

process(reference, event, parameters) ==
  IF event.error THEN [reference EXCEPT !.error = TRUE]
  ELSE
    LET change == midpoint_change(reference.prior_midpoint, event.midpoint)
        window == push(reference.window, [flow |-> event.flow, change |-> change])
        features == calculate_features(event.midpoint, window)
    IN [error |-> FALSE,
        midpoint |-> event.midpoint,
        prior_midpoint |-> IF event.midpoint = NoMidpoint
                             THEN reference.prior_midpoint ELSE event.midpoint,
        window |-> window,
        features |-> features,
        signal |-> evaluate_strategy(event.timestamp, reference.signals, features,
                                     parameters),
        signals |-> reference.signals + 1]
=============================================================================
