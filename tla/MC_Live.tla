------------------------------- MODULE MC_Live -------------------------------
(* Constant values for the runs of LiveCoordinator. *)
EXTENDS LiveCoordinator

(* What the ring carries. *)
StreamIndices == 0 .. EventCount

(* A result of each kind the host tells apart. *)
Good == [error |-> FALSE, features_valid |-> TRUE, quoted |-> TRUE]
OneSided == [error |-> FALSE, features_valid |-> FALSE, quoted |-> FALSE]
Rejected == [error |-> TRUE, features_valid |-> FALSE, quoted |-> TRUE]

(* Every result usable; one rejected event; a book that starts one-sided.   *)
AllGood == [i \in EventIndex |-> Good]
OneError == [i \in EventIndex |-> IF i = 1 THEN Rejected ELSE Good]
StartsOneSided == [i \in EventIndex |-> IF i = 0 THEN OneSided ELSE Good]
AnyOutcome == [EventIndex -> {Good, Rejected}]

GpuReplays == {AllGood, OneError, StartsOneSided}
GoodReplay == {AllGood}

(* A model loaded with --model-in, given to the RTL and to the GPU alike;   *)
(* and the configured thresholds 0.2 and -0.2 in Q16.16 against the +-16384 *)
(* that GpuModel writes to its buffer when set_training_model is not called.*)
LoadedModel == [version |-> 3, buy_threshold |-> 9, sell_threshold |-> -9]
LoadedThresholds == [buy_threshold |-> 9, sell_threshold |-> -9]
ConfiguredModel == [version |-> 1, buy_threshold |-> 13107, sell_threshold |-> -13107]
DefaultGpuThresholds == [buy_threshold |-> 16384, sell_threshold |-> -16384]
=============================================================================
