--------------------------- MODULE MC_Application ---------------------------
(* Constant values for the run of Application. *)
EXTENDS Application, TLC

Good == [order_book_depth |-> 10, counts |-> 1, feature_batch_size |-> 2, learning_rate |-> 1,
         l2_regularisation |-> 0, buy_threshold |-> 4, sell_threshold |-> -4,
         dashboard_bind_address |-> "127.0.0.1"]

(* "close": thresholds that are one Q16.16 number.  The others break a rule. *)
MCConfigFiles ==
  "config/default.json" :> {Good} @@ "close" :> {[Good EXCEPT !.buy_threshold = 1, !.sell_threshold = 0]}
    @@ "broken" :> {} @@ "depth" :> {[Good EXCEPT !.order_book_depth = 9]}
    @@ "zero" :> {[Good EXCEPT !.counts = 0]} @@ "equal" :> {[Good EXCEPT !.sell_threshold = 4]}
    @@ "rate" :> {[Good EXCEPT !.learning_rate = 0]} @@ "l2" :> {[Good EXCEPT !.l2_regularisation = -1]}
    @@ "bind" :> {[Good EXCEPT !.dashboard_bind_address = ""]}

MCNumbers == "0" :> 0 @@ "1" :> 1 @@ "-1" :> -1 @@ "9" :> 9 @@ "70" :> 70 @@ "-60" :> -60

(* The first command line: any of up to three arguments, and any file.      *)
Arguments ==
  require_value \cup {"--no-gpu", "--no-dashboard", "--list-opencl-devices", "--select-gpu",
                      "--gpu-smoke-test", "--gpu-feature-upload", "--help", "--bogus", ""}
    \cup {"close", "zero"} \cup DOMAIN MCNumbers
ShortLines ==
  UNION {[1 .. n -> Arguments] : n \in 0 .. 3}
    \cup {<<"--config", path>> : path \in DOMAIN MCConfigFiles}

(* The later ones: replays with the options on models, and control mode.    *)
Replays ==
  {<<"--input", i, "--no-dashboard">> \o g \o m \o o \o a :
     i \in {"day.csv", "day.mkt"}, g \in {<<>>, <<"--gpu-feature-upload">>},
     m \in {<<>>, <<"--model-in", "m">>, <<"--model-in", "m", "--reset-model">>},
     o \in {<<>>, <<"--model-out", "m">>, <<"--model-out", "n">>},
     a \in {<<>>, <<"--model-autosave", "m">>}}
CloseReplays == {<<"--config", "close">> \o r : r \in Replays}
Resume == {<<"--input", "day.csv", "--no-dashboard", "--gpu-feature-upload",
             "--model-in", "m", "--model-autosave", "m">>}
MCCommandLines(n) ==
  CASE n = 1 -> ShortLines \cup Replays \cup CloseReplays
    [] n = 2 -> Replays \cup {<<"--no-gpu">>}
    [] OTHER -> Resume

(* No CSV file yet, or an MKT1 file that is short, long or of another kind. *)
MCInputFiles ==
  {"day.csv" :> Missing @@ "day.mkt" :> write_binary(FileEvents)}
    \cup {"day.csv" :> write_csv(FileEvents) @@ "day.mkt" :> b :
            b \in {Binary(TRUE, 2, 1, TRUE), Binary(TRUE, 1, 2, FALSE),
                   Binary(TRUE, 2, 2, TRUE), Binary(FALSE, 2, 2, FALSE)}}
=============================================================================
