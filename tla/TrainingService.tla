-------------------------- MODULE TrainingService --------------------------
(***************************************************************************)
(* What a client of GpuModel relies on: one batch at a time is trained on   *)
(* the model of all batches since the last reset, and the answer has the    *)
(* version of the batch, the model after it and the metrics of that batch.  *)
(***************************************************************************)
EXTENDS Sequences, Integers

VARIABLES
  learning,    \* does a batch build on the ones before it?
  configured,  \* has the client supplied a model to start from?
  pending,     \* the version of the batch being trained, 0 when there is none
  history      \* every reset and every answer, in order

vars == <<learning, configured, pending, history>>

Resets == {i \in DOMAIN history : history[i].kind = "reset"}
LastReset == CHOOSE i \in Resets : \A j \in Resets : j <= i
SinceReset == SubSeq(history, LastReset + 1, Len(history))

(* The model: where it started from and the batches it has learned since. *)
Model ==
  [seed |-> history[LastReset].seed,
   batches |-> [i \in DOMAIN SinceReset |-> SinceReset[i].version]]
ModelAfter(version) ==
  IF learning THEN [Model EXCEPT !.batches = Append(@, version)]
              ELSE [seed |-> FALSE, batches |-> <<version>>]

Init ==
  /\ learning \in BOOLEAN
  /\ configured = FALSE
  /\ pending = 0
  /\ history = <<>>

Configure ==
  /\ pending = 0
  /\ configured' = TRUE
  /\ UNCHANGED <<learning, pending, history>>

(* Larger batches need new buffers, and the device forgets what it learned. *)
Reset ==
  /\ pending = 0
  /\ history' = Append(history, [kind |-> "reset", seed |-> configured])
  /\ UNCHANGED <<learning, configured, pending>>

Submit ==
  /\ pending = 0 /\ Resets # {}
  /\ pending' \in Nat \ {0}
  /\ UNCHANGED <<learning, configured, history>>

Answer ==
  /\ pending # 0
  /\ history' = Append(history, [kind |-> "update", version |-> pending,
                                 model |-> ModelAfter(pending),
                                 metrics |-> IF learning THEN pending ELSE 0])
  /\ pending' = 0
  /\ UNCHANGED <<learning, configured>>

(* A failed service drops the batch. *)
Abandon ==
  /\ pending' = 0
  /\ UNCHANGED <<learning, configured, history>>

Next == Configure \/ Reset \/ Submit \/ Answer \/ Abandon

Spec == Init /\ [][Next]_vars
=============================================================================
