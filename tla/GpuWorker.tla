------------------------------ MODULE GpuWorker ------------------------------
(***************************************************************************)
(* GpuWorker::run (src/gpu/gpu_worker.cpp) on its thread, the thread body    *)
(* around it in LiveCoordinator::run, and the training half of GpuModel     *)
(* (src/gpu/gpu_model.cpp) as the worker uses it.                           *)
(*                                                                          *)
(* The worker copies a result out of the ring, pairs it with the result     *)
(* LabelHorizon events later, collects BatchRows such rows in mapped        *)
(* memory, has the GPU train on them, and publishes the new model.          *)
(***************************************************************************)
EXTENDS LiveTransport

CONSTANTS
  BatchRows,           \* config.feature_batch_size
  LabelHorizon,        \* config.label_horizon_events
  FirstUpdateVersion,  \* initial_parameters.model_version + 1
  TrainingThresholds   \* thresholds in the device's model buffer

ASSUME GpuAssumption ==
  /\ BatchRows \in Nat \ {0}
  /\ LabelHorizon \in Nat \ {0}
  /\ FirstUpdateVersion \in Nat
  /\ TrainingThresholds.buy_threshold > TrainingThresholds.sell_threshold

VARIABLES
  gpu_pc,                   \* where the GPU thread is in run()
  pending_labels,           \* results waiting for their future, oldest first
  mapped_rows,              \* rows in mapped memory: [entry, future] indices
  model_update_in_flight,
  next_update_version,
  rtl_results_consumed,
  model_updates_published,
  input_complete,
  gpu_stop_requested,
  gpu_failed,               \* also: gpu_failure holds an exception
  device                    \* the OpenCL queue: "empty", "running" or "complete"

gpuVars == <<gpu_pc, pending_labels, mapped_rows, model_update_in_flight,
             next_update_version, rtl_results_consumed, model_updates_published,
             input_complete, gpu_stop_requested, gpu_failed, device>>

GpuInit ==
  /\ gpu_pc = "not_started"
  /\ pending_labels = <<>>
  /\ mapped_rows = <<>>
  /\ model_update_in_flight = FALSE
  /\ next_update_version = FirstUpdateVersion
  /\ rtl_results_consumed = 0
  /\ model_updates_published = 0
  /\ input_complete = FALSE
  /\ gpu_stop_requested = FALSE
  /\ gpu_failed = FALSE
  /\ device = "empty"

OpenclMayFail == "opencl" \in Faults

(* A mistake: every submission carries the same version. *)
TrainedModel_same_version ==
  [version |-> FirstUpdateVersion,
   buy_threshold |-> TrainingThresholds.buy_threshold,
   sell_threshold |-> TrainingThresholds.sell_threshold]

(* The update the device's buffer holds after training: the version it was  *)
(* submitted with, new weights, the thresholds the buffer started with.     *)
TrainedModel ==
  [version |-> next_update_version,
   buy_threshold |-> TrainingThresholds.buy_threshold,
   sell_threshold |-> TrainingThresholds.sell_threshold]

-----------------------------------------------------------------------------
(* The device finishes the submitted kernels and the readback. *)
DeviceCompletes ==
  /\ device = "running"
  /\ device' = "complete"
  /\ UNCHANGED <<gpu_pc, pending_labels, mapped_rows, model_update_in_flight,
                 next_update_version, rtl_results_consumed, model_updates_published,
                 input_complete, gpu_stop_requested, gpu_failed>>
  /\ UNCHANGED transportVars

(* poll_model_update(): publish a finished update.  publish() may throw.    *)
GpuPoll ==
  /\ gpu_pc = "poll"
  /\ IF model_update_in_flight /\ device = "complete"
       THEN \/ /\ publish(TrainedModel)
               /\ next_update_version' = next_update_version + 1
               /\ model_update_in_flight' = FALSE
               /\ model_updates_published' = model_updates_published + 1
               /\ device' = "empty"
               /\ gpu_pc' = "pop"
            \/ /\ ~can_publish(TrainedModel)
               /\ device' = "empty"
               /\ gpu_pc' = "throw"
               /\ UNCHANGED <<mailboxVars, next_update_version, model_update_in_flight,
                              model_updates_published>>
       ELSE /\ gpu_pc' = "pop"
            /\ UNCHANGED <<mailboxVars, next_update_version, model_update_in_flight,
                           model_updates_published, device>>
  /\ UNCHANGED <<pending_labels, mapped_rows, rtl_results_consumed, input_complete,
                 gpu_stop_requested, gpu_failed, outcome, ringVars>>

(* The stop test, then try_begin_pop() when no update is in flight. *)
GpuStopTest ==
  /\ gpu_pc = "pop"
  /\ gpu_pc' = IF gpu_stop_requested THEN "stopping" ELSE "begin"
  /\ UNCHANGED <<pending_labels, mapped_rows, model_update_in_flight,
                 next_update_version, rtl_results_consumed, model_updates_published,
                 input_complete, gpu_stop_requested, gpu_failed, device>>
  /\ UNCHANGED transportVars

GpuTryPop ==
  /\ gpu_pc = "begin"
  /\ IF ~model_update_in_flight /\ ~RingEmpty
       THEN gpu_pc' = "label" /\ try_begin_pop
       ELSE gpu_pc' = "complete" /\ UNCHANGED ringVars
  /\ UNCHANGED <<pending_labels, mapped_rows, model_update_in_flight,
                 next_update_version, rtl_results_consumed, model_updates_published,
                 input_complete, gpu_stop_requested, gpu_failed, device>>
  /\ UNCHANGED <<outcome, mailboxVars>>

(* discard_training_batch() and pending_labels_.clear(); an update already  *)
(* submitted is waited for.                                                 *)
GpuStopping ==
  /\ gpu_pc = "stopping"
  /\ mapped_rows' = <<>>
  /\ pending_labels' = <<>>
  /\ gpu_pc' = IF model_update_in_flight THEN "complete" ELSE "done"
  /\ UNCHANGED <<model_update_in_flight, next_update_version, rtl_results_consumed,
                 model_updates_published, input_complete, gpu_stop_requested,
                 gpu_failed, device>>
  /\ UNCHANGED transportVars

-----------------------------------------------------------------------------
(* The result the worker holds, and whether it is the future of the oldest  *)
(* pending entry.                                                           *)
result == value_in_hand

(* A mistake: the horizon is off by one. *)
matured_late == pending_labels # <<>> /\ result > Head(pending_labels) + LabelHorizon

matured == pending_labels # <<>> /\ result >= Head(pending_labels) + LabelHorizon

(* add_labelled_row() keeps a row whose entry has valid features, when both *)
(* sides of the book are quoted at the entry and at its future.             *)
usable_row(entry, future) ==
  /\ outcome[entry].features_valid
  /\ outcome[entry].quoted
  /\ outcome[future].quoted

(* One iteration of consume_result()'s loop.  map_training_batch() throws   *)
(* when the previous update is still in flight; the last row of a batch is  *)
(* followed by submit_training_batch().                                     *)
GpuLabel ==
  /\ gpu_pc = "label"
  /\ matured
  /\ LET entry == Head(pending_labels)
         rows == Append(mapped_rows, [entry |-> entry, future |-> result])
     IN \/ /\ ~usable_row(entry, result)
           /\ pending_labels' = Tail(pending_labels)
           /\ UNCHANGED <<gpu_pc, mapped_rows, model_update_in_flight, device>>
        \/ /\ usable_row(entry, result)
           /\ mapped_rows = <<>> /\ model_update_in_flight
           /\ gpu_pc' = "throw"
           /\ UNCHANGED <<pending_labels, mapped_rows, model_update_in_flight, device>>
        \/ /\ usable_row(entry, result)
           /\ ~(mapped_rows = <<>> /\ model_update_in_flight)
           /\ pending_labels' = Tail(pending_labels)
           /\ mapped_rows' = IF Len(rows) = BatchRows THEN <<>> ELSE rows
           /\ model_update_in_flight' = (model_update_in_flight \/ Len(rows) = BatchRows)
           /\ device' = IF Len(rows) = BatchRows THEN "running" ELSE device
           /\ UNCHANGED gpu_pc
  /\ UNCHANGED <<next_update_version, rtl_results_consumed, model_updates_published,
                 input_complete, gpu_stop_requested, gpu_failed>>
  /\ UNCHANGED transportVars

(* The rest of consume_result(), finish_pop() and the metric. *)
GpuFinishPop ==
  /\ gpu_pc = "label"
  /\ ~matured
  /\ pending_labels' =
       IF outcome[result].error THEN pending_labels ELSE Append(pending_labels, result)
  /\ finish_pop
  /\ rtl_results_consumed' = rtl_results_consumed + 1
  /\ gpu_pc' = "complete"
  /\ UNCHANGED <<mapped_rows, model_update_in_flight, next_update_version,
                 model_updates_published, input_complete, gpu_stop_requested,
                 gpu_failed, device>>
  /\ UNCHANGED <<outcome, mailboxVars>>

(* input_complete_ is loaded relaxed, before result_ring_.empty(). *)
GpuInputComplete ==
  /\ gpu_pc = "complete"
  /\ gpu_pc' = IF input_complete THEN "empty" ELSE "poll"
  /\ UNCHANGED <<pending_labels, mapped_rows, model_update_in_flight,
                 next_update_version, rtl_results_consumed, model_updates_published,
                 input_complete, gpu_stop_requested, gpu_failed, device>>
  /\ UNCHANGED transportVars

(* A mistake: leave as soon as the input is complete. *)
GpuEmpty_ignores_ring ==
  /\ gpu_pc = "empty"
  /\ gpu_pc' = IF ~model_update_in_flight THEN "leaving" ELSE "poll"
  /\ UNCHANGED <<pending_labels, mapped_rows, model_update_in_flight,
                 next_update_version, rtl_results_consumed, model_updates_published,
                 input_complete, gpu_stop_requested, gpu_failed, device>>
  /\ UNCHANGED transportVars

GpuEmpty ==
  /\ gpu_pc = "empty"
  /\ gpu_pc' = IF RingEmpty /\ ~model_update_in_flight THEN "leaving" ELSE "poll"
  /\ UNCHANGED <<pending_labels, mapped_rows, model_update_in_flight,
                 next_update_version, rtl_results_consumed, model_updates_published,
                 input_complete, gpu_stop_requested, gpu_failed, device>>
  /\ UNCHANGED transportVars

(* A short final batch and the last horizon's entries are dropped. *)
GpuLeaving ==
  /\ gpu_pc = "leaving"
  /\ mapped_rows' = <<>>
  /\ pending_labels' = <<>>
  /\ gpu_pc' = "done"
  /\ UNCHANGED <<model_update_in_flight, next_update_version, rtl_results_consumed,
                 model_updates_published, input_complete, gpu_stop_requested,
                 gpu_failed, device>>
  /\ UNCHANGED transportVars

(* Any OpenCL call may fail: polling, mapping, submitting, discarding.      *)
GpuOpenclFailure ==
  /\ OpenclMayFail
  /\ \/ gpu_pc = "poll" /\ model_update_in_flight
     \/ /\ gpu_pc = "label" /\ matured
        /\ usable_row(Head(pending_labels), result)
        /\ mapped_rows = <<>> \/ Len(mapped_rows) + 1 = BatchRows
     \/ gpu_pc \in {"stopping", "leaving"} /\ mapped_rows # <<>>
  /\ gpu_pc' = "throw"
  /\ UNCHANGED <<pending_labels, mapped_rows, model_update_in_flight,
                 next_update_version, rtl_results_consumed, model_updates_published,
                 input_complete, gpu_stop_requested, gpu_failed, device>>
  /\ UNCHANGED transportVars

(* The thread body's handler: it sets gpu_failed; RequestRtlStop, in        *)
(* LiveCoordinator, is its last step.                                       *)
GpuCatch ==
  /\ gpu_pc = "throw"
  /\ gpu_failed' = TRUE
  /\ gpu_pc' = "request_stop"
  /\ UNCHANGED <<pending_labels, mapped_rows, model_update_in_flight,
                 next_update_version, rtl_results_consumed, model_updates_published,
                 input_complete, gpu_stop_requested, device>>
  /\ UNCHANGED transportVars

GpuThread ==
  \/ GpuPoll
  \/ GpuStopTest
  \/ GpuTryPop
  \/ GpuStopping
  \/ GpuLabel
  \/ GpuFinishPop
  \/ GpuInputComplete
  \/ GpuEmpty
  \/ GpuLeaving
  \/ GpuCatch
=============================================================================
