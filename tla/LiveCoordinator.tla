--------------------------- MODULE LiveCoordinator ---------------------------
(***************************************************************************)
(* LiveCoordinator::run (src/app/live_coordinator.cpp): one replay with its *)
(* threads.  In gpu_mode it runs the RTL worker, the GPU worker and the     *)
(* coordinator that waits, shuts down in order and joins; without it the    *)
(* coordinator itself drains the ring.  The behaviour starts when the RTL   *)
(* thread has just been created.                                            *)
(***************************************************************************)
EXTENDS VerilatorWorker, GpuWorker

CONSTANT GpuModes     \* the routes to consider

ASSUME CoordinatorAssumption ==
  /\ GpuModes \subseteq BOOLEAN
  /\ FirstUpdateVersion = InitialModel.version + 1

VARIABLES
  gpu_mode,           \* gpu_model != nullptr
  coord_pc,
  first_error         \* {} or {i}: result.error and result.failure_index

coordVars == <<gpu_mode, coord_pc, first_error>>
vars == <<transportVars, workerVars, gpuVars, coordVars>>

Init ==
  /\ TransportInit
  /\ WorkerInit
  /\ GpuInit
  /\ gpu_mode \in GpuModes
  /\ coord_pc = IF gpu_mode THEN "start_gpu" ELSE "close"
  /\ first_error = {}

(* The coordinator's only effects on the workers are its requests. *)
workerUntouched == UNCHANGED <<workerVars, transportVars>>
gpuUntouched == UNCHANGED gpuVars

-----------------------------------------------------------------------------
(* The GPU route. *)

(* Construct the GpuWorker and start its thread.  When the constructor      *)
(* throws, ~rtl_thread runs on a joinable thread: std::terminate.           *)
StartGpu ==
  /\ coord_pc = "start_gpu"
  /\ \/ gpu_pc' = "poll" /\ coord_pc' = "wait_drained"
     \/ /\ "gpu_config" \in Faults
        /\ coord_pc' = "terminated"
        /\ UNCHANGED gpu_pc
  /\ UNCHANGED <<pending_labels, mapped_rows, model_update_in_flight,
                 next_update_version, rtl_results_consumed, model_updates_published,
                 input_complete, gpu_stop_requested, gpu_failed, device, gpu_mode, first_error>>
  /\ workerUntouched

(* while (!stream_drained() && !gpu_failed): two loads. *)
WaitDrained ==
  /\ coord_pc = "wait_drained"
  /\ coord_pc' = IF stream_drained THEN "decide_gpu" ELSE "wait_gpu_failed"
  /\ UNCHANGED <<gpu_mode, first_error>>
  /\ workerUntouched /\ gpuUntouched

WaitGpuFailed ==
  /\ coord_pc = "wait_gpu_failed"
  /\ coord_pc' = IF gpu_failed THEN "decide_gpu" ELSE "wait_drained"
  /\ UNCHANGED <<gpu_mode, first_error>>
  /\ workerUntouched /\ gpuUntouched

(* if (gpu_failed || rtl_failed) request_stop else request_input_complete. *)
DecideGpu ==
  /\ coord_pc = "decide_gpu"
  /\ coord_pc' = IF gpu_failed THEN "request_stop" ELSE "decide_rtl"
  /\ UNCHANGED <<gpu_mode, first_error>>
  /\ workerUntouched /\ gpuUntouched

DecideRtl ==
  /\ coord_pc = "decide_rtl"
  /\ coord_pc' = IF rtl_failed THEN "request_stop" ELSE "request_input_complete"
  /\ UNCHANGED <<gpu_mode, first_error>>
  /\ workerUntouched /\ gpuUntouched

RequestEnd ==
  /\ coord_pc \in {"request_stop", "request_input_complete"}
  /\ gpu_stop_requested' = (gpu_stop_requested \/ coord_pc = "request_stop")
  /\ input_complete' = (input_complete \/ coord_pc = "request_input_complete")
  /\ coord_pc' = "join_gpu"
  /\ UNCHANGED <<gpu_pc, pending_labels, mapped_rows, model_update_in_flight,
                 next_update_version, rtl_results_consumed, model_updates_published,
                 gpu_failed, device, gpu_mode, first_error>>
  /\ workerUntouched

(* gpu_thread.join(), then rethrow a GPU failure: the RTL thread has not    *)
(* been joined, so unwinding ends in std::terminate.                        *)
JoinGpu ==
  /\ coord_pc = "join_gpu"
  /\ gpu_pc = "done"
  /\ coord_pc' = IF gpu_failed THEN "terminated" ELSE "close"
  /\ UNCHANGED <<gpu_mode, first_error>>
  /\ workerUntouched /\ gpuUntouched

(* A mistake: the mailbox is never closed. *)
CloseMailbox_forgotten ==
  /\ coord_pc = "close"
  /\ coord_pc' = IF gpu_mode THEN "join_rtl" ELSE "drain_finished"
  /\ UNCHANGED <<gpu_mode, first_error>>
  /\ workerUntouched /\ gpuUntouched

(* update_mailbox.close(): after the GPU thread, or at once without one. *)
CloseMailbox ==
  /\ coord_pc = "close"
  /\ close
  /\ coord_pc' = IF gpu_mode THEN "join_rtl" ELSE "drain_finished"
  /\ UNCHANGED <<gpu_mode, first_error, outcome, ringVars, workerVars>>
  /\ gpuUntouched

(* Mistakes: the failure is not looked at; the thread is not waited for. *)
JoinRtl_swallows ==
  /\ coord_pc = "join_rtl"
  /\ rtl_pc = "done"
  /\ coord_pc' = "returned"
  /\ UNCHANGED <<gpu_mode, first_error>>
  /\ workerUntouched /\ gpuUntouched
JoinRtl_detached ==
  /\ coord_pc = "join_rtl"
  /\ coord_pc' = IF rtl_failed THEN "threw" ELSE "returned"
  /\ UNCHANGED <<gpu_mode, first_error>>
  /\ workerUntouched /\ gpuUntouched

(* rtl_thread.join(), then return or rethrow the RTL's failure. *)
JoinRtl ==
  /\ coord_pc = "join_rtl"
  /\ rtl_pc = "done"
  /\ coord_pc' = IF rtl_failed THEN "threw" ELSE "returned"
  /\ UNCHANGED <<gpu_mode, first_error>>
  /\ workerUntouched /\ gpuUntouched

-----------------------------------------------------------------------------
(* A mistake: the drain ends with the RTL thread, whatever the ring holds. *)
DrainEmpty_unchecked ==
  /\ coord_pc = "drain_empty"
  /\ coord_pc' = "join_rtl"
  /\ UNCHANGED <<gpu_mode, first_error>>
  /\ workerUntouched /\ gpuUntouched

(* The route without a GPU: the coordinator is the ring's consumer.         *)
(* while (!rtl_finished || !empty()): the acquire load that returns true    *)
(* also makes every earlier publication visible, so while a publication has *)
(* not reached this thread the load still returns false.                    *)
DrainFinished ==
  /\ coord_pc = "drain_finished"
  /\ coord_pc' =
       IF rtl_finished /\ published_write_position = producer_write_position
         THEN "drain_empty" ELSE "drain_pop"
  /\ UNCHANGED <<gpu_mode, first_error>>
  /\ workerUntouched /\ gpuUntouched

DrainEmpty ==
  /\ coord_pc = "drain_empty"
  /\ coord_pc' = IF RingEmpty THEN "join_rtl" ELSE "drain_pop"
  /\ UNCHANGED <<gpu_mode, first_error>>
  /\ workerUntouched /\ gpuUntouched

DrainPop ==
  /\ coord_pc = "drain_pop"
  /\ IF RingEmpty
       THEN coord_pc' = "drain_finished" /\ UNCHANGED ringVars
       ELSE coord_pc' = "drain_read" /\ try_begin_pop
  /\ UNCHANGED <<gpu_mode, first_error, outcome, mailboxVars, workerVars>>
  /\ gpuUntouched

(* Record the first error, then release the slot. *)
DrainRead ==
  /\ coord_pc = "drain_read"
  /\ first_error' =
       IF first_error = {} /\ outcome[result].error THEN {result} ELSE first_error
  /\ finish_pop
  /\ coord_pc' = "drain_finished"
  /\ UNCHANGED <<gpu_mode, outcome, mailboxVars, workerVars>>
  /\ gpuUntouched

-----------------------------------------------------------------------------
(* The last step of the GPU thread's handler: rtl_worker.request_stop(). *)
RequestRtlStop ==
  /\ gpu_pc = "request_stop"
  /\ gpu_pc' = "done"
  /\ rtl_stop_requested' = TRUE
  /\ UNCHANGED <<rtl_pc, core, next_event, stream_results_published,
                 backpressure_started, active_parameters, model_updates_applied,
                 stream_drained, rtl_failed, rtl_finished>>
  /\ UNCHANGED <<pending_labels, mapped_rows, model_update_in_flight,
                 next_update_version, rtl_results_consumed, model_updates_published,
                 input_complete, gpu_stop_requested, gpu_failed, device>>
  /\ UNCHANGED <<transportVars, coordVars>>

Coordinator ==
  \/ StartGpu
  \/ WaitDrained
  \/ WaitGpuFailed
  \/ DecideGpu
  \/ DecideRtl
  \/ RequestEnd
  \/ JoinGpu
  \/ CloseMailbox
  \/ JoinRtl
  \/ DrainFinished
  \/ DrainEmpty
  \/ DrainPop
  \/ DrainRead

(* std::terminate ends every thread. *)
Alive == coord_pc # "terminated"

RtlRuns == Alive /\ RtlThread /\ UNCHANGED <<gpuVars, coordVars>>
GpuRuns == Alive /\ (RequestRtlStop \/ (GpuThread /\ UNCHANGED <<workerVars, coordVars>>))
DeviceRuns == Alive /\ DeviceCompletes /\ UNCHANGED <<workerVars, coordVars>>
OpenclFails == Alive /\ GpuOpenclFailure /\ UNCHANGED <<workerVars, coordVars>>
StoresPropagate ==
  /\ Propagate
  /\ UNCHANGED <<outcome, mailboxVars, workerVars, gpuVars, coordVars>>

(* run() has ended, one way or another. *)
Ended == coord_pc \in {"returned", "threw", "terminated"}
Terminating == Ended /\ UNCHANGED vars

Next ==
  \/ RtlRuns
  \/ GpuRuns
  \/ DeviceRuns
  \/ OpenclFails
  \/ StoresPropagate
  \/ Coordinator
  \/ Terminating

(* The scheduler runs every thread that can run, the device finishes its    *)
(* work, and stores become visible in finite time.                          *)
Fairness ==
  /\ WF_vars(RtlRuns)
  /\ WF_vars(GpuRuns)
  /\ WF_vars(DeviceRuns)
  /\ WF_vars(StoresPropagate)
  /\ WF_vars(Coordinator)

Spec == Init /\ [][Next]_vars
LiveSpec == Spec /\ Fairness

-----------------------------------------------------------------------------
(* Properties. *)

(* Results reach the GPU worker exactly once and in stream order: the k-th  *)
(* value it is handed by try_begin_pop() is the result of event k.  Through *)
(* RTL register, reserved slot, ring and backpressure nothing is lost,      *)
(* duplicated or overtaken.                                                 *)
InOrderDelivery ==
  gpu_mode /\ consumer_has_value => result = rtl_results_consumed

(* consume_result() asks for "at least" the horizon, and a row whose future *)
(* is later than that would train on the wrong label: every row, the one    *)
(* being made included, pairs an entry with the result exactly LabelHorizon *)
(* events later, and the entry was no book error.                           *)
LabelsUseExactHorizon ==
  /\ gpu_pc = "label" /\ matured => result = Head(pending_labels) + LabelHorizon
  /\ \A i \in 1 .. Len(mapped_rows) :
       /\ mapped_rows[i].future = mapped_rows[i].entry + LabelHorizon
       /\ ~outcome[mapped_rows[i].entry].error

(* An update is lost only by being replaced by a newer one: the newest      *)
(* version published waits in the mailbox or is active in the RTL.          *)
NewestModelNotLost ==
  LET newest == InitialModel.version + model_updates_published
  IN \/ \E update \in latest_update : update.version = newest
     \/ latest_update = {} /\ active_parameters.version = newest

(* What a normal return of run() promises: the result of each accepted      *)
(* event was published and consumed, the ring is empty, and a replay        *)
(* without a book error has accepted every event.  How far a replay goes    *)
(* after a book error is left open: docs/operations.md:55 has it stop there,*)
(* the code goes on.  With a GPU worker all this needs StaleLoads = FALSE:  *)
(* input_complete_ is relaxed, and may be seen before the last results.     *)
AllResultsConsumed ==
  coord_pc = "returned" =>
    /\ stream_results_published = next_event
    /\ gpu_mode => rtl_results_consumed = next_event
    /\ consumer_read_position = producer_write_position
    /\ (\A i \in EventIndex : ~outcome[i].error) => next_event = EventCount

(* ... and the last update the GPU published is the model the RTL ends with *)
(* (and result.active_parameters), even when it was published while the RTL *)
(* worker was between its take() and its closed() test.                     *)
FinalUpdateApplied ==
  coord_pc = "returned" =>
    /\ latest_update = {}
    /\ active_parameters.version = InitialModel.version + model_updates_published

(* With nothing failing outside the program, no interleaving makes a worker *)
(* throw: publish() and validate_model_update() never reject a version, a   *)
(* held result never disappears, no batch is mapped while one is in flight. *)
NoSpuriousFailure == rtl_pc # "throw" /\ gpu_pc # "throw"

(* No failure is swallowed: run() returns normally only if no thread caught *)
(* an exception.                                                            *)
FailureNotSwallowed == coord_pc = "returned" => ~rtl_failed /\ ~gpu_failed

(* run() leaves, normally or by an exception, only when both threads that   *)
(* use its locals (ring, mailbox, workers) have ended.                      *)
ThreadsJoined ==
  coord_pc \in {"returned", "threw"} =>
    rtl_pc = "done" /\ gpu_pc \in {"done", "not_started"}

(* Without a GPU, result.failure_index is the earliest book error of the    *)
(* replay, and a replay with an error never returns without one.            *)
FirstErrorIsEarliest ==
  ~gpu_mode /\ coord_pc = "returned" =>
    first_error = {i \in EventIndex : /\ outcome[i].error
                                      /\ \A j \in 0 .. i - 1 : ~outcome[j].error}

(* The commit of a new model is an event-boundary operation: the RTL has no *)
(* event inside, and each accepted event's result has been published, so no *)
(* signal mixes two models.                                                 *)
CommitAtEventBoundary ==
  [][active_parameters' # active_parameters =>
       core = Idle /\ stream_results_published = next_event]_vars

(* run() ends, with no thread waiting for another for ever.                 *)
Termination == <>Ended

(* Stated by the documentation, and not so: see the findings. *)

(* docs/architecture.md: an RTL exception makes the coordinator stop the    *)
(* other side and rethrow.                                                  *)
RtlFailureEndsRun == rtl_failed ~> Ended

(* docs/architecture.md: failures are rethrown after joining the threads,   *)
(* so a failure of the GPU never ends in std::terminate.                    *)
FailureIsRethrown == coord_pc # "terminated"

(* README.md: the GPU updates the weights and retains the thresholds of the *)
(* active model.                                                            *)
ThresholdsRetained ==
  /\ active_parameters.buy_threshold = InitialModel.buy_threshold
  /\ active_parameters.sell_threshold = InitialModel.sell_threshold
=============================================================================
