--------------------------- MODULE VerilatorWorker ---------------------------
(***************************************************************************)
(* VerilatorWorker::run (src/verilator/verilator_worker.cpp) on its thread, *)
(* and the thread body around it in LiveCoordinator::run: the worker feeds  *)
(* events to the simulated RTL one clock at a time, moves each held result  *)
(* into the ring, and applies model updates at event boundaries.            *)
(*                                                                          *)
(* The RTL behind VerilatorRunner is the promise of market_stream_adapter:  *)
(* it is idle, or busy with one event for some clocks, or holds that        *)
(* event's result until it is accepted.                                     *)
(***************************************************************************)
EXTENDS LiveTransport

CONSTANTS
  MaxCoreCycles,        \* bound: clocks an event may keep the RTL busy
  InitialModel          \* the model the constructor writes: version, thresholds

ASSUME WorkerAssumption ==
  /\ MaxCoreCycles \in Nat \ {0}
  /\ InitialModel.version \in Nat
  /\ valid_model_update(InitialModel, 0)

VARIABLES
  rtl_pc,                    \* where the RTL thread is in run()
  core,                      \* [state, cycles]: the RTL as the runner sees it
  next_event,                \* also metrics_.input_events_accepted
  stream_results_published,
  backpressure_started,
  active_parameters,
  model_updates_applied,
  rtl_stop_requested,
  stream_drained,
  rtl_failed,                \* also: rtl_failure holds an exception
  rtl_finished

workerVars == <<rtl_pc, core, next_event, stream_results_published,
                backpressure_started, active_parameters, model_updates_applied,
                rtl_stop_requested, stream_drained, rtl_failed, rtl_finished>>

Idle == [state |-> "idle", cycles |-> 0]
Held == [state |-> "held", cycles |-> 0]
Busy(n) == [state |-> "busy", cycles |-> n]

(* Plausible mistakes in the definitions that follow; see PROJECT.json. *)
input_ready_while_busy == core # Held
held_event_index_after_step == next_event

(* The result register holds the event accepted last. *)
stream_result_valid == core = Held
input_ready == core = Idle
held_event_index == next_event - 1

(* The event pointer handed to runner_.step() is not null. *)
input_event_present == next_event < EventCount

WorkerInit ==
  /\ rtl_pc = "loop"
  /\ core = Idle
  /\ next_event = 0
  /\ stream_results_published = 0
  /\ backpressure_started = FALSE
  /\ active_parameters = InitialModel
  /\ model_updates_applied = 0
  /\ rtl_stop_requested = FALSE
  /\ stream_drained = FALSE
  /\ rtl_failed = FALSE
  /\ rtl_finished = FALSE

-----------------------------------------------------------------------------
(* runner_.step(): one RTL clock, with an event offered while there are     *)
(* more.  A result accepted in this clock leaves the register; the next     *)
(* event can enter only in a later clock, because in_ready is low while     *)
(* result_valid is high.                                                    *)
step(offer, accept) ==
  \/ /\ core.state = "idle"
     /\ IF offer
          THEN /\ \E n \in 1 .. MaxCoreCycles : core' = Busy(n)
               /\ next_event' = next_event + 1
          ELSE UNCHANGED <<core, next_event>>
  \/ /\ core.state = "busy"
     /\ core' = IF core.cycles = 1 THEN Held ELSE Busy(core.cycles - 1)
     /\ UNCHANGED next_event
  \/ /\ core.state = "held"
     /\ core' = IF accept THEN Idle ELSE core
     /\ UNCHANGED next_event

(* apply_waiting_model_update(): take, validate, write the shadow bank and  *)
(* commit, then tell the observer.  What it does to the thread is pc: on to *)
(* then, or into the exception handler.                                     *)
apply_waiting_model_update(then) ==
  /\ take
  /\ \/ /\ latest_update = {}
        /\ rtl_pc' = then
        /\ UNCHANGED <<active_parameters, model_updates_applied>>
     \/ \E update \in latest_update :
          \/ /\ ~valid_model_update(update, active_parameters.version)
             /\ rtl_pc' = "throw"
             /\ UNCHANGED <<active_parameters, model_updates_applied>>
          \/ /\ valid_model_update(update, active_parameters.version)
             /\ active_parameters' = update
             /\ model_updates_applied' = model_updates_applied + 1
             /\ rtl_pc' \in {then} \cup
                  (IF "autosave" \in Faults THEN {"throw"} ELSE {})
  /\ UNCHANGED <<core, next_event, stream_results_published, backpressure_started,
                 rtl_stop_requested, stream_drained, rtl_failed, rtl_finished,
                 outcome, ringVars>>

-----------------------------------------------------------------------------
stream_has_work ==
  \/ input_event_present
  \/ stream_results_published < next_event
  \/ stream_result_valid

(* The loop test, and the choice between its two halves. *)
RtlLoop ==
  /\ rtl_pc = "loop"
  /\ rtl_pc' = CASE rtl_stop_requested -> "exit"
                 [] ~rtl_stop_requested /\ stream_has_work -> "reserve"
                 [] OTHER -> "idle_apply"
  /\ stream_drained' = (stream_drained \/ rtl_pc' = "idle_apply")
  /\ UNCHANGED <<core, next_event, stream_results_published, backpressure_started,
                 active_parameters, model_updates_applied, rtl_stop_requested,
                 rtl_failed, rtl_finished, transportVars>>

RtlIdleApply == rtl_pc = "idle_apply" /\ apply_waiting_model_update("idle_closed")

(* closed() and has_update() take the mutex separately.  A clock with no    *)
(* event on offer ends the idle iteration.                                  *)
RtlIdleClosed ==
  /\ rtl_pc = "idle_closed"
  /\ IF mailbox_closed
       THEN rtl_pc' = "idle_has_update" /\ UNCHANGED <<core, next_event>>
       ELSE rtl_pc' = "loop" /\ step(FALSE, FALSE)
  /\ UNCHANGED <<stream_results_published, backpressure_started, active_parameters,
                 model_updates_applied, rtl_stop_requested, stream_drained,
                 rtl_failed, rtl_finished, transportVars>>

(* A mistake: closed() alone ends the loop. *)
RtlIdleHasUpdate_unchecked ==
  /\ rtl_pc = "idle_has_update"
  /\ rtl_pc' = "exit"
  /\ UNCHANGED <<core, next_event, stream_results_published, backpressure_started,
                 active_parameters, model_updates_applied, rtl_stop_requested,
                 stream_drained, rtl_failed, rtl_finished, transportVars>>

RtlIdleHasUpdate ==
  /\ rtl_pc = "idle_has_update"
  /\ IF latest_update = {}
       THEN rtl_pc' = "exit" /\ UNCHANGED <<core, next_event>>
       ELSE rtl_pc' = "loop" /\ step(FALSE, FALSE)
  /\ UNCHANGED <<stream_results_published, backpressure_started, active_parameters,
                 model_updates_applied, rtl_stop_requested, stream_drained,
                 rtl_failed, rtl_finished, transportVars>>

(* A held result: reserve a slot for it, if the ring has one. *)
RtlReserve ==
  /\ rtl_pc = "reserve"
  /\ stream_result_valid
  /\ try_reserve_push
  /\ backpressure_started' = FALSE
  /\ rtl_pc' = "decode"
  /\ UNCHANGED <<core, next_event, stream_results_published, active_parameters,
                 model_updates_applied, rtl_stop_requested, stream_drained,
                 rtl_failed, rtl_finished, outcome, mailboxVars>>

(* read_stream_result_into the reserved slot. *)
RtlDecode ==
  /\ rtl_pc = "decode"
  /\ write_reserved_slot(held_event_index)
  /\ rtl_pc' = "step"
  /\ UNCHANGED <<core, next_event, stream_results_published, backpressure_started,
                 active_parameters, model_updates_applied, rtl_stop_requested,
                 stream_drained, rtl_failed, rtl_finished, outcome, mailboxVars>>

(* The ring is full: start or keep the timer, and give up when it runs out. *)
RtlRingFull ==
  /\ rtl_pc = "reserve"
  /\ stream_result_valid
  /\ RingFull
  /\ backpressure_started' = TRUE
  /\ rtl_pc' \in {"step"} \cup
       (IF backpressure_started /\ "backpressure_timeout" \in Faults
          THEN {"throw"} ELSE {})
  /\ UNCHANGED <<core, next_event, stream_results_published, active_parameters,
                 model_updates_applied, rtl_stop_requested, stream_drained,
                 rtl_failed, rtl_finished, transportVars>>

(* No result is held: the timer is off, and an idle core may get an update. *)
RtlNothingHeld ==
  /\ rtl_pc = "reserve"
  /\ ~stream_result_valid
  /\ backpressure_started' = FALSE
  /\ rtl_pc' = IF input_ready THEN "apply" ELSE "step"
  /\ UNCHANGED <<core, next_event, stream_results_published, active_parameters,
                 model_updates_applied, rtl_stop_requested, stream_drained,
                 rtl_failed, rtl_finished, transportVars>>

RtlApply == rtl_pc = "apply" /\ apply_waiting_model_update("step")

(* One clock, and the publication of the result it took.  step.result_accepted *)
(* is false when a slot is reserved but no result was held: cancel and throw.  *)
RtlStep ==
  /\ rtl_pc = "step"
  /\ step(input_event_present, producer_has_reservation)
  /\ \/ /\ ~producer_has_reservation
        /\ rtl_pc' = "loop"
        /\ UNCHANGED <<stream_results_published, ringVars>>
     \/ /\ producer_has_reservation
        /\ stream_result_valid
        /\ publish_push
        /\ stream_results_published' = stream_results_published + 1
        /\ rtl_pc' = "loop"
     \/ /\ producer_has_reservation
        /\ ~stream_result_valid
        /\ cancel_push
        /\ rtl_pc' = "throw"
        /\ UNCHANGED stream_results_published
  /\ UNCHANGED <<backpressure_started, active_parameters, model_updates_applied,
                 rtl_stop_requested, stream_drained, rtl_failed, rtl_finished,
                 outcome, mailboxVars>>

(* Leaving run() normally. *)
RtlExit ==
  /\ rtl_pc = "exit"
  /\ stream_drained' = TRUE
  /\ rtl_pc' = "finish"
  /\ UNCHANGED <<core, next_event, stream_results_published, backpressure_started,
                 active_parameters, model_updates_applied, rtl_stop_requested,
                 rtl_failed, rtl_finished, transportVars>>

(* The thread body's handler, and its last store. *)
RtlCatch ==
  /\ rtl_pc = "throw"
  /\ rtl_failed' = TRUE
  /\ rtl_pc' = "finish"
  /\ UNCHANGED <<core, next_event, stream_results_published, backpressure_started,
                 active_parameters, model_updates_applied, rtl_stop_requested,
                 stream_drained, rtl_finished, transportVars>>

RtlFinish ==
  /\ rtl_pc = "finish"
  /\ rtl_finished' = TRUE
  /\ rtl_pc' = "done"
  /\ UNCHANGED <<core, next_event, stream_results_published, backpressure_started,
                 active_parameters, model_updates_applied, rtl_stop_requested,
                 stream_drained, rtl_failed, transportVars>>

RtlThread ==
  \/ RtlLoop
  \/ RtlIdleApply
  \/ RtlIdleClosed
  \/ RtlIdleHasUpdate
  \/ RtlReserve
  \/ RtlDecode
  \/ RtlRingFull
  \/ RtlNothingHeld
  \/ RtlApply
  \/ RtlStep
  \/ RtlExit
  \/ RtlCatch
  \/ RtlFinish
=============================================================================
