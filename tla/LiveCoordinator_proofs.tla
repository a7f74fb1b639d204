------------------------ MODULE LiveCoordinator_proofs ------------------------
(***************************************************************************)
(* Proofs about LiveCoordinator: for every replay, ring capacity, batch     *)
(* size, label horizon, initial model and set of faults, with and without a *)
(* GPU, and unless a theorem says otherwise for both kinds of load.         *)
(***************************************************************************)
EXTENDS LiveCoordinator, SpscRing_proofs

-----------------------------------------------------------------------------
(* The control of the three threads. *)

(* Every event has gone through the RTL and its result into the ring. *)
drained ==
  next_event = EventCount /\ stream_results_published = EventCount /\ core = Idle

Core == {Idle, Held} \union {Busy(n) : n \in 1 .. MaxCoreCycles}

(* The RTL thread.  A result is in flight exactly while the core is not     *)
(* idle; a slot is reserved only between the reservation of a held result   *)
(* and the clock that takes it.                                             *)
RtlInv ==
  /\ rtl_pc \in {"loop", "reserve", "decode", "apply", "step", "idle_apply", "idle_closed",
                 "idle_has_update", "exit", "throw", "finish", "done"}
  /\ core \in Core
  /\ producer_has_reservation \in BOOLEAN /\ rtl_stop_requested \in BOOLEAN
  /\ stream_drained \in BOOLEAN /\ rtl_failed \in BOOLEAN /\ rtl_finished \in BOOLEAN
  /\ stream_results_published \in Nat /\ next_event \in 0 .. EventCount
  /\ next_event = stream_results_published + (IF core = Idle THEN 0 ELSE 1)
  /\ producer_has_reservation => rtl_pc \in {"decode", "step"} /\ core = Held
  /\ rtl_pc = "decode" => producer_has_reservation
  /\ rtl_pc = "apply" => core = Idle
  /\ rtl_pc \in {"idle_apply", "idle_closed", "idle_has_update"} => drained
  /\ stream_drained => drained \/ rtl_stop_requested
  /\ rtl_failed => rtl_pc \in {"finish", "done"}
  /\ rtl_finished <=> rtl_pc = "done"

(* Where the RTL thread's end leaves the mailbox: it goes without a failure *)
(* and without being stopped only when nothing waits and nothing can come.  *)
ExitInv ==
  /\ rtl_pc = "idle_has_update" => mailbox_closed
  /\ rtl_pc \in {"exit", "finish", "done"} =>
       rtl_failed \/ rtl_stop_requested \/ (drained /\ mailbox_closed /\ latest_update = {})

(* The coordinator, and what it knows of the other two. *)
GpuRoute == {"start_gpu", "wait_drained", "wait_gpu_failed", "decide_gpu", "decide_rtl",
             "request_stop", "request_input_complete", "join_gpu", "terminated"}
DrainRoute == {"drain_finished", "drain_empty", "drain_pop", "drain_read"}

CoordInv ==
  /\ gpu_mode \in BOOLEAN
  /\ coord_pc \in (IF gpu_mode THEN GpuRoute ELSE DrainRoute)
                  \union {"close", "join_rtl", "returned", "threw"}
  /\ mailbox_closed => coord_pc \in DrainRoute \union {"join_rtl", "returned", "threw"}
  /\ gpu_mode /\ coord_pc \in {"close", "join_rtl", "returned", "threw"} =>
       gpu_pc = "done" /\ ~gpu_failed
  /\ coord_pc \in {"returned", "threw"} => rtl_pc = "done"
  /\ coord_pc = "returned" => ~rtl_failed

(* The GPU thread, and the requests that reach it. *)
GpuInv ==
  /\ gpu_pc \in {"not_started", "poll", "pop", "begin", "stopping", "label", "complete", "empty",
                 "leaving", "throw", "request_stop", "done"}
  /\ gpu_pc = "not_started" <=> ~gpu_mode \/ coord_pc = "start_gpu"
                                \/ (coord_pc = "terminated" /\ ~gpu_failed)
  /\ gpu_failed => gpu_pc \in {"request_stop", "done"}
  /\ gpu_pc = "request_stop" => gpu_failed
  /\ rtl_stop_requested => gpu_failed
  /\ coord_pc = "decide_gpu" => stream_drained \/ gpu_failed
  /\ coord_pc \in {"decide_rtl", "request_input_complete"} => stream_drained
  /\ coord_pc = "request_stop" => gpu_failed \/ rtl_failed
  /\ gpu_stop_requested => gpu_failed \/ rtl_failed
  /\ input_complete => stream_drained

(* The versions: the newest is in the mailbox or active. *)
newest == InitialModel.version + model_updates_published

VersionInv ==
  /\ model_updates_published \in Nat
  /\ next_update_version = newest + 1
  /\ active_parameters.version \in Nat
  /\ \/ latest_update = {} /\ active_parameters.version = newest
     \/ \E update \in latest_update :
          /\ latest_update = {update}
          /\ update.version = newest
          /\ update.buy_threshold > update.sell_threshold
          /\ active_parameters.version < newest

ControlInv == RtlInv /\ ExitInv /\ CoordInv /\ GpuInv /\ VersionInv

-----------------------------------------------------------------------------
(* The assumptions. *)
LEMMA Bounds ==
  /\ EventCount \in Nat /\ MaxCoreCycles \in Nat \ {0} /\ InitialModel.version \in Nat
  /\ valid_model_update(InitialModel, 0) /\ FirstUpdateVersion = InitialModel.version + 1
  /\ BatchRows \in Nat \ {0} /\ LabelHorizon \in Nat \ {0}
  /\ TrainingThresholds.buy_threshold > TrainingThresholds.sell_threshold
  BY TransportAssumption, WorkerAssumption, CoordinatorAssumption, GpuAssumption

(* One clock of the RTL, as the runner sees it. *)
LEMMA CoreStep ==
  ASSUME core \in Core, NEW offer \in BOOLEAN, NEW accept \in BOOLEAN, step(offer, accept)
  PROVE  /\ core' \in Core
         /\ core = Idle /\ ~offer => core' = Idle /\ next_event' = next_event
         /\ core = Idle /\ offer => core' # Idle /\ core' # Held /\ next_event' = next_event + 1
         /\ core # Idle /\ core # Held => core' # Idle /\ next_event' = next_event
         /\ core = Held /\ accept => core' = Idle /\ next_event' = next_event
         /\ core = Held /\ ~accept => core' = Held /\ next_event' = next_event
  <1>1. Idle.state = "idle" /\ Held.state = "held" /\ \A n : Busy(n).state = "busy" /\ Busy(n).cycles = n
    BY DEF Idle, Held, Busy
  <1>2. Idle # Held /\ \A n : Busy(n) # Idle /\ Busy(n) # Held
    BY <1>1
  <1>3. CASE core = Idle
    BY <1>1, <1>2, <1>3 DEF step, Core
  <1>4. CASE core = Held
    BY <1>1, <1>2, <1>4 DEF step, Core
  <1>5. CASE core # Idle /\ core # Held
    <2>1. PICK n \in 1 .. MaxCoreCycles : core = Busy(n)
      BY <1>5 DEF Core
    <2>2. core' = (IF n = 1 THEN Held ELSE Busy(n - 1)) /\ next_event' = next_event
      BY <1>1, <2>1 DEF step
    <2>3. core' \in Core
      BY <2>2, Bounds DEF Core
    <2>. QED
      BY <1>2, <1>5, <2>2, <2>3
  <1>. QED
    BY <1>3, <1>4, <1>5

(* What no step of the RTL thread does. *)
LEMMA RtlEffects ==
  ASSUME RtlInv, RtlThread
  PROVE  /\ UNCHANGED <<outcome, mailbox_closed, rtl_stop_requested>>
         /\ stream_drained => stream_drained'
         /\ rtl_failed => rtl_failed'
         /\ rtl_failed' => rtl_failed \/ rtl_pc = "throw"
         /\ rtl_pc # "done"
         /\ latest_update' = latest_update \/ latest_update' = {}
  <1>1. CASE RtlIdleApply \/ RtlApply
    BY <1>1 DEF RtlIdleApply, RtlApply, apply_waiting_model_update, take
  <1>5. CASE RtlLoop
    <2>1. stream_drained \in BOOLEAN
      BY DEF RtlInv
    <2>. QED
      BY <1>5, <2>1 DEF RtlLoop, transportVars, mailboxVars
  <1>2. CASE RtlIdleClosed \/ RtlIdleHasUpdate
    BY <1>2 DEF RtlIdleClosed, RtlIdleHasUpdate, step, transportVars, mailboxVars
  <1>3. CASE RtlReserve \/ RtlDecode \/ RtlRingFull \/ RtlNothingHeld \/ RtlStep
    BY <1>3 DEF RtlReserve, RtlDecode, RtlRingFull, RtlNothingHeld, RtlStep, transportVars, mailboxVars
  <1>4. CASE RtlExit \/ RtlCatch \/ RtlFinish
    BY <1>4 DEF RtlExit, RtlCatch, RtlFinish, transportVars, mailboxVars
  <1>. QED
    BY <1>1, <1>2, <1>3, <1>4, <1>5 DEF RtlThread

-----------------------------------------------------------------------------
(* The RTL thread preserves the control invariant. *)
LEMMA RtlKeepsRtl == ASSUME RtlInv, ExitInv, RtlThread PROVE RtlInv'
  <1>0. /\ core \in Core /\ EventCount \in Nat /\ Idle # Held
        /\ stream_results_published \in Nat /\ next_event \in 0 .. EventCount
    BY Bounds DEF RtlInv, Idle, Held
  <1>1. CASE RtlLoop
    <2>1. ~rtl_stop_requested /\ ~stream_has_work => drained
      BY <1>0 DEF RtlInv, drained, stream_has_work, input_event_present, stream_result_valid
    <2>2. UNCHANGED <<core, next_event, stream_results_published, producer_has_reservation,
                      rtl_stop_requested, rtl_failed, rtl_finished>>
      BY <1>1 DEF RtlLoop, transportVars, ringVars, producerVars
    <2>3. /\ rtl_pc = "loop"
          /\ \/ rtl_pc' \in {"exit", "reserve"} /\ stream_drained' = stream_drained
             \/ rtl_pc' = "idle_apply" /\ drained /\ stream_drained' = TRUE
      BY <1>1, <2>1 DEF RtlLoop, RtlInv
    <2>4. CASE rtl_pc' \in {"exit", "reserve"} /\ stream_drained' = stream_drained
      BY <2>2, <2>3, <2>4 DEF RtlInv, drained
    <2>5. CASE rtl_pc' = "idle_apply" /\ drained /\ stream_drained' = TRUE
      BY <2>2, <2>3, <2>5 DEF RtlInv, drained
    <2>. QED
      BY <2>3, <2>4, <2>5
  <1>2. CASE RtlIdleApply
    BY <1>2 DEF RtlInv, RtlIdleApply, apply_waiting_model_update, drained, ringVars, producerVars
  <1>3. CASE RtlIdleClosed \/ RtlIdleHasUpdate
    <2>1. drained
      BY <1>3 DEF RtlInv, RtlIdleClosed, RtlIdleHasUpdate
    <2>2. core' = core /\ next_event' = next_event
      <3>1. CASE step(FALSE, FALSE)
        <4>1. FALSE \in BOOLEAN /\ core = Idle
          BY <2>1 DEF drained
        <4>. QED
          BY <1>0, <3>1, <4>1, CoreStep
      <3>. QED
        BY <1>3, <3>1 DEF RtlIdleClosed, RtlIdleHasUpdate
    <2>. QED
      BY <1>3, <2>1, <2>2 DEF RtlInv, RtlIdleClosed, RtlIdleHasUpdate, step, drained, transportVars,
                              ringVars, producerVars
  <1>4. CASE RtlReserve
    BY <1>4 DEF RtlInv, RtlReserve, stream_result_valid, try_reserve_push, drained
  <1>5. CASE RtlDecode
    BY <1>5 DEF RtlInv, RtlDecode, write_reserved_slot, drained, producerVars
  <1>6. CASE RtlRingFull \/ RtlNothingHeld
    BY <1>6 DEF RtlInv, RtlRingFull, RtlNothingHeld, stream_result_valid, input_ready, drained,
                transportVars, ringVars, producerVars
  <1>7. CASE RtlApply
    BY <1>7 DEF RtlInv, RtlApply, apply_waiting_model_update, drained, ringVars, producerVars
  <1>8. CASE RtlStep
    <2> DEFINE offer == input_event_present
               accept == producer_has_reservation
    <2>1. step(offer, accept) /\ offer \in BOOLEAN
      BY <1>8 DEF RtlStep, input_event_present
    <2>2. accept \in BOOLEAN /\ (offer <=> next_event < EventCount)
      BY DEF RtlInv, input_event_present
    <2>3. accept => core = Held
      BY DEF RtlInv
    <2>4. /\ core' \in Core
          /\ core = Idle /\ ~offer => core' = Idle /\ next_event' = next_event
          /\ core = Idle /\ offer => core' # Idle /\ core' # Held /\ next_event' = next_event + 1
          /\ core # Idle /\ core # Held => core' # Idle /\ next_event' = next_event
          /\ core = Held /\ accept => core' = Idle /\ next_event' = next_event
          /\ core = Held /\ ~accept => core' = Held /\ next_event' = next_event
      BY <1>0, <2>1, <2>2, CoreStep
    <2>5. /\ rtl_pc = "step" /\ rtl_pc' = "loop" /\ producer_has_reservation' = FALSE
          /\ stream_results_published' = stream_results_published + (IF accept THEN 1 ELSE 0)
          /\ UNCHANGED <<rtl_stop_requested, stream_drained, rtl_failed, rtl_finished>>
      BY <1>0, <1>8, <2>3 DEF RtlStep, stream_result_valid, publish_push, cancel_push, ringVars, producerVars
    <2>6. next_event' = stream_results_published' + (IF core' = Idle THEN 0 ELSE 1)
          /\ next_event' \in 0 .. EventCount /\ stream_results_published' \in Nat
      BY <1>0, <2>2, <2>3, <2>4, <2>5 DEF RtlInv
    <2>7. drained => drained'
      BY <1>0, <2>2, <2>3, <2>4, <2>5 DEF drained
    <2>. QED
      BY <2>4, <2>5, <2>6, <2>7 DEF RtlInv
  <1>9. CASE RtlExit
    <2>1. drained \/ rtl_stop_requested
      BY <1>9 DEF RtlExit, ExitInv, RtlInv
    <2>. QED
      BY <1>9, <2>1 DEF RtlInv, RtlExit, drained, transportVars, ringVars, producerVars
  <1>10. CASE RtlCatch
    BY <1>10 DEF RtlInv, RtlCatch, drained, transportVars, ringVars, producerVars
  <1>11. CASE RtlFinish
    BY <1>11 DEF RtlInv, RtlFinish, drained, transportVars, ringVars, producerVars
  <1>. QED
    BY <1>1, <1>2, <1>3, <1>4, <1>5, <1>6, <1>7, <1>8, <1>9, <1>10, <1>11 DEF RtlThread

LEMMA RtlKeepsExit == ASSUME RtlInv, ExitInv, RtlThread PROVE ExitInv'
  <1>1. CASE RtlExit \/ RtlCatch \/ RtlFinish
    <2>1. UNCHANGED <<drained, mailbox_closed, latest_update, rtl_stop_requested>>
      BY <1>1 DEF RtlExit, RtlCatch, RtlFinish, drained, transportVars, mailboxVars
    <2>2. /\ rtl_pc \in {"exit", "finish"} \/ rtl_failed' = TRUE
          /\ rtl_failed => rtl_failed'
          /\ rtl_pc' # "idle_has_update"
      BY <1>1 DEF RtlExit, RtlCatch, RtlFinish
    <2>. QED
      BY <2>1, <2>2 DEF ExitInv
  <1>2. CASE RtlIdleHasUpdate
    <2>1. CASE latest_update = {}
      <3>1. drained /\ mailbox_closed
        BY <1>2 DEF RtlIdleHasUpdate, RtlInv, ExitInv
      <3>2. UNCHANGED <<drained, mailbox_closed, latest_update>> /\ rtl_pc' = "exit"
        BY <1>2, <2>1 DEF RtlIdleHasUpdate, drained, transportVars, mailboxVars
      <3>. QED
        BY <2>1, <3>1, <3>2 DEF ExitInv
    <2>2. CASE latest_update # {}
      <3>1. rtl_pc' = "loop"
        BY <1>2, <2>2 DEF RtlIdleHasUpdate
      <3>. QED
        BY <3>1 DEF ExitInv
    <2>. QED
      BY <2>1, <2>2
  <1>3. CASE RtlIdleClosed
    <2>1. UNCHANGED mailbox_closed /\ rtl_pc' \in {"idle_has_update", "loop"}
          /\ (rtl_pc' = "idle_has_update" => mailbox_closed)
      BY <1>3 DEF RtlIdleClosed, step, transportVars, mailboxVars
    <2>. QED
      BY <2>1 DEF ExitInv
  <1>4. CASE RtlLoop
    <2>1. rtl_pc' \in {"reserve", "idle_apply"} \/ (rtl_pc' = "exit" /\ rtl_stop_requested')
      BY <1>4 DEF RtlLoop
    <2>. QED
      BY <2>1 DEF ExitInv
  <1>5. CASE RtlIdleApply \/ RtlReserve \/ RtlDecode \/ RtlRingFull \/ RtlNothingHeld \/ RtlApply \/ RtlStep
    <2>1. rtl_pc' \in {"idle_closed", "decode", "step", "throw", "apply", "loop"}
      BY <1>5 DEF RtlIdleApply, RtlApply, RtlReserve, RtlDecode, RtlRingFull, RtlNothingHeld, RtlStep,
                  apply_waiting_model_update
    <2>. QED
      BY <2>1 DEF ExitInv
  <1>. QED
    BY <1>1, <1>2, <1>3, <1>4, <1>5 DEF RtlThread

LEMMA NewestIsVersion == ASSUME VersionInv PROVE newest \in Nat /\ model_updates_published \in Nat
  <1>1. model_updates_published \in Nat
    BY DEF VersionInv
  <1>2. InitialModel.version \in Nat
    BY Bounds
  <1>. QED
    BY <1>1, <1>2 DEF newest

(* The update the RTL takes is valid: apply_waiting_model_update() makes it *)
(* active.                                                                  *)
LEMMA TakenUpdateIsValid ==
  ASSUME VersionInv, NEW update \in latest_update
  PROVE  /\ valid_model_update(update, active_parameters.version)
         /\ update.version = newest /\ newest \in Nat
  <1>1. /\ update.version = newest /\ active_parameters.version < newest
        /\ update.buy_threshold > update.sell_threshold
    BY DEF VersionInv
  <1>2. newest \in Nat
    BY NewestIsVersion
  <1>. QED
    BY <1>1, <1>2 DEF valid_model_update

LEMMA ApplyKeepsVersion ==
  ASSUME VersionInv, NEW then, apply_waiting_model_update(then), UNCHANGED gpuVars
  PROVE  /\ VersionInv'
         /\ rtl_pc' = then \/ (rtl_pc' = "throw" /\ "autosave" \in Faults)
  <1>1. newest' = newest /\ model_updates_published' = model_updates_published
        /\ next_update_version' = next_update_version /\ latest_update' = {}
    BY DEF gpuVars, newest, apply_waiting_model_update, take
  <1>2. CASE latest_update = {}
    BY <1>1, <1>2 DEF VersionInv, apply_waiting_model_update
  <1>3. CASE latest_update # {}
    <2>1. PICK update \in latest_update :
            /\ active_parameters' = update
            /\ rtl_pc' \in {then} \union (IF "autosave" \in Faults THEN {"throw"} ELSE {})
      BY <1>3, TakenUpdateIsValid DEF apply_waiting_model_update
    <2>2. update.version = newest /\ newest \in Nat
      BY <2>1, TakenUpdateIsValid
    <2>. QED
      BY <1>1, <2>1, <2>2 DEF VersionInv
  <1>. QED
    BY <1>2, <1>3

LEMMA RtlKeepsVersion ==
  ASSUME VersionInv, RtlThread, UNCHANGED gpuVars
  PROVE  VersionInv'
  <1>1. CASE RtlIdleApply \/ RtlApply
    BY <1>1, ApplyKeepsVersion DEF RtlIdleApply, RtlApply
  <1>2. CASE UNCHANGED <<latest_update, active_parameters>>
    BY <1>2 DEF VersionInv, newest, gpuVars
  <1>3. CASE RtlLoop \/ RtlIdleClosed \/ RtlIdleHasUpdate
    BY <1>2, <1>3 DEF RtlLoop, RtlIdleClosed, RtlIdleHasUpdate, step, transportVars, mailboxVars
  <1>4. CASE RtlReserve \/ RtlDecode \/ RtlRingFull \/ RtlNothingHeld \/ RtlStep
    BY <1>2, <1>4 DEF RtlReserve, RtlDecode, RtlRingFull, RtlNothingHeld, RtlStep, transportVars, mailboxVars
  <1>5. CASE RtlExit \/ RtlCatch \/ RtlFinish
    BY <1>2, <1>5 DEF RtlExit, RtlCatch, RtlFinish, transportVars, mailboxVars
  <1>. QED
    BY <1>1, <1>3, <1>4, <1>5 DEF RtlThread

LEMMA RtlKeepsControl == ControlInv /\ RtlRuns => ControlInv'
  <1> SUFFICES ASSUME ControlInv, RtlRuns PROVE ControlInv'
    OBVIOUS
  <1>1. /\ RtlThread /\ UNCHANGED gpuVars /\ UNCHANGED coordVars
        /\ RtlInv /\ ExitInv /\ CoordInv /\ GpuInv /\ VersionInv
    BY DEF RtlRuns, ControlInv
  <1>2. RtlInv' /\ ExitInv' /\ VersionInv'
    BY <1>1, RtlKeepsRtl, RtlKeepsExit, RtlKeepsVersion
  <1>3. CoordInv'
    BY <1>1, RtlEffects DEF CoordInv, gpuVars, coordVars
  <1>4. GpuInv'
    BY <1>1, RtlEffects DEF GpuInv, gpuVars, coordVars
  <1>. QED
    BY <1>2, <1>3, <1>4 DEF ControlInv

-----------------------------------------------------------------------------
(* The coordinator preserves it. *)

(* The coordinator uses the ring as a consumer only, and the mailbox only   *)
(* to close it.                                                             *)
LEMMA CoordinatorEffects ==
  ASSUME Coordinator
  PROVE  /\ UNCHANGED <<workerVars, latest_update, outcome, gpu_mode, model_updates_published,
                        next_update_version, gpu_failed>>
         /\ UNCHANGED <<producer_has_reservation, storage, producer_write_position, published_write_position>>
         /\ mailbox_closed => mailbox_closed'
  <1>1. CASE StartGpu \/ WaitDrained \/ WaitGpuFailed \/ DecideGpu \/ DecideRtl \/ RequestEnd \/ JoinGpu
    BY <1>1 DEF StartGpu, WaitDrained, WaitGpuFailed, DecideGpu, DecideRtl, RequestEnd, JoinGpu,
                workerUntouched, gpuUntouched, gpuVars, transportVars, mailboxVars, ringVars, producerVars
  <1>2. CASE CloseMailbox \/ JoinRtl \/ DrainFinished \/ DrainEmpty
    BY <1>2 DEF CloseMailbox, JoinRtl, DrainFinished, DrainEmpty, close,
                workerUntouched, gpuUntouched, gpuVars, transportVars, mailboxVars, ringVars, producerVars
  <1>3. CASE DrainPop \/ DrainRead
    BY <1>3 DEF DrainPop, DrainRead, try_begin_pop, finish_pop,
                gpuUntouched, gpuVars, mailboxVars, ringVars, producerVars
  <1>. QED
    BY <1>1, <1>2, <1>3 DEF Coordinator

LEMMA CoordinatorKeepsControl == ControlInv /\ Coordinator => ControlInv'
  <1> SUFFICES ASSUME ControlInv, Coordinator PROVE ControlInv'
    OBVIOUS
  <1>1. RtlInv /\ ExitInv /\ CoordInv /\ GpuInv /\ VersionInv
    BY DEF ControlInv
  <1>2. RtlInv' /\ ExitInv'
    BY <1>1, CoordinatorEffects DEF RtlInv, ExitInv, drained, workerVars
  <1>3. VersionInv'
    BY <1>1, CoordinatorEffects DEF VersionInv, newest, workerVars
  <1>4. CoordInv' /\ GpuInv'
    <2>1. CASE StartGpu
      BY <1>1, <2>1 DEF CoordInv, GpuInv, GpuRoute, DrainRoute, StartGpu, workerUntouched, workerVars,
                        transportVars, mailboxVars
    <2>2. CASE WaitDrained \/ WaitGpuFailed
      BY <1>1, <2>2 DEF CoordInv, GpuInv, GpuRoute, DrainRoute, WaitDrained, WaitGpuFailed, workerUntouched,
                        gpuUntouched, workerVars, gpuVars, transportVars, mailboxVars
    <2>3. CASE DecideGpu \/ DecideRtl
      BY <1>1, <2>3 DEF CoordInv, GpuInv, GpuRoute, DrainRoute, DecideGpu, DecideRtl, workerUntouched,
                        gpuUntouched, workerVars, gpuVars, transportVars, mailboxVars
    <2>4. CASE RequestEnd
      BY <1>1, <2>4 DEF CoordInv, GpuInv, GpuRoute, DrainRoute, RequestEnd, workerUntouched,
                        workerVars, transportVars, mailboxVars
    <2>5. CASE JoinGpu
      BY <1>1, <2>5 DEF CoordInv, GpuInv, GpuRoute, DrainRoute, JoinGpu, workerUntouched,
                        gpuUntouched, workerVars, gpuVars, transportVars, mailboxVars
    <2>6. CASE CloseMailbox
      BY <1>1, <2>6 DEF CoordInv, GpuInv, GpuRoute, DrainRoute, CloseMailbox, close, workerUntouched,
                        gpuUntouched, workerVars, gpuVars
    <2>7. CASE JoinRtl
      BY <1>1, <2>7 DEF CoordInv, GpuInv, GpuRoute, DrainRoute, JoinRtl, workerUntouched,
                        gpuUntouched, workerVars, gpuVars, transportVars, mailboxVars
    <2>8. CASE DrainFinished \/ DrainEmpty \/ DrainPop \/ DrainRead
      <3>1. coord_pc \in DrainRoute /\ coord_pc' \in DrainRoute \union {"join_rtl"}
        BY <2>8 DEF DrainFinished, DrainEmpty, DrainPop, DrainRead, DrainRoute
      <3>2. UNCHANGED <<mailbox_closed, gpuVars, workerVars>>
        BY <2>8 DEF DrainFinished, DrainEmpty, DrainPop, DrainRead, workerUntouched,
                    gpuUntouched, transportVars, mailboxVars
      <3>. QED
        BY <1>1, <3>1, <3>2, CoordinatorEffects DEF CoordInv, GpuInv, GpuRoute, DrainRoute, workerVars, gpuVars
    <2>. QED
      BY <2>1, <2>2, <2>3, <2>4, <2>5, <2>6, <2>7, <2>8 DEF Coordinator
  <1>. QED
    BY <1>2, <1>3, <1>4 DEF ControlInv

-----------------------------------------------------------------------------
(* The GPU thread preserves it. *)

(* Only polling publishes; the rest leaves the mailbox and the versions.    *)
LEMMA GpuEffects ==
  ASSUME GpuThread \/ DeviceCompletes \/ GpuOpenclFailure
  PROVE  /\ UNCHANGED <<outcome, mailbox_closed, input_complete, gpu_stop_requested>>
         /\ UNCHANGED <<producer_has_reservation, storage, producer_write_position, published_write_position>>
         /\ \/ gpu_pc' # "not_started" /\ gpu_pc \notin {"not_started", "done", "request_stop"}
            \/ gpu_pc' = gpu_pc
         /\ gpu_failed => gpu_failed'
         /\ gpu_failed' /\ ~gpu_failed => gpu_pc = "throw" /\ gpu_pc' = "request_stop"
         /\ gpu_pc' = "request_stop" => gpu_failed' \/ gpu_pc = "request_stop"
  <1>1. CASE GpuPoll \/ GpuStopTest \/ GpuTryPop
    BY <1>1 DEF GpuPoll, GpuStopTest, GpuTryPop, publish, try_begin_pop, transportVars, mailboxVars, ringVars,
                producerVars
  <1>2. CASE GpuStopping \/ GpuLabel \/ GpuFinishPop
    BY <1>2 DEF GpuStopping, GpuLabel, GpuFinishPop, finish_pop, transportVars, mailboxVars, ringVars,
                producerVars
  <1>3. CASE GpuInputComplete \/ GpuEmpty \/ GpuLeaving \/ GpuCatch
    BY <1>3 DEF GpuInputComplete, GpuEmpty, GpuLeaving, GpuCatch, transportVars, mailboxVars, ringVars,
                producerVars
  <1>4. CASE DeviceCompletes \/ GpuOpenclFailure
    BY <1>4 DEF DeviceCompletes, GpuOpenclFailure, transportVars, mailboxVars, ringVars, producerVars
  <1>. QED
    BY <1>1, <1>2, <1>3, <1>4 DEF GpuThread

(* While the GPU thread runs the mailbox is open and the next version is    *)
(* newer than the waiting one: publish() accepts it.                        *)
LEMMA PollCanPublish ==
  ASSUME ControlInv, gpu_pc = "poll"
  PROVE  can_publish(TrainedModel)
  <1>1. gpu_mode /\ coord_pc \notin {"close", "join_rtl", "returned", "threw"}
    BY DEF ControlInv, CoordInv, GpuInv
  <1>2. ~mailbox_closed
    BY <1>1 DEF ControlInv, CoordInv, GpuRoute, DrainRoute
  <1>3. newest \in Nat /\ TrainedModel.version = newest + 1
        /\ TrainedModel.buy_threshold > TrainedModel.sell_threshold
    BY Bounds, NewestIsVersion DEF ControlInv, VersionInv, TrainedModel
  <1>4. \A unread \in latest_update : unread.version = newest
    BY DEF ControlInv, VersionInv
  <1>. QED
    BY <1>2, <1>3, <1>4 DEF can_publish, valid_model_update

LEMMA PublishKeepsVersion ==
  ASSUME ControlInv, GpuPoll, UNCHANGED workerVars
  PROVE  /\ VersionInv'
         /\ gpu_pc' = "pop"
         /\ latest_update' = latest_update \/ ~mailbox_closed
  <1>0. can_publish(TrainedModel)
    BY PollCanPublish DEF GpuPoll
  <1>1. gpu_pc' = "pop"
    BY <1>0 DEF GpuPoll
  <1>2. CASE UNCHANGED <<mailboxVars, next_update_version, model_updates_published>>
    BY <1>1, <1>2 DEF VersionInv, ControlInv, newest, workerVars, mailboxVars
  <1>3. CASE /\ publish(TrainedModel) /\ next_update_version' = next_update_version + 1
             /\ model_updates_published' = model_updates_published + 1
    <2>1. newest \in Nat /\ TrainedModel.version = newest + 1
          /\ TrainedModel.buy_threshold > TrainedModel.sell_threshold
      BY Bounds, NewestIsVersion DEF ControlInv, VersionInv, TrainedModel
    <2>2. newest' = newest + 1 /\ model_updates_published' \in Nat /\ next_update_version' = newest' + 1
      BY <1>3, Bounds DEF ControlInv, VersionInv, newest
    <2>3. active_parameters' = active_parameters /\ active_parameters.version \in Nat
          /\ active_parameters.version <= newest
      BY <2>1 DEF ControlInv, VersionInv, workerVars
    <2>4. latest_update' = {TrainedModel} /\ ~mailbox_closed
      BY <1>0, <1>3 DEF publish, can_publish
    <2>5. \E update \in latest_update' :
            /\ latest_update' = {update} /\ update.version = newest'
            /\ update.buy_threshold > update.sell_threshold
            /\ active_parameters'.version < newest'
      BY <2>1, <2>2, <2>3, <2>4
    <2>6. model_updates_published' \in Nat /\ active_parameters'.version \in Nat
      BY <2>2, <2>3
    <2>. QED
      BY <1>1, <2>2, <2>4, <2>5, <2>6 DEF VersionInv
  <1>. QED
    BY <1>0, <1>2, <1>3 DEF GpuPoll

LEMMA GpuKeepsControl ==
  ASSUME ControlInv, GpuThread \/ DeviceCompletes \/ GpuOpenclFailure, UNCHANGED <<workerVars, coordVars>>
  PROVE  ControlInv'
  <1>1. /\ VersionInv'
        /\ latest_update' = latest_update \/ ~mailbox_closed
    <2>1. CASE GpuPoll
      BY <2>1, PublishKeepsVersion
    <2>2. CASE ~GpuPoll
      <3>1. UNCHANGED <<latest_update, model_updates_published, next_update_version>>
        BY <2>2 DEF GpuThread, GpuStopTest, GpuTryPop, GpuStopping, GpuLabel, GpuFinishPop, GpuInputComplete,
                    GpuEmpty, GpuLeaving, GpuCatch, DeviceCompletes, GpuOpenclFailure, transportVars, mailboxVars
      <3>. QED
        BY <3>1 DEF ControlInv, VersionInv, newest, workerVars
    <2>. QED
      BY <2>1, <2>2
  <1>2. RtlInv'
    BY GpuEffects DEF ControlInv, RtlInv, drained, workerVars
  <1>3. ExitInv'
    BY <1>1, GpuEffects DEF ControlInv, ExitInv, drained, workerVars
  <1>4. CoordInv'
    BY GpuEffects DEF ControlInv, CoordInv, GpuInv, workerVars, coordVars
  <1>5. GpuInv'
    <2>1. gpu_pc' \in {"not_started", "poll", "pop", "begin", "stopping", "label", "complete", "empty",
                 "leaving", "throw", "request_stop", "done"}
      BY DEF GpuThread, GpuPoll, GpuStopTest, GpuTryPop, GpuStopping, GpuLabel, GpuFinishPop, GpuInputComplete,
             GpuEmpty, GpuLeaving, GpuCatch, DeviceCompletes, GpuOpenclFailure, ControlInv, GpuInv
    <2>. QED
      BY <2>1, GpuEffects DEF ControlInv, GpuInv, workerVars, coordVars
  <1>. QED
    BY <1>1, <1>2, <1>3, <1>4, <1>5 DEF ControlInv

(* The handler's last step sets the RTL's stop flag. *)
LEMMA StopKeepsControl == ASSUME ControlInv, RequestRtlStop PROVE ControlInv'
  <1>1. RtlInv' /\ ExitInv'
    BY DEF ControlInv, RtlInv, ExitInv, drained, RequestRtlStop, transportVars, mailboxVars, ringVars, producerVars
  <1>2. CoordInv' /\ GpuInv'
    BY DEF ControlInv, CoordInv, GpuInv, RequestRtlStop, transportVars, mailboxVars, coordVars
  <1>3. VersionInv'
    BY DEF ControlInv, VersionInv, newest, RequestRtlStop, transportVars, mailboxVars
  <1>. QED
    BY <1>1, <1>2, <1>3 DEF ControlInv

LEMMA ControlInductive == ControlInv /\ [Next]_vars => ControlInv'
  <1> SUFFICES ASSUME ControlInv, [Next]_vars PROVE ControlInv'
    OBVIOUS
  <1>1. CASE RtlRuns
    BY <1>1, RtlKeepsControl
  <1>2. CASE GpuRuns \/ DeviceRuns \/ OpenclFails
    BY <1>2, GpuKeepsControl, StopKeepsControl DEF GpuRuns, DeviceRuns, OpenclFails
  <1>3. CASE Coordinator
    BY <1>3, CoordinatorKeepsControl
  <1>4. CASE StoresPropagate \/ UNCHANGED vars
    <2>1. UNCHANGED <<latest_update, mailbox_closed, producer_has_reservation, workerVars, gpuVars, coordVars>>
      BY <1>4 DEF StoresPropagate, Propagate, propagate_published, propagate_released, producerVars, mailboxVars,
                  vars, transportVars, ringVars
    <2>2. RtlInv' /\ ExitInv'
      BY <2>1 DEF ControlInv, RtlInv, ExitInv, drained, workerVars
    <2>3. CoordInv' /\ GpuInv' /\ VersionInv'
      BY <2>1 DEF ControlInv, CoordInv, GpuInv, VersionInv, newest, workerVars, gpuVars, coordVars
    <2>. QED
      BY <2>2, <2>3 DEF ControlInv
  <1>. QED
    BY <1>1, <1>2, <1>3, <1>4 DEF Next, Terminating

LEMMA ControlInit == Init => ControlInv
  <1> SUFFICES ASSUME Init PROVE ControlInv
    OBVIOUS
  <1>1. RtlInv
    <2>1. Idle \in Core /\ EventCount \in Nat
      BY Bounds DEF Core
    <2>2. /\ rtl_pc = "loop" /\ core = Idle /\ next_event = 0 /\ stream_results_published = 0
          /\ producer_has_reservation = FALSE /\ rtl_stop_requested = FALSE /\ stream_drained = FALSE
          /\ rtl_failed = FALSE /\ rtl_finished = FALSE
      BY DEF Init, WorkerInit, TransportInit, RingInit
    <2>3. next_event \in 0 .. EventCount /\ next_event = 0 + (IF core = Idle THEN 0 ELSE 1)
      BY <2>1, <2>2
    <2>. QED
      BY <2>1, <2>2, <2>3 DEF RtlInv
  <1>2. ExitInv /\ CoordInv /\ GpuInv
    BY CoordinatorAssumption DEF Init, WorkerInit, TransportInit, MailboxInit, GpuInit, ExitInv, CoordInv, GpuInv,
       GpuRoute, DrainRoute
  <1>3. VersionInv
    BY Bounds DEF Init, WorkerInit, TransportInit, MailboxInit, GpuInit, VersionInv, newest
  <1>. QED
    BY <1>1, <1>2, <1>3 DEF ControlInv

LEMMA ControlInvariant == Spec => []ControlInv
  BY ControlInit, ControlInductive, PTL DEF Spec

(* run() never leaves its threads behind: when it returns or rethrows, both *)
(* have ended and its ring, mailbox and workers can go.                     *)
THEOREM NoThreadLeftBehind == Spec => []ThreadsJoined
  <1>1. ControlInv => ThreadsJoined
    BY DEF ControlInv, CoordInv, GpuInv, ThreadsJoined
  <1>. QED
    BY ControlInvariant, <1>1, PTL

(* No exception of a worker is lost between its thread body's handler and   *)
(* the coordinator's two rethrows.                                          *)
THEOREM FailuresSurface == Spec => []FailureNotSwallowed
  <1>1. ControlInv => FailureNotSwallowed
    BY DEF ControlInv, CoordInv, GpuInv, FailureNotSwallowed
  <1>. QED
    BY ControlInvariant, <1>1, PTL

(* The newest model published is never lost between the GPU's publish() and *)
(* the RTL's take(): a newest-value mailbox is enough.                      *)
THEOREM NewestModelKept == Spec => []NewestModelNotLost
  <1>1. ControlInv => NewestModelNotLost
    BY DEF ControlInv, VersionInv, newest, NewestModelNotLost
  <1>. QED
    BY ControlInvariant, <1>1, PTL

(* A normal return means that the RTL ended with the last model the GPU     *)
(* published, although closed() and has_update() lock the mutex separately. *)
THEOREM LastModelApplied == Spec => []FinalUpdateApplied
  <1>1. ControlInv => FinalUpdateApplied
    BY DEF ControlInv, RtlInv, ExitInv, CoordInv, GpuInv, VersionInv, newest, FinalUpdateApplied
  <1>. QED
    BY ControlInvariant, <1>1, PTL

(* The RTL worker commits a model only between events: nothing is in the    *)
(* pipeline and every accepted event's result is in the ring.               *)
THEOREM CommitsBetweenEvents == Spec => CommitAtEventBoundary
  <1>1. ASSUME ControlInv, [Next]_vars, active_parameters' # active_parameters
        PROVE  core = Idle /\ stream_results_published = next_event
    <2>1. CASE Coordinator
      BY <1>1, <2>1, CoordinatorEffects DEF workerVars
    <2>2. CASE RequestRtlStop \/ UNCHANGED workerVars
      BY <1>1, <2>2 DEF RequestRtlStop, workerVars
    <2>3. CASE RtlThread
      <3>1. RtlIdleApply \/ RtlApply
        BY <1>1, <2>3 DEF RtlThread, RtlLoop, RtlIdleClosed, RtlIdleHasUpdate, RtlReserve, RtlDecode, RtlRingFull,
                    RtlNothingHeld, RtlStep, RtlExit, RtlCatch, RtlFinish, step
      <3>. QED
        BY <1>1, <3>1, Bounds DEF RtlIdleApply, RtlApply, ControlInv, RtlInv, drained
    <2>. QED
      BY <1>1, <2>1, <2>2, <2>3 DEF Next, RtlRuns, GpuRuns, DeviceRuns, OpenclFails, StoresPropagate, Terminating, vars
  <1>. QED
    BY ControlInvariant, <1>1, PTL DEF Spec, CommitAtEventBoundary

-----------------------------------------------------------------------------
(* What travels through the ring. *)

(* The results taken out of the ring so far. *)
taken == stream_results_published - Len(QueueBar)

(* The consumer of the ring is the GPU thread, or the coordinator. *)
ConsumerInv ==
  /\ consumer_has_value =>
       IF gpu_mode THEN gpu_pc \in {"label", "throw", "request_stop", "done"}
                   ELSE coord_pc = "drain_read"
  /\ gpu_pc = "label" \/ coord_pc = "drain_read" => consumer_has_value
  /\ gpu_mode => rtl_results_consumed = taken

(* The ring holds the latest results, oldest first; the reserved slot is    *)
(* filled before it is published.                                           *)
ContentInv ==
  /\ taken \in Nat
  /\ \A i \in 1 .. Len(QueueBar) : QueueBar[i] = taken + i - 1
  /\ rtl_pc = "step" /\ producer_has_reservation =>
       storage[SlotOf(producer_write_position)] = stream_results_published

(* The entries waiting for their future are in order, and none of them has  *)
(* missed it.                                                               *)
LabelInv ==
  /\ pending_labels \in Seq(EventIndex)
  /\ \A i \in 1 .. Len(pending_labels) :
       /\ pending_labels[i] < rtl_results_consumed
       /\ rtl_results_consumed <= pending_labels[i] + LabelHorizon
       /\ ~outcome[pending_labels[i]].error
       /\ \A j \in 1 .. i - 1 : pending_labels[j] < pending_labels[i]
  /\ gpu_pc = "label" /\ model_update_in_flight =>
       \A i \in 1 .. Len(pending_labels) : rtl_results_consumed < pending_labels[i] + LabelHorizon
  /\ mapped_rows \in Seq([entry : EventIndex, future : EventIndex])
  /\ \A i \in 1 .. Len(mapped_rows) :
       /\ mapped_rows[i].future = mapped_rows[i].entry + LabelHorizon
       /\ ~outcome[mapped_rows[i].entry].error

(* What the end of the input means to the consumer. *)
EmptyInv ==
  /\ ~StaleLoads => published_write_position = producer_write_position
  /\ gpu_pc = "empty" => input_complete
  /\ gpu_pc = "stopping" => gpu_stop_requested
  /\ gpu_pc \in {"leaving", "done"} =>
       \/ gpu_failed \/ gpu_stop_requested
       \/ drained /\ (StaleLoads \/ consumer_read_position = producer_write_position)
  /\ coord_pc = "drain_empty" =>
       rtl_finished /\ published_write_position = producer_write_position
  /\ ~gpu_mode /\ coord_pc \in {"join_rtl", "returned", "threw"} =>
       rtl_finished /\ consumer_read_position = producer_write_position

(* The first error among the results taken. *)
FirstErrorInv ==
  ~gpu_mode =>
    \/ first_error = {} /\ \A j \in 0 .. taken - 1 : ~outcome[j].error
    \/ \E i \in 0 .. taken - 1 : /\ first_error = {i} /\ outcome[i].error
                                 /\ \A j \in 0 .. i - 1 : ~outcome[j].error

DataInv ==
  /\ RingInv /\ outcome \in Outcomes
  /\ ConsumerInv /\ ContentInv /\ LabelInv /\ EmptyInv /\ FirstErrorInv


-----------------------------------------------------------------------------
(* The ring, step by step. *)

LEMMA IndexBounds ==
  EventCount \in Nat /\ Values = 0 .. EventCount /\ LabelHorizon \in Nat \ {0} /\ BatchRows \in Nat \ {0}
  BY TransportAssumption, GpuAssumption

LEMMA OutcomeTyped ==
  ASSUME outcome \in Outcomes, NEW i \in EventIndex
  PROVE  outcome[i].error \in BOOLEAN
  BY TransportAssumption

(* What the RTL thread does to the ring. *)
LEMMA RtlMovesRing ==
  ASSUME ControlInv, DataInv, RtlThread
  PROVE  /\ [RingNext]_ringVars
         /\ UNCHANGED <<consumer_read_position, consumer_has_value>>
         /\ \/ QueueBar' = QueueBar /\ UNCHANGED <<stream_results_published, producer_write_position>>
            \/ /\ QueueBar' = Append(QueueBar, stream_results_published)
               /\ stream_results_published' = stream_results_published + 1
               /\ ~drained
         /\ rtl_pc' = "step" /\ producer_has_reservation' =>
              storage'[SlotOf(producer_write_position')] = stream_results_published'
         /\ ~StaleLoads => published_write_position' = producer_write_position'
  <1> USE DEF ControlInv, DataInv
  <1>0. /\ stream_results_published \in Nat /\ storage \in [Slot -> Values]
        /\ producer_write_position \in Position /\ EventCount \in Nat
        /\ published_write_position \in Position
    BY IndexBounds DEF RtlInv, RingInv, RingTypeOK
  <1>1. CASE UNCHANGED <<ringVars, stream_results_published>> /\ (rtl_pc' = "step" => ~producer_has_reservation)
    <2>1. UNCHANGED <<storage, producer_write_position, consumerVars, published_write_position,
                      producer_has_reservation>>
      BY <1>1 DEF ringVars, producerVars
    <2>2. QueueBar' = QueueBar
      BY <2>1, QueueUntouched
    <2>. QED
      BY <1>1, <2>1, <2>2 DEF consumerVars, EmptyInv
  <1>2. CASE RtlReserve
    <2>1. try_reserve_push /\ rtl_pc' = "decode" /\ UNCHANGED stream_results_published
      BY <1>2 DEF RtlReserve
    <2>2. UNCHANGED <<storage, producer_write_position, consumerVars, published_write_position>>
      BY <2>1 DEF try_reserve_push
    <2>3. QueueBar' = QueueBar
      BY <2>2, QueueUntouched
    <2>. QED
      BY <2>1, <2>2, <2>3 DEF consumerVars, RingNext, EmptyInv
  <1>3. CASE RtlDecode
    <2> DEFINE v == held_event_index
    <2>1. write_reserved_slot(v) /\ UNCHANGED stream_results_published
      BY <1>3 DEF RtlDecode
    <2>2. v = stream_results_published /\ v \in Values
      <3>1. core = Held /\ Idle # Held
        BY <1>3 DEF RtlDecode, RtlInv, Idle, Held
      <3>2. next_event = stream_results_published + 1 /\ next_event \in 0 .. EventCount
        BY <3>1 DEF RtlInv
      <3>. QED
        BY <1>0, <3>2, IndexBounds DEF held_event_index
    <2>3. UNCHANGED <<producer_write_position, consumerVars, published_write_position>>
          /\ storage' = [storage EXCEPT ![SlotOf(producer_write_position)] = v]
      BY <2>1 DEF write_reserved_slot, producerVars
    <2>4. QueueBar' = QueueBar
      BY <2>1, <2>2, PrivateWrite
    <2>5. SlotOf(producer_write_position) \in Slot
      BY <1>0, SlotInRange
    <2>6. RingNext
      BY <2>1, <2>2 DEF RingNext
    <2> HIDE DEF v
    <2>. QED
      BY <1>0, <2>1, <2>2, <2>3, <2>4, <2>5, <2>6 DEF consumerVars, EmptyInv
  <1>4. CASE RtlStep /\ producer_has_reservation
    <2>1. core = Held /\ Idle # Held /\ rtl_pc = "step"
      BY <1>4 DEF RtlStep, RtlInv, Idle, Held
    <2>2. /\ publish_push /\ stream_results_published' = stream_results_published + 1
          /\ rtl_pc' = "loop" /\ ~drained
      BY <1>4, <2>1 DEF RtlStep, stream_result_valid, drained
    <2>3. QueueBar' = Append(QueueBar, stream_results_published)
      BY <1>4, <2>1, <2>2, PublishAppends DEF ContentInv
    <2>4. UNCHANGED <<consumer_read_position, consumer_has_value>>
          /\ (~StaleLoads => published_write_position' = producer_write_position')
      BY <2>2 DEF publish_push, consumerVars
    <2>. QED
      BY <2>2, <2>3, <2>4 DEF RingNext
  <1>5. CASE RtlStep /\ ~producer_has_reservation
    BY <1>1, <1>5 DEF RtlStep
  <1>6. CASE RtlRingFull \/ RtlNothingHeld
    <2>1. ~producer_has_reservation
      BY <1>6 DEF RtlRingFull, RtlNothingHeld, RtlInv
    <2>. QED
      BY <1>1, <1>6, <2>1 DEF RtlRingFull, RtlNothingHeld, transportVars
  <1>7. CASE RtlIdleApply \/ RtlApply
    <2>1. ~producer_has_reservation
      BY <1>7 DEF RtlIdleApply, RtlApply, RtlInv
    <2>. QED
      BY <1>1, <1>7, <2>1 DEF RtlIdleApply, RtlApply, apply_waiting_model_update
  <1>8. CASE RtlLoop \/ RtlExit \/ RtlCatch \/ RtlFinish
    BY <1>1, <1>8 DEF RtlLoop, RtlExit, RtlCatch, RtlFinish, transportVars
  <1>9. CASE RtlIdleClosed \/ RtlIdleHasUpdate
    BY <1>1, <1>9 DEF RtlIdleClosed, RtlIdleHasUpdate, step, transportVars
  <1>. QED
    BY <1>2, <1>3, <1>4, <1>5, <1>6, <1>7, <1>8, <1>9 DEF RtlThread

(* The value in hand is the oldest result not yet taken. *)
LEMMA ValueInHand ==
  ASSUME RtlInv, RingInv, ContentInv, consumer_has_value
  PROVE  /\ Len(QueueBar) >= 1 /\ Len(QueueBar) \in Nat
         /\ result = taken /\ taken \in EventIndex
  <1> DEFINE d == Distance(producer_write_position, consumer_read_position)
  <1>1. d >= 1 /\ d \in Nat
    BY Occupancy, DistanceNat, Sizes DEF RingInv, RingTypeOK, ValueInHandIsPublished
  <1>2. Plus(consumer_read_position, 1 - 1) = consumer_read_position
    BY Sizes DEF RingInv, RingTypeOK, Plus, Position
  <1>3. QueueBar[1] = value_in_hand /\ Len(QueueBar) = d
    BY <1>1, <1>2, QueueShape DEF value_in_hand
  <1>4. value_in_hand = taken + 1 - 1 /\ taken \in Nat
    BY <1>1, <1>3 DEF ContentInv
  <1>5. stream_results_published <= EventCount /\ stream_results_published \in Nat /\ EventCount \in Nat
    BY IndexBounds DEF RtlInv
  <1>6. taken = stream_results_published - d
    BY <1>3 DEF taken
  <1> HIDE DEF d
  <1>7. taken < EventCount
    BY <1>1, <1>4, <1>5, <1>6
  <1>. QED
    BY <1>1, <1>3, <1>4, <1>5, <1>7 DEF result, EventIndex

(* finish_pop() takes one result. *)
LEMMA FinishTakesOne ==
  ASSUME RtlInv, RingInv, ContentInv, finish_pop, UNCHANGED stream_results_published
  PROVE  /\ QueueBar' = Tail(QueueBar) /\ taken' = taken + 1
         /\ UNCHANGED <<storage, producer_write_position, producer_has_reservation, published_write_position>>
         /\ ~consumer_has_value'
         /\ RingNext
  <1>1. QueueBar' = Tail(QueueBar)
    BY FinishPopRemovesHead DEF Fifo!FinishPop
  <1>2. Len(QueueBar) >= 1 /\ Len(QueueBar) \in Nat /\ QueueBar \in Seq(Values)
    BY ValueInHand, QueueShape DEF finish_pop
  <1>3. Len(QueueBar') = Len(QueueBar) - 1
    BY <1>1, <1>2
  <1>4. taken' = taken + 1
    BY <1>2, <1>3 DEF taken, RtlInv
  <1>. QED
    BY <1>1, <1>4 DEF finish_pop, producerVars, RingNext

(* Whatever the threads do, the ring's content stays what it should be. *)
LEMMA ContentKept ==
  ASSUME ControlInv, DataInv, RingInv',
         \/ QueueBar' = QueueBar /\ UNCHANGED stream_results_published
         \/ /\ QueueBar' = Append(QueueBar, stream_results_published)
            /\ stream_results_published' = stream_results_published + 1
         \/ QueueBar' = Tail(QueueBar) /\ Len(QueueBar) >= 1 /\ UNCHANGED stream_results_published,
         rtl_pc' = "step" /\ producer_has_reservation' =>
           storage'[SlotOf(producer_write_position')] = stream_results_published'
  PROVE  ContentInv'
  <1>0. /\ QueueBar \in Seq(Values) /\ Len(QueueBar) \in Nat /\ taken \in Nat
        /\ stream_results_published \in Nat /\ taken = stream_results_published - Len(QueueBar)
        /\ \A i \in 1 .. Len(QueueBar) : QueueBar[i] = taken + i - 1
    BY QueueShape DEF DataInv, ContentInv, ControlInv, RtlInv, taken
  <1>1. CASE QueueBar' = QueueBar /\ UNCHANGED stream_results_published
    BY <1>0, <1>1 DEF ContentInv, taken
  <1>2. CASE /\ QueueBar' = Append(QueueBar, stream_results_published)
             /\ stream_results_published' = stream_results_published + 1
    <2>1. Len(QueueBar') = Len(QueueBar) + 1 /\ taken' = taken
      BY <1>0, <1>2 DEF taken
    <2>2. ASSUME NEW i \in 1 .. Len(QueueBar') PROVE QueueBar'[i] = taken' + i - 1
      <3>1. CASE i \in 1 .. Len(QueueBar)
        BY <1>0, <1>2, <2>1, <3>1
      <3>2. CASE i = Len(QueueBar) + 1
        BY <1>0, <1>2, <2>1, <3>2
      <3>. QED
        BY <1>0, <2>1, <3>1, <3>2
    <2>. QED
      BY <1>0, <2>1, <2>2 DEF ContentInv
  <1>3. CASE QueueBar' = Tail(QueueBar) /\ Len(QueueBar) >= 1 /\ UNCHANGED stream_results_published
    <2>1. Len(QueueBar') = Len(QueueBar) - 1
      BY <1>0, <1>3
    <2>2. taken' = taken + 1
      <3>1. taken' = stream_results_published' - Len(QueueBar')
        BY DEF taken
      <3>. QED
        BY <1>0, <1>3, <2>1, <3>1
    <2>3. ASSUME NEW i \in 1 .. Len(QueueBar') PROVE QueueBar'[i] = taken' + i - 1
      <3>1. QueueBar'[i] = QueueBar[i + 1] /\ i + 1 \in 1 .. Len(QueueBar)
        BY <1>0, <1>3, <2>1
      <3>. QED
        BY <1>0, <2>2, <3>1
    <2>. QED
      BY <1>0, <2>2, <2>3 DEF ContentInv
  <1>. QED
    BY <1>1, <1>2, <1>3

-----------------------------------------------------------------------------
(* The RTL thread preserves the data invariant. *)

(* Once everything is drained the RTL thread has nothing left to move. *)
LEMMA DrainedStays == ASSUME RtlInv, RtlInv', drained, RtlThread PROVE drained'
  <1>0. core = Idle /\ Idle # Held /\ next_event = EventCount /\ EventCount \in Nat
        /\ stream_results_published = EventCount /\ ~producer_has_reservation /\ core \in Core
    BY IndexBounds DEF RtlInv, drained, Idle, Held
  <1>1. CASE step(FALSE, FALSE) /\ UNCHANGED stream_results_published
    <2>1. core' = core /\ next_event' = next_event
      <3>1. FALSE \in BOOLEAN
        OBVIOUS
      <3>. QED
        BY <1>0, <1>1, <3>1, CoreStep
    <2>. QED
      BY <1>1, <2>1 DEF drained
  <1>2. CASE RtlStep
    <2>1. next_event' = next_event /\ core' = core /\ UNCHANGED stream_results_published
      BY <1>0, <1>2 DEF RtlStep, step, input_event_present, Idle, Held
    <2>. QED
      BY <2>1 DEF drained
  <1>3. CASE UNCHANGED <<core, next_event, stream_results_published>>
    BY <1>3 DEF drained
  <1>4. CASE RtlIdleClosed \/ RtlIdleHasUpdate
    BY <1>1, <1>3, <1>4 DEF RtlIdleClosed, RtlIdleHasUpdate
  <1>5. CASE RtlLoop \/ RtlExit \/ RtlCatch \/ RtlFinish
    BY <1>3, <1>5 DEF RtlLoop, RtlExit, RtlCatch, RtlFinish
  <1>6. CASE RtlReserve \/ RtlDecode \/ RtlRingFull \/ RtlNothingHeld
    BY <1>3, <1>6 DEF RtlReserve, RtlDecode, RtlRingFull, RtlNothingHeld
  <1>7. CASE RtlIdleApply \/ RtlApply
    BY <1>3, <1>7 DEF RtlIdleApply, RtlApply, apply_waiting_model_update
  <1>. QED
    BY <1>2, <1>4, <1>5, <1>6, <1>7 DEF RtlThread

LEMMA RtlKeepsData == ASSUME ControlInv, ControlInv', DataInv, RtlRuns PROVE DataInv'
  <1>0. /\ RtlThread /\ UNCHANGED gpuVars /\ UNCHANGED coordVars /\ outcome' = outcome
        /\ RtlInv /\ ExitInv /\ CoordInv /\ GpuInv
        /\ RingInv /\ ConsumerInv /\ ContentInv /\ LabelInv /\ EmptyInv /\ FirstErrorInv /\ outcome \in Outcomes
    BY RtlEffects DEF RtlRuns, ControlInv, DataInv
  <1>1. RingInv'
    BY <1>0, RtlMovesRing, RingInvInductive
  <1>2. ContentInv'
    BY <1>0, <1>1, RtlMovesRing, ContentKept
  <1>3. taken' = taken
    <2>1. QueueBar \in Seq(Values) /\ stream_results_published \in Nat
      BY <1>0, QueueShape DEF RtlInv
    <2>2. CASE QueueBar' = QueueBar /\ UNCHANGED stream_results_published
      BY <2>2 DEF taken
    <2>3. CASE /\ QueueBar' = Append(QueueBar, stream_results_published)
               /\ stream_results_published' = stream_results_published + 1
      <3>1. Len(QueueBar') = Len(QueueBar) + 1 /\ Len(QueueBar) \in Nat
        BY <2>1, <2>3
      <3>. QED
        BY <2>1, <2>3, <3>1 DEF taken
    <2>. QED
      BY <1>0, <2>2, <2>3, RtlMovesRing
  <1>4. ConsumerInv'
    BY <1>0, <1>3, RtlMovesRing DEF ConsumerInv, gpuVars, coordVars
  <1>5. LabelInv'
    BY <1>0 DEF LabelInv, gpuVars
  <1>6. FirstErrorInv'
    BY <1>0, <1>3 DEF FirstErrorInv, coordVars
  <1>7. EmptyInv'
    <2>1. /\ drained => drained' /\ producer_write_position' = producer_write_position
          /\ consumer_read_position' = consumer_read_position
          /\ ~StaleLoads => published_write_position' = producer_write_position'
      BY <1>0, DrainedStays, RtlMovesRing DEF ControlInv
    <2>2. ~rtl_finished
      BY <1>0, RtlEffects DEF RtlInv
    <2>. QED
      BY <1>0, <2>1, <2>2 DEF EmptyInv, gpuVars, coordVars
  <1>. QED
    BY <1>0, <1>1, <1>2, <1>4, <1>5, <1>6, <1>7 DEF DataInv

-----------------------------------------------------------------------------
(* The coordinator preserves it. *)
LEMMA CoordinatorKeepsData == ASSUME ControlInv, ControlInv', DataInv, Coordinator PROVE DataInv'
  <1>0. /\ RtlInv /\ CoordInv /\ GpuInv /\ RtlInv' /\ CoordInv' /\ GpuInv'
        /\ RingInv /\ ConsumerInv /\ ContentInv /\ LabelInv /\ EmptyInv /\ FirstErrorInv /\ outcome \in Outcomes
    BY DEF ControlInv, DataInv
  <1>1. CASE DrainRead
    <2>1. finish_pop /\ consumer_has_value /\ ~gpu_mode /\ coord_pc = "drain_read" /\ coord_pc' = "drain_finished"
      BY <1>0, <1>1 DEF DrainRead, finish_pop, CoordInv, GpuRoute, DrainRoute
    <2>2. UNCHANGED <<workerVars, gpuVars, outcome, gpu_mode>>
      BY <1>1 DEF DrainRead, gpuUntouched
    <2>3. /\ QueueBar' = Tail(QueueBar) /\ taken' = taken + 1 /\ ~consumer_has_value' /\ RingNext
          /\ UNCHANGED <<storage, producer_write_position, producer_has_reservation, published_write_position>>
      BY <1>0, <2>1, <2>2, FinishTakesOne DEF workerVars
    <2>4. /\ Len(QueueBar) >= 1 /\ result = taken /\ taken \in EventIndex
      BY <1>0, <2>1, ValueInHand
    <2>5. RingInv'
      BY <1>0, <2>3, RingInvInductive
    <2>6. ContentInv'
      BY <1>0, <2>2, <2>3, <2>4, <2>5, ContentKept DEF workerVars, ContentInv
    <2>7. FirstErrorInv'
      <3>0. taken \in Nat /\ gpu_mode' = gpu_mode /\ outcome' = outcome
        BY <1>0, <2>2 DEF ContentInv
      <3>1. CASE first_error = {} /\ \A j \in 0 .. taken - 1 : ~outcome[j].error
        <4>1. CASE outcome[taken].error
          <5>1. first_error' = {taken}
            BY <1>1, <2>4, <3>1, <4>1 DEF DrainRead
          <5>. QED
            BY <2>3, <3>0, <3>1, <4>1, <5>1 DEF FirstErrorInv
        <4>2. CASE ~outcome[taken].error
          <5>1. first_error' = {}
            BY <1>1, <2>4, <3>1, <4>2 DEF DrainRead
          <5>2. \A j \in 0 .. taken : ~outcome[j].error
            BY <3>0, <3>1, <4>2
          <5>. QED
            BY <2>3, <3>0, <5>1, <5>2 DEF FirstErrorInv
        <4>. QED
          BY <4>1, <4>2
      <3>2. CASE \E i \in 0 .. taken - 1 : /\ first_error = {i} /\ outcome[i].error
                                           /\ \A j \in 0 .. i - 1 : ~outcome[j].error
        <4>1. first_error' = first_error
          BY <1>1, <3>2 DEF DrainRead
        <4>. QED
          BY <2>3, <3>0, <3>2, <4>1 DEF FirstErrorInv
      <3>. QED
        BY <1>0, <2>1, <3>1, <3>2 DEF FirstErrorInv
    <2>8. ConsumerInv' /\ LabelInv' /\ EmptyInv'
      <3>1. gpu_pc = "not_started"
        BY <1>0, <2>1 DEF GpuInv
      <3>. QED
        BY <1>0, <2>1, <2>2, <2>3, <3>1 DEF ConsumerInv, LabelInv, EmptyInv, gpuVars, workerVars
    <2>. QED
      BY <1>0, <2>2, <2>5, <2>6, <2>7, <2>8 DEF DataInv
  <1>2. CASE DrainPop /\ ~RingEmpty
    <2>1. try_begin_pop /\ ~gpu_mode /\ coord_pc = "drain_pop" /\ coord_pc' = "drain_read"
      BY <1>0, <1>2 DEF DrainPop, CoordInv, GpuRoute, DrainRoute
    <2>2. UNCHANGED <<workerVars, gpuVars, outcome, gpu_mode, first_error>>
      BY <1>2 DEF DrainPop, gpuUntouched
    <2>3. /\ consumer_has_value' /\ RingNext
          /\ UNCHANGED <<storage, producer_write_position, producer_has_reservation, published_write_position,
                         consumer_read_position>>
      BY <2>1 DEF try_begin_pop, producerVars, RingNext
    <2>4. QueueBar' = QueueBar
      BY <2>3 DEF QueueBar
    <2>5. RingInv'
      BY <1>0, <2>3, RingInvInductive
    <2>6. ContentInv' /\ taken' = taken
      BY <1>0, <2>2, <2>3, <2>4 DEF ContentInv, taken, workerVars
    <2>7. FirstErrorInv'
      BY <1>0, <2>2, <2>6 DEF FirstErrorInv
    <2>8. ConsumerInv' /\ LabelInv' /\ EmptyInv'
      <3>1. gpu_pc = "not_started"
        BY <1>0, <2>1 DEF GpuInv
      <3>. QED
        BY <1>0, <2>1, <2>2, <2>3, <3>1 DEF ConsumerInv, LabelInv, EmptyInv, gpuVars, workerVars
    <2>. QED
      BY <1>0, <2>2, <2>5, <2>6, <2>7, <2>8 DEF DataInv
  <1>3. CASE ~DrainRead /\ ~(DrainPop /\ ~RingEmpty)
    <2>1. UNCHANGED <<ringVars, workerVars, outcome, gpu_mode, first_error>>
      BY <1>3 DEF Coordinator, StartGpu, WaitDrained, WaitGpuFailed, DecideGpu, DecideRtl, RequestEnd, JoinGpu,
                  CloseMailbox, JoinRtl, DrainFinished, DrainEmpty, DrainPop, workerUntouched, transportVars
    <2>2. UNCHANGED <<storage, producer_write_position, producer_has_reservation, published_write_position,
                      consumer_read_position, consumer_has_value>>
      BY <2>1 DEF ringVars, producerVars, consumerVars
    <2>3. QueueBar' = QueueBar
      BY <2>2 DEF QueueBar
    <2>4. RingInv'
      BY <1>0, <2>1, RingInvInductive
    <2>5. ContentInv' /\ taken' = taken
      BY <1>0, <2>1, <2>2, <2>3 DEF ContentInv, taken, workerVars
    <2>6. FirstErrorInv'
      BY <1>0, <2>1, <2>5 DEF FirstErrorInv
    <2>7. /\ UNCHANGED <<pending_labels, mapped_rows, model_update_in_flight, rtl_results_consumed, gpu_failed>>
          /\ gpu_pc' = gpu_pc \/ (gpu_pc = "not_started" /\ gpu_pc' = "poll" /\ gpu_mode)
          /\ input_complete => input_complete'
          /\ gpu_stop_requested => gpu_stop_requested'
      <3>1. CASE StartGpu \/ RequestEnd
        BY <1>0, <3>1 DEF StartGpu, RequestEnd, GpuInv, CoordInv, GpuRoute, DrainRoute
      <3>2. CASE UNCHANGED gpuVars
        BY <3>2 DEF gpuVars
      <3>. QED
        BY <1>3, <3>1, <3>2 DEF Coordinator, WaitDrained, WaitGpuFailed, DecideGpu, DecideRtl, JoinGpu, CloseMailbox,
                  JoinRtl, DrainFinished, DrainEmpty, DrainPop, gpuUntouched
    <2>8. LabelInv'
      BY <1>0, <2>1, <2>7 DEF LabelInv
    <2>9. /\ coord_pc' # "drain_read" /\ coord_pc # "drain_read"
          /\ coord_pc' = "drain_empty" => rtl_finished /\ published_write_position = producer_write_position
          /\ ~gpu_mode /\ coord_pc' \in {"join_rtl", "returned", "threw"} =>
               rtl_finished /\ consumer_read_position = producer_write_position
      <3>1. CASE DrainFinished \/ DrainEmpty \/ (DrainPop /\ RingEmpty)
        BY <1>0, <3>1 DEF DrainFinished, DrainEmpty, DrainPop, RingEmpty, EmptyInv
      <3>2. CASE CloseMailbox \/ JoinRtl
        BY <1>0, <3>2 DEF CloseMailbox, JoinRtl, EmptyInv
      <3>3. CASE StartGpu \/ WaitDrained \/ WaitGpuFailed \/ DecideGpu \/ DecideRtl \/ RequestEnd \/ JoinGpu
        BY <1>0, <3>3 DEF StartGpu, WaitDrained, WaitGpuFailed, DecideGpu, DecideRtl, RequestEnd, JoinGpu,
                    CoordInv, GpuRoute, DrainRoute
      <3>. QED
        BY <1>3, <3>1, <3>2, <3>3 DEF Coordinator
    <2>10. ConsumerInv'
      BY <1>0, <2>1, <2>2, <2>5, <2>7, <2>9 DEF ConsumerInv
    <2>11. EmptyInv'
      BY <1>0, <2>1, <2>2, <2>7, <2>9 DEF EmptyInv, workerVars, drained
    <2>. QED
      BY <1>0, <2>1, <2>4, <2>5, <2>6, <2>8, <2>10, <2>11 DEF DataInv
  <1>. QED
    BY <1>1, <1>2, <1>3

-----------------------------------------------------------------------------
(* The GPU thread preserves it. *)

(* What labelling needs to know of the result in hand. *)
LEMMA LabelFacts ==
  ASSUME ControlInv, DataInv, gpu_pc = "label"
  PROVE  /\ gpu_mode /\ consumer_has_value
         /\ result = rtl_results_consumed /\ result \in EventIndex /\ Len(QueueBar) >= 1
  <1>1. gpu_mode
    BY DEF ControlInv, GpuInv
  <1>2. consumer_has_value /\ rtl_results_consumed = taken
    BY <1>1 DEF DataInv, ConsumerInv
  <1>. QED
    BY <1>1, <1>2, ValueInHand DEF ControlInv, DataInv

(* A matured entry is the head, and the result in hand is its future        *)
(* exactly; no other entry has matured.                                     *)
LEMMA MaturedExactly ==
  ASSUME ControlInv, DataInv, gpu_pc = "label", matured
  PROVE  /\ Head(pending_labels) = pending_labels[1] /\ Head(pending_labels) \in EventIndex
         /\ Len(pending_labels) >= 1
         /\ result = Head(pending_labels) + LabelHorizon
         /\ ~outcome[Head(pending_labels)].error
         /\ ~model_update_in_flight
         /\ \A i \in 2 .. Len(pending_labels) : rtl_results_consumed < pending_labels[i] + LabelHorizon
  <1>0. pending_labels \in Seq(EventIndex) /\ pending_labels # <<>>
    BY DEF DataInv, LabelInv, matured
  <1>1. /\ Head(pending_labels) = pending_labels[1] /\ Head(pending_labels) \in EventIndex
        /\ Len(pending_labels) >= 1 /\ Len(pending_labels) \in Nat
        /\ \A i \in 1 .. Len(pending_labels) : pending_labels[i] \in EventIndex
    BY <1>0
  <1>2. result = rtl_results_consumed /\ result \in EventIndex
    BY LabelFacts
  <1>3. result >= pending_labels[1] + LabelHorizon
    BY <1>1 DEF matured
  <1>4. rtl_results_consumed <= pending_labels[1] + LabelHorizon /\ ~outcome[pending_labels[1]].error
    BY <1>1 DEF DataInv, LabelInv
  <1>5. result = pending_labels[1] + LabelHorizon
    BY <1>1, <1>2, <1>3, <1>4, IndexBounds DEF EventIndex
  <1>6. ~model_update_in_flight
    <2>1. ~(rtl_results_consumed < pending_labels[1] + LabelHorizon)
      BY <1>1, <1>2, <1>5, IndexBounds DEF EventIndex
    <2>. QED
      BY <1>1, <2>1 DEF DataInv, LabelInv
  <1>7. ASSUME NEW i \in 2 .. Len(pending_labels)
        PROVE  rtl_results_consumed < pending_labels[i] + LabelHorizon
    <2>1. pending_labels[1] < pending_labels[i] /\ pending_labels[i] \in EventIndex
      <3>1. i \in 1 .. Len(pending_labels) /\ 1 \in 1 .. i - 1
        BY <1>1
      <3>. QED
        BY <1>1, <3>1 DEF DataInv, LabelInv
    <2>. QED
      BY <1>1, <1>2, <1>5, <2>1, IndexBounds DEF EventIndex
  <1>. QED
    BY <1>1, <1>4, <1>5, <1>6, <1>7

(* The ring, its content and the first error stay when the ring does. *)
LEMMA QuietKeepsRing ==
  ASSUME ControlInv, DataInv, UNCHANGED <<workerVars, coordVars, outcome>>,
         UNCHANGED <<storage, producer_write_position, producer_has_reservation, consumer_read_position>>,
         [RingNext]_ringVars
  PROVE  RingInv' /\ QueueBar' = QueueBar /\ taken' = taken /\ ContentInv' /\ FirstErrorInv'
  <1>1. RingInv'
    BY RingInvInductive DEF DataInv
  <1>2. QueueBar' = QueueBar
    BY DEF QueueBar
  <1>3. taken' = taken
    BY <1>2 DEF taken, workerVars
  <1>4. ContentInv'
    BY <1>2, <1>3 DEF DataInv, ContentInv, workerVars
  <1>5. FirstErrorInv'
    BY <1>3 DEF DataInv, FirstErrorInv, coordVars
  <1>. QED
    BY <1>1, <1>2, <1>3, <1>4, <1>5

(* consume_result() pairs the head with its future and goes on. *)
LEMMA LabelKeepsData ==
  ASSUME ControlInv, ControlInv', DataInv, GpuLabel, UNCHANGED <<workerVars, coordVars>>
  PROVE  DataInv'
  <1>0. /\ gpu_pc = "label" /\ matured /\ UNCHANGED transportVars
        /\ UNCHANGED <<rtl_results_consumed, input_complete, gpu_stop_requested, gpu_failed>>
        /\ gpu_pc' \in {"label", "throw"}
    BY DEF GpuLabel
  <1>1. /\ UNCHANGED <<outcome, storage, producer_write_position, producer_has_reservation>>
        /\ UNCHANGED <<published_write_position, consumer_read_position, consumer_has_value, ringVars>>
    BY <1>0 DEF transportVars, ringVars, producerVars, consumerVars
  <1>2. RingInv' /\ taken' = taken /\ ContentInv' /\ FirstErrorInv'
    BY <1>1, QuietKeepsRing
  <1>3. ConsumerInv' /\ EmptyInv'
    BY <1>0, <1>1, <1>2, LabelFacts DEF DataInv, ConsumerInv, EmptyInv, drained, workerVars, coordVars, ControlInv,
       CoordInv, GpuInv
  <1>4. LabelInv'
    <2> DEFINE h == Head(pending_labels)
               row == [entry |-> h, future |-> result]
               rows == Append(mapped_rows, row)
    <2>0. /\ pending_labels \in Seq(EventIndex) /\ mapped_rows \in Seq([entry : EventIndex, future : EventIndex])
          /\ \A i \in 1 .. Len(mapped_rows) : /\ mapped_rows[i].future = mapped_rows[i].entry + LabelHorizon
                                             /\ ~outcome[mapped_rows[i].entry].error
          /\ Len(pending_labels) \in Nat /\ Len(pending_labels) >= 1
      BY <1>0, MaturedExactly DEF DataInv, LabelInv
    <2>1. CASE UNCHANGED <<pending_labels, mapped_rows>> /\ gpu_pc' = "throw"
      BY <1>0, <1>1, <2>1 DEF DataInv, LabelInv
    <2>2. CASE pending_labels' = Tail(pending_labels)
      <3>1. /\ pending_labels' \in Seq(EventIndex) /\ Len(pending_labels') = Len(pending_labels) - 1
            /\ \A i \in 1 .. Len(pending_labels') :
                 pending_labels'[i] = pending_labels[i + 1] /\ i + 1 \in 2 .. Len(pending_labels)
        BY <2>0, <2>2
      <3>2. ASSUME NEW i \in 1 .. Len(pending_labels')
            PROVE  /\ pending_labels'[i] < rtl_results_consumed'
                   /\ rtl_results_consumed' <= pending_labels'[i] + LabelHorizon
                   /\ ~outcome'[pending_labels'[i]].error
                   /\ \A j \in 1 .. i - 1 : pending_labels'[j] < pending_labels'[i]
                   /\ rtl_results_consumed' < pending_labels'[i] + LabelHorizon
        <4>1. /\ i + 1 \in 1 .. Len(pending_labels) /\ i + 1 \in 2 .. Len(pending_labels)
              /\ pending_labels'[i] = pending_labels[i + 1]
          BY <2>0, <3>1
        <4>2. /\ pending_labels[i + 1] < rtl_results_consumed
              /\ rtl_results_consumed <= pending_labels[i + 1] + LabelHorizon
              /\ ~outcome[pending_labels[i + 1]].error
              /\ \A j \in 1 .. (i + 1) - 1 : pending_labels[j] < pending_labels[i + 1]
          BY <4>1 DEF DataInv, LabelInv
        <4>3. rtl_results_consumed < pending_labels[i + 1] + LabelHorizon
          BY <1>0, <4>1, MaturedExactly
        <4>4. ASSUME NEW j \in 1 .. i - 1 PROVE pending_labels'[j] < pending_labels'[i]
          <5>1. j \in 1 .. Len(pending_labels') /\ j + 1 \in 1 .. (i + 1) - 1
            BY <3>1, <2>0
          <5>2. pending_labels[j + 1] < pending_labels[i + 1]
            BY <4>2, <5>1
          <5>. QED
            BY <3>1, <4>1, <5>1, <5>2
        <4>. QED
          BY <1>0, <1>1, <4>1, <4>2, <4>3, <4>4
      <3>3. CASE mapped_rows' = mapped_rows \/ mapped_rows' = <<>>
        <4>1. /\ mapped_rows' \in Seq([entry : EventIndex, future : EventIndex])
              /\ \A i \in 1 .. Len(mapped_rows') : /\ mapped_rows'[i].future = mapped_rows'[i].entry + LabelHorizon
                                                  /\ ~outcome'[mapped_rows'[i].entry].error
          <5>1. CASE mapped_rows' = mapped_rows
            BY <1>1, <2>0, <5>1
          <5>2. CASE mapped_rows' = <<>>
            BY <5>2
          <5>. QED
            BY <3>3, <5>1, <5>2
        <4>. QED
          BY <3>1, <3>2, <4>1 DEF LabelInv
      <3>4. CASE mapped_rows' = rows
        <4>1. /\ h \in EventIndex /\ result \in EventIndex /\ result = h + LabelHorizon /\ ~outcome[h].error
          BY <1>0, MaturedExactly, LabelFacts
        <4>2. row \in [entry : EventIndex, future : EventIndex] /\ row.entry = h /\ row.future = result
          BY <4>1
        <4> HIDE DEF row, h
        <4>3. /\ rows \in Seq([entry : EventIndex, future : EventIndex]) /\ Len(rows) = Len(mapped_rows) + 1
              /\ Len(mapped_rows) \in Nat /\ rows[Len(mapped_rows) + 1] = row
              /\ \A i \in 1 .. Len(mapped_rows) : rows[i] = mapped_rows[i]
          BY <2>0, <4>2
        <4> HIDE DEF rows
        <4>4. ASSUME NEW i \in 1 .. Len(rows) PROVE rows[i].future = rows[i].entry + LabelHorizon /\ ~outcome[rows[i].entry].error
          <5>1. CASE i = Len(mapped_rows) + 1
            BY <4>1, <4>2, <4>3, <5>1
          <5>2. CASE i \in 1 .. Len(mapped_rows)
            BY <2>0, <4>3, <5>2
          <5>. QED
            BY <4>3, <5>1, <5>2
        <4>. QED
          BY <1>1, <3>1, <3>2, <3>4, <4>3, <4>4 DEF LabelInv
      <3>. QED
        BY <2>2, <3>3, <3>4 DEF GpuLabel
    <2>. QED
      BY <2>1, <2>2 DEF GpuLabel
  <1>. QED
    BY <1>1, <1>2, <1>3, <1>4 DEF DataInv

(* The rest of consume_result() and finish_pop(). *)
LEMMA FinishPopKeepsData ==
  ASSUME ControlInv, ControlInv', DataInv, GpuFinishPop, UNCHANGED <<workerVars, coordVars>>
  PROVE  DataInv'
  <1>0. /\ gpu_pc = "label" /\ ~matured /\ gpu_pc' = "complete" /\ finish_pop
        /\ pending_labels' = (IF outcome[result].error THEN pending_labels ELSE Append(pending_labels, result))
        /\ rtl_results_consumed' = rtl_results_consumed + 1
        /\ UNCHANGED <<mapped_rows, outcome>>
        /\ RtlInv /\ RingInv /\ ContentInv /\ LabelInv
    BY DEF GpuFinishPop, DataInv, ControlInv
  <1>1. /\ gpu_mode /\ gpu_mode' /\ consumer_has_value /\ result = rtl_results_consumed /\ result \in EventIndex
        /\ Len(QueueBar) >= 1 /\ result = taken
    BY <1>0, LabelFacts DEF DataInv, ConsumerInv, coordVars
  <1>2. /\ QueueBar' = Tail(QueueBar) /\ taken' = taken + 1 /\ ~consumer_has_value' /\ RingNext
        /\ UNCHANGED <<storage, producer_write_position, producer_has_reservation, published_write_position>>
    BY <1>0, FinishTakesOne DEF workerVars
  <1>3. RingInv'
    BY <1>0, <1>2, RingInvInductive
  <1>4. ContentInv'
    BY <1>0, <1>1, <1>2, <1>3, ContentKept DEF workerVars, ContentInv
  <1>5. ConsumerInv' /\ EmptyInv' /\ FirstErrorInv'
    <2>1. coord_pc # "drain_read" /\ coord_pc # "drain_empty"
      BY <1>1 DEF ControlInv, CoordInv, GpuRoute, DrainRoute
    <2>2. ConsumerInv'
      BY <1>0, <1>1, <1>2, <2>1 DEF ConsumerInv, DataInv, coordVars
    <2>3. EmptyInv' /\ FirstErrorInv'
      BY <1>0, <1>1, <1>2, <2>1 DEF EmptyInv, FirstErrorInv, DataInv, coordVars
    <2>. QED
      BY <2>2, <2>3
  <1>6. LabelInv'
    <2>0. /\ pending_labels \in Seq(EventIndex) /\ Len(pending_labels) \in Nat /\ result \in Nat
          /\ LabelHorizon \in Nat \ {0} /\ \A i \in 1 .. Len(pending_labels) : pending_labels[i] \in Nat
      BY <1>0, <1>1, IndexBounds DEF LabelInv, EventIndex
    <2>1. ASSUME NEW i \in 1 .. Len(pending_labels)
          PROVE  /\ pending_labels[i] < rtl_results_consumed
                 /\ rtl_results_consumed < pending_labels[i] + LabelHorizon
                 /\ ~outcome[pending_labels[i]].error
                 /\ \A j \in 1 .. i - 1 : pending_labels[j] < pending_labels[i]
      <3>1. pending_labels # <<>> /\ Head(pending_labels) = pending_labels[1] /\ 1 \in 1 .. Len(pending_labels)
        BY <2>0
      <3>2. result < pending_labels[1] + LabelHorizon
        BY <1>0, <2>0, <3>1 DEF matured
      <3>3. pending_labels[1] <= pending_labels[i]
        <4>1. CASE i = 1
          BY <2>0, <4>1
        <4>2. CASE i # 1
          <5>1. 1 \in 1 .. i - 1
            BY <4>2, <2>0
          <5>. QED
            BY <1>0, <2>0, <5>1, <3>1 DEF LabelInv
        <4>. QED
          BY <4>1, <4>2
      <3>4. rtl_results_consumed < pending_labels[i] + LabelHorizon
        BY <1>1, <2>0, <3>1, <3>2, <3>3
      <3>. QED
        BY <1>0, <3>4 DEF LabelInv
    <2>2. CASE outcome[result].error
      <3>1. pending_labels' = pending_labels
        BY <1>0, <2>2
      <3>2. ASSUME NEW i \in 1 .. Len(pending_labels)
            PROVE  /\ pending_labels[i] < rtl_results_consumed'
                   /\ rtl_results_consumed' <= pending_labels[i] + LabelHorizon
        BY <1>0, <1>1, <2>0, <2>1
      <3>. QED
        BY <1>0, <2>0, <2>1, <3>1, <3>2 DEF LabelInv
    <2>3. CASE ~outcome[result].error
      <3>1. pending_labels' = Append(pending_labels, result)
        BY <1>0, <2>3
      <3>2. /\ pending_labels' \in Seq(EventIndex) /\ Len(pending_labels') = Len(pending_labels) + 1
            /\ pending_labels'[Len(pending_labels) + 1] = result
            /\ \A i \in 1 .. Len(pending_labels) : pending_labels'[i] = pending_labels[i]
        BY <1>1, <2>0, <3>1
      <3>3. ASSUME NEW i \in 1 .. Len(pending_labels')
            PROVE  /\ pending_labels'[i] < rtl_results_consumed'
                   /\ rtl_results_consumed' <= pending_labels'[i] + LabelHorizon
                   /\ ~outcome[pending_labels'[i]].error
                   /\ \A j \in 1 .. i - 1 : pending_labels'[j] < pending_labels'[i]
        <4>1. CASE i \in 1 .. Len(pending_labels)
          <5>1. pending_labels'[i] = pending_labels[i] /\ \A j \in 1 .. i - 1 : pending_labels'[j] = pending_labels[j]
            BY <2>0, <3>2, <4>1
          <5>. QED
            BY <1>0, <1>1, <2>0, <2>1, <4>1, <5>1
        <4>2. CASE i = Len(pending_labels) + 1
          <5>1. pending_labels'[i] = result
            BY <3>2, <4>2
          <5>2. ASSUME NEW j \in 1 .. i - 1 PROVE pending_labels'[j] < result
            <6>1. j \in 1 .. Len(pending_labels)
              BY <2>0, <4>2
            <6>2. pending_labels'[j] = pending_labels[j]
              BY <3>2, <6>1
            <6>. QED
              BY <1>1, <2>0, <2>1, <6>1, <6>2
          <5>. QED
            BY <1>0, <1>1, <2>0, <2>3, <5>1, <5>2
        <4>. QED
          BY <2>0, <3>2, <4>1, <4>2
      <3>. QED
        BY <1>0, <3>2, <3>3 DEF LabelInv
    <2>. QED
      BY <2>2, <2>3
  <1>. QED
    BY <1>0, <1>3, <1>4, <1>5, <1>6 DEF DataInv

(* The GPU thread's other steps, and its handler's last one, take nothing   *)
(* out of the ring and make no row.                                         *)
LEMMA GpuQuietKeepsData ==
  ASSUME ControlInv, ControlInv', DataInv, UNCHANGED coordVars, RequestRtlStop \/ UNCHANGED workerVars,
         RequestRtlStop \/ (GpuThread /\ ~GpuLabel /\ ~GpuFinishPop) \/ DeviceCompletes \/ GpuOpenclFailure
  PROVE  DataInv'
  <1>0. /\ RtlInv /\ CoordInv /\ GpuInv /\ RingInv /\ ConsumerInv /\ ContentInv /\ LabelInv /\ EmptyInv
        /\ FirstErrorInv /\ outcome \in Outcomes
    BY DEF ControlInv, DataInv
  <1>1. /\ UNCHANGED <<outcome, storage, producer_write_position, producer_has_reservation>>
        /\ UNCHANGED <<published_write_position, consumer_read_position, rtl_results_consumed>>
        /\ UNCHANGED <<input_complete, gpu_stop_requested>>
        /\ UNCHANGED <<rtl_pc, core, next_event, stream_results_published, rtl_finished>>
        /\ [RingNext]_ringVars
    <2>1. CASE GpuTryPop
      BY <2>1 DEF GpuTryPop, try_begin_pop, RequestRtlStop, workerVars, ringVars, producerVars, consumerVars, RingNext
    <2>2. CASE RequestRtlStop
      BY <2>2 DEF RequestRtlStop, transportVars, ringVars, producerVars, consumerVars
    <2>3. CASE GpuPoll \/ GpuStopTest \/ GpuStopping \/ GpuInputComplete
      BY <2>3 DEF GpuPoll, GpuStopTest, GpuStopping, GpuInputComplete, RequestRtlStop, workerVars, transportVars,
                  ringVars, producerVars, consumerVars
    <2>4. CASE GpuEmpty \/ GpuLeaving \/ GpuCatch \/ DeviceCompletes \/ GpuOpenclFailure
      BY <2>4 DEF GpuEmpty, GpuLeaving, GpuCatch, DeviceCompletes, GpuOpenclFailure, RequestRtlStop, workerVars,
                  transportVars, ringVars, producerVars, consumerVars
    <2>. QED
      BY <2>1, <2>2, <2>3, <2>4 DEF GpuThread
  <1>2. RingInv' /\ taken' = taken /\ ContentInv' /\ FirstErrorInv'
    <2>1. RingInv'
      BY <1>0, <1>1, RingInvInductive
    <2>2. QueueBar' = QueueBar
      BY <1>1 DEF QueueBar
    <2>3. taken' = taken
      BY <1>1, <2>2 DEF taken
    <2>4. ContentInv'
      BY <1>0, <1>1, <2>2, <2>3 DEF ContentInv
    <2>5. FirstErrorInv'
      BY <1>0, <1>1, <2>3 DEF FirstErrorInv, coordVars
    <2>. QED
      BY <2>1, <2>3, <2>4, <2>5
  <1>3. /\ UNCHANGED <<pending_labels, mapped_rows>> \/ (pending_labels' = <<>> /\ mapped_rows' = <<>>)
        /\ gpu_pc' = "label" => (gpu_pc = "label" /\ UNCHANGED model_update_in_flight) \/ ~model_update_in_flight'
    BY DEF RequestRtlStop, GpuThread, GpuPoll, GpuStopTest, GpuTryPop, GpuStopping, GpuInputComplete, GpuEmpty,
           GpuLeaving, GpuCatch, DeviceCompletes, GpuOpenclFailure
  <1>4. LabelInv'
    <2>1. CASE UNCHANGED <<pending_labels, mapped_rows>>
      BY <1>0, <1>1, <1>3, <2>1 DEF LabelInv
    <2>2. CASE pending_labels' = <<>> /\ mapped_rows' = <<>>
      BY <2>2 DEF LabelInv
    <2>. QED
      BY <1>3, <2>1, <2>2
  <1>5. ConsumerInv'
    <2>1. \/ gpu_pc' = "label" /\ consumer_has_value' /\ gpu_mode /\ gpu_pc = "begin"
          \/ /\ UNCHANGED consumer_has_value
             /\ gpu_pc' = "label" => gpu_pc = "label"
             /\ gpu_pc \in {"label", "throw", "request_stop", "done"} =>
                  gpu_pc' \in {"label", "throw", "request_stop", "done"}
      <3>1. CASE GpuTryPop
        BY <1>0, <3>1 DEF GpuTryPop, try_begin_pop, ringVars, consumerVars, GpuInv
      <3>2. CASE ~GpuTryPop
        BY <3>2 DEF RequestRtlStop, GpuThread, GpuPoll, GpuStopTest, GpuStopping, GpuInputComplete, GpuEmpty,
           GpuLeaving, GpuCatch, DeviceCompletes, GpuOpenclFailure, transportVars, ringVars, consumerVars
      <3>. QED
        BY <3>1, <3>2
    <2>. QED
      BY <1>0, <1>1, <1>2, <2>1 DEF ConsumerInv, coordVars, CoordInv, GpuRoute, DrainRoute
  <1>6. EmptyInv'
    <2>1. /\ gpu_failed => gpu_failed'
          /\ gpu_pc' = "empty" => gpu_pc = "empty" \/ input_complete
          /\ gpu_pc' = "stopping" => gpu_pc = "stopping" \/ gpu_stop_requested
      BY <1>0 DEF RequestRtlStop, GpuThread, GpuPoll, GpuStopTest, GpuTryPop, GpuStopping, GpuInputComplete, GpuEmpty,
           GpuLeaving, GpuCatch, DeviceCompletes, GpuOpenclFailure
    <2>2. gpu_pc' \in {"leaving", "done"} =>
            \/ gpu_pc \in {"leaving", "done"} \/ gpu_failed \/ gpu_stop_requested
            \/ input_complete /\ RingEmpty /\ ~gpu_failed
      BY <1>0 DEF RequestRtlStop, GpuThread, GpuPoll, GpuStopTest, GpuTryPop, GpuStopping, GpuInputComplete, GpuEmpty,
           GpuLeaving, GpuCatch, DeviceCompletes, GpuOpenclFailure, EmptyInv, GpuInv
    <2>3. input_complete /\ RingEmpty /\ ~gpu_failed =>
            drained /\ (StaleLoads \/ consumer_read_position = producer_write_position)
      BY <1>0 DEF GpuInv, RtlInv, EmptyInv, RingEmpty
    <2>4. drained' = drained
      BY <1>1 DEF drained
    <2>5. gpu_pc' \in {"leaving", "done"} =>
            \/ gpu_failed' \/ gpu_stop_requested'
            \/ drained' /\ (StaleLoads \/ consumer_read_position' = producer_write_position')
      BY <1>0, <1>1, <2>1, <2>2, <2>3, <2>4 DEF EmptyInv
    <2>. QED
      BY <1>0, <1>1, <2>1, <2>5 DEF EmptyInv, coordVars
  <1>. QED
    BY <1>0, <1>1, <1>2, <1>4, <1>5, <1>6 DEF DataInv

-----------------------------------------------------------------------------
(* All steps together. *)
LEMMA DataInductive == ControlInv /\ ControlInv' /\ DataInv /\ [Next]_vars => DataInv'
  <1> SUFFICES ASSUME ControlInv, ControlInv', DataInv, [Next]_vars PROVE DataInv'
    OBVIOUS
  <1>1. CASE RtlRuns
    BY <1>1, RtlKeepsData
  <1>2. CASE Coordinator
    BY <1>2, CoordinatorKeepsData
  <1>3. CASE GpuRuns \/ DeviceRuns \/ OpenclFails
    <2>1. UNCHANGED coordVars /\ (RequestRtlStop \/ UNCHANGED workerVars)
      BY <1>3 DEF GpuRuns, DeviceRuns, OpenclFails, RequestRtlStop
    <2>2. CASE GpuLabel
      <3>1. UNCHANGED workerVars
        BY <2>1, <2>2 DEF RequestRtlStop, GpuLabel
      <3>. QED
        BY <2>1, <2>2, <3>1, LabelKeepsData
    <2>3. CASE GpuFinishPop
      <3>1. UNCHANGED workerVars
        BY <2>1, <2>3 DEF RequestRtlStop, GpuFinishPop
      <3>. QED
        BY <2>1, <2>3, <3>1, FinishPopKeepsData
    <2>4. CASE ~GpuLabel /\ ~GpuFinishPop
      BY <1>3, <2>1, <2>4, GpuQuietKeepsData DEF GpuRuns, DeviceRuns, OpenclFails
    <2>. QED
      BY <2>2, <2>3, <2>4
  <1>4. CASE StoresPropagate \/ UNCHANGED vars
    <2>1. /\ UNCHANGED <<outcome, workerVars, gpuVars, coordVars>> /\ [RingNext]_ringVars
          /\ UNCHANGED <<storage, producer_write_position, producer_has_reservation, consumer_read_position>>
          /\ UNCHANGED consumer_has_value
      BY <1>4 DEF StoresPropagate, Propagate, propagate_published, propagate_released, RingNext, producerVars,
                  consumerVars, vars, transportVars, ringVars
    <2>2. RingInv' /\ taken' = taken /\ ContentInv' /\ FirstErrorInv'
      BY <2>1, QuietKeepsRing
    <2>3. published_write_position = producer_write_position => published_write_position' = published_write_position
      BY <1>4 DEF StoresPropagate, Propagate, propagate_published, propagate_released, vars, transportVars, ringVars
    <2>4. ConsumerInv' /\ LabelInv'
      BY <2>1, <2>2 DEF DataInv, ConsumerInv, LabelInv, gpuVars, coordVars
    <2>5. EmptyInv'
      BY <2>1, <2>3 DEF DataInv, EmptyInv, drained, workerVars, gpuVars, coordVars
    <2>. QED
      BY <2>1, <2>2, <2>4, <2>5 DEF DataInv
  <1>. QED
    BY <1>1, <1>2, <1>3, <1>4 DEF Next, Terminating

LEMMA DataInit == Init => DataInv
  <1> SUFFICES ASSUME Init PROVE DataInv
    OBVIOUS
  <1>1. RingInv /\ outcome \in Outcomes
    BY RingInvInit DEF Init, TransportInit
  <1>2. /\ rtl_pc = "loop" /\ stream_results_published = 0 /\ gpu_pc = "not_started" /\ pending_labels = <<>>
        /\ mapped_rows = <<>> /\ rtl_results_consumed = 0 /\ first_error = {} /\ consumer_has_value = FALSE
        /\ coord_pc \in {"start_gpu", "close"} /\ published_write_position = producer_write_position
        /\ consumer_read_position = producer_write_position
    BY DEF Init, WorkerInit, GpuInit, TransportInit, RingInit
  <1>3. Len(QueueBar) = 0
    BY <1>1, <1>2, QueueShape, DistanceNat DEF RingInv, RingTypeOK
  <1>4. taken = 0
    BY <1>2, <1>3 DEF taken
  <1>5. ConsumerInv /\ ContentInv /\ FirstErrorInv
    BY <1>2, <1>3, <1>4 DEF ConsumerInv, ContentInv, FirstErrorInv
  <1>6. LabelInv /\ EmptyInv
    BY <1>2 DEF LabelInv, EmptyInv
  <1>. QED
    BY <1>1, <1>5, <1>6 DEF DataInv

LEMMA DataInvariant == Spec => [](ControlInv /\ DataInv)
  BY ControlInit, ControlInductive, DataInit, DataInductive, PTL DEF Spec

(* Whatever the interleaving, the backpressure and the age of the           *)
(* positions, the GPU worker gets the results of events 0, 1, 2, ... in     *)
(* this order, none twice and none missing.                                 *)
THEOREM ResultsInOrder == Spec => []InOrderDelivery
  <1>1. ControlInv /\ DataInv => InOrderDelivery
    BY ValueInHand DEF ControlInv, DataInv, ConsumerInv, InOrderDelivery
  <1>. QED
    BY DataInvariant, <1>1, PTL

(* No row is ever trained on a future other than the one LabelHorizon       *)
(* events after its entry, and no entry is a book error.                    *)
THEOREM RowsUseExactHorizon == Spec => []LabelsUseExactHorizon
  <1>1. ControlInv /\ DataInv => LabelsUseExactHorizon
    <2> SUFFICES ASSUME ControlInv, DataInv PROVE LabelsUseExactHorizon
      OBVIOUS
    <2>1. gpu_pc = "label" /\ matured => result = Head(pending_labels) + LabelHorizon
      BY MaturedExactly
    <2>. QED
      BY <2>1 DEF DataInv, LabelInv, LabelsUseExactHorizon
  <1>. QED
    BY DataInvariant, <1>1, PTL

(* When run() returns, every accepted event's result went through the ring  *)
(* and out of it: without a GPU for both kinds of load, with one when       *)
(* empty() loads the latest positions; input_complete_ is a relaxed flag,   *)
(* and seeing it says nothing of how old the positions are that empty()     *)
(* then loads.                                                              *)
THEOREM EverythingConsumed == Spec => [](~gpu_mode \/ ~StaleLoads => AllResultsConsumed)
  <1>1. ControlInv /\ DataInv => (~gpu_mode \/ ~StaleLoads => AllResultsConsumed)
    <2> SUFFICES ASSUME ControlInv, DataInv, ~gpu_mode \/ ~StaleLoads, coord_pc = "returned" PROVE
                   /\ stream_results_published = next_event
                   /\ gpu_mode => rtl_results_consumed = next_event
                   /\ consumer_read_position = producer_write_position
                   /\ next_event = EventCount
      BY DEF AllResultsConsumed
    <2>1. rtl_pc = "done" /\ ~rtl_failed
      BY DEF ControlInv, CoordInv
    <2>2. ~rtl_stop_requested /\ (gpu_mode => gpu_pc = "done" /\ ~gpu_failed /\ ~gpu_stop_requested)
      BY <2>1 DEF ControlInv, CoordInv, GpuInv
    <2>3. drained
      BY <2>1, <2>2 DEF ControlInv, ExitInv
    <2>4. consumer_read_position = producer_write_position
      BY <2>2 DEF DataInv, EmptyInv
    <2>5. Len(QueueBar) = 0
      BY <2>4, QueueShape, DistanceNat DEF DataInv, RingInv, RingTypeOK
    <2>6. taken = EventCount
      BY <2>3, <2>5, IndexBounds DEF taken, drained
    <2>. QED
      BY <2>3, <2>4, <2>6 DEF drained, DataInv, ConsumerInv
  <1>. QED
    BY DataInvariant, <1>1, PTL

(* Without a GPU a normal return reports the earliest book error of the     *)
(* whole replay, or none when there is none, for both kinds of load.        *)
THEOREM EarliestErrorReported == Spec => []FirstErrorIsEarliest
  <1>1. ControlInv /\ DataInv => FirstErrorIsEarliest
    <2> SUFFICES ASSUME ControlInv, DataInv, ~gpu_mode, coord_pc = "returned" PROVE
                   first_error = {i \in EventIndex : /\ outcome[i].error
                                                     /\ \A j \in 0 .. i - 1 : ~outcome[j].error}
      BY DEF FirstErrorIsEarliest
    <2>1. rtl_pc = "done" /\ ~rtl_failed /\ ~rtl_stop_requested
      BY DEF ControlInv, CoordInv, GpuInv
    <2>2. drained /\ consumer_read_position = producer_write_position
      BY <2>1 DEF ControlInv, ExitInv, DataInv, EmptyInv
    <2>3. Len(QueueBar) = 0
      BY <2>2, QueueShape, DistanceNat DEF DataInv, RingInv, RingTypeOK
    <2>4. taken = EventCount /\ EventCount \in Nat
      BY <2>2, <2>3, IndexBounds DEF taken, drained
    <2>5. CASE first_error = {} /\ \A j \in EventIndex : ~outcome[j].error
      BY <2>5
    <2>6. CASE \E i \in EventIndex : /\ first_error = {i} /\ outcome[i].error
                                      /\ \A j \in 0 .. i - 1 : ~outcome[j].error
      <3>1. PICK i \in EventIndex : /\ first_error = {i} /\ outcome[i].error
                                    /\ \A j \in 0 .. i - 1 : ~outcome[j].error
        BY <2>6
      <3>2. ASSUME NEW k \in EventIndex, outcome[k].error, \A j \in 0 .. k - 1 : ~outcome[j].error
            PROVE  k = i
        <4>1. ~(i < k) /\ ~(k < i)
          BY <2>4, <3>1, <3>2 DEF EventIndex
        <4>. QED
          BY <2>4, <4>1 DEF EventIndex
      <3>. QED
        BY <3>1, <3>2
    <2>. QED
      BY <2>4, <2>5, <2>6 DEF DataInv, FirstErrorInv, EventIndex
  <1>. QED
    BY DataInvariant, <1>1, PTL

-----------------------------------------------------------------------------
(* What a worker's exception means. *)

(* Every exception comes from outside: the callback that saves the model,   *)
(* a consumer too slow for the timeout, or OpenCL.                          *)
FailureHasCause ==
  /\ rtl_pc = "throw" => "autosave" \in Faults \/ "backpressure_timeout" \in Faults
  /\ gpu_pc = "throw" => "opencl" \in Faults

LEMMA FailureCauseStep ==
  ControlInv /\ DataInv /\ FailureHasCause /\ [Next]_vars => FailureHasCause'
  <1> SUFFICES ASSUME ControlInv, DataInv, FailureHasCause, [Next]_vars PROVE FailureHasCause'
    OBVIOUS
  <1>1. CASE RtlRuns
    <2>0. gpu_pc' = gpu_pc /\ UNCHANGED gpuVars /\ RtlThread
      BY <1>1 DEF RtlRuns, gpuVars
    <2>1. CASE RtlIdleApply \/ RtlApply
      BY <2>0, <2>1, ApplyKeepsVersion DEF RtlIdleApply, RtlApply, ControlInv, FailureHasCause
    <2>2. CASE RtlRingFull
      BY <2>0, <2>2 DEF RtlRingFull, FailureHasCause
    <2>3. CASE RtlStep
      <3>1. producer_has_reservation => stream_result_valid
        BY DEF ControlInv, RtlInv, stream_result_valid
      <3>. QED
        BY <2>0, <2>3, <3>1 DEF RtlStep, FailureHasCause
    <2>4. CASE RtlLoop \/ RtlIdleClosed \/ RtlIdleHasUpdate \/ RtlReserve \/ RtlDecode \/ RtlNothingHeld
      BY <2>0, <2>4 DEF RtlLoop, RtlIdleClosed, RtlIdleHasUpdate, RtlReserve, RtlDecode, RtlNothingHeld,
                        FailureHasCause
    <2>5. CASE RtlExit \/ RtlCatch \/ RtlFinish
      BY <2>0, <2>5 DEF RtlExit, RtlCatch, RtlFinish, FailureHasCause
    <2>. QED
      BY <2>0, <2>1, <2>2, <2>3, <2>4, <2>5 DEF RtlThread
  <1>2. CASE GpuRuns \/ DeviceRuns \/ OpenclFails
    <2>1. rtl_pc' = rtl_pc
      BY <1>2 DEF GpuRuns, DeviceRuns, OpenclFails, RequestRtlStop, workerVars
    <2>2. CASE GpuPoll
      <3>1. can_publish(TrainedModel)
        BY <2>2, PollCanPublish DEF GpuPoll
      <3>. QED
        BY <2>1, <2>2, <3>1 DEF GpuPoll, FailureHasCause
    <2>3. CASE GpuLabel
      <3>1. ~model_update_in_flight
        BY <2>3, MaturedExactly DEF GpuLabel
      <3>. QED
        BY <2>1, <2>3, <3>1 DEF GpuLabel, FailureHasCause
    <2>4. CASE RequestRtlStop \/ DeviceCompletes \/ GpuOpenclFailure
      BY <2>1, <2>4 DEF RequestRtlStop, DeviceCompletes, GpuOpenclFailure, OpenclMayFail, FailureHasCause
    <2>5. CASE GpuThread /\ ~GpuPoll /\ ~GpuLabel
      BY <2>1, <2>5 DEF GpuThread, GpuStopTest, GpuTryPop, GpuStopping, GpuFinishPop, GpuInputComplete, GpuEmpty,
                        GpuLeaving, GpuCatch, FailureHasCause
    <2>. QED
      BY <1>2, <2>2, <2>3, <2>4, <2>5 DEF GpuRuns, DeviceRuns, OpenclFails
  <1>3. CASE Coordinator
    <2>1. rtl_pc' = rtl_pc /\ (gpu_pc' = gpu_pc \/ gpu_pc' = "poll")
      BY <1>3, CoordinatorEffects DEF workerVars, Coordinator, StartGpu, WaitDrained, WaitGpuFailed, DecideGpu,
         DecideRtl, RequestEnd, JoinGpu, CloseMailbox, JoinRtl, DrainFinished, DrainEmpty, DrainPop, DrainRead,
         gpuUntouched, gpuVars
    <2>. QED
      BY <2>1 DEF FailureHasCause
  <1>4. CASE StoresPropagate \/ UNCHANGED vars
    BY <1>4 DEF StoresPropagate, vars, workerVars, gpuVars, FailureHasCause
  <1>. QED
    BY <1>1, <1>2, <1>3, <1>4 DEF Next, Terminating

(* No interleaving of the threads makes a worker throw on its own: without  *)
(* a slow consumer, a failing save or a failing OpenCL call neither thread  *)
(* body's handler is ever entered.                                          *)
THEOREM NoFailureOfItsOwn ==
  ASSUME Faults \subseteq {"gpu_config"}
  PROVE  Spec => []NoSpuriousFailure
  <1>1. Init => FailureHasCause
    BY DEF Init, WorkerInit, GpuInit, FailureHasCause
  <1>2. FailureHasCause => NoSpuriousFailure
    BY DEF FailureHasCause, NoSpuriousFailure
  <1>. QED
    BY DataInvariant, FailureCauseStep, <1>1, <1>2, PTL DEF Spec
=============================================================================
