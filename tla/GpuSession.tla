----------------------------- MODULE GpuSession -----------------------------
(***************************************************************************)
(* One life of GpuModel (src/gpu/gpu_model.cpp): the choice of the device,  *)
(* the constructor, the calls of one client, and the destructor, against an *)
(* OpenCL runtime that runs the commands of an in-order queue in its own    *)
(* time and may fail MaxFaults calls or commands.                           *)
(*                                                                          *)
(* The client uses one of the three protocols of the class: "training" as   *)
(* GpuWorker does, the older "phase6" one, or "smoke" (run_gpu_smoke_test). *)
(* It gives up at the first exception and then only destroys the object.    *)
(* A model is where it started from and the batches it was trained on.      *)
(***************************************************************************)
EXTENDS OpenclDevices, SequencesExt

CONSTANTS
  Hosts,         \* the platform lists a host may show
  Selectors,     \* the pairs [index, name] of --gpu-index and --gpu-name
  MaxRows,
  MaxBatches,    \* bounds the versions submitted
  MaxFaults      \* OpenCL failures

ASSUME SessionAssumption ==
  /\ Hosts \subseteq Seq(Seq([gpu : BOOLEAN, contains : SUBSET STRING]))
  /\ MaxDevices \in Nat
  /\ \A h \in Hosts : \A p \in DOMAIN h : Len(h[p]) <= MaxDevices
  /\ MaxRows \in Nat \ {0} /\ MaxBatches \in Nat /\ MaxFaults \in Nat

VARIABLES
  protocol, selector,
  host,          \* what the runtime lists now
  selected,      \* selected_device, or NoDevice, or SelectionError
  opened,        \* the device of the context, or NoDevice
  host_changed,  \* has the list changed since the selection?
  life,          \* "selecting", "constructing", "live" or "destroyed"
  thrown,        \* "no", "selection", "opencl" or "logic_error"
  faults,
  handles,       \* the non-null OpenCL members of Impl
  orphans,       \* OpenCL objects no variable refers to any more
  mapped,        \* mapped_stream_values and mapped_stream_labels, when non-null
  cl_mapped,     \* the buffers the runtime has mapped
  mapped_stream_rows, stream_capacity_rows,
  has_configured_training_model,
  pending,       \* pending_stream_update_version, 0 when empty
  next_version,  \* the client's next_update_version_
  commands,      \* the command queue
  batch,         \* whose rows the input buffers hold
  gradient,      \* stream_gradient_buffer, with the loss and accuracy buffers
  device_model,  \* stream_update_buffer
  device_metrics,
  stream_update_values, stream_training_metrics,   \* filled by the read commands
  smoke,         \* the float buffers: "none", "input", "doubled", "wrong", "read"
  status,        \* GpuSmokeTestResult::status, "running" until it is decided
  history        \* resets of the device model and answers of poll (not in the code)

choice == <<protocol, selector, host, selected, opened, host_changed>>
device == <<batch, gradient, device_model, device_metrics>>
readback == <<stream_update_values, stream_training_metrics>>
stream == <<mapped, cl_mapped, mapped_stream_rows, stream_capacity_rows, pending, next_version>>
vars == <<choice, life, thrown, faults, handles, orphans, stream, has_configured_training_model,
          commands, device, readback, smoke, status, history>>

-----------------------------------------------------------------------------
(* The members that hold OpenCL objects, in the order of their creation. *)
Constructed == <<"context", "queue", "program", "smoke_kernel", "phase6_update_kernel",
                 "training_kernel", "training_reduce_kernel">>
StreamBuffers == <<"input", "label", "update", "gradient", "loss", "correct", "metrics">>
StreamEvents == {"unmap_complete", "kernel_complete", "reduce_complete", "read_complete"}
SmokeBuffers == <<"smoke_input", "smoke_output">>
SmokeEvents == {"smoke_input_complete", "smoke_kernel_complete", "smoke_output_complete"}

FirstOf(seq, n) == ToSet(SubSeq(seq, 1, n))

(* What cleanup() releases. *)
Released_but_reduce ==   \* a mistake: an event added later was forgotten
  ToSet(Constructed) \cup ToSet(StreamBuffers) \cup (StreamEvents \ {"reduce_complete"})
    \cup ToSet(SmokeBuffers) \cup SmokeEvents
Released ==
  ToSet(Constructed) \cup ToSet(StreamBuffers) \cup StreamEvents
    \cup ToSet(SmokeBuffers) \cup SmokeEvents

(* The commands of one submission, each with the event it fills in. *)
Submission(p) ==
  CASE p = "training" -> <<"unmap_features", "unmap_labels", "rows", "reduce",
                           "read_metrics", "read_model">>
    [] p = "phase6" -> <<"unmap_features", "phase6", "read_model">>
    [] p = "smoke" -> <<"write_input", "double", "read_output">>
EventsOf(p, n) ==
  CASE p = "training" -> FirstOf(<<"unmap_complete", "none", "kernel_complete",
                                   "reduce_complete", "none", "read_complete">>, n) \ {"none"}
    [] p = "phase6" -> FirstOf(<<"unmap_complete", "kernel_complete", "read_complete">>, n)
    [] p = "smoke" -> FirstOf(<<"smoke_input_complete", "smoke_kernel_complete",
                                "smoke_output_complete">>, n)

InitialModel == [seed |-> FALSE, batches |-> <<>>]

Init ==
  /\ protocol \in {"training", "phase6", "smoke"}
  /\ selector \in Selectors /\ host \in Hosts
  /\ selected = NoDevice /\ opened = NoDevice /\ host_changed = FALSE
  /\ life = "selecting" /\ thrown = "no" /\ faults = 0
  /\ handles = {} /\ orphans = {} /\ mapped = {} /\ cl_mapped = {}
  /\ mapped_stream_rows = 0 /\ stream_capacity_rows = 0
  /\ has_configured_training_model = FALSE
  /\ pending = 0 /\ next_version = 1
  /\ commands = <<>>
  /\ batch = 0 /\ gradient = [batch |-> 0, model |-> InitialModel]
  /\ device_model = InitialModel /\ device_metrics = 0
  /\ stream_update_values = InitialModel /\ stream_training_metrics = 0
  /\ smoke = "none" /\ status = "running" /\ history = <<>>

(* A call that fails in the runtime, or one that does not. *)
Outcome(ok) ==
  /\ ok \/ faults < MaxFaults
  /\ faults' = IF ok THEN faults ELSE faults + 1
  /\ thrown' = IF ok THEN "no" ELSE "opencl"

calling == life = "live" /\ thrown = "no"

-----------------------------------------------------------------------------
(* select_opencl_gpu(), then the constructor of Impl.  In between, and only *)
(* then, does it matter that the runtime's list may change.                 *)
SelectGpu ==
  /\ life = "selecting"
  /\ selected' = select_opencl_gpu(host, selector.index, selector.name)
  /\ life' = IF selected' = SelectionError THEN "destroyed" ELSE "constructing"
  /\ thrown' = IF selected' = SelectionError THEN "selection" ELSE "no"
  /\ status' = CASE selected' # SelectionError -> status
                 [] selected' = SelectionError /\ selector = [index |-> NoIndex, name |-> NoName] -> "skipped"
                 [] OTHER -> "failed"
  /\ UNCHANGED <<protocol, selector, host, opened, host_changed, faults, handles, orphans,
                 stream, has_configured_training_model, commands, device, readback, smoke,
                 history>>

HostChanges ==
  /\ life = "constructing"
  /\ ~host_changed
  /\ host' \in Hosts \ {host}
  /\ host_changed' = TRUE
  /\ UNCHANGED <<protocol, selector, selected, opened, life, thrown, faults, handles, orphans,
                 stream, has_configured_training_model, commands, device, readback, smoke,
                 status, history>>

(* Seven objects are created; a failure after made of them runs cleanup().  *)
(* A failing build leaves the program itself created.                       *)
Construct ==
  /\ life = "constructing"
  /\ LET found == find_device_id(host, selected)
     IN \E made \in 0 .. Len(Constructed) :
          /\ found = Unavailable => made = 0
          /\ IF found = Unavailable
               THEN thrown' = "opencl" /\ UNCHANGED faults
               ELSE Outcome(made = Len(Constructed))
          /\ opened' = IF made = 0 THEN NoDevice ELSE found
          /\ handles' = IF thrown' = "no" THEN ToSet(Constructed)
                                          ELSE FirstOf(Constructed, made) \ Released
  /\ life' = IF thrown' = "no" THEN "live" ELSE "destroyed"
  /\ status' = IF thrown' = "no" THEN status ELSE "failed"
  /\ UNCHANGED <<protocol, selector, host, selected, host_changed, orphans, stream,
                 has_configured_training_model, commands, device, readback, smoke, history>>

-----------------------------------------------------------------------------
(* set_training_model(): seeds the device model at its next reset. *)
SetTrainingModel ==
  /\ calling /\ protocol = "training"
  /\ mapped = {} /\ pending = 0
  /\ ~has_configured_training_model
  /\ has_configured_training_model' = TRUE
  /\ UNCHANGED <<choice, life, thrown, faults, handles, orphans, stream, commands, device,
                 readback, smoke, status, history>>

(* map_stream_feature_rows() or map_training_batch(), with what they call:  *)
(* ensure_stream_capacity() replaces the seven buffers (steps 1 to 7) and   *)
(* writes the initial model (8), then the features (9) and the labels (10)  *)
(* are mapped, both blocking.  The call fails at a step, or at none (11).   *)
MapBatch(rows) ==
  LET grows == rows > stream_capacity_rows
      labels == protocol = "training"
      seeded == [seed |-> has_configured_training_model, batches |-> <<>>]
  IN /\ calling /\ protocol # "smoke"
     /\ mapped = {} /\ pending = 0
     /\ next_version <= MaxBatches
     /\ commands = <<>>
     /\ \E step \in (IF grows THEN 1 .. 9 ELSE {9}) \cup (IF labels THEN {10} ELSE {}) \cup {11} :
          /\ Outcome(step = 11)
          /\ handles' = IF grows THEN (handles \ ToSet(StreamBuffers))
                                        \cup FirstOf(StreamBuffers, IF step > 7 THEN 7 ELSE step - 1)
                                 ELSE handles
          /\ IF grows /\ step > 7
               THEN stream_update_values' = seeded
               ELSE UNCHANGED stream_update_values
          /\ IF grows /\ step > 8
               THEN /\ stream_capacity_rows' = rows
                    /\ device_model' = seeded
                    /\ history' = Append(history, [kind |-> "reset", seed |-> seeded.seed])
               ELSE UNCHANGED <<stream_capacity_rows, device_model, history>>
          /\ mapped' = (IF step > 9 THEN {"values"} ELSE {})
                         \cup (IF step > 10 /\ labels THEN {"labels"} ELSE {})
          /\ cl_mapped' = mapped'
          /\ mapped_stream_rows' = IF step > 9 THEN rows ELSE mapped_stream_rows
          /\ batch' = IF step = 11 THEN next_version ELSE batch
     /\ UNCHANGED <<choice, life, orphans, has_configured_training_model, pending, next_version,
                    commands, gradient, device_metrics, stream_training_metrics, smoke, status>>

(* A mistake: the pointers are dropped before the second unmap is made. *)
pointers_after_early(done) == IF done >= 1 THEN {} ELSE mapped

(* The mapped pointers after done commands of a submission were enqueued. *)
pointers_after(done) ==
  IF done >= (IF protocol = "training" THEN 2 ELSE 1) THEN {} ELSE mapped

(* submit_training_batch() or submit_phase6_model_update(): the commands    *)
(* are enqueued until one fails, or clFlush() does.  Only from the rows     *)
(* kernel on has the event of the second unmap been released.               *)
SubmitBatch ==
  /\ calling /\ protocol # "smoke"
  /\ mapped # {} /\ pending = 0
  /\ \E done \in 0 .. Len(Submission(protocol)), flushed \in BOOLEAN :
       /\ flushed => done = Len(Submission(protocol))
       /\ Outcome(flushed)
       /\ commands' = commands \o SubSeq(Submission(protocol), 1, done)
       /\ handles' = (handles \ StreamEvents) \cup EventsOf(protocol, done)
       /\ orphans' = orphans \cup (IF protocol = "training" /\ done = 2
                                    THEN {"label_unmap_complete"} ELSE {})
       /\ mapped' = pointers_after(done)
       /\ mapped_stream_rows' = IF mapped' = {} THEN 0 ELSE mapped_stream_rows
       /\ pending' = IF flushed THEN next_version ELSE 0
  /\ UNCHANGED <<choice, life, cl_mapped, stream_capacity_rows, next_version,
                 has_configured_training_model, device, readback, smoke, status, history>>

(* poll_training_update() or poll_phase6_model_update() once the model has  *)
(* been read back; before that they return nothing and change nothing.      *)
PollUpdate ==
  /\ calling
  /\ pending # 0
  /\ "read_model" \notin ToSet(commands)
  /\ history' = Append(history, [kind |-> "update", version |-> pending,
                                 model |-> stream_update_values,
                                 metrics |-> IF protocol = "training"
                                               THEN stream_training_metrics ELSE 0])
  /\ next_version' = pending + 1
  /\ pending' = 0
  /\ handles' = handles \ StreamEvents
  /\ UNCHANGED <<choice, life, thrown, faults, orphans, mapped, cl_mapped, mapped_stream_rows,
                 stream_capacity_rows, has_configured_training_model, commands, device, readback,
                 smoke, status>>

(* The poll fails, or a command has ended with an error. *)
PollFails ==
  /\ calling
  /\ pending # 0
  /\ Outcome(FALSE)
  /\ UNCHANGED <<choice, life, handles, orphans, stream, has_configured_training_model, commands,
                 device, readback, smoke, status, history>>

(* discard_training_batch(): per buffer an unmap, the pointer's reset and a *)
(* wait for the unmap; step numbers the calls, 5 is none of them.           *)
DiscardBatch ==
  /\ calling
  /\ mapped # {}
  /\ \E step \in {1, 2, 5} \cup (IF "labels" \in mapped THEN {3, 4} ELSE {}) :
       /\ Outcome(step = 5)
       /\ mapped' = CASE step = 1 -> mapped
                      [] step \in {2, 3} -> mapped \ {"values"}
                      [] OTHER -> {}
       /\ mapped_stream_rows' = IF step = 1 THEN mapped_stream_rows ELSE 0
       /\ commands' = CASE step = 2 -> <<"unmap_features">>
                        [] step = 4 -> <<"unmap_labels">>
                        [] OTHER -> <<>>
       /\ cl_mapped' = CASE step \in {1, 2} -> cl_mapped
                         [] step \in {3, 4} -> cl_mapped \ {"values"}
                         [] OTHER -> {}
       /\ orphans' = IF step \in {2, 4} THEN orphans \cup {"discard_event"} ELSE orphans
  /\ UNCHANGED <<choice, life, handles, stream_capacity_rows, pending, next_version,
                 has_configured_training_model, device, readback, smoke, status, history>>

(* Any call out of order is refused before it changes anything. *)
RefusedCall ==
  /\ calling /\ protocol # "smoke"
  /\ mapped # {} \/ pending # 0
  /\ thrown' = "logic_error"
  /\ UNCHANGED <<choice, life, faults, handles, orphans, stream, has_configured_training_model,
                 commands, device, readback, smoke, status, history>>

-----------------------------------------------------------------------------
(* double_values() up to its wait: two buffers, then three commands. *)
SmokeSubmit ==
  /\ calling /\ protocol = "smoke"
  /\ ToSet(SmokeBuffers) \cap handles = {}
  /\ \E made \in 0 .. 2, done \in 0 .. 3 :
       /\ done > 0 => made = 2
       /\ Outcome(done = 3)
       /\ handles' = handles \cup FirstOf(SmokeBuffers, made) \cup EventsOf("smoke", done)
       /\ commands' = SubSeq(Submission("smoke"), 1, done)
  /\ UNCHANGED <<choice, life, orphans, stream, has_configured_training_model, device, readback,
                 smoke, status, history>>

(* clWaitForEvents() returns, or fails; then the comparison with [2, 4, 6]. *)
SmokeWait ==
  /\ calling /\ protocol = "smoke"
  /\ "smoke_output_complete" \in handles /\ status = "running"
  /\ \/ /\ "read_output" \notin ToSet(commands)
        /\ Outcome(TRUE)
        /\ status' = IF smoke = "read" THEN "passed" ELSE "failed"
     \/ Outcome(FALSE) /\ status' = "failed"
  /\ UNCHANGED <<choice, life, handles, orphans, stream, has_configured_training_model, commands,
                 device, readback, smoke, history>>

-----------------------------------------------------------------------------
(* A mistake: the queue is created out of order; then a command only waits  *)
(* for the events in its wait list.                                         *)
WaitsFor(c) ==
  CASE c = "rows" -> {"unmap_features", "unmap_labels"}
    [] c \in {"reduce", "read_metrics"} -> {"rows"}
    [] c = "phase6" -> {"unmap_features"}
    [] c = "read_model" -> {"reduce", "phase6"}
    [] c = "double" -> {"write_input"}
    [] c = "read_output" -> {"double"}
    [] OTHER -> {}
runnable_out_of_order ==
  {i \in DOMAIN commands : WaitsFor(commands[i]) \cap ToSet(commands) = {}}

(* The queue was created without the out-of-order property. *)
runnable == {i \in DOMAIN commands : i = 1}

(* The runtime runs a command: what it does to the buffers, to the mapping  *)
(* and to the host's arrays.                                                *)
RunCommand(i) ==
  LET c == commands[i]
  IN /\ commands' = RemoveAt(commands, i)
     /\ cl_mapped' = cl_mapped \ (CASE c = "unmap_features" -> {"values"}
                                    [] c = "unmap_labels" -> {"labels"}
                                    [] OTHER -> {})
     /\ gradient' = IF c = "rows" THEN [batch |-> batch, model |-> device_model] ELSE gradient
     /\ device_model' = CASE c = "reduce" -> [gradient.model EXCEPT !.batches =
                                                Append(@, gradient.batch)]
                          [] c = "phase6" -> [seed |-> FALSE, batches |-> <<batch>>]
                          [] OTHER -> device_model
     /\ device_metrics' = IF c = "reduce" THEN gradient.batch ELSE device_metrics
     /\ stream_training_metrics' = IF c = "read_metrics" THEN device_metrics
                                                         ELSE stream_training_metrics
     /\ stream_update_values' = IF c = "read_model" THEN device_model ELSE stream_update_values
     /\ smoke' \in (CASE c = "write_input" -> {"input"}
                      [] c = "double" -> {"doubled", "wrong"}
                      [] c = "read_output" -> {IF smoke = "doubled" THEN "read" ELSE smoke}
                      [] OTHER -> {smoke})

DeviceStep ==
  /\ life # "destroyed"
  /\ \E i \in runnable : RunCommand(i)
  /\ UNCHANGED <<choice, life, thrown, faults, handles, orphans, mapped, mapped_stream_rows,
                 stream_capacity_rows, pending, next_version, has_configured_training_model,
                 batch, status, history>>

(* The client is done: GpuWorker::run() returns only when no update is in   *)
(* flight, run_gpu_smoke_test() only after its wait.                        *)
may_destroy ==
  thrown # "no" \/ (pending = 0 /\ (protocol = "smoke" => status # "running"))

(* cleanup(): what is still mapped is unmapped, and that is waited for.     *)
(* Otherwise nothing waits for the commands in the queue.                   *)
Destroy ==
  /\ life = "live"
  /\ may_destroy
  /\ mapped # {} => commands = <<>>
  /\ life' = "destroyed"
  /\ cl_mapped' = cl_mapped \ mapped
  /\ mapped' = {}
  /\ mapped_stream_rows' = IF "values" \in mapped THEN 0 ELSE mapped_stream_rows
  /\ handles' = handles \ Released
  /\ stream_capacity_rows' = 0
  /\ pending' = 0
  /\ status' = IF thrown = "no" THEN status ELSE "failed"
  /\ UNCHANGED <<choice, thrown, faults, orphans, next_version, has_configured_training_model,
                 commands, device, readback, smoke, history>>

Done == life = "destroyed" /\ UNCHANGED vars

Next ==
  \/ SelectGpu
  \/ HostChanges
  \/ Construct
  \/ SetTrainingModel
  \/ \E rows \in 1 .. MaxRows : MapBatch(rows)
  \/ SubmitBatch
  \/ PollUpdate
  \/ PollFails
  \/ DiscardBatch
  \/ RefusedCall
  \/ SmokeSubmit
  \/ SmokeWait
  \/ DeviceStep
  \/ Destroy
  \/ Done

Spec == Init /\ [][Next]_vars

-----------------------------------------------------------------------------
(* Properties. *)

(* gpu_model.hpp: "destruction must clean up those resources exactly once". *)
(* However the calls went, no member keeps an object after the destructor,  *)
(* and an object without an owner is only ever left by a failed call.       *)
CleanupReleasesAll ==
  /\ life = "destroyed" => handles = {}
  /\ orphans # {} => thrown = "opencl"

(* The host memory that the runtime still writes to, or lets the host write *)
(* to, exists: no buffer is released while it is mapped, and without a      *)
(* failure or a refused call the object is not destroyed under a running    *)
(* readback.                                                                *)
ReleasedMemoryUntouched ==
  /\ \A region \in cl_mapped :
       \/ (IF region = "values" THEN "input" ELSE "label") \in handles
       \/ (IF region = "values" THEN "unmap_features" ELSE "unmap_labels") \in ToSet(commands)
  /\ life = "destroyed" /\ thrown = "no" => commands = <<>>

(* The context is on the device that was asked for, a GPU, as long as the   *)
(* list of devices stays the same; a passed smoke test has read the doubled *)
(* values back, and it is skipped only where no GPU was asked for or found. *)
VerdictsSound ==
  /\ opened # NoDevice /\ ~host_changed =>
       /\ device_at(host, opened).gpu
       /\ opened \in requested_gpus(host, selector.index, selector.name)
  /\ status = "passed" => smoke = "read" /\ opened # NoDevice
  /\ status = "skipped" => selected = SelectionError /\ gpus(host) = {}

(* Every answer of poll has the model of all batches since the last reset   *)
(* and the metrics of its own batch, though only the readback of the model  *)
(* is waited for and nothing orders the metrics' readback after the kernel  *)
(* that computes them but the queue.                                        *)
Service == INSTANCE TrainingService
  WITH learning <- protocol # "phase6", configured <- has_configured_training_model
ImplementsService == Service!Spec
=============================================================================
