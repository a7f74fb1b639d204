# TLA+ verification of Adaptive_FPGA

Adaptive_FPGA replays recorded market events through a Verilated SystemVerilog
pipeline (order book, features, linear strategy), hands each result to a GPU
worker that trains a new model, and commits new models back into the pipeline
between events.  A dashboard shows the replay and can queue jobs.  This directory
holds TLA+ modules translated from the repository's source, TLC configurations
that check them on small instances, and TLAPS proofs that hold for every value of
the constants.

## The system

| Part | State | Operations | Talks to |
|---|---|---|---|
| `SpscRingBuffer` (`include/app/spsc_ring_buffer.hpp`) | slots, two private positions, two atomic positions, two flags | reserve, publish, cancel; begin/finish pop; size | RTL worker (producer); GPU worker or coordinator (consumer) |
| `ModelUpdateMailbox` and `validate_model_update` (`src/gpu`) | newest unread update, closed flag | publish, take, has_update, close | GPU worker writes, RTL worker reads, coordinator closes |
| `VerilatorWorker` (RTL thread) | position in `run()`, events accepted, results published, active model, backpressure timer, stop/drained flags | one loop iteration per RTL clock | runner, ring, mailbox |
| `GpuWorker` (GPU thread) | labels waiting for their future, mapped rows, versions, stop flags | poll, pop, label, submit, publish | ring, mailbox, `GpuModel` |
| `GpuModel` (`src/gpu/gpu_model.cpp`), device selection (`src/app/opencl_devices.cpp`) | OpenCL handles, two mapped buffers, the in-order queue, one batch in flight, the model on the device | select, construct, map, submit, poll, discard, smoke test, destroy | OpenCL runtime |
| `LiveCoordinator::run` (calling thread) | thread handles, captured exceptions, first error, snapshot publisher | start threads, wait, ordered shutdown, drain without a GPU | both workers, snapshot store |
| C++ `OrderBook` (`src/market/order_book.cpp`) | sorted levels per side | apply, midpoint, microprice | reference model, tests, bench |
| RTL `order_book` (`rtl/order_book.sv`) | live book, working copy, FSM registers | one clock | pipeline, bench |
| `market_pipeline`, `strategy_model`, `feature_window`, `market_stream_adapter` | pipeline FSM, shadow and active model, rolling sums, one result register | one clock | book below, `VerilatorRunner` above |
| `VerilatorRunner` | the RTL's input pins | reset, step, process, write_model_parameters | adapter |
| `DashboardCommands` (`src/main.cpp`), snapshot store, `DashboardServer` | queue of eight commands, latest snapshot, sessions, client count | submit, worker loop, publish/latest, accept, sessions, stop | coordinator, generator, main |
| Model store, event codecs, generator | files | load, save, read, write, generate | main, dashboard |
| Configuration and `main()` | options, exit code | parse, validate, dispatch | everything |

What is hard here:

* three threads share the ring, the mailbox and a handful of flags, some of them
  relaxed; the shutdown is a fixed sequence of waits (drained, input complete,
  join GPU, close mailbox, join RTL);
* failures of either thread have to reach the caller without a hang;
* a stalled consumer has to hold back the RTL, through ring and result register,
  and nothing may be lost;
* a model must be replaced between two events, never inside one;
* the RTL's registers change together on a clock edge, over many clocks per
  event, and several handshakes overlap by one clock;
* positions are unsigned counters that wrap;
* a GPU submission is a dozen calls any of which may throw, over a queue that runs
  in its own time, and the destructor has to cope with what is left;
* io thread, command worker, replay publisher and main meet at the command queue
  and the snapshot store, and are torn down in a fixed order;
* processes are killed and restarted over the same checkpoint and event files.

## Modules

| Module | Models | Notes |
|---|---|---|
| `BoundedFifo` | what the ring promises | abstract: a sequence of at most `Capacity` values and the value being read |
| `SpscRing` | `SpscRingBuffer` | one action per call; positions modulo `PositionModulus` (2^64 in the code); with `StaleLoads` an acquire load may see any earlier position |
| `Mailbox` | `ModelUpdateMailbox`, `validate_model_update` | each method is one critical section, hence one step |
| `LiveTransport` | what one `run()` shares | ring values are stream indices (`TransportAssumption`); the rest of a result is a table fixed per replay |
| `VerilatorWorker` | the RTL thread | one action per access to shared state; the RTL is the adapter's promise: idle, busy, holding a result |
| `GpuWorker` | the GPU thread and, as it sees it, the OpenCL queue | |
| `LiveCoordinator` | `LiveCoordinator::run`, and the composition of ring, mailbox and workers | `std::terminate` is a state of its own |
| `TrainingService` | what `GpuModel` promises its client | abstract: batches submitted and answered with the model and metrics they must have |
| `OpenclDevices` | discovery, selection, the second look-up | operators over a host's list of platforms; `MaxDevices` bounds a platform's list |
| `GpuSession` | the life of one `GpuModel` against an OpenCL runtime | three client protocols; any call or command may fail |
| `BookTypes`, `BookSpec` | vocabulary, and the book as a map from price to quantity | abstract: one event is accepted and answered |
| `OrderBook` | C++ `OrderBook::apply` | sorted arrays with empty slots, candidate copy, invariants |
| `OrderBookRtl` | `rtl/order_book.sv` | one action per FSM state and branch, one step per clock |
| `FixedPoint` | `include/market/fixed_point.hpp`, the microprice | widths reduced to `WideLimit` |
| `BookDifferential` | `tb/order_book_differential.cpp` and the generator, over both books | composition: C++ applies, RTL is clocked, results are compared |
| `ReferenceModel` | C++ rolling window, features, strategy, `ReferenceModel::process` | operators; arithmetic kept symbolic |
| `MarketPipeline` | `market_pipeline.sv`, `feature_window.sv`, `strategy_model.sv`, `feature_engine.sv` | one operator per `always_ff` block, all reading the values before the edge; the book is its promise |
| `RtlStream` | what the adapter promises its driver | abstract: one event, one held result, commits only while idle |
| `MarketStream` | `rtl/market_stream_adapter.sv` and `VerilatorRunner` | one action per `tick()`; the reference model runs beside it |
| `Dashboard` | control mode: commands, store, server, a replay's publisher, the end of `main()` | four threads |
| `CommandLine` | `src/app/config.cpp` | operators; what may throw is a set with at most one element |
| `EventFiles` | CSV and MKT1 writers and readers | operators; a file is how much of it is there |
| `Application` | `main()`, the model store and the files over successive invocations | kills and power failures |
| `*_proofs` | | TLAPS proofs about the module of that name; `BookRefinement_proofs` are those about the two books and `BookSpec` |
| `MC_*` | constants for TLC | |

Names in the modules are the names in the source; `PROJECT.json` gives the lines
each definition stands for.

### How state and actions correspond

* **Ring.** `producer_write_position` and `consumer_read_position` are the private
  counters, `published_write_position` and `released_read_position` are what the
  *other* side's acquire load returns.  Without stale loads a publication is seen
  at once; with them it arrives by `propagate_*` at any later time, one position
  at a time, which is what acquire/release on one monotone counter allows.  A slot
  is written by `write_reserved_slot`, separately from its publication, so a
  reader that could see it early would read the old value.
* **Threads of a replay.** `rtl_pc`, `gpu_pc` and `coord_pc` name the place in the
  three functions.  Code between two accesses to shared state is one step.  An
  exception is a move to the handler ("throw"), and leaving `run()` with a joinable
  thread moves to "terminated".
* **Mailbox.** `closed()` and `has_update()` lock separately, so the RTL worker's
  idle test takes two steps.
* **Books.** `OrderBook` holds the arrays of `PriceLevel` with quantity 0 for empty
  slots; `OrderBookRtl` has, in addition, the working copy and the search and shift
  indices.  Both map to `BookSpec` by forgetting the order of the levels.
  `BookDifferential` runs `apply` and the RTL's acceptance in one step, then one clock
  per step to `event_done`, then `compare`; `source` says who draws the events.
* **Pipeline.** `book_clocks` counts down the clocks the book still needs (any number
  the book may take); the live book changes in the clock before it finishes, and
  `book_done` is `core_event_done`.  `window`, `shadow`, `active`, `signal` and
  `pipeline_state` are the registers of the same names; a bank holds, per word, the
  version of the model it was written for.  An event is what the book makes of it:
  rejected, or a new midpoint (or none) and a flow.  Order and trade flow are handled
  alike, so one flow stands for both.
* **Runner.** `runner_pc` is the place between two ticks in `step`, `process` or
  `write_model_parameters`; `cycles` counts a bounded wait and "threw" is its timeout,
  or the failed check after a commit.  With `Streaming` the driver is
  `VerilatorWorker`, without it the differential replay.  `reference` is the C++ model
  fed with each event in the moment the RTL accepts it.
* **GPU session.** `handles` are the non-null members of `Impl`, `orphans` objects no
  member refers to any more, `mapped` the two host pointers and `cl_mapped` what the
  runtime has mapped: an enqueued unmap clears the pointer at once and the mapping
  later.  `commands` is the queue; `DeviceStep` runs its head.  `MapBatch`, `SubmitBatch`
  and the others are whole calls, with the failing call inside chosen freely, and
  what was already done stays done.  A model is its starting point and the batches
  it was trained on.
* **Dashboard.** A snapshot is its activity and how far the shown replay is.
  `publish_activity` is two steps, the copy (`SubmitRead`, `WorkerRead`) and the
  publication (`SubmitPublish`, `WorkerPublish`), on either thread.  A handler of the
  io thread is one step unless it calls `submit()`.  A session has an outstanding read
  and a write or a timer; each may end in an error.  `main_pc` goes through `stop()`
  (post, wait, stop, join) and then the destruction of the commands object.
* **Files.** `models` and `inputs` map paths to contents, temporary files included;
  `unsynced` are the paths whose content a power failure may still damage.  A save is
  open, write, rename, each a step at which the process may be killed.  `Adopt` is the
  callback by which a replay gives each adopted model to the autosave.

## Runs

Passing runs:

| Run | Bounds | What it shows |
|---|---|---|
| `ring_fifo` | capacity 3, positions modulo 9, two values, stale loads | The ring implements `BoundedFifo`; producer and consumer never hold one slot; positions stay in order.  A full ring, an empty ring and a wrap coincide in every combination. |
| `live_gpu` | 10 events, ring of 2, horizon 2, batches of 2, up to 2 clocks per event, with and without a GPU | Nothing fails: in-order delivery, exact label horizon, every accepted event's result consumed (and every event accepted when none is a book error), last model applied, commits between events, no spurious exception, termination.  Ten events give several full batches, so an update can replace one nobody has read, and fill ring, register and core at once. |
| `live_faults` | 5 events with every placement of book errors, stale loads; OpenCL, autosave, backpressure and GPU configuration may each fail at any point, with and without a GPU | No exception a thread caught is reported as success, no update is lost, the drain reports the earliest error, no thread outlives `run()`. |
| `market_stream` | window of 3, 5 events of 4 kinds, 3 words, 3 models, 2..4 clocks per event, both drivers | Under `step()` with any backpressure, and under `process()`, which returns one clock before the adapter's result exists, with uploads between events: each held result and each cached snapshot is the reference model's; the bank in use is one model; no wait runs out and every commit becomes active; the adapter implements `RtlStream`.  Five events in a window of three give evictions. |
| `books` | depth 2, prices 1..3 (and 0), quantities 0..2, cycle limit 10 | Under the bench's events, the generator's and any others, ill-formed ones included: both books implement `BookSpec` and agree on errors, flows and levels except for the flows of a crossing event; the RTL answers within `2 * BookDepth + 6` clocks (26 for the built depth of 10, against a limit of 32 in the bench and 64 in the runner); the generator never writes an event the book rejects; the microprice is the nearest tick.  Three prices against depth 2 give overflow of a side; quantity 2 gives saturation, partial and full removal. |
| `gpu_session` | four hosts (none, CPU only, GPUs behind CPUs on one and two platforms), five selectors, 3 batches of up to 2 rows, one failure | All resources are released, no buffer is released while mapped, the device opened is the one asked for, a smoke test passes only on values read back, and each polled update has the model of all batches since the last reset and the metrics of its own.  Batches of growing size force the buffers to be made anew; one failure reaches every error path once. |
| `dashboard` | one session at a time that can reconnect, queue of 2, 2 accepted commands, one progress report | Commands run once and in order; no handler runs into the destroyed commands object; clients are counted exactly; the last activity shown is how the last command ended or that it is queued; accepted commands run; the shutdown completes.  Two commands give one running while another is queued and published. |
| `application` | 3 invocations: any three arguments, then replays with every combination of model options and control mode, then a resumed replay; 3 versions; two model paths; 2 events per file | A checkpoint stays loadable through kills and failed saves; a resumed process does not set it back; exit code 0 means that `--model-out` holds the final model; cut or overlong MKT1 files are refused and complete files are read in full; accepted options satisfy the validation rules. |

Runs that TLC must find violated, each for one statement the repository makes
(`findings` in `PROJECT.json` quotes it):

| Run | Statement | What happens |
|---|---|---|
| `rtl_failure_hangs` | an RTL exception is rethrown after joining | the coordinator waits at `live_coordinator.cpp:184` for two flags neither of which a failed RTL thread sets |
| `gpu_failure_terminates` | a GPU exception is rethrown after joining | line 198 throws while `rtl_thread` is joinable: `std::terminate` |
| `thresholds_replaced` | thresholds are retained from the configured model | without `--model-in` the device buffer holds thresholds of its own, and the first update installs them |
| `dashboard_stale_snapshot` | the dashboard presents the current replay state | `publish_activity` copies and later publishes a snapshot without a lock over both: a replay that ends in between is shown as it was before its end |

### Observations without a run

* `input_complete` (`gpu_worker.cpp:130`, stored at `:142`) is relaxed, so the C++
  memory model allows it to be seen before the position of the last results, and
  `run()` to leave them in the ring, where `gpu_worker.hpp:59-60` says that the worker
  "drains every remaining ring value".  With `StaleLoads = TRUE` in `Live_gpu.cfg`
  `AllResultsConsumed` is violated in this way; the run and `EverythingConsumed` say
  nothing of that case, and no property covers the hazard.  x86 hardware does not
  reorder the loads.
* `docs/operations.md:55` says a replay stops on the first RTL book error, and the
  dashboard's message (`live_coordinator.cpp:259`) that it stopped.  Nothing stops: the
  drain loop records the error (`live_coordinator.cpp:229-232`) and the RTL worker goes
  on to the last event.  With a GPU nothing records it: such a replay exits with 0 and
  prints "errors: 0".  The properties of `live_gpu` and `live_faults` contradict neither
  reading: `AllResultsConsumed` speaks of the accepted events, and asks for all events
  of the file only in a replay without a book error.
* On a crossing event the C++ book reports the deltas of the candidate it drops and
  the RTL zeros (`ReplayAgrees` states this exception).  The bench never draws such an
  event.
* `market_pipeline` alone does not keep what its comments at lines 110 and 121 say:
  the book sees the raw `in_valid`, so it takes an event while `in_ready` is low, and a
  commit is open in the clock of `core_event_done`, before that event is scored.  The
  adapter's `event_in_flight` and the runner's waits make both unreachable
  (`ImplementsStream`, `ResultMatchesReference`).
* A failed call in the middle of a submission leaves an OpenCL event without an owner
  and commands in the queue that read into arrays of the destroyed object
  (`CleanupReleasesAll` and `ReleasedMemoryUntouched` are stated with that exception).
* Buffers made anew for a larger batch start from the configured or default model:
  what the device had learned is gone (`Reset` in `TrainingService`).  `GpuWorker`
  always maps the same number of rows.
* A device list that changes between selection and look-up can open another device.
* A full disk is noticed only if the stream's buffer is flushed before the last test,
  and the file is renamed without a sync: either leaves a damaged checkpoint under a
  success, which the next load refuses.
* Two thresholds closer than a Q16.16 step pass validation and are equal as stored;
  the replay runs and the save then throws.
* A CSV file cut by a kill is accepted as far as it goes, and if the cut is inside the
  last number, with a smaller quantity.
* `--no-gpu` is not consulted for the dashboard's run commands.

### Fairness

`LiveSpec` assumes weak fairness of each thread, of the OpenCL device and of the
visibility of stores.  The code justifies these: every wait in the program is a
polling loop with `yield()` or a `join()`, so a thread that can run is never
blocked by another; the operating system schedules runnable threads; a store
becomes visible in finite time; a submitted OpenCL batch completes or fails.
Nothing is assumed about faults: they may or may not happen.

`Dashboard` assumes weak fairness of the worker, of the publisher, of main, and of the
rest of a `submit()` that has begun, and strong fairness of the handler `stop()` posts:
asio runs ready handlers in the order they became ready, so a posted one is not
overtaken for ever by those of sessions.  Nothing is assumed about clients.  A replay
is assumed to end, which `live_gpu` shows when nothing fails and `rtl_failure_hangs`
refutes for a replay with `"gpu": true` whose RTL thread fails: `AcceptedCommandsRun`
and `ShutdownCompletes` say nothing of a program in which that has happened.

`Live_faults.cfg` uses `Spec`, with no fairness, because its properties are safety
properties and because a replay with an RTL fault does hang.  The other modules need
none: the latency bounds count clocks.

`MarketStream.cfg` turns the deadlock check off because the bounded replay may be over.

### Abstractions

* The value of a label, of features and of weights is data; which result is paired
  with which, and which model is active, is control and is kept.
* The 10 s backpressure timeout is a fault that may strike whenever the ring has
  been full for one iteration.
* Metrics, logging, sleeps and the sampled observation callback are left out.
* Each event of `live_*` keeps the RTL busy for 1 to `MaxCoreCycles` clocks, chosen
  freely.
* Thresholds in configurations are counted in quarters of a Q16.16 step, so rounding to
  equal values happens; `stoull` and its narrowing use moduli 64 and 8 for 2^64 and 2^32.
* `WideLimit` (9 in `books`) stands for 2^63, so weighted sums beyond it happen; the
  property about the microprice is stated for sums within it.

## Proofs

`SpscRing_proofs` proves, for every `Capacity >= 1`, every `PositionModulus` that
`Capacity` divides and exceeds, every set of values, with and without stale loads
(`RingAssumption`; the constructor requires a positive capacity, and the
coordinator's 1024 divides 2^64):

* `RingTypeCorrect`: `RingSpec => []RingTypeOK`;
* `PositionsStayInOrder`: `RingSpec => []PositionsInOrder`;
* `SlotSafety`: `RingSpec => []NoSlotAliasing`;
* `RingImplementsFifo`: `RingSpec => ImplementsFifo`, the refinement of `BoundedFifo`.

None of the properties is inductive.  The inductive invariant is `RingInv`: types;
`PositionsInOrder` (the four positions follow each other round the circle:
released, read, published, written, and span at most `Capacity`);
`ReservationHasRoom` (a reservation was made when the ring had room and still
has); `ValueInHandIsPublished`.  Each action moves one position by one, so the
proof of `RingInvInductive` is one step per action, resting on lemmas about
distances on the circle (`StepAhead`, `StepBehind`, `DistanceSum`).  `SlotSafety` needs
that positions less than `Capacity` apart have different slots across the wrap
(`SlotsDiffer`, from `NearbyRemaindersDiffer` and `RemainderWithoutMultiple`: this is
where divisibility is needed).  The refinement maps the queue to the slots between
the read and the write position; a write to a reserved slot is invisible in it
(`PrivateWrite`), a publication appends (`PublishPushes`), a pop takes the head.

`MarketStream_proofs` proves, for every number of parameter words, every book
latency with `MaxBookClocks + 2 <= CycleLimit`, every window size, set of events and
number of models, and for both drivers (`PipelineAssumption`, `StreamAssumption`):

* `ActiveBankNeverMixed`: `Spec => []ActiveBankIsOneModel`;
* `WaitsNeverRunOut`: `Spec => []RunnerNeverThrows`;
* `HeldResultNeverOverwritten`: `Spec => HeldResultStable`;
* `AdapterImplementsStream`: `Spec => ImplementsStream`.

The inductive invariant is `StreamInv` (theorem `StreamInvariance`).  `OnePlace` says
that an event in flight is in exactly one of four places (in the book, reported by
the book, being emitted, reported by the pipeline); that `in_ready` excludes all four
is what makes a commit and an entry safe, and it does not follow from the adapter's
registers alone.  `UploadInOrder` says which words of the shadow bank are written at
each place of the upload loop; without it a commit could not be shown to take one
model.  `WaitsAreShort` bounds each wait by what the event still has to go through.
`EntryClock`, `QuietClock`, `QuietBanks`, `WriteBanks` and `CommitBanks` say what one
clock does to the event and to the banks; each action is then one of them with a new
`runner_pc`.

The two equalities with the C++ reference model rest on a second inductive invariant,
`DataInv`:

* `ResultsMatchReference`: `Spec => []ResultMatchesReference`;
* `SnapshotsMatchReference`: `Spec => []LatestMatchesReference`.

`Tracks` says, for each place of the event, how far the registers lag behind the
reference model, which processed the event when it was accepted: in the book,
`process()` applied to the registers gives the reference model; while the signal is
emitted only the signal and its index differ; otherwise they are equal.
`WindowPushes` shows that the RTL's way of keeping the sums (always subtract, zero when
nothing is dropped) is `push()`; `BookUsesLastModel` that an event in the book is scored
with the model last written, which is where `StreamInv` is needed.

`LiveCoordinator_proofs` proves, for every number of events, table of results, ring,
horizon, batch size, clock count, set of faults, with and without a GPU, and for fresh
and stale loads unless said otherwise:

* `NoThreadLeftBehind`, `FailuresSurface`, `NewestModelKept`, `LastModelApplied` and
  `CommitsBetweenEvents` (`ThreadsJoined`, `FailureNotSwallowed`, `NewestModelNotLost`,
  `FinalUpdateApplied`, `CommitAtEventBoundary`), from `ControlInv`: where each of the
  three threads can be while the others are where they are (`RtlInv`, `ExitInv`,
  `CoordInv`, `GpuInv`), and `VersionInv`, which follows the newest update from the GPU
  worker's hands to the active bank;
* `ResultsInOrder`, `RowsUseExactHorizon`, `EarliestErrorReported` and
  `EverythingConsumed` (`InOrderDelivery`, `LabelsUseExactHorizon`,
  `FirstErrorIsEarliest`, `AllResultsConsumed`), from `DataInv`: the ring's own invariant
  `RingInv`, whose lemmas are cited from `SpscRing_proofs` because a step of the replay
  is a step of the ring; that slot `i` of the ring holds the stream index of its position
  (`ContentInv`); that the labels waiting are the consecutive events before the next one
  (`LabelInv`); and what an empty ring means at each place of the consumer (`EmptyInv`).
  `EverythingConsumed` is stated for `~gpu_mode \/ ~StaleLoads`: the remaining case is
  false (first observation above);
* `NoFailureOfItsOwn` (`NoSpuriousFailure`), under the hypothesis that the set of faults
  has no OpenCL, save or backpressure failure: these are the exceptions the property is
  not about.

`GpuSession_proofs` proves, for every set of hosts, selectors, batch size, number of
batches and number of failures (`SessionAssumption`):

* `NothingLeaks`, `MemoryOutlivesItsUse`, `VerdictsAreSound` (`CleanupReleasesAll`,
  `ReleasedMemoryUntouched`, `VerdictsSound`), from `SessionInv`: which members are set in
  which part of the object's life, which of the two pointers is mapped when its unmap is
  queued (`MapInv`), what can be in the queue (`QueueInv`).  That the second look-up
  opens a requested GPU needs that the numbering of GPUs is injective, which is a
  statement about cardinalities of sets of earlier devices;
* `SessionImplementsService`: `Spec => ImplementsService`, from `DataInv`, which says what
  the device's buffers hold after the commands run so far and what they will hold after
  those still queued.

`Dashboard_proofs` proves, for every finite set of sessions, queue limit, number of
commands and reports: `CommandsRunSerially`, `NoLateSubmit`, `ClientsCounted` and
`ActivitySettles` (`RunSerially`, `NoSubmitAfterDestruction`, `ClientCountExact`,
`SettledActivity`).  `DashboardInv` relates the queue to the two counters (`QueueInv`), the
places of io thread, worker, publisher and main to each other (`ThreadInv`,
`ShutdownInv`), the sessions to the count (`SessionInv`, `CountInv`), and the snapshot a
thread carries between its copy and its publication to the command it is about
(`ActivityInv`).

`Application_proofs` proves, for every set of paths, input files, configurations, command
lines and versions: `CheckpointsLoad`, `InputsAreWhole`, `OptionsAreSound`,
`CheckpointsKept`, `ZeroMeansSaved` (`CheckpointAlwaysLoads`, `WholeInputOnly`,
`AcceptedOptionsSound`, `CheckpointsNotLost`, `ExitZeroMeansSaved`).  `AppInv` says that a
model path only ever gets the content of a complete temporary file (`DiskInv`), what a
replay holds at each place (`ReplayInv`) and that the model in hand is at least the one
resumed from (`ResumeInv`).  Assumed: a temporary name is no model path
(`TemporaryAssumption`: `p + ".tmp"` must not itself be given as a checkpoint), and the
checkpoints given on a command line are among `ModelPaths` (`CommandLinesAssumption`, which
only says what the constant is).  `AcceptedOptionsSound` allows a batch size that was
written as a negative number near -2^64: `stoull` wraps it into the accepted range.

`BookDifferential_proofs` proves, for every depth, every range of prices and quantities,
crossed books allowed or not, every pair of bands with `HighestBid < LowestAsk` and every
cycle limit of at least `2 * BookDepth + 6` (26 for the built depth, where the bench
allows 32, `tb/order_book_differential.cpp:28`; `DifferentialAssumption`):

* `BooksInvariant`: `Spec => [](Inv /\ GeneratedInv)`, the inductive invariant;
* `ReplayNeverDisagrees`: `Spec => []ReplayAgrees`;
* `GeneratedFilesAccepted`: `Spec => []GeneratedStreamAccepted`;
* `MicropriceNearest`: `Spec => []MicropriceIsNearest`.

The levels of a side are `Spaced`: used slots first, strictly ordered, and two used slots
at least as many ticks apart as they are slots apart.  Changing a quantity, `remove()` and
`insert()` at the place `lookup()` found preserve this, so `apply()` never reports
`InvariantViolation`.  On such levels `lookup()` is the one slot that holds the price
(`Holds`) or the one place where it belongs (`Place`), and that is also where the RTL's
search over the slots ends.  `RtlInv` says, for each state of the RTL, what its registers
hold in terms of the C++ levels before the event: the slots searched so far, the copy
shifted so far, which ends as `insert()` or `remove()`, and the clocks used so far, whence
the bound `2 * BookDepth + 5` on an event.  `Settled` says that after `FINISH` both books
and their results agree, except for the flows of a crossing event.  The generator needs a
count: `BookDepth` prices are in a band, so while the event's price is not in the book a
slot is free (`RoomInBand`), nothing is dropped, and `GeneratedInv` keeps the maps
equal to the levels.  `RoundedToNearest` is the rounding rule of `rounded_divide`.

`BookRefinement_proofs` proves, under the same assumptions, that both books implement
`BookSpec`:

* `CppBookImplements`: `Spec => CppImplementsBook`;
* `RtlBookImplements`: `Spec => RtlImplementsBook`.

A price in the book maps to the quantity of its slot (`MapOfSide`).  The core is
`BestIsShown`: if the slots hold what a map holds, except for prices worse than a full
side (`Shows`), then the best `BookDepth` prices of the map are the slots'.  A price in
slot `i` has only the `i - 1` prices before it above it, and a dropped price has all
`BookDepth` of them; both are counts of `FirstPrices`.  `AfterHeld` and `AfterPlaced` show
that the slots after `changed_side()` show the changed map, also when the last slot
drops out or the new price is itself too bad to be kept.  `Answers` then matches the
three ways `apply()` ends with `BookSpec`'s errors and flows.  The C++ book serves an event
in one step.  The RTL accepts it at the handshake and completes it in one of four clocks
(`RtlInvalid`, `RtlMissing`, `RtlCrossed`, `RtlCommits`), and every other clock is a
stutter (`RtlQuiet`).

Only model-checked: liveness (`Termination`, `AcceptedCommandsRun`, `ShutdownCompletes`:
outside the prover).

## Not modelled

* The ratios of the features, the scores and the training kernels' arithmetic.  A
  difference of the C++ and the RTL arithmetic on equal inputs is therefore not seen
  by `market_stream`, except for the rounding rule in `FixedPoint`.
* The checksum, JSON and HTML texts, formatting of devices and configuration.
* A second `reset()` of the runner in mid-stream and a second `start()` of the server:
  no caller does either.
* `FeatureBatchCollector`, which only tests use; the regression oracle; the Python
  generator and plotting scripts.

## Plan

1. Done: ring, mailbox, both workers, coordinator, both books and their differential
   bench, pipeline, adapter and runner, GPU session and device selection, dashboard,
   command line, event files, model store and `main()`; proofs about all of them.
2. Every safety property and refinement that a passing run checks has a theorem.  What is
   left is shortening proofs, and the parts listed above as not modelled.
