---------------------------- MODULE MarketStream ----------------------------
(***************************************************************************)
(* rtl/market_stream_adapter.sv around the pipeline, and VerilatorRunner    *)
(* (src/verilator/verilator_runner.cpp) driving it: one action per tick().  *)
(*                                                                          *)
(* While streaming the driver is VerilatorWorker, which calls step() and,   *)
(* at event boundaries, write_model_parameters(); without it the driver is  *)
(* the differential replay, which calls process() and                       *)
(* write_model_parameters() and leaves result_ready high.                   *)
(*                                                                          *)
(* reference is the C++ model run beside the RTL: it processes an event in  *)
(* the moment the RTL accepts it.                                           *)
(***************************************************************************)
EXTENDS MarketPipeline

CONSTANT CycleLimit     \* kCycleLimit: 64

(* The runner allows for the longest event in the book (LatencyBound of     *)
(* OrderBookRtl) and the two clocks the pipeline adds.                      *)
ASSUME StreamAssumption ==
  /\ CycleLimit \in Nat
  /\ MaxBookClocks + 2 <= CycleLimit

VARIABLES
  streaming,            \* which driver this is
  event_in_flight,
  stream_timestamp,     \* the adapter's accepted_timestamp_ns
  stream_index,         \* accepted_event_index
  next_stream_index,    \* next_event_index
  result_valid,
  held,                 \* the result_* registers
  result_ready,         \* pin, as the runner left it
  runner_pc,            \* where the runner is between two ticks
  cycles,               \* ticks spent in the current bounded wait
  word,                 \* loop variable of write_model_parameters
  version,              \* version of the model written last, or being written
  previous_updates,     \* local of write_model_parameters: update_count at its start
  latest,               \* latest_: the snapshot the host sees
  reference             \* the C++ reference model

adapterVars == <<event_in_flight, stream_timestamp, stream_index, next_stream_index,
                 result_valid, held>>
runnerVars == <<streaming, result_ready, runner_pc, cycles, word, version, previous_updates,
                latest, reference>>
vars == <<pipelineVars, adapterVars, runnerVars>>

NoResult == [index |-> 0, timestamp |-> 0, error |-> FALSE, features |-> NoFeatures,
             midpoint |-> NoMidpoint]

(* read_snapshot() of the pins, and the same view of the reference model.   *)
snapshot ==
  [error |-> event_error, features |-> features, signal |-> signal,
   version |-> model_version]
reference_snapshot ==
  [error |-> reference.error, features |-> reference.features, signal |-> reference.signal,
   version |-> version]

(* After reset(); the constructor of the worker, and the replay, write the  *)
(* first model, version 1, before they offer an event.                      *)
Init ==
  /\ PipelineReset
  /\ event_in_flight = FALSE /\ stream_timestamp = 0 /\ stream_index = 0
  /\ next_stream_index = 0 /\ result_valid = FALSE /\ held = NoResult
  /\ streaming \in BOOLEAN
  /\ result_ready = TRUE
  /\ runner_pc = "write"
  /\ cycles = 0
  /\ word = 0
  /\ latest = snapshot
  /\ version = 1
  /\ previous_updates = 0
  /\ reference = FreshReference

-----------------------------------------------------------------------------
(* Mistakes in the handshakes, for the mutants in PROJECT.json. *)
in_ready_while_in_flight == pipeline_in_ready /\ ~result_valid
in_ready_while_held == pipeline_in_ready /\ ~event_in_flight
InFlight_sticky(in) == event_in_flight' = (event_in_flight \/ in # {})

in_ready == pipeline_in_ready /\ ~event_in_flight /\ ~result_valid

InFlight(in) ==
  event_in_flight' = IF event_done THEN FALSE ELSE event_in_flight \/ in # {}

(* One tick(): offer is {} or the event on the pins with in_valid high,     *)
(* ready the result_ready pin.  A new completion wins over a take.          *)
AdapterClock(offer, ready, write, commit) ==
  LET in == IF in_ready THEN offer ELSE {}
  IN /\ PipelineClock(in, write, commit)
     /\ InFlight(in)
     /\ IF in = {}
          THEN UNCHANGED <<stream_timestamp, stream_index, next_stream_index>>
          ELSE /\ stream_timestamp' = (CHOOSE event \in in : TRUE).timestamp
               /\ stream_index' = next_stream_index
               /\ next_stream_index' = next_stream_index + 1
     /\ result_valid' = IF event_done THEN TRUE ELSE result_valid /\ ~ready
     /\ held' = IF event_done
                  THEN [index |-> stream_index, timestamp |-> stream_timestamp,
                        error |-> event_error, features |-> features,
                        midpoint |-> book_midpoint]
                  ELSE held

(* The reference model sees an event when the adapter takes it. *)
ReferenceFollows(offer) ==
  reference' = IF in_ready /\ offer # {}
                 THEN process(reference, CHOOSE event \in offer : TRUE, [w \in Word |-> version])
                 ELSE reference

(* A tick with nothing on the pins but result_ready as it is. *)
Tick ==
  /\ AdapterClock({}, result_ready, {}, FALSE)
  /\ UNCHANGED <<streaming, result_ready, version, previous_updates, reference>>

NextEvents == {event \in Event : event.timestamp = next_stream_index + 1}

-----------------------------------------------------------------------------
(* VerilatorRunner::step(). *)
step(offer, accept) ==
  /\ runner_pc = "ready"
  /\ result_ready' = accept
  /\ AdapterClock(offer, accept, {}, FALSE)
  /\ ReferenceFollows(offer)
  /\ latest' = IF result_valid /\ accept THEN snapshot' ELSE latest
  /\ UNCHANGED <<streaming, runner_pc, cycles, word, version, previous_updates>>

StepIdle == \E accept \in BOOLEAN : streaming /\ step({}, accept)
StepOffer ==
  /\ streaming
  /\ in_ready
  /\ \E event \in NextEvents, accept \in BOOLEAN : step({event}, accept)

(* wait_until_ready() before the write, the commit or the event: tick until *)
(* in_ready, CycleLimit times at the most.                                  *)
WaitingPlaces == {"write", "commit", "process"}

wait_until_ready ==
  /\ runner_pc \in WaitingPlaces
  /\ ~in_ready
  /\ Tick
  /\ cycles' = cycles + 1
  /\ runner_pc' = IF ~in_ready' /\ cycles' = CycleLimit THEN "threw" ELSE runner_pc
  /\ UNCHANGED <<word, latest>>

(* write_model_parameters(): begun by the worker only while no result is    *)
(* held and the adapter is ready, by the replay at any time between events. *)
(* The new model is newer, by one or more versions.                         *)
BeginWrite ==
  /\ runner_pc = "ready"
  /\ streaming => ~result_valid /\ in_ready
  /\ version' \in version + 1 .. MaxVersion
  /\ previous_updates' = update_count
  /\ runner_pc' = "write"
  /\ word' = 0
  /\ cycles' = 0
  /\ UNCHANGED <<streaming, pipelineVars, adapterVars, result_ready, latest, reference>>

WriteWord ==
  /\ runner_pc = "write"
  /\ in_ready
  /\ AdapterClock({}, result_ready, {[word |-> word, version |-> version]}, FALSE)
  /\ runner_pc' = "pause"
  /\ UNCHANGED <<streaming, result_ready, reference, cycles, word, version, previous_updates, latest>>

(* A mistake: the loop stops one word early. *)
last_word_early == word = ParamCount - 2
last_word == word = ParamCount - 1

PauseAfterWord ==
  /\ runner_pc = "pause"
  /\ Tick
  /\ runner_pc' = IF last_word THEN "commit" ELSE "write"
  /\ word' = IF last_word THEN word ELSE word + 1
  /\ cycles' = 0
  /\ UNCHANGED latest

CommitBank ==
  /\ runner_pc = "commit"
  /\ in_ready
  /\ AdapterClock({}, result_ready, {}, TRUE)
  /\ runner_pc' = "check"
  /\ UNCHANGED <<streaming, result_ready, reference, cycles, word, version, previous_updates, latest>>

(* The tick after the pulse; then the new version must be active.           *)
CheckCommit ==
  /\ runner_pc = "check"
  /\ Tick
  /\ latest' = snapshot'
  /\ runner_pc' = IF model_version' = version /\ update_count' = previous_updates + 1
                    THEN "ready" ELSE "threw"
  /\ UNCHANGED <<cycles, word>>

(* process(): wait, one clock with in_valid high, then tick until           *)
(* event_done, CycleLimit times at the most.                                *)
BeginProcess ==
  /\ ~streaming
  /\ runner_pc = "ready"
  /\ next_stream_index < MaxEvents
  /\ runner_pc' = "process"
  /\ cycles' = 0
  /\ UNCHANGED <<streaming, pipelineVars, adapterVars, result_ready, word, version, previous_updates,
                 latest, reference>>

ProcessOffer ==
  /\ runner_pc = "process"
  /\ in_ready
  /\ \E event \in NextEvents :
       /\ AdapterClock({event}, result_ready, {}, FALSE)
       /\ ReferenceFollows({event})
  /\ runner_pc' = "processing"
  /\ cycles' = 0
  /\ UNCHANGED <<streaming, result_ready, word, version, previous_updates, latest>>

ProcessTick ==
  /\ runner_pc = "processing"
  /\ Tick
  /\ cycles' = cycles + 1
  /\ runner_pc' = CASE event_done' -> "ready"
                    [] ~event_done' /\ cycles' = CycleLimit -> "threw"
                    [] OTHER -> "processing"
  /\ latest' = IF event_done' THEN snapshot' ELSE latest
  /\ UNCHANGED word

Next ==
  \/ StepIdle
  \/ StepOffer
  \/ wait_until_ready
  \/ BeginWrite
  \/ WriteWord
  \/ PauseAfterWord
  \/ CommitBank
  \/ CheckCommit
  \/ BeginProcess
  \/ ProcessOffer
  \/ ProcessTick

Spec == Init /\ [][Next]_vars

-----------------------------------------------------------------------------
(* Properties. *)

(* Through book, window, feature engine and adapter, the held result is     *)
(* that of the event accepted last, as the C++ model computes it: its       *)
(* stream index and time stamp, its error, and features taken from its own  *)
(* book and from a window that counts each good event once.                 *)
ResultMatchesReference ==
  result_valid =>
    held = [index |-> next_stream_index - 1, timestamp |-> next_stream_index,
            error |-> reference.error, features |-> reference.features,
            midpoint |-> reference.midpoint]

(* When process() returns, and when the adapter is ready again after        *)
(* step(), the snapshot the host has cached is the reference model's: it    *)
(* was read in a clock in which the pins still showed that event, scored by *)
(* the model last written.                                                  *)
LatestMatchesReference ==
  runner_pc = "ready" /\ (streaming => in_ready) => latest = reference_snapshot

(* A held result does not change before the host takes it, whatever the     *)
(* pipeline does behind it.                                                 *)
HeldResultStable == [][result_valid /\ result_valid' => held' = held]_vars

(* In every clock the bank in use is one complete model: a commit takes all *)
(* words of one upload together, and a partial upload is never seen.        *)
ActiveBankIsOneModel == \A w \in Word : active[w] = model_version

(* No wait of the runner runs out and every commit becomes active: a clock  *)
(* left over from an event never makes a wait or a commit fail.             *)
RunnerNeverThrows == runner_pc # "threw"

(* The adapter keeps the promise that VerilatorWorker's model relies on.    *)
StageBar ==
  IF result_valid THEN "held" ELSE IF event_in_flight THEN "busy" ELSE "idle"

Stream == INSTANCE RtlStream WITH
  stage <- StageBar, accepted <- next_stream_index, held_index <- held.index,
  model <- model_version

ImplementsStream == Stream!Spec

-----------------------------------------------------------------------------
(* The inductive invariant of MarketStream_proofs. *)

ControlTypeOK ==
  /\ book_clocks \in 0 .. MaxBookClocks
  /\ \A flag \in {book_done, event_done, event_in_flight, result_valid} : flag \in BOOLEAN
  /\ pipeline_state \in {"WAIT_BOOK", "EMIT_FEATURE", "EMIT_ERROR"}
  /\ next_stream_index \in Nat
  /\ shadow \in [Word -> Nat] /\ active \in [Word -> Nat]
  /\ shadow_version \in Nat /\ model_version \in Nat /\ update_count \in Nat
  /\ shadow_written \subseteq Word
  /\ version \in Nat /\ previous_updates \in Nat /\ word \in Word /\ cycles \in Nat
  /\ runner_pc \in WaitingPlaces \cup {"ready", "pause", "check", "processing"}

(* An event in flight is in exactly one place: in the book, reported by the *)
(* book, being emitted, or reported by the pipeline.                        *)
OnePlace ==
  /\ event_in_flight <=> \/ book_clocks > 0
                         \/ book_done
                         \/ pipeline_state # "WAIT_BOOK"
                         \/ event_done
  /\ book_clocks > 0 => ~book_done /\ pipeline_state = "WAIT_BOOK" /\ ~event_done
  /\ book_done => pipeline_state = "WAIT_BOOK" /\ ~event_done
  /\ pipeline_state # "WAIT_BOOK" => ~event_done

(* The adapter's own registers follow the event. *)
OneEvent ==
  /\ result_valid => ~event_in_flight
  /\ event_in_flight => next_stream_index > 0 /\ stream_index = next_stream_index - 1

(* How much of an upload is in the shadow bank at each place of the runner. *)
written_words ==
  CASE runner_pc = "write" -> 0 .. word - 1
    [] runner_pc = "pause" -> 0 .. word
    [] runner_pc = "commit" -> Word
    [] OTHER -> {}

UploadInOrder ==
  /\ shadow_written = written_words
  /\ \A w \in shadow_written : shadow[w] = version
  /\ shadow_written # {} => shadow_version = version
  /\ IF runner_pc \in {"write", "pause", "commit"}
       THEN update_count = previous_updates
       ELSE update_count = previous_updates + 1 /\ model_version = version

(* Between events nothing is on its way, except the result that process()   *)
(* leaves to be dropped; and what is left of a wait fits in its limit.      *)
WaitsAreShort ==
  /\ runner_pc \in {"pause", "check"} => in_ready
  /\ runner_pc \in WaitingPlaces =>
       \/ in_ready
       \/ ~streaming /\ event_done /\ cycles = 0
       \/ ~streaming /\ result_valid /\ cycles <= 1
  /\ ~streaming => result_ready
  /\ runner_pc \in {"process", "processing"} => ~streaming
  /\ ~streaming /\ runner_pc = "ready" => in_ready \/ event_done
  /\ runner_pc = "processing" =>
       /\ event_in_flight /\ ~event_done
       /\ cycles + (IF pipeline_state # "WAIT_BOOK" THEN 1
                    ELSE book_clocks + 2) <= MaxBookClocks + 2

StreamInv ==
  /\ ControlTypeOK
  /\ OnePlace
  /\ OneEvent
  /\ UploadInOrder
  /\ ActiveBankIsOneModel
  /\ WaitsAreShort
=============================================================================
