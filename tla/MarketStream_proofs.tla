------------------------- MODULE MarketStream_proofs -------------------------
(***************************************************************************)
(* Proofs about MarketStream: for every window size, number of parameter    *)
(* words, book latency within the runner's limit, set of events and number  *)
(* of models, and for both drivers.                                         *)
(***************************************************************************)
EXTENDS MarketStream, TLAPS

-----------------------------------------------------------------------------
(* The event and its place. *)

(* The linear facts of the assumptions. *)
LEMMA Limits ==
  /\ MinBookClocks \in Nat /\ MaxBookClocks \in Nat /\ CycleLimit \in Nat
  /\ ParamCount \in Nat \ {0}
  /\ 2 <= MinBookClocks /\ MinBookClocks <= MaxBookClocks
  /\ MaxBookClocks + 2 <= CycleLimit
  BY PipelineAssumption, StreamAssumption

(* The registers that say where the event is. *)
PlaceTypeOK ==
  /\ book_clocks \in 0 .. MaxBookClocks
  /\ book_done \in BOOLEAN /\ event_done \in BOOLEAN
  /\ event_in_flight \in BOOLEAN /\ result_valid \in BOOLEAN
  /\ pipeline_state \in {"WAIT_BOOK", "EMIT_FEATURE", "EMIT_ERROR"}
  /\ next_stream_index \in Nat

PlaceInv == PlaceTypeOK /\ OnePlace /\ OneEvent

(* An idle adapter: no event in any place. *)
LEMMA ReadyMeansEmpty ==
  ASSUME PlaceInv, in_ready
  PROVE  /\ book_clocks = 0 /\ ~book_done /\ pipeline_state = "WAIT_BOOK"
         /\ ~event_done /\ ~event_in_flight /\ ~result_valid
  BY DEF PlaceInv, PlaceTypeOK, OnePlace, in_ready, pipeline_in_ready, core_in_ready

(* A clock in which an event enters. *)
LEMMA EntryClock ==
  ASSUME PlaceInv, in_ready, NEW offer, NEW ready, NEW write, NEW commit, offer # {},
         AdapterClock(offer, ready, write, commit)
  PROVE  /\ PlaceInv'
         /\ book_clocks' \in MinBookClocks .. MaxBookClocks
         /\ next_stream_index' = next_stream_index + 1
         /\ event_in_flight' /\ ~result_valid' /\ ~event_done' /\ held' = held
         /\ pipeline_state' = "WAIT_BOOK"
  <1>1. /\ book_clocks = 0 /\ ~book_done /\ pipeline_state = "WAIT_BOOK"
        /\ ~event_done /\ ~event_in_flight /\ ~result_valid
    BY ReadyMeansEmpty
  <1>2. /\ BookClock(offer) /\ StateClock(offer) /\ InFlight(offer)
        /\ stream_index' = next_stream_index
        /\ next_stream_index' = next_stream_index + 1
        /\ result_valid' = (result_valid /\ ~ready)
        /\ held' = held
    BY <1>1 DEF AdapterClock, PipelineClock
  <1>3. book_clocks' \in MinBookClocks .. MaxBookClocks /\ book_done' = FALSE
    BY <1>1, <1>2, Limits DEF BookClock, BookIdle, BookAccept, BookWork, BookCommit, BookFinish
  <1>4. event_done' = FALSE /\ pipeline_state' = "WAIT_BOOK"
    BY <1>1, <1>2 DEF StateClock, WaitBook, BookDone, EmitFeature, EmitError
  <1>5. event_in_flight' = TRUE /\ result_valid' = FALSE
    BY <1>1, <1>2 DEF InFlight
  <1>6. PlaceTypeOK'
    <2>1. book_clocks' \in 0 .. MaxBookClocks /\ next_stream_index' \in Nat
      BY <1>2, <1>3, Limits DEF PlaceInv, PlaceTypeOK
    <2> QED
      BY <2>1, <1>3, <1>4, <1>5 DEF PlaceTypeOK
  <1>7. OnePlace'
    BY <1>3, <1>4, <1>5, Limits DEF OnePlace
  <1>8. OneEvent'
    BY <1>2, <1>5 DEF OneEvent, PlaceInv, PlaceTypeOK
  <1> QED
    BY <1>2, <1>3, <1>4, <1>5, <1>6, <1>7, <1>8 DEF PlaceInv

(* A clock in which none enters: the event moves one place on. *)
LEMMA QuietClock ==
  ASSUME PlaceInv, NEW offer, NEW ready, NEW write, NEW commit, ~in_ready \/ offer = {},
         AdapterClock(offer, ready, write, commit)
  PROVE  /\ PlaceInv'
         /\ next_stream_index' = next_stream_index
         /\ event_done => result_valid' /\ held'.index = stream_index
         /\ ~event_done => held' = held /\ event_in_flight' = event_in_flight
         /\ ~event_done => result_valid' = (result_valid /\ ~ready)
         /\ book_clocks > 0 => book_clocks' = book_clocks - 1 /\ pipeline_state' = "WAIT_BOOK"
                               /\ ~event_done'
         /\ book_clocks = 0 => book_clocks' = 0
         /\ book_done => pipeline_state' # "WAIT_BOOK" /\ ~event_done'
         /\ pipeline_state # "WAIT_BOOK" => event_done'
         /\ ~event_in_flight => ~event_in_flight'
  <1>1. /\ BookClock({}) /\ StateClock({}) /\ InFlight({})
        /\ UNCHANGED <<stream_index, next_stream_index>>
        /\ result_valid' = IF event_done THEN TRUE ELSE result_valid /\ ~ready
        /\ ~event_done => held' = held
        /\ event_done => held'.index = stream_index
    BY DEF AdapterClock, PipelineClock
  <1>2. /\ book_clocks > 0 => book_clocks' = book_clocks - 1
        /\ book_clocks = 0 => book_clocks' = 0
        /\ book_clocks = 1 => book_done' = TRUE
        /\ book_clocks # 1 => book_done' = FALSE
    BY <1>1, Limits DEF BookClock, BookIdle, BookAccept, BookWork, BookCommit, BookFinish,
       PlaceInv, PlaceTypeOK
  <1>3. /\ pipeline_state # "WAIT_BOOK" => event_done' = TRUE
        /\ pipeline_state = "WAIT_BOOK" => event_done' = FALSE
        /\ pipeline_state = "WAIT_BOOK" /\ book_done
             => pipeline_state' \in {"EMIT_FEATURE", "EMIT_ERROR"}
        /\ ~(pipeline_state = "WAIT_BOOK" /\ book_done) => pipeline_state' = "WAIT_BOOK"
    BY <1>1 DEF StateClock, WaitBook, BookDone, EmitFeature, EmitError,
       PlaceInv, PlaceTypeOK
  <1>4. event_in_flight' = IF event_done THEN FALSE ELSE event_in_flight
    BY <1>1 DEF InFlight, PlaceInv, PlaceTypeOK
  <1>5. PlaceTypeOK'
    <2>0. book_clocks' \in 0 .. MaxBookClocks
      BY <1>2, Limits DEF PlaceInv, PlaceTypeOK
    <2>1. book_done' \in BOOLEAN
      BY <1>2
    <2>2. /\ pipeline_state' \in {"WAIT_BOOK", "EMIT_FEATURE", "EMIT_ERROR"}
          /\ event_done' \in BOOLEAN
      BY <1>3 DEF PlaceInv, PlaceTypeOK
    <2>3. event_in_flight' \in BOOLEAN
      BY <1>4 DEF PlaceInv, PlaceTypeOK
    <2>4. result_valid' \in BOOLEAN
      BY <1>1, Zenon
    <2> QED
      BY <1>1, <2>0, <2>1, <2>2, <2>3, <2>4 DEF PlaceInv, PlaceTypeOK
  <1>6. OnePlace'
    BY <1>2, <1>3, <1>4 DEF PlaceInv, PlaceTypeOK, OnePlace
  <1>7. OneEvent'
    BY <1>1, <1>4 DEF PlaceInv, PlaceTypeOK, OnePlace, OneEvent
  <1> QED
    BY <1>1, <1>2, <1>3, <1>4, <1>5, <1>6, <1>7 DEF PlaceInv, PlaceTypeOK, OnePlace

-----------------------------------------------------------------------------
(* The parameter banks. *)

(* StreamInv holds PlaceInv. *)
LEMMA InvPlace ==
  StreamInv => PlaceInv
  BY DEF StreamInv, ControlTypeOK, PlaceInv, PlaceTypeOK

(* A clock without a write or a commit leaves the banks alone. *)
LEMMA QuietBanks ==
  ASSUME ControlTypeOK, StrategyClock({}, FALSE)
  PROVE  UNCHANGED <<shadow, shadow_written, shadow_version, active, model_version, update_count>>
  <1>1. ~committing(FALSE)
    BY DEF committing
  <1>2. shadow' = shadow
    BY DEF StrategyClock, ShadowBank, ControlTypeOK
  <1>3. shadow_version' = shadow_version /\ shadow_written' = shadow_written
    BY <1>1 DEF StrategyClock, ShadowBank
  <1>4. UNCHANGED <<active, model_version, update_count>>
    BY <1>1 DEF StrategyClock, ActiveBank
  <1> QED
    BY <1>2, <1>3, <1>4

(* A parameter write reaches the shadow bank only. *)
LEMMA WriteBanks ==
  ASSUME ControlTypeOK, NEW w \in Word, NEW v \in Nat,
         StrategyClock({[word |-> w, version |-> v]}, FALSE)
  PROVE  /\ shadow' = [shadow EXCEPT ![w] = v]
         /\ shadow_written' = shadow_written \cup {w}
         /\ shadow_version' = v
         /\ UNCHANGED <<active, model_version, update_count>>
  <1> DEFINE write == {[word |-> w, version |-> v]}
  <1>1. ~committing(FALSE)
    BY DEF committing
  <1>2. /\ \A x : (\E p \in write : p.word = x) <=> x = w
        /\ (CHOOSE p \in write : p.word = w).version = v
        /\ (CHOOSE p \in write : TRUE).version = v
        /\ {p.word : p \in write} = {w}
        /\ write # {}
    OBVIOUS
  <1>3. /\ shadow' = [x \in Word |-> IF \E p \in write : p.word = x
                                       THEN (CHOOSE p \in write : p.word = x).version
                                       ELSE shadow[x]]
        /\ shadow_version' = IF write = {} THEN shadow_version
                             ELSE (CHOOSE p \in write : TRUE).version
        /\ shadow_written' = shadow_written \cup {p.word : p \in write}
    BY <1>1 DEF StrategyClock, ShadowBank
  <1>4. UNCHANGED <<active, model_version, update_count>>
    BY <1>1 DEF StrategyClock, ActiveBank
  <1> HIDE DEF write
  <1>5. shadow' = [shadow EXCEPT ![w] = v]
    <2>1. \A x \in Word : shadow'[x] = IF x = w THEN v ELSE shadow[x]
      BY <1>2, <1>3
    <2> QED
      BY <2>1, <1>3 DEF ControlTypeOK
  <1> QED
    BY <1>2, <1>3, <1>4, <1>5

(* A commit of a complete upload while nothing is processed. *)
LEMMA CommitBanks ==
  ASSUME ControlTypeOK, in_ready, shadow_written = Word, StrategyClock({}, TRUE)
  PROVE  /\ active' = shadow /\ shadow' = shadow
         /\ shadow_written' = {} /\ shadow_version' = shadow_version
         /\ model_version' = shadow_version
         /\ update_count' = update_count + 1
  <1>1. committing(TRUE)
    BY DEF committing, in_ready, pipeline_in_ready, strategy_evaluate
  <1>2. shadow' = shadow
    BY DEF StrategyClock, ShadowBank, ControlTypeOK
  <1> QED
    BY <1>1, <1>2 DEF StrategyClock, ShadowBank, ActiveBank

-----------------------------------------------------------------------------
(* Inductive steps, one per action. *)

(* An idle adapter is ready, now and in the next state. *)
LEMMA ReadyIffEmpty ==
  /\ PlaceInv => (in_ready <=> ~event_in_flight /\ ~result_valid)
  /\ PlaceInv' => (in_ready' <=> ~event_in_flight' /\ ~result_valid')
  BY Limits DEF PlaceInv, PlaceTypeOK, OnePlace, in_ready, pipeline_in_ready, core_in_ready

(* What is left to show once the event's place is known. *)
RunnerTypeOK ==
  /\ shadow \in [Word -> Nat] /\ active \in [Word -> Nat]
  /\ shadow_version \in Nat /\ model_version \in Nat /\ update_count \in Nat
  /\ shadow_written \subseteq Word
  /\ version \in Nat /\ previous_updates \in Nat /\ word \in Word /\ cycles \in Nat
  /\ runner_pc \in WaitingPlaces \cup {"ready", "pause", "check", "processing"}

LEMMA InvParts ==
  /\ StreamInv => RunnerTypeOK
  /\ PlaceInv' /\ RunnerTypeOK' => ControlTypeOK'
  BY DEF StreamInv, ControlTypeOK, RunnerTypeOK, PlaceInv, PlaceTypeOK

(* The initial state: the first upload is about to begin. *)
LEMMA InitInv ==
  Init => StreamInv
  <1> SUFFICES ASSUME Init PROVE StreamInv
    OBVIOUS
  <1> USE DEF Init, PipelineReset
  <1>1. ControlTypeOK
    <2>1. 0 \in Word /\ 0 \in 0 .. MaxBookClocks
      BY Limits DEF Word
    <2>2. ZeroBank \in [Word -> Nat]
      BY DEF ZeroBank
    <2>3. \A flag \in {book_done, event_done, event_in_flight, result_valid} : flag \in BOOLEAN
      BY Zenon
    <2> QED
      BY <2>1, <2>2, <2>3 DEF ControlTypeOK, WaitingPlaces
  <1>2. OnePlace /\ OneEvent
    BY DEF OnePlace, OneEvent
  <1>3. UploadInOrder
    BY DEF UploadInOrder, written_words
  <1>4. ActiveBankIsOneModel
    BY DEF ActiveBankIsOneModel, ZeroBank
  <1>5. WaitsAreShort
    <2>1. in_ready
      BY DEF in_ready, pipeline_in_ready, core_in_ready
    <2> QED
      BY <2>1 DEF WaitsAreShort, WaitingPlaces
  <1> QED
    BY <1>1, <1>2, <1>3, <1>4, <1>5 DEF StreamInv

(* step() without and with an event. *)
LEMMA StepInv ==
  ASSUME StreamInv, StepIdle \/ StepOffer
  PROVE  StreamInv'
  <1>0. PlaceInv /\ RunnerTypeOK /\ ControlTypeOK
    BY InvPlace, InvParts DEF StreamInv
  <1>1. PICK offer, accept :
          /\ AdapterClock(offer, accept, {}, FALSE)
          /\ in_ready \/ offer = {}
          /\ streaming
          /\ runner_pc = "ready"
          /\ UNCHANGED <<runner_pc, cycles, word, version, previous_updates, streaming>>
    BY DEF StepIdle, StepOffer, step
  <1>2. PlaceInv'
    BY <1>0, <1>1, EntryClock, QuietClock
  <1>3. UNCHANGED <<shadow, shadow_written, shadow_version, active, model_version, update_count>>
    BY <1>0, <1>1, QuietBanks DEF AdapterClock, PipelineClock
  <1>4. RunnerTypeOK'
    BY <1>0, <1>1, <1>3 DEF RunnerTypeOK
  <1>5. UploadInOrder' /\ ActiveBankIsOneModel'
    BY <1>1, <1>3 DEF StreamInv, UploadInOrder, written_words, ActiveBankIsOneModel
  <1>6. WaitsAreShort'
    BY <1>1 DEF WaitsAreShort, WaitingPlaces
  <1> QED
    BY <1>2, <1>4, <1>5, <1>6, InvParts DEF StreamInv, PlaceInv

(* A tick with nothing on the pins: place and banks. *)
LEMMA TickKeeps ==
  ASSUME StreamInv, Tick
  PROVE  /\ PlaceInv'
         /\ UNCHANGED <<shadow, shadow_written, shadow_version, active, model_version,
                        update_count, result_ready, version, previous_updates, streaming>>
         /\ in_ready => in_ready'
         /\ ~event_done => event_in_flight' = event_in_flight
         /\ event_done => result_valid' /\ ~event_in_flight'
         /\ ~event_done /\ result_ready => ~result_valid'
         /\ book_clocks > 0 => book_clocks' = book_clocks - 1 /\ pipeline_state' = "WAIT_BOOK"
                               /\ ~event_done'
         /\ book_done => book_clocks' = 0 /\ pipeline_state' # "WAIT_BOOK" /\ ~event_done'
         /\ pipeline_state # "WAIT_BOOK" => event_done'
  <1>0. PlaceInv /\ RunnerTypeOK /\ ControlTypeOK
    BY InvPlace, InvParts DEF StreamInv
  <1>1. /\ AdapterClock({}, result_ready, {}, FALSE)
        /\ UNCHANGED <<result_ready, version, previous_updates, streaming>>
    BY DEF Tick
  <1>2. /\ PlaceInv'
        /\ event_done => result_valid'
        /\ ~event_done => event_in_flight' = event_in_flight
        /\ ~event_done /\ (~result_valid \/ result_ready) => ~result_valid'
        /\ book_clocks > 0 => book_clocks' = book_clocks - 1 /\ pipeline_state' = "WAIT_BOOK"
                              /\ ~event_done'
        /\ book_clocks = 0 => book_clocks' = 0
        /\ book_done => pipeline_state' # "WAIT_BOOK" /\ ~event_done'
        /\ pipeline_state # "WAIT_BOOK" => event_done'
    BY <1>0, <1>1, QuietClock
  <1>3. UNCHANGED <<shadow, shadow_written, shadow_version, active, model_version, update_count>>
    BY <1>0, <1>1, QuietBanks DEF AdapterClock, PipelineClock
  <1>4. in_ready => in_ready'
    <2> SUFFICES ASSUME in_ready PROVE in_ready'
      OBVIOUS
    <2>1. ~event_done /\ ~event_in_flight /\ ~result_valid
      BY <1>0, ReadyMeansEmpty
    <2>2. ~event_in_flight' /\ ~result_valid'
      BY <1>2, <2>1
    <2> QED
      BY <1>2, <2>2, ReadyIffEmpty
  <1>5. event_done => ~event_in_flight'
    BY <1>2 DEF PlaceInv, OneEvent
  <1>6. book_done => book_clocks = 0
    BY <1>0 DEF PlaceInv, PlaceTypeOK, OnePlace
  <1> QED
    BY <1>1, <1>2, <1>3, <1>4, <1>5, <1>6

(* The wait before a write, a commit or an event. *)
LEMMA WaitInv ==
  ASSUME StreamInv, wait_until_ready
  PROVE  StreamInv'
  <1>0. PlaceInv /\ RunnerTypeOK
    BY InvPlace, InvParts
  <1>1. /\ PlaceInv'
        /\ UNCHANGED <<shadow, shadow_written, shadow_version, active, model_version,
                       update_count, result_ready, version, previous_updates, streaming>>
        /\ ~event_done => event_in_flight' = event_in_flight
        /\ event_done => result_valid' /\ ~event_in_flight'
        /\ ~event_done /\ result_ready => ~result_valid'
    BY TickKeeps DEF wait_until_ready
  <1>2. /\ ~in_ready /\ runner_pc \in WaitingPlaces
        /\ cycles' = cycles + 1 /\ word' = word
        /\ runner_pc' = IF ~in_ready' /\ cycles' = CycleLimit THEN "threw" ELSE runner_pc
    BY DEF wait_until_ready
  <1>3. /\ ~streaming /\ result_ready
        /\ \/ event_done /\ cycles = 0
           \/ result_valid /\ ~event_done /\ ~event_in_flight /\ cycles <= 1
    BY <1>0, <1>2 DEF StreamInv, WaitsAreShort, PlaceInv, OneEvent, OnePlace
  <1>4. in_ready' \/ (result_valid' /\ cycles' = 1)
    BY <1>0, <1>1, <1>2, <1>3, ReadyIffEmpty DEF RunnerTypeOK
  <1>5. runner_pc' = runner_pc
    BY <1>2, <1>4, Limits
  <1>6. RunnerTypeOK'
    BY <1>0, <1>1, <1>2, <1>5 DEF RunnerTypeOK
  <1>7. UploadInOrder' /\ ActiveBankIsOneModel'
    BY <1>1, <1>2, <1>5 DEF StreamInv, UploadInOrder, written_words, ActiveBankIsOneModel
  <1>8. WaitsAreShort'
    BY <1>1, <1>2, <1>3, <1>4, <1>5 DEF WaitsAreShort, WaitingPlaces
  <1> QED
    BY <1>1, <1>6, <1>7, <1>8, InvParts DEF StreamInv, PlaceInv

(* The upload begins, or process() does: no clock passes. *)
LEMMA BeginInv ==
  ASSUME StreamInv, BeginWrite \/ BeginProcess
  PROVE  StreamInv'
  <1>0. PlaceInv /\ RunnerTypeOK
    BY InvPlace, InvParts
  <1>1. /\ UNCHANGED <<book_clocks, book_done, event_done, pipeline_state, event_in_flight,
                       result_valid, stream_index, next_stream_index>>
        /\ UNCHANGED <<shadow, shadow_written, shadow_version, active, model_version,
                       update_count, result_ready>>
        /\ runner_pc = "ready" /\ cycles' = 0 /\ streaming' = streaming
        /\ \/ /\ streaming => in_ready
              /\ runner_pc' = "write" /\ word' = 0 /\ version' \in version + 1 .. MaxVersion
              /\ previous_updates' = update_count
           \/ /\ ~streaming
              /\ runner_pc' = "process" /\ UNCHANGED <<word, version, previous_updates, streaming>>
    BY DEF BeginWrite, BeginProcess, pipelineVars, bookVars, strategyVars, stateVars, adapterVars
  <1>2. PlaceInv'
    BY <1>0, <1>1 DEF PlaceInv, PlaceTypeOK, OnePlace, OneEvent
  <1>3. in_ready' = in_ready
    BY <1>1 DEF in_ready, pipeline_in_ready, core_in_ready
  <1>4. RunnerTypeOK'
    <2>1. /\ shadow' \in [Word -> Nat] /\ active' \in [Word -> Nat] /\ shadow_written' \subseteq Word
          /\ shadow_version' \in Nat /\ model_version' \in Nat /\ update_count' \in Nat
          /\ runner_pc' \in WaitingPlaces
      BY <1>0, <1>1, Zenon DEF RunnerTypeOK, WaitingPlaces
    <2>2. 0 \in Word /\ 0 \in Nat
      BY Limits DEF Word
    <2>3. word' \in Word /\ cycles' \in Nat /\ previous_updates' \in Nat
      BY <1>0, <1>1, <2>2, Zenon DEF RunnerTypeOK
    <2>4. version' \in Nat
      BY <1>0, <1>1 DEF RunnerTypeOK
    <2> QED
      BY <2>1, <2>3, <2>4, Zenon DEF RunnerTypeOK
  <1>5. UploadInOrder' /\ ActiveBankIsOneModel'
    BY <1>0, <1>1 DEF StreamInv, UploadInOrder, written_words, ActiveBankIsOneModel, RunnerTypeOK
  <1>6. WaitsAreShort'
    BY <1>1, <1>3 DEF StreamInv, WaitsAreShort, WaitingPlaces
  <1> QED
    BY <1>2, <1>4, <1>5, <1>6, InvParts DEF StreamInv, PlaceInv

(* A word of the upload. *)
LEMMA WriteInv ==
  ASSUME StreamInv, WriteWord
  PROVE  StreamInv'
  <1>0. PlaceInv /\ RunnerTypeOK /\ ControlTypeOK
    BY InvPlace, InvParts DEF StreamInv
  <1>1. /\ in_ready /\ runner_pc = "write" /\ runner_pc' = "pause"
        /\ AdapterClock({}, result_ready, {[word |-> word, version |-> version]}, FALSE)
        /\ UNCHANGED <<result_ready, cycles, word, version, previous_updates, streaming>>
    BY DEF WriteWord
  <1>2. ~event_done /\ ~event_in_flight /\ ~result_valid
    BY <1>0, <1>1, ReadyMeansEmpty
  <1>3. /\ PlaceInv' /\ ~event_in_flight'
        /\ result_valid' = (result_valid /\ ~result_ready)
    BY <1>0, <1>1, <1>2, QuietClock
  <1>4. in_ready'
    BY <1>2, <1>3, ReadyIffEmpty
  <1>5. /\ shadow' = [shadow EXCEPT ![word] = version]
        /\ shadow_written' = shadow_written \cup {word}
        /\ shadow_version' = version
        /\ UNCHANGED <<active, model_version, update_count>>
    <2>1. StrategyClock({[word |-> word, version |-> version]}, FALSE)
      BY <1>1 DEF AdapterClock, PipelineClock
    <2>2. word \in Word /\ version \in Nat
      BY <1>0 DEF RunnerTypeOK
    <2> QED
      BY <1>0, <2>1, <2>2, WriteBanks
  <1>6. RunnerTypeOK'
    BY <1>0, <1>1, <1>5 DEF RunnerTypeOK
  <1>7. UploadInOrder'
    <2>1. shadow_written = 0 .. word - 1 /\ update_count = previous_updates
      BY <1>1 DEF StreamInv, UploadInOrder, written_words
    <2>2. shadow_written' = 0 .. word
      BY <1>0, <1>5, <2>1 DEF RunnerTypeOK, Word
    <2>3. \A w \in shadow_written' : shadow'[w] = version
      BY <1>0, <1>5 DEF StreamInv, UploadInOrder, RunnerTypeOK
    <2> QED
      BY <1>1, <1>5, <2>1, <2>2, <2>3 DEF UploadInOrder, written_words
  <1>8. ActiveBankIsOneModel' /\ WaitsAreShort'
    BY <1>1, <1>4, <1>5 DEF StreamInv, ActiveBankIsOneModel, WaitsAreShort, WaitingPlaces
  <1> QED
    BY <1>3, <1>6, <1>7, <1>8, InvParts DEF StreamInv, PlaceInv

(* The tick between two words. *)
LEMMA PauseInv ==
  ASSUME StreamInv, PauseAfterWord
  PROVE  StreamInv'
  <1>0. PlaceInv /\ RunnerTypeOK
    BY InvPlace, InvParts
  <1>1. /\ PlaceInv'
        /\ UNCHANGED <<shadow, shadow_written, shadow_version, active, model_version,
                       update_count, result_ready, version, previous_updates, streaming>>
        /\ in_ready => in_ready'
    BY TickKeeps DEF PauseAfterWord
  <1>2. /\ runner_pc = "pause" /\ cycles' = 0
        /\ \/ word = ParamCount - 1 /\ runner_pc' = "commit" /\ word' = word
           \/ word # ParamCount - 1 /\ runner_pc' = "write" /\ word' = word + 1
    BY DEF PauseAfterWord, last_word
  <1>3. in_ready'
    BY <1>1, <1>2 DEF StreamInv, WaitsAreShort
  <1>4. RunnerTypeOK'
    BY <1>0, <1>1, <1>2, Limits DEF RunnerTypeOK, WaitingPlaces, Word
  <1>5. UploadInOrder'
    <2>1. shadow_written = 0 .. word
      BY <1>2 DEF StreamInv, UploadInOrder, written_words
    <2>2. written_words' = 0 .. word
      <3>1. CASE word = ParamCount - 1
        BY <1>2, <3>1 DEF written_words, Word
      <3>2. CASE word # ParamCount - 1
        <4>1. word' - 1 = word
          BY <1>0, <1>2, <3>2, Limits DEF RunnerTypeOK, Word
        <4> QED
          BY <1>2, <3>2, <4>1 DEF written_words
      <3> QED
        BY <3>1, <3>2
    <2> QED
      BY <1>1, <1>2, <2>1, <2>2 DEF StreamInv, UploadInOrder
  <1>6. ActiveBankIsOneModel' /\ WaitsAreShort'
    BY <1>1, <1>2, <1>3 DEF StreamInv, ActiveBankIsOneModel, WaitsAreShort, WaitingPlaces
  <1> QED
    BY <1>1, <1>4, <1>5, <1>6, InvParts DEF StreamInv, PlaceInv

(* The commit pulse. *)
LEMMA CommitInv ==
  ASSUME StreamInv, CommitBank
  PROVE  StreamInv'
  <1>0. PlaceInv /\ RunnerTypeOK /\ ControlTypeOK
    BY InvPlace, InvParts DEF StreamInv
  <1>1. /\ in_ready /\ runner_pc = "commit" /\ runner_pc' = "check"
        /\ AdapterClock({}, result_ready, {}, TRUE)
        /\ UNCHANGED <<result_ready, cycles, word, version, previous_updates, streaming>>
    BY DEF CommitBank
  <1>2. ~event_done /\ ~event_in_flight /\ ~result_valid
    BY <1>0, <1>1, ReadyMeansEmpty
  <1>3. /\ PlaceInv' /\ ~event_in_flight'
        /\ result_valid' = (result_valid /\ ~result_ready)
    BY <1>0, <1>1, <1>2, QuietClock
  <1>4. in_ready'
    BY <1>2, <1>3, ReadyIffEmpty
  <1>5. /\ shadow_written = Word /\ update_count = previous_updates
        /\ \A w \in Word : shadow[w] = version
        /\ shadow_version = version
    <2>1. 0 \in Word
      BY Limits DEF Word
    <2> QED
      BY <1>1, <2>1 DEF StreamInv, UploadInOrder, written_words
  <1>6. /\ active' = shadow /\ shadow' = shadow
        /\ shadow_written' = {} /\ shadow_version' = shadow_version
        /\ model_version' = shadow_version
        /\ update_count' = update_count + 1
    <2>1. StrategyClock({}, TRUE)
      BY <1>1 DEF AdapterClock, PipelineClock
    <2> QED
      BY <1>0, <1>1, <1>5, <2>1, CommitBanks
  <1>7. RunnerTypeOK'
    BY <1>0, <1>1, <1>6 DEF RunnerTypeOK
  <1>8. UploadInOrder'
    BY <1>0, <1>1, <1>5, <1>6 DEF UploadInOrder, written_words, RunnerTypeOK
  <1>9. ActiveBankIsOneModel' /\ WaitsAreShort'
    BY <1>1, <1>4, <1>5, <1>6 DEF StreamInv, ActiveBankIsOneModel, WaitsAreShort, WaitingPlaces
  <1> QED
    BY <1>3, <1>7, <1>8, <1>9, InvParts DEF StreamInv, PlaceInv

(* The tick after the pulse: the check of the version succeeds. *)
LEMMA CheckInv ==
  ASSUME StreamInv, CheckCommit
  PROVE  StreamInv'
  <1>0. PlaceInv /\ RunnerTypeOK
    BY InvPlace, InvParts
  <1>1. /\ PlaceInv'
        /\ UNCHANGED <<shadow, shadow_written, shadow_version, active, model_version,
                       update_count, result_ready, version, previous_updates, streaming>>
        /\ in_ready => in_ready'
    BY TickKeeps DEF CheckCommit
  <1>2. /\ runner_pc = "check" /\ UNCHANGED <<cycles, word>>
        /\ model_version' = version /\ update_count' = previous_updates + 1 => runner_pc' = "ready"
    BY DEF CheckCommit
  <1>3. in_ready' /\ runner_pc' = "ready"
    BY <1>1, <1>2 DEF StreamInv, WaitsAreShort, UploadInOrder
  <1>4. RunnerTypeOK'
    BY <1>0, <1>1, <1>2, <1>3 DEF RunnerTypeOK
  <1>5. UploadInOrder'
    BY <1>1, <1>2, <1>3 DEF StreamInv, UploadInOrder, written_words
  <1>6. ActiveBankIsOneModel' /\ WaitsAreShort'
    BY <1>1, <1>2, <1>3 DEF StreamInv, ActiveBankIsOneModel, WaitsAreShort, WaitingPlaces
  <1> QED
    BY <1>1, <1>4, <1>5, <1>6, InvParts DEF StreamInv, PlaceInv

(* process() hands over its event. *)
LEMMA ProcessOfferInv ==
  ASSUME StreamInv, ProcessOffer
  PROVE  StreamInv'
  <1>0. PlaceInv /\ RunnerTypeOK /\ ControlTypeOK
    BY InvPlace, InvParts DEF StreamInv
  <1>1. PICK event \in NextEvents : AdapterClock({event}, result_ready, {}, FALSE)
    BY DEF ProcessOffer
  <1>2. /\ in_ready /\ runner_pc = "process" /\ runner_pc' = "processing" /\ cycles' = 0
        /\ UNCHANGED <<result_ready, word, version, previous_updates, streaming>>
    BY DEF ProcessOffer
  <1>3. /\ PlaceInv'
        /\ book_clocks' \in MinBookClocks .. MaxBookClocks
        /\ event_in_flight' /\ ~event_done' /\ pipeline_state' = "WAIT_BOOK"
    BY <1>0, <1>1, <1>2, EntryClock
  <1>4. UNCHANGED <<shadow, shadow_written, shadow_version, active, model_version, update_count>>
    BY <1>0, <1>1, QuietBanks DEF AdapterClock, PipelineClock
  <1>5. RunnerTypeOK'
    BY <1>0, <1>2, <1>4 DEF RunnerTypeOK
  <1>6. UploadInOrder' /\ ActiveBankIsOneModel'
    BY <1>2, <1>4 DEF StreamInv, UploadInOrder, written_words, ActiveBankIsOneModel
  <1>7. WaitsAreShort'
    <2>1. \A b \in MinBookClocks .. MaxBookClocks : 0 + (b + 2) <= MaxBookClocks + 2
      BY Limits
    <2>2. cycles' + (book_clocks' + 2) <= MaxBookClocks + 2
      BY <1>2, <1>3, <2>1
    <2> QED
      BY <1>2, <1>3, <2>2 DEF StreamInv, WaitsAreShort, WaitingPlaces
  <1> QED
    BY <1>3, <1>5, <1>6, <1>7, InvParts DEF StreamInv, PlaceInv

(* process() waits for event_done: it comes before the limit. *)
LEMMA ProcessTickInv ==
  ASSUME StreamInv, ProcessTick
  PROVE  StreamInv'
  <1>0. PlaceInv /\ RunnerTypeOK
    BY InvPlace, InvParts
  <1>1. /\ PlaceInv'
        /\ UNCHANGED <<shadow, shadow_written, shadow_version, active, model_version,
                       update_count, result_ready, version, previous_updates, streaming>>
        /\ ~event_done => event_in_flight' = event_in_flight
        /\ book_clocks > 0 => book_clocks' = book_clocks - 1 /\ pipeline_state' = "WAIT_BOOK"
                              /\ ~event_done'
        /\ book_done => book_clocks' = 0 /\ pipeline_state' # "WAIT_BOOK" /\ ~event_done'
        /\ pipeline_state # "WAIT_BOOK" => event_done'
    BY TickKeeps DEF ProcessTick
  <1>2. /\ runner_pc = "processing" /\ cycles' = cycles + 1 /\ word' = word
        /\ event_done' => runner_pc' = "ready"
        /\ ~event_done' /\ cycles' = CycleLimit => runner_pc' = "threw"
        /\ ~event_done' /\ cycles' # CycleLimit => runner_pc' = "processing"
    BY DEF ProcessTick
  <1>3. /\ ~streaming /\ result_ready /\ event_in_flight /\ ~event_done
        /\ cycles + (IF pipeline_state # "WAIT_BOOK" THEN 1 ELSE book_clocks + 2)
             <= MaxBookClocks + 2
    BY <1>2 DEF StreamInv, WaitsAreShort
  <1>4. \/ event_done' /\ runner_pc' = "ready"
        \/ /\ ~event_done' /\ runner_pc' = "processing"
           /\ cycles' + (IF pipeline_state' # "WAIT_BOOK" THEN 1 ELSE book_clocks' + 2)
                <= MaxBookClocks + 2
    <2>1. CASE pipeline_state # "WAIT_BOOK"
      BY <1>1, <1>2, <2>1
    <2>2. CASE book_clocks > 0 /\ pipeline_state = "WAIT_BOOK"
      BY <1>0, <1>1, <1>2, <1>3, <2>2, Limits DEF PlaceInv, PlaceTypeOK, RunnerTypeOK
    <2>3. CASE book_done /\ pipeline_state = "WAIT_BOOK"
      BY <1>0, <1>1, <1>2, <1>3, <2>3, Limits DEF PlaceInv, PlaceTypeOK, RunnerTypeOK
    <2> QED
      BY <1>0, <1>3, <2>1, <2>2, <2>3 DEF PlaceInv, OnePlace
  <1>5. RunnerTypeOK'
    BY <1>0, <1>1, <1>2, <1>4 DEF RunnerTypeOK
  <1>6. UploadInOrder' /\ ActiveBankIsOneModel'
    BY <1>1, <1>2, <1>4 DEF StreamInv, UploadInOrder, written_words, ActiveBankIsOneModel
  <1>7. WaitsAreShort'
    BY <1>1, <1>3, <1>4 DEF WaitsAreShort, WaitingPlaces
  <1> QED
    BY <1>1, <1>5, <1>6, <1>7, InvParts DEF StreamInv, PlaceInv

(* A stuttering step. *)
LEMMA StutterInv ==
  ASSUME StreamInv, UNCHANGED vars
  PROVE  StreamInv'
  <1> USE DEF vars, pipelineVars, bookVars, strategyVars, stateVars, adapterVars, runnerVars
  <1>0. PlaceInv /\ RunnerTypeOK
    BY InvPlace, InvParts
  <1>1. PlaceInv'
    BY <1>0 DEF PlaceInv, PlaceTypeOK, OnePlace, OneEvent
  <1>2. RunnerTypeOK'
    BY <1>0 DEF RunnerTypeOK
  <1>3. UploadInOrder' /\ ActiveBankIsOneModel'
    BY DEF StreamInv, UploadInOrder, written_words, ActiveBankIsOneModel
  <1>4. in_ready' = in_ready
    BY DEF in_ready, pipeline_in_ready, core_in_ready
  <1>5. WaitsAreShort'
    BY <1>4 DEF StreamInv, WaitsAreShort, WaitingPlaces
  <1> QED
    BY <1>1, <1>2, <1>3, <1>5, InvParts DEF StreamInv, PlaceInv

-----------------------------------------------------------------------------
(* Theorems. *)

(* The inductive invariant: an event in flight is in exactly one place, an  *)
(* upload fills the shadow bank in order, and what is left of each of the   *)
(* runner's waits fits in its cycle limit.                                  *)
THEOREM StreamInvariance == Spec => []StreamInv
  <1>1. StreamInv /\ [Next]_vars => StreamInv'
    BY StepInv, WaitInv, BeginInv, WriteInv, PauseInv, CommitInv, CheckInv, ProcessOfferInv,
       ProcessTickInv, StutterInv DEF Next
  <1> QED
    BY <1>1, InitInv, PTL DEF Spec

(* The bank the strategy evaluates with is one complete model in every      *)
(* clock (strategy_model.sv with write_model_parameters()).                 *)
THEOREM ActiveBankNeverMixed == Spec => []ActiveBankIsOneModel
  <1>1. StreamInv => ActiveBankIsOneModel
    BY DEF StreamInv
  <1> QED
    BY <1>1, StreamInvariance, PTL

(* No wait of VerilatorRunner reaches kCycleLimit and no commit is found    *)
(* missing: runner_pc never becomes "threw".                                *)
THEOREM WaitsNeverRunOut == Spec => []RunnerNeverThrows
  <1>1. StreamInv => RunnerNeverThrows
    BY DEF StreamInv, ControlTypeOK, RunnerNeverThrows, WaitingPlaces
  <1> QED
    BY <1>1, StreamInvariance, PTL

-----------------------------------------------------------------------------
(* The adapter's contract. *)

(* A clock with or without an event, whatever result_ready, that leaves the *)
(* active model alone, is a step of the contract.                           *)
LEMMA ClockKeepsContract ==
  ASSUME PlaceInv, NEW offer, NEW ready, NEW write, NEW commit,
         AdapterClock(offer, ready, write, commit), model_version' = model_version
  PROVE  /\ Stream!Next \/ UNCHANGED Stream!streamVars
         /\ result_valid /\ result_valid' => held' = held
  <1> USE DEF Stream!streamVars, StageBar
  <1>1. CASE in_ready /\ offer # {}
    <2>1. ~event_in_flight /\ ~result_valid
      BY <1>1, ReadyMeansEmpty
    <2>2. /\ next_stream_index' = next_stream_index + 1
          /\ event_in_flight' /\ ~result_valid' /\ held' = held
      BY <1>1, EntryClock
    <2>3. Stream!Accept
      BY <2>1, <2>2 DEF Stream!Accept
    <2> QED
      BY <2>2, <2>3 DEF Stream!Next
  <1>2. CASE (~in_ready \/ offer = {}) /\ event_done
    <2>1. /\ PlaceInv'
          /\ next_stream_index' = next_stream_index
          /\ result_valid' /\ held'.index = stream_index
      BY <1>2, QuietClock
    <2>2. event_in_flight /\ ~result_valid /\ stream_index = next_stream_index - 1
      BY <1>2 DEF PlaceInv, OnePlace, OneEvent
    <2>3. Stream!Complete
      BY <2>1, <2>2 DEF Stream!Complete
    <2> QED
      BY <2>2, <2>3 DEF Stream!Next
  <1>3. CASE (~in_ready \/ offer = {}) /\ ~event_done
    <2>1. /\ next_stream_index' = next_stream_index
          /\ held' = held /\ event_in_flight' = event_in_flight
          /\ result_valid' => result_valid
          /\ PlaceInv'
      BY <1>3, QuietClock
    <2>2. CASE result_valid /\ ~result_valid'
      <3>1. ~event_in_flight'
        BY <2>1, <2>2 DEF PlaceInv, OneEvent
      <3>2. Stream!Take
        BY <2>1, <2>2, <3>1 DEF Stream!Take
      <3> QED
        BY <2>1, <3>2 DEF Stream!Next
    <2>3. CASE result_valid <=> result_valid'
      BY <2>1, <2>3
    <2> QED
      BY <2>1, <2>2, <2>3
  <1> QED
    BY <1>1, <1>2, <1>3

(* Every step of the adapter and its driver is a step of the contract. *)
LEMMA StepKeepsContract ==
  ASSUME StreamInv, [Next]_vars
  PROVE  /\ Stream!Next \/ UNCHANGED Stream!streamVars
         /\ result_valid /\ result_valid' => held' = held
  <1>0. PlaceInv /\ ControlTypeOK /\ RunnerTypeOK
    BY InvPlace, InvParts DEF StreamInv
  <1>1. CASE StepIdle \/ StepOffer
    <2>1. PICK offer, accept : AdapterClock(offer, accept, {}, FALSE)
      BY <1>1 DEF StepIdle, StepOffer, step
    <2>2. model_version' = model_version
      BY <1>0, <2>1, QuietBanks DEF AdapterClock, PipelineClock
    <2> QED
      BY <1>0, <2>1, <2>2, ClockKeepsContract
  <1>2. CASE wait_until_ready \/ PauseAfterWord \/ CheckCommit \/ ProcessTick
    <2>1. AdapterClock({}, result_ready, {}, FALSE)
      BY <1>2 DEF wait_until_ready, PauseAfterWord, CheckCommit, ProcessTick, Tick
    <2>2. model_version' = model_version
      BY <1>0, <2>1, QuietBanks DEF AdapterClock, PipelineClock
    <2> QED
      BY <1>0, <2>1, <2>2, ClockKeepsContract
  <1>3. CASE WriteWord
    <2>1. AdapterClock({}, result_ready, {[word |-> word, version |-> version]}, FALSE)
      BY <1>3 DEF WriteWord
    <2>2. StrategyClock({[word |-> word, version |-> version]}, FALSE)
      BY <2>1 DEF AdapterClock, PipelineClock
    <2>3. word \in Word /\ version \in Nat
      BY <1>0 DEF RunnerTypeOK
    <2>4. model_version' = model_version
      BY <1>0, <2>2, <2>3, WriteBanks
    <2> QED
      BY <1>0, <2>1, <2>4, ClockKeepsContract
  <1>4. CASE ProcessOffer
    <2>1. PICK offer : AdapterClock(offer, result_ready, {}, FALSE)
      BY <1>4 DEF ProcessOffer
    <2>2. model_version' = model_version
      BY <1>0, <2>1, QuietBanks DEF AdapterClock, PipelineClock
    <2> QED
      BY <1>0, <2>1, <2>2, ClockKeepsContract
  <1>5. CASE CommitBank
    <2>1. AdapterClock({}, result_ready, {}, TRUE) /\ in_ready
      BY <1>5 DEF CommitBank
    <2>2. ~event_done /\ ~event_in_flight /\ ~result_valid
      BY <1>0, <2>1, ReadyMeansEmpty
    <2>3. /\ next_stream_index' = next_stream_index
          /\ held' = held /\ event_in_flight' = event_in_flight
          /\ result_valid' => result_valid
      BY <1>0, <2>1, <2>2, QuietClock
    <2>4. model_version' \in Nat
      BY <1>5, CommitInv DEF StreamInv, ControlTypeOK
    <2>5. Stream!Commit
      BY <2>2, <2>3, <2>4 DEF Stream!Commit, StageBar
    <2> QED
      BY <2>2, <2>5 DEF Stream!Next
  <1>6. CASE BeginWrite \/ BeginProcess \/ UNCHANGED vars
    <2>1. UNCHANGED <<result_valid, event_in_flight, next_stream_index, held, model_version>>
      BY <1>6 DEF BeginWrite, BeginProcess, vars, pipelineVars, strategyVars, adapterVars
    <2> QED
      BY <2>1 DEF Stream!streamVars, StageBar
  <1> QED
    BY <1>1, <1>2, <1>3, <1>4, <1>5, <1>6 DEF Next

(* A held result keeps its value until the host takes it. *)
THEOREM HeldResultNeverOverwritten == Spec => HeldResultStable
  <1>1. StreamInv /\ [Next]_vars => [result_valid /\ result_valid' => held' = held]_vars
    BY StepKeepsContract
  <1> QED
    BY <1>1, StreamInvariance, PTL DEF Spec, HeldResultStable

(* Adapter, pipeline and runner implement the contract RtlStream. *)
THEOREM AdapterImplementsStream == Spec => ImplementsStream
  <1>1. Init => Stream!Init
    BY DEF Init, PipelineReset, Stream!Init, StageBar, NoResult
  <1>2. StreamInv /\ [Next]_vars => [Stream!Next]_(Stream!streamVars)
    BY StepKeepsContract
  <1> QED
    BY <1>1, <1>2, StreamInvariance, PTL DEF Spec, ImplementsStream, Stream!Spec
-----------------------------------------------------------------------------
(* The registers and the reference model. *)

(* The pipeline's registers, read as the members of a ReferenceModel. *)
registers ==
  [error |-> event_error, midpoint |-> book_midpoint, prior_midpoint |-> prior_midpoint,
   window |-> window, features |-> features, signal |-> signal, signals |-> next_signal_index]

(* The reference model has processed an event that the book still holds, or *)
(* that is done but not yet counted in the window.                          *)
in_book == book_clocks > 0 \/ book_done

Entries == [0 .. WindowSize - 1 -> [flow : Int, change : Int]]

DataTypeOK ==
  /\ window \in [entries : Entries, next : 0 .. WindowSize - 1, size : Nat,
                 flow_sum : Int, change_sum : Int]
  /\ book_midpoint \in Midpoint /\ prior_midpoint \in Midpoint /\ book_flow \in Int

(* What the book holds belongs to one event, from ST_FINISH on with its     *)
(* outcome.                                                                 *)
BookHolds ==
  in_book =>
    /\ book_event \in Event
    /\ accepted_timestamp = book_event.timestamp
    /\ book_clocks <= 1 =>
         /\ book_error = book_event.error
         /\ book_flow = IF book_event.error THEN 0 ELSE book_event.flow
         /\ ~book_event.error => book_midpoint = book_event.midpoint

(* At each place of the event, what the reference model has and the         *)
(* registers still lack.                                                    *)
Tracks ==
  /\ in_book => reference = process(registers, book_event, [w \in Word |-> version])
  /\ ~in_book /\ pipeline_state = "EMIT_FEATURE" =>
       reference = [error |-> FALSE, midpoint |-> book_midpoint,
                    prior_midpoint |-> prior_midpoint, window |-> window, features |-> features,
                    signal |-> evaluate_strategy(accepted_timestamp, next_signal_index,
                                                 features, active),
                    signals |-> next_signal_index + 1]
  /\ ~in_book /\ pipeline_state # "EMIT_FEATURE" => reference = registers

(* Only a good event reaches the strategy. *)
ErrorKept == pipeline_state = "EMIT_FEATURE" => event_error = FALSE

StampInv == event_in_flight => stream_timestamp = next_stream_index

DataInv ==
  /\ DataTypeOK
  /\ BookHolds
  /\ Tracks
  /\ ErrorKept
  /\ StampInv
  /\ ResultMatchesReference

(* The rolling sums of feature_window.sv, which subtract what is dropped    *)
(* (0 when nothing is), are those of FeatureWindow::push().                 *)
LEMMA WindowPushes ==
  ASSUME DataTypeOK, window_push, WindowClock
  PROVE  /\ window' = push(window, [flow |-> book_flow,
                                    change |-> midpoint_change(prior_midpoint, book_midpoint)])
         /\ window' \in [entries : Entries, next : 0 .. WindowSize - 1, size : Nat,
                         flow_sum : Int, change_sum : Int]
  <1> DEFINE change == midpoint_change(prior_midpoint, book_midpoint)
             entry == [flow |-> book_flow, change |-> change]
             old == window.entries[window.next]
  <1>1. change \in Int /\ book_flow \in Int
    BY ReferenceAssumption DEF DataTypeOK, midpoint_change, Midpoint, NoMidpoint
  <1>2. /\ window.entries \in Entries /\ window.next \in 0 .. WindowSize - 1
        /\ window.size \in Nat /\ window.flow_sum \in Int /\ window.change_sum \in Int
    BY DEF DataTypeOK
  <1>3. old.flow \in Int /\ old.change \in Int
    BY <1>2 DEF Entries
  <1>4. /\ window.flow_sum - dropped.flow + book_flow
             = (IF window.size = WindowSize THEN window.flow_sum - old.flow ELSE window.flow_sum)
               + book_flow
        /\ window.change_sum - dropped.change + change
             = (IF window.size = WindowSize THEN window.change_sum - old.change
                ELSE window.change_sum) + change
    BY <1>1, <1>2, <1>3 DEF dropped, window_full
  <1>5. window' = [entries |-> [window.entries EXCEPT ![window.next] = entry],
                   next |-> (window.next + 1) % WindowSize,
                   size |-> IF window_full THEN window.size ELSE window.size + 1,
                   flow_sum |-> window.flow_sum - dropped.flow + entry.flow,
                   change_sum |-> window.change_sum - dropped.change + entry.change]
    BY DEF WindowClock
  <1>6. window' = push(window, entry)
    BY <1>4, <1>5 DEF push, window_full
  <1>7. [window.entries EXCEPT ![window.next] = entry] \in Entries
    BY <1>1, <1>2 DEF Entries
  <1>8. (window.next + 1) % WindowSize \in 0 .. WindowSize - 1
    BY <1>2, ReferenceAssumption
  <1>9. /\ (IF window_full THEN window.size ELSE window.size + 1) \in Nat
        /\ window.flow_sum - dropped.flow + entry.flow \in Int
        /\ window.change_sum - dropped.change + entry.change \in Int
    BY <1>1, <1>2, <1>3 DEF dropped, window_full
  <1> QED
    BY <1>5, <1>6, <1>7, <1>8, <1>9

(* What process() makes of a rejected event. *)
LEMMA MarkedRejected ==
  ASSUME NEW r, NEW e,
         r = [error |-> r.error, midpoint |-> r.midpoint, prior_midpoint |-> r.prior_midpoint,
              window |-> r.window, features |-> r.features, signal |-> r.signal,
              signals |-> r.signals]
  PROVE  [r EXCEPT !.error = e]
              = [error |-> e, midpoint |-> r.midpoint, prior_midpoint |-> r.prior_midpoint,
                 window |-> r.window, features |-> r.features, signal |-> r.signal,
                 signals |-> r.signals]
  <1> DEFINE left == [r EXCEPT !.error = e]
             right == [error |-> e, midpoint |-> r.midpoint, prior_midpoint |-> r.prior_midpoint,
                       window |-> r.window, features |-> r.features, signal |-> r.signal,
                       signals |-> r.signals]
             fields == {"error", "midpoint", "prior_midpoint", "window", "features", "signal",
                        "signals"}
  <1>1. DOMAIN left = fields /\ DOMAIN right = fields
    OBVIOUS
  <1>2. \A f \in fields : left[f] = right[f]
    OBVIOUS
  <1>3. left = [f \in fields |-> left[f]] /\ right = [f \in fields |-> right[f]]
    OBVIOUS
  <1> HIDE DEF left, right, fields
  <1>4. left = right
    BY <1>2, <1>3
  <1> QED
    BY <1>4 DEF left, right

(* A clock in which no event enters, register by register. *)
LEMMA QuietRegisters ==
  ASSUME PlaceInv, NEW offer, NEW ready, NEW write, NEW commit, ~in_ready \/ offer = {},
         AdapterClock(offer, ready, write, commit)
  PROVE  /\ BookClock({}) /\ WindowClock /\ (WaitBook \/ BookDone \/ EmitFeature \/ EmitError)
         /\ UNCHANGED <<accepted_timestamp, stream_timestamp>>
         /\ strategy_evaluate => signal' = evaluate_strategy(accepted_timestamp, next_signal_index,
                                                             features, active)
         /\ ~strategy_evaluate => signal' = signal
         /\ event_done => held' = [index |-> stream_index, timestamp |-> stream_timestamp,
                                   error |-> event_error, features |-> features,
                                   midpoint |-> book_midpoint]
  <1>1. /\ PipelineClock({}, write, commit)
        /\ stream_timestamp' = stream_timestamp
        /\ event_done => held' = [index |-> stream_index, timestamp |-> stream_timestamp,
                                  error |-> event_error, features |-> features,
                                  midpoint |-> book_midpoint]
    BY DEF AdapterClock
  <1>2. BookClock({}) /\ WindowClock /\ StrategyClock(write, commit) /\ StateClock({})
    BY <1>1 DEF PipelineClock
  <1> QED
    BY <1>1, <1>2 DEF StateClock, StrategyClock

(* While the book works on an event the registers stay, up to the live      *)
(* book's, which the reference model does not read for a good event.        *)
LEMMA BookWorks ==
  ASSUME PlaceInv, DataInv, book_clocks > 0, version' = version, reference' = reference,
         NEW offer, NEW ready, NEW write, NEW commit,
         AdapterClock(offer, ready, write, commit)
  PROVE  DataTypeOK' /\ BookHolds' /\ Tracks' /\ ErrorKept'
  <1>0. ~in_ready
    BY Limits DEF PlaceInv, PlaceTypeOK, in_ready, pipeline_in_ready, core_in_ready
  <1>1. ~book_done /\ pipeline_state = "WAIT_BOOK" /\ in_book
    BY DEF PlaceInv, OnePlace, in_book
  <1>2. /\ BookClock({}) /\ WindowClock /\ (WaitBook \/ BookDone \/ EmitFeature \/ EmitError)
        /\ accepted_timestamp' = accepted_timestamp
        /\ ~strategy_evaluate => signal' = signal
    BY <1>0, QuietRegisters
  <1>3. UNCHANGED <<window, signal, event_error, prior_midpoint, next_signal_index>>
    BY <1>1, <1>2 DEF WindowClock, window_push, strategy_evaluate, WaitBook, BookDone,
       EmitFeature, EmitError
  <1>4. \/ BookWork \/ BookCommit \/ BookFinish
    BY <1>2 DEF BookClock, BookIdle, BookAccept
  <1>5. in_book' /\ book_event' = book_event
    <2>1. CASE BookWork
      BY <2>1 DEF BookWork, in_book, PlaceInv, PlaceTypeOK
    <2>2. CASE BookCommit
      BY <2>2 DEF BookCommit, in_book
    <2>3. CASE BookFinish
      BY <2>3 DEF BookFinish, in_book
    <2> QED
      BY <1>4, <2>1, <2>2, <2>3
  <1>6. /\ book_event \in Event /\ accepted_timestamp = book_event.timestamp
        /\ book_clocks <= 1 =>
             /\ book_error = book_event.error
             /\ book_flow = IF book_event.error THEN 0 ELSE book_event.flow
             /\ ~book_event.error => book_midpoint = book_event.midpoint
    BY <1>1 DEF DataInv, BookHolds
  <1>7. book_event.midpoint \in Midpoint /\ book_event.flow \in Int /\ book_event.error \in BOOLEAN
    BY <1>6, PipelineAssumption DEF Event
  <1>8. book_midpoint' \in Midpoint /\ book_flow' \in Int
    BY <1>4, <1>7 DEF DataInv, DataTypeOK, BookWork, BookCommit, BookFinish
  <1>9. DataTypeOK'
    BY <1>3, <1>8 DEF DataInv, DataTypeOK
  <1>10. BookHolds'
    <2>1. book_clocks' <= 1 =>
             /\ book_error' = book_event.error
             /\ book_flow' = IF book_event.error THEN 0 ELSE book_event.flow
             /\ ~book_event.error => book_midpoint' = book_event.midpoint
      <3>1. CASE BookWork
        BY <3>1 DEF BookWork, PlaceInv, PlaceTypeOK
      <3>2. CASE BookCommit
        BY <3>2 DEF BookCommit
      <3>3. CASE BookFinish
        BY <1>6, <3>3 DEF BookFinish
      <3> QED
        BY <1>4, <3>1, <3>2, <3>3
    <2> QED
      BY <1>2, <1>5, <1>6, <2>1 DEF BookHolds
  <1>11. process(registers', book_event, [w \in Word |-> version])
           = process(registers, book_event, [w \in Word |-> version])
    <2>1. book_event.error => book_midpoint' = book_midpoint
      BY <1>4 DEF BookWork, BookCommit, BookFinish
    <2>2. CASE book_event.error
      <3>1. registers' = registers
        BY <1>3, <2>1, <2>2 DEF registers, features
      <3> QED
        BY <3>1
    <2>3. CASE ~book_event.error
      <3>1. /\ registers'.window = registers.window
            /\ registers'.prior_midpoint = registers.prior_midpoint
            /\ registers'.signals = registers.signals
        BY <1>3 DEF registers
      <3> QED
        BY <2>3, <3>1 DEF process
    <2> QED
      BY <2>2, <2>3
  <1>12. Tracks'
    BY <1>1, <1>5, <1>11 DEF DataInv, Tracks
  <1>13. ErrorKept'
    BY <1>1, <1>2 DEF ErrorKept, WaitBook, BookDone, EmitFeature, EmitError
  <1> QED
    BY <1>9, <1>10, <1>12, <1>13

(* The book is done: the window and the midpoint before are brought up to   *)
(* date, and the signal alone is missing.                                   *)
LEMMA BookReports ==
  ASSUME PlaceInv, DataInv, book_done, version' = version, reference' = reference,
         active' = [w \in Word |-> version],
         NEW offer, NEW ready, NEW write, NEW commit,
         AdapterClock(offer, ready, write, commit), ~in_ready
  PROVE  DataTypeOK' /\ BookHolds' /\ Tracks' /\ ErrorKept'
  <1>1. book_clocks = 0 /\ pipeline_state = "WAIT_BOOK" /\ in_book
    BY DEF PlaceInv, PlaceTypeOK, OnePlace, in_book
  <1>2. /\ BookClock({}) /\ WindowClock /\ (WaitBook \/ BookDone \/ EmitFeature \/ EmitError)
        /\ accepted_timestamp' = accepted_timestamp
        /\ ~strategy_evaluate => signal' = signal
    BY QuietRegisters
  <1>3. /\ book_clocks' = 0 /\ book_done' = FALSE
        /\ UNCHANGED <<book_event, book_error, book_flow, book_midpoint>>
    BY <1>1, <1>2 DEF BookClock, BookIdle, BookAccept, BookWork, BookCommit, BookFinish
  <1>4. /\ signal' = signal
        /\ event_error' = book_error
        /\ prior_midpoint' = IF ~book_error /\ book_midpoint # NoMidpoint
                               THEN book_midpoint ELSE prior_midpoint
        /\ pipeline_state' = IF book_error THEN "EMIT_ERROR" ELSE "EMIT_FEATURE"
        /\ next_signal_index' = next_signal_index
    BY <1>1, <1>2 DEF strategy_evaluate, WaitBook, BookDone, EmitFeature, EmitError
  <1>5. ~in_book'
    BY <1>3 DEF in_book
  <1>6. /\ book_event \in Event /\ accepted_timestamp = book_event.timestamp
        /\ book_error = book_event.error
        /\ book_flow = IF book_event.error THEN 0 ELSE book_event.flow
        /\ ~book_event.error => book_midpoint = book_event.midpoint
    BY <1>1 DEF DataInv, BookHolds
  <1>7. book_error \in BOOLEAN
    BY <1>6, PipelineAssumption DEF Event
  <1>8. reference = process(registers, book_event, [w \in Word |-> version])
    BY <1>1 DEF DataInv, Tracks
  <1>9. BookHolds'
    BY <1>5 DEF BookHolds
  <1>10. CASE book_error
    <2>1. window' = window /\ prior_midpoint' = prior_midpoint
      BY <1>2, <1>4, <1>10 DEF WindowClock, window_push
    <2>2. DataTypeOK'
      BY <1>3, <2>1 DEF DataInv, DataTypeOK
    <2>3. registers' = [registers EXCEPT !.error = TRUE]
      <3>1. event_error' = TRUE
        BY <1>4, <1>7, <1>10
      <3>2. features' = features
        BY <1>3, <2>1 DEF features
      <3>3. [registers EXCEPT !.error = TRUE]
              = [error |-> TRUE, midpoint |-> book_midpoint, prior_midpoint |-> prior_midpoint,
                 window |-> window, features |-> features, signal |-> signal,
                 signals |-> next_signal_index]
        <4>1. /\ registers.error = event_error /\ registers.midpoint = book_midpoint
              /\ registers.prior_midpoint = prior_midpoint /\ registers.window = window
              /\ registers.features = features /\ registers.signal = signal
              /\ registers.signals = next_signal_index
          BY DEF registers
        <4>2. registers = [error |-> registers.error, midpoint |-> registers.midpoint,
                           prior_midpoint |-> registers.prior_midpoint,
                           window |-> registers.window, features |-> registers.features,
                           signal |-> registers.signal, signals |-> registers.signals]
          BY <4>1, Zenon DEF registers
        <4>3. [registers EXCEPT !.error = TRUE]
                = [error |-> TRUE, midpoint |-> registers.midpoint,
                   prior_midpoint |-> registers.prior_midpoint, window |-> registers.window,
                   features |-> registers.features, signal |-> registers.signal,
                   signals |-> registers.signals]
          BY <4>2, MarkedRejected, Zenon
        <4> QED
          BY <4>1, <4>3, Zenon
      <3> QED
        BY <1>3, <1>4, <2>1, <3>1, <3>2, <3>3, Zenon DEF registers
    <2>4. reference = [registers EXCEPT !.error = TRUE]
      BY <1>6, <1>8, <1>10 DEF process
    <2> QED
      BY <1>4, <1>5, <1>9, <1>10, <2>2, <2>3, <2>4 DEF Tracks, ErrorKept
  <1>11. CASE ~book_error
    <2> DEFINE entry == [flow |-> book_flow,
                         change |-> midpoint_change(prior_midpoint, book_midpoint)]
    <2>1. /\ window' = push(window, entry)
          /\ window' \in [entries : Entries, next : 0 .. WindowSize - 1, size : Nat,
                          flow_sum : Int, change_sum : Int]
      BY <1>1, <1>2, <1>11, WindowPushes DEF DataInv, window_push
    <2>2. DataTypeOK'
      BY <1>3, <1>4, <2>1 DEF DataInv, DataTypeOK
    <2>3. book_flow = book_event.flow /\ book_midpoint = book_event.midpoint
      BY <1>6, <1>11
    <2>4. features' = calculate_features(book_midpoint, push(window, entry))
      BY <1>3, <2>1 DEF features
    <2>5. reference = [error |-> FALSE, midpoint |-> book_midpoint,
                       prior_midpoint |-> IF book_midpoint # NoMidpoint
                                            THEN book_midpoint ELSE prior_midpoint,
                       window |-> push(window, entry),
                       features |-> calculate_features(book_midpoint, push(window, entry)),
                       signal |-> evaluate_strategy(accepted_timestamp, next_signal_index,
                                    calculate_features(book_midpoint, push(window, entry)),
                                    [w \in Word |-> version]),
                       signals |-> next_signal_index + 1]
      BY <1>6, <1>8, <1>11, <2>3 DEF process, registers
    <2>6. reference = [error |-> FALSE, midpoint |-> book_midpoint',
                       prior_midpoint |-> prior_midpoint', window |-> window',
                       features |-> features',
                       signal |-> evaluate_strategy(accepted_timestamp', next_signal_index',
                                                    features', active'),
                       signals |-> next_signal_index' + 1]
      <3>1. /\ accepted_timestamp' = accepted_timestamp /\ next_signal_index' = next_signal_index
            /\ active' = [w \in Word |-> version]
            /\ features' = calculate_features(book_midpoint, push(window, entry))
            /\ window' = push(window, entry) /\ book_midpoint' = book_midpoint
            /\ prior_midpoint' = IF book_midpoint # NoMidpoint
                                   THEN book_midpoint ELSE prior_midpoint
        BY <1>2, <1>3, <1>4, <1>11, <2>1, <2>4
      <3> HIDE DEF entry
      <3> QED
        BY <2>5, <3>1, Zenon
    <2> QED
      <3>1. ErrorKept'
        BY <1>4, <1>7, <1>11 DEF ErrorKept
      <3> QED
        BY <1>4, <1>5, <1>9, <1>11, <2>2, <2>6, <3>1 DEF Tracks
  <1> QED
    BY <1>10, <1>11

(* The event is emitted, or nothing moves: then the registers are the       *)
(* reference model's.                                                       *)
LEMMA EventEmitted ==
  ASSUME PlaceInv, DataInv, ~in_book, reference' = reference,
         NEW offer, NEW ready, NEW write, NEW commit, ~in_ready \/ offer = {},
         AdapterClock(offer, ready, write, commit)
  PROVE  /\ DataTypeOK' /\ BookHolds' /\ Tracks'
         /\ ~in_book' /\ pipeline_state' = "WAIT_BOOK" /\ reference' = registers'
  <1>1. book_clocks = 0 /\ ~book_done
    BY DEF PlaceInv, PlaceTypeOK, in_book
  <1>2. /\ BookClock({}) /\ WindowClock /\ (WaitBook \/ BookDone \/ EmitFeature \/ EmitError)
        /\ strategy_evaluate => signal' = evaluate_strategy(accepted_timestamp, next_signal_index,
                                                            features, active)
        /\ ~strategy_evaluate => signal' = signal
    BY QuietRegisters
  <1>3. /\ book_clocks' = 0 /\ book_done' = FALSE
        /\ UNCHANGED <<book_event, book_error, book_flow, book_midpoint>>
    BY <1>1, <1>2 DEF BookClock, BookIdle, BookAccept, BookWork, BookCommit, BookFinish
  <1>4. window' = window
    BY <1>1, <1>2 DEF WindowClock, window_push
  <1>5. /\ UNCHANGED <<event_error, prior_midpoint>>
        /\ pipeline_state' = "WAIT_BOOK"
        /\ pipeline_state = "EMIT_FEATURE" => next_signal_index' = next_signal_index + 1
        /\ pipeline_state # "EMIT_FEATURE" => next_signal_index' = next_signal_index
    BY <1>1, <1>2 DEF WaitBook, BookDone, EmitFeature, EmitError
  <1>6. ~in_book'
    BY <1>3 DEF in_book
  <1>7. DataTypeOK' /\ BookHolds'
    BY <1>3, <1>4, <1>5, <1>6 DEF DataInv, DataTypeOK, BookHolds
  <1>8. features' = features
    BY <1>3, <1>4 DEF features
  <1>9. CASE pipeline_state = "EMIT_FEATURE"
    <2>1. event_error = FALSE
      BY <1>9 DEF DataInv, ErrorKept
    <2>2. reference = [error |-> FALSE, midpoint |-> book_midpoint,
                       prior_midpoint |-> prior_midpoint, window |-> window,
                       features |-> features,
                       signal |-> evaluate_strategy(accepted_timestamp, next_signal_index,
                                                    features, active),
                       signals |-> next_signal_index + 1]
      BY <1>9 DEF DataInv, Tracks
    <2>3. signal' = evaluate_strategy(accepted_timestamp, next_signal_index, features, active)
      BY <1>2, <1>9 DEF strategy_evaluate
    <2>4. reference = registers'
      BY <1>3, <1>4, <1>5, <1>8, <1>9, <2>1, <2>2, <2>3, Zenon DEF registers
    <2> QED
      BY <1>5, <1>6, <1>7, <2>4 DEF Tracks
  <1>10. CASE pipeline_state # "EMIT_FEATURE"
    <2>1. reference = registers
      BY <1>10 DEF DataInv, Tracks
    <2>2. registers' = registers
      BY <1>2, <1>3, <1>4, <1>5, <1>8, <1>10 DEF registers, strategy_evaluate
    <2> QED
      BY <1>5, <1>6, <1>7, <2>1, <2>2 DEF Tracks
  <1> QED
    BY <1>9, <1>10

(* The adapter captures the pins in the clock after event_done: they still  *)
(* show that event.                                                         *)
LEMMA ResultCaptured ==
  ASSUME PlaceInv, DataInv, reference' = reference,
         NEW offer, NEW ready, NEW write, NEW commit, ~in_ready \/ offer = {},
         AdapterClock(offer, ready, write, commit)
  PROVE  StampInv' /\ ResultMatchesReference'
  <1>1. /\ PlaceInv' /\ next_stream_index' = next_stream_index
        /\ ~event_done => held' = held /\ event_in_flight' = event_in_flight
        /\ ~event_done => (result_valid' => result_valid)
        /\ event_done => result_valid'
    BY QuietClock
  <1>2. /\ stream_timestamp' = stream_timestamp
        /\ event_done => held' = [index |-> stream_index, timestamp |-> stream_timestamp,
                                  error |-> event_error, features |-> features,
                                  midpoint |-> book_midpoint]
    BY QuietRegisters
  <1>3. CASE ~event_done
    BY <1>1, <1>2, <1>3 DEF DataInv, StampInv, ResultMatchesReference
  <1>4. CASE event_done
    <2>1. ~event_in_flight'
      BY <1>1, <1>4 DEF PlaceInv, OneEvent
    <2>2. /\ stream_index = next_stream_index - 1 /\ stream_timestamp = next_stream_index
          /\ ~in_book /\ pipeline_state # "EMIT_FEATURE"
      BY <1>4, Limits DEF PlaceInv, PlaceTypeOK, OnePlace, OneEvent, DataInv, StampInv, in_book
    <2>3. reference = registers
      BY <2>2 DEF DataInv, Tracks
    <2>4. /\ reference.error = event_error /\ reference.features = features
          /\ reference.midpoint = book_midpoint
      BY <2>3 DEF registers
    <2>5. ResultMatchesReference'
      BY <1>1, <1>2, <1>4, <2>2, <2>4, Zenon DEF ResultMatchesReference
    <2> QED
      BY <2>1, <2>5 DEF StampInv
  <1> QED
    BY <1>3, <1>4

(* An event enters: the reference model is one event ahead. *)
LEMMA EventEnters ==
  ASSUME PlaceInv, DataInv, in_ready, NEW event \in NextEvents, NEW ready, NEW write, NEW commit,
         AdapterClock({event}, ready, write, commit), version' = version,
         reference' = process(reference, event, [w \in Word |-> version])
  PROVE  DataInv'
  <1>1. /\ book_clocks = 0 /\ ~book_done /\ pipeline_state = "WAIT_BOOK"
        /\ ~event_done /\ ~event_in_flight /\ ~result_valid
    BY ReadyMeansEmpty
  <1>2. /\ ~result_valid' /\ next_stream_index' = next_stream_index + 1
        /\ book_clocks' \in MinBookClocks .. MaxBookClocks /\ pipeline_state' = "WAIT_BOOK"
    BY EntryClock
  <1>3. /\ PipelineClock({event}, write, commit)
        /\ stream_timestamp' = event.timestamp
    BY DEF AdapterClock
  <1>4. /\ BookClock({event}) /\ WindowClock /\ StateClock({event}) /\ StrategyClock(write, commit)
    BY <1>3 DEF PipelineClock
  <1>5. /\ book_event' = event /\ book_midpoint' = book_midpoint /\ book_flow' = 0
    BY <1>1, <1>4 DEF BookClock, BookIdle, BookAccept, BookWork, BookCommit, BookFinish
  <1>6. window' = window /\ signal' = signal
    BY <1>1, <1>4 DEF WindowClock, window_push, StrategyClock, strategy_evaluate
  <1>7. /\ UNCHANGED <<event_error, prior_midpoint, next_signal_index>>
        /\ accepted_timestamp' = event.timestamp
    BY <1>1, <1>4 DEF StateClock, WaitBook, BookDone, EmitFeature, EmitError,
       pipeline_in_ready, core_in_ready
  <1>8. registers' = registers
    <2>1. features' = features
      BY <1>5, <1>6 DEF features
    <2> QED
      BY <1>5, <1>6, <1>7, <2>1 DEF registers
  <1>9. in_book' /\ book_clocks' > 1
    BY <1>2, Limits DEF in_book
  <1>10. event \in Event /\ event.timestamp = next_stream_index + 1
    BY DEF NextEvents
  <1>11. reference = registers
    BY <1>1 DEF DataInv, Tracks, in_book
  <1>12. DataTypeOK'
    BY <1>5, <1>6, <1>7 DEF DataInv, DataTypeOK
  <1>13. BookHolds'
    BY <1>2, <1>5, <1>7, <1>9, <1>10, Limits DEF BookHolds
  <1>14. Tracks'
    BY <1>5, <1>8, <1>9, <1>11 DEF Tracks
  <1>15. StampInv'
    BY <1>2, <1>3, <1>10 DEF StampInv
  <1>16. ResultMatchesReference'
    BY <1>2 DEF ResultMatchesReference
  <1>17. ErrorKept'
    BY <1>2 DEF ErrorKept
  <1> QED
    BY <1>12, <1>13, <1>14, <1>15, <1>16, <1>17 DEF DataInv

(* While an event is in the book the bank in use is the model last written. *)
LEMMA BookUsesLastModel ==
  ASSUME StreamInv, in_book
  PROVE  ~in_ready /\ active = [w \in Word |-> version]
  <1>1. PlaceInv /\ RunnerTypeOK
    BY InvPlace, InvParts
  <1>2. event_in_flight /\ ~event_done /\ ~result_valid
    BY <1>1 DEF PlaceInv, PlaceTypeOK, OnePlace, OneEvent, in_book
  <1>3. ~in_ready
    BY <1>2 DEF in_ready
  <1>4. runner_pc \notin {"write", "pause", "commit"}
    BY <1>2, <1>3 DEF StreamInv, WaitsAreShort, WaitingPlaces
  <1>5. model_version = version
    BY <1>4 DEF StreamInv, UploadInOrder
  <1> QED
    BY <1>1, <1>3, <1>5 DEF StreamInv, ActiveBankIsOneModel, RunnerTypeOK

(* Every clock without a new event. *)
LEMMA QuietData ==
  ASSUME StreamInv, DataInv, reference' = reference,
         NEW offer, NEW ready, NEW write, NEW commit, ~in_ready \/ offer = {},
         AdapterClock(offer, ready, write, commit),
         in_book => version' = version /\ active' = active
  PROVE  DataInv'
  <1>0. PlaceInv
    BY InvPlace
  <1>1. StampInv' /\ ResultMatchesReference'
    BY <1>0, ResultCaptured
  <1>2. CASE book_clocks > 0
    BY <1>0, <1>1, <1>2, BookWorks DEF DataInv, in_book
  <1>3. CASE book_done
    BY <1>0, <1>1, <1>3, BookReports, BookUsesLastModel DEF DataInv, in_book
  <1>4. CASE ~in_book
    BY <1>0, <1>1, <1>4, EventEmitted DEF DataInv, ErrorKept
  <1> QED
    BY <1>2, <1>3, <1>4 DEF in_book

(* When the event is out of the book and past the strategy, the pins show   *)
(* what the reference model does.                                           *)
LEMMA PinsShowReference ==
  ASSUME StreamInv', DataInv', in_ready' \/ event_done', runner_pc' = "ready"
  PROVE  snapshot' = reference_snapshot'
  <1>1. book_clocks' = 0 /\ ~book_done' /\ pipeline_state' = "WAIT_BOOK"
    BY Limits DEF StreamInv, ControlTypeOK, OnePlace, OneEvent, in_ready, pipeline_in_ready,
       core_in_ready
  <1>2. reference' = registers'
    BY <1>1 DEF DataInv, Tracks, in_book
  <1>3. model_version' = version'
    BY DEF StreamInv, UploadInOrder
  <1>4. /\ reference'.error = event_error' /\ reference'.features = features'
        /\ reference'.signal = signal'
    BY <1>2 DEF registers
  <1> QED
    BY <1>3, <1>4, Zenon DEF snapshot, reference_snapshot

LEMMA InitData ==
  Init => DataInv /\ LatestMatchesReference
  <1> SUFFICES ASSUME Init PROVE DataInv /\ LatestMatchesReference
    OBVIOUS
  <1> USE DEF Init, PipelineReset
  <1>1. ~in_book
    BY DEF in_book
  <1>2. DataTypeOK
    <2>1. 0 \in 0 .. WindowSize - 1 /\ 0 \in Midpoint
      BY ReferenceAssumption DEF Midpoint, NoMidpoint
    <2>2. EmptyWindow \in [entries : Entries, next : 0 .. WindowSize - 1, size : Nat,
                           flow_sum : Int, change_sum : Int]
      BY <2>1 DEF EmptyWindow, Entries
    <2> QED
      BY <2>1, <2>2 DEF DataTypeOK, NoMidpoint
  <1>3. reference = registers
    <2>1. features = NoFeatures
      BY DEF features, calculate_features
    <2> QED
      BY <2>1, Zenon DEF registers, FreshReference
  <1> QED
    BY <1>1, <1>2, <1>3 DEF DataInv, BookHolds, Tracks, ErrorKept, StampInv,
       ResultMatchesReference, LatestMatchesReference

(* step(): an event enters, or a clock passes and a result may be taken. *)
LEMMA StepData ==
  ASSUME StreamInv, DataInv, LatestMatchesReference, StepIdle \/ StepOffer
  PROVE  DataInv' /\ LatestMatchesReference'
  <1>0. PlaceInv /\ ControlTypeOK /\ StreamInv'
    BY InvPlace, StepInv DEF StreamInv
  <1>1. PICK accept :
          /\ streaming /\ runner_pc = "ready"
          /\ UNCHANGED <<streaming, runner_pc, version>>
          /\ latest' = IF result_valid /\ accept THEN snapshot' ELSE latest
          /\ \/ AdapterClock({}, accept, {}, FALSE) /\ ReferenceFollows({})
             \/ /\ in_ready
                /\ \E event \in NextEvents :
                     AdapterClock({event}, accept, {}, FALSE) /\ ReferenceFollows({event})
    BY DEF StepIdle, StepOffer, step
  <1>2. CASE AdapterClock({}, accept, {}, FALSE) /\ ReferenceFollows({})
    <2>1. reference' = reference
      BY <1>2 DEF ReferenceFollows
    <2>2. active' = active
      BY <1>0, <1>2, QuietBanks DEF AdapterClock, PipelineClock
    <2>3. DataInv'
      BY <1>1, <1>2, <2>1, <2>2, QuietData
    <2>4. ASSUME in_ready' PROVE latest' = reference_snapshot'
      <3>1. /\ PlaceInv'
            /\ event_done => result_valid'
            /\ ~event_done => event_in_flight' = event_in_flight
        BY <1>0, <1>2, QuietClock
      <3>2. ~event_done /\ ~result_valid' => ~result_valid \/ accept
        BY <1>2, Zenon DEF AdapterClock
      <3>3. ~event_in_flight' /\ ~result_valid'
        BY <2>4, <3>1, ReadyIffEmpty
      <3>4. ~event_done /\ ~event_in_flight
        BY <3>1, <3>3 DEF PlaceInv, PlaceTypeOK
      <3>5. CASE result_valid
        <4>1. latest' = snapshot'
          BY <1>1, <3>3, <3>4, <3>5, <3>2, Zenon
        <4> QED
          BY <1>0, <1>1, <2>3, <2>4, <4>1, PinsShowReference
      <3>6. CASE ~result_valid
        <4>1. in_ready
          BY <1>0, <3>4, <3>6, ReadyIffEmpty
        <4>2. latest' = latest
          BY <1>1, <3>6
        <4> QED
          BY <1>1, <2>1, <4>1, <4>2 DEF LatestMatchesReference, reference_snapshot
      <3> QED
        BY <3>5, <3>6
    <2> QED
      BY <1>1, <2>3, <2>4 DEF LatestMatchesReference
  <1>3. CASE /\ in_ready
             /\ \E event \in NextEvents :
                  AdapterClock({event}, accept, {}, FALSE) /\ ReferenceFollows({event})
    <2>1. PICK event \in NextEvents :
            AdapterClock({event}, accept, {}, FALSE) /\ ReferenceFollows({event})
      BY <1>3
    <2>2. reference' = process(reference, event, [w \in Word |-> version])
      BY <1>3, <2>1 DEF ReferenceFollows
    <2>3. DataInv'
      BY <1>0, <1>1, <1>3, <2>1, <2>2, EventEnters
    <2>4. event_in_flight'
      BY <1>0, <1>3, <2>1, EntryClock
    <2> QED
      BY <1>1, <2>3, <2>4 DEF LatestMatchesReference, in_ready
  <1> QED
    BY <1>1, <1>2, <1>3

(* The clocks of the runner's loops. *)
LEMMA TickData ==
  ASSUME StreamInv, DataInv, LatestMatchesReference, StreamInv',
         wait_until_ready \/ PauseAfterWord \/ CheckCommit \/ ProcessTick
  PROVE  DataInv' /\ LatestMatchesReference'
  <1>1. Tick
    BY DEF wait_until_ready, PauseAfterWord, CheckCommit, ProcessTick
  <1>2. active' = active /\ reference' = reference /\ version' = version
    BY <1>1, TickKeeps DEF Tick
  <1>3. DataInv'
    BY <1>1, <1>2, QuietData DEF Tick
  <1>4. CASE wait_until_ready \/ PauseAfterWord
    BY <1>3, <1>4 DEF wait_until_ready, PauseAfterWord, WaitingPlaces, LatestMatchesReference
  <1>5. CASE CheckCommit
    <2>1. in_ready
      BY <1>5 DEF CheckCommit, StreamInv, WaitsAreShort
    <2>2. in_ready' /\ latest' = snapshot'
      BY <1>1, <1>5, <2>1, TickKeeps DEF CheckCommit
    <2> QED
      BY <1>3, <2>2, PinsShowReference DEF LatestMatchesReference
  <1>6. CASE ProcessTick
    <2>1. /\ runner_pc' = "ready" => event_done'
          /\ event_done' => latest' = snapshot'
      BY <1>6 DEF ProcessTick
    <2> QED
      BY <1>3, <2>1, PinsShowReference DEF LatestMatchesReference
  <1> QED
    BY <1>4, <1>5, <1>6

(* The upload's own clocks, the event of process(), and the calls' first    *)
(* lines.                                                                   *)
LEMMA CallData ==
  ASSUME StreamInv, DataInv, LatestMatchesReference,
         \/ WriteWord \/ CommitBank \/ ProcessOffer \/ BeginWrite \/ BeginProcess
         \/ UNCHANGED vars
  PROVE  DataInv' /\ LatestMatchesReference'
  <1>0. PlaceInv
    BY InvPlace
  <1>1. CASE WriteWord \/ CommitBank
    <2>1. in_ready /\ reference' = reference /\ runner_pc' # "ready"
      BY <1>1 DEF WriteWord, CommitBank
    <2>2. ~in_book
      BY <1>0, <2>1, ReadyMeansEmpty DEF in_book
    <2>3. PICK write, commit : AdapterClock({}, result_ready, write, commit)
      BY <1>1 DEF WriteWord, CommitBank
    <2> QED
      BY <2>1, <2>2, <2>3, QuietData DEF LatestMatchesReference
  <1>2. CASE ProcessOffer
    <2>1. /\ in_ready /\ version' = version /\ runner_pc' # "ready"
          /\ \E event \in NextEvents :
               AdapterClock({event}, result_ready, {}, FALSE) /\ ReferenceFollows({event})
      BY <1>2 DEF ProcessOffer
    <2>2. PICK event \in NextEvents :
            AdapterClock({event}, result_ready, {}, FALSE) /\ ReferenceFollows({event})
      BY <2>1
    <2>3. reference' = process(reference, event, [w \in Word |-> version])
      BY <2>1, <2>2 DEF ReferenceFollows
    <2> QED
      BY <1>0, <2>1, <2>2, <2>3, EventEnters DEF LatestMatchesReference
  <1>3. CASE BeginWrite \/ BeginProcess \/ UNCHANGED vars
    <2>1. UNCHANGED <<pipelineVars, adapterVars, reference>>
      BY <1>3 DEF BeginWrite, BeginProcess, vars, runnerVars
    <2>2. in_book => version' = version
      <3>1. BeginWrite => in_ready \/ event_done
        BY DEF BeginWrite, StreamInv, WaitsAreShort
      <3>2. in_ready \/ event_done => ~in_book
        BY <1>0, ReadyMeansEmpty DEF in_book, PlaceInv, PlaceTypeOK, OnePlace
      <3> QED
        BY <1>3, <3>1, <3>2 DEF BeginWrite, BeginProcess, vars, runnerVars
    <2> USE <2>1 DEF pipelineVars, bookVars, strategyVars, stateVars, adapterVars
    <2>3. in_book' = in_book /\ features' = features
      BY DEF in_book, features
    <2>4. registers' = registers
      BY <2>3 DEF registers
    <2>5. DataTypeOK' /\ BookHolds' /\ ErrorKept' /\ StampInv' /\ ResultMatchesReference'
      BY <2>3 DEF DataInv, DataTypeOK, BookHolds, ErrorKept, StampInv, ResultMatchesReference
    <2>6. Tracks'
      BY <2>2, <2>3, <2>4 DEF DataInv, Tracks
    <2>7. LatestMatchesReference'
      <3>1. CASE BeginWrite \/ BeginProcess
        BY <3>1 DEF BeginWrite, BeginProcess, LatestMatchesReference
      <3>2. CASE UNCHANGED vars
        <4>1. in_ready' = in_ready
          BY DEF in_ready, pipeline_in_ready, core_in_ready
        <4>2. UNCHANGED <<runner_pc, streaming, latest, version>>
          BY <3>2 DEF vars, runnerVars
        <4> QED
          BY <4>1, <4>2 DEF LatestMatchesReference, reference_snapshot
      <3> QED
        BY <1>3, <3>1, <3>2
    <2> QED
      BY <2>5, <2>6, <2>7 DEF DataInv
  <1> QED
    BY <1>1, <1>2, <1>3

LEMMA DataInvariant == Spec => [](StreamInv /\ DataInv /\ LatestMatchesReference)
  <1>1. StreamInv /\ DataInv /\ LatestMatchesReference /\ StreamInv' /\ [Next]_vars
          => DataInv' /\ LatestMatchesReference'
    BY StepData, TickData, CallData DEF Next
  <1> QED
    BY <1>1, InitData, StreamInvariance, PTL DEF Spec

(* For every window size, latency, stream of events and upload schedule, a  *)
(* result held for the host is the C++ reference model's for the event the  *)
(* adapter accepted last: the incremental sums of feature_window.sv never   *)
(* drift from FeatureWindow's and no event is counted twice or left out.    *)
THEOREM ResultsMatchReference == Spec => []ResultMatchesReference
  <1>1. DataInv => ResultMatchesReference
    BY DEF DataInv
  <1> QED
    BY <1>1, DataInvariant, PTL

(* The snapshot that VerilatorRunner caches in process(), step() and        *)
(* write_model_parameters() is the reference model's, scored by the model   *)
(* last written, although it is read at different clocks.                   *)
THEOREM SnapshotsMatchReference == Spec => []LatestMatchesReference
  BY DataInvariant, PTL
=============================================================================
