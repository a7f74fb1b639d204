----------------------------- MODULE Application -----------------------------
(***************************************************************************)
(* main() (src/main.cpp) over the life of its files: invocations follow one *)
(* another, each may be killed at any step, and the machine may lose power. *)
(* The model store (src/app/model_store.cpp), the market data file that the *)
(* dashboard generates (src/app/market_data_generator.cpp) and the readers  *)
(* (EventFiles) work on the same disk; CommandLine reads the arguments.     *)
(*                                                                          *)
(* A replay is what LiveCoordinator shows of it: it adopts newer models one *)
(* after another, each given to the autosave callback by the RTL thread,    *)
(* and it returns, hangs or ends the process.                               *)
(***************************************************************************)
EXTENDS CommandLine, EventFiles, FixedPoint

CONSTANTS
  CommandLines(_), \* the command lines of the n-th invocation
  ModelPaths,      \* the paths given for models
  GeneratedPath,   \* the output of a generate command
  InputFiles,      \* what may be at the input paths at the start
  MaxInvocations, MaxVersion    \* bounds

ASSUME ApplicationAssumption ==
  /\ MaxInvocations \in Nat /\ MaxVersion \in Nat
  /\ \A files \in InputFiles : \A path \in DOMAIN files : files[path] \in EventFile

(* A replay saves to none but ModelPaths. *)
ASSUME CommandLinesAssumption ==
  \A n \in 1 .. MaxInvocations : \A arguments \in CommandLines(n) :
    /\ arguments \in Seq(STRING)
    /\ \A o \in parse_command_line(arguments) :
         o.input_path # {} => o.model_out \cup o.model_autosave \subseteq ModelPaths

VARIABLES
  inputs,          \* path -> event file
  models,          \* path -> model file, the temporary ones included
  unsynced,        \* paths whose content is not yet on the medium
  invocation,
  argv,            \* until it has been dispatched
  pc, code,        \* code: of the last exit, or "killed"
  options,         \* {} or {RuntimeOptions}
  input,           \* {} or {[path, events]}: the input of the replay
  gpu,             \* the replay has a GpuModel
  model,           \* the active model, NoModel before the replay
  finishing        \* the save is the one after the replay

diskVars == <<inputs, models, unsynced>>
processVars == <<argv, options, input, gpu, model, finishing>>
vars == <<diskVars, processVars, invocation, pc, code>>

-----------------------------------------------------------------------------
(* Model files; ordered says that BUY exceeds SELL.  A file is partial while *)
(* a process writes it, and damaged by a full disk or a loss of power.      *)
NoModel == [version |-> 0, ordered |-> FALSE]
File(m) == [kind |-> "json", model |-> m]
NoFile == [kind |-> "missing", model |-> NoModel]
Partial == [kind |-> "partial", model |-> NoModel]
Damaged == [kind |-> "damaged", model |-> NoModel]

(* A mistake: the file is written in place. *)
temporary_in_place(path) == path
temporary(path) == path \o ".tmp"

(* Nobody gives the temporary path of another model as a model's path. *)
ASSUME TemporaryAssumption == \A p, q \in ModelPaths : p \o ".tmp" # q

validate(m) == m.version > 0 /\ m.ordered
load_model_file(path) ==
  IF path \in DOMAIN models /\ models[path].kind = "json" /\ validate(models[path].model)
    THEN {models[path].model} ELSE {}

from_double(quarters) == rounded_divide(quarters, 4)
initial_model_parameters(config) ==
  [version |-> 1,
   ordered |-> from_double(config.buy_threshold) > from_double(config.sell_threshold)]

-----------------------------------------------------------------------------
Init ==
  /\ inputs \in InputFiles
  /\ models = [p \in ModelPaths \cup {temporary(q) : q \in ModelPaths} |-> NoFile]
  /\ unsynced = {}
  /\ invocation = 0
  /\ argv = <<>> /\ options = {} /\ input = {} /\ gpu = FALSE
  /\ model = NoModel /\ finishing = FALSE
  /\ pc = "exited" /\ code = "none"

only(optional) == CHOOSE x \in optional : TRUE
option == only(options)

Exit(status) ==
  /\ pc' = "exited" /\ code' = status
  /\ argv' = <<>> /\ options' = {} /\ input' = {} /\ gpu' = FALSE
  /\ model' = NoModel /\ finishing' = FALSE

Goto(next) == pc' = next /\ UNCHANGED code

Launch ==
  /\ pc = "exited"
  /\ invocation < MaxInvocations
  /\ invocation' = invocation + 1
  /\ argv' \in CommandLines(invocation + 1)
  /\ Goto("launched")
  /\ UNCHANGED <<diskVars, options, input, gpu, model, finishing>>

(* --help and --version are looked for first, among all the arguments. *)
Parse ==
  /\ pc = "launched"
  /\ IF \E i \in 1 .. Len(argv) : argv[i] \in {"--help", "-h", "--version"}
       THEN Exit("0")
       ELSE IF parse_command_line(argv) = {}
         THEN Exit("2")
         ELSE /\ options' = parse_command_line(argv)
              /\ Goto("parsed")
              /\ UNCHANGED <<argv, input, gpu, model, finishing>>
  /\ UNCHANGED <<diskVars, invocation>>

(* A selector without the GPU worker only asks which GPU it selects. *)
inspects_gpu ==
  /\ ~option.gpu_feature_upload
  /\ option.select_gpu \/ option.gpu_index # {} \/ option.gpu_name # {}

(* The modes that end at once (the smoke test and the selection end as      *)
(* GpuSession and OpenclDevices say), and the dashboard, whose start()      *)
(* throws when the port is taken.                                           *)
Dispatch ==
  /\ pc = "parsed"
  /\ CASE option.list_opencl_devices -> Exit("0")
       [] ~option.list_opencl_devices /\ (option.gpu_smoke_test \/ inspects_gpu) ->
            Exit("0") \/ Exit("1")
       [] OTHER ->
            \/ option.input_path = {} /\ option.no_dashboard /\ Exit("0")
            \/ ~option.no_dashboard /\ Exit("1")
            \/ /\ option.input_path # {} \/ ~option.no_dashboard
               /\ Goto(IF option.input_path = {} THEN "control" ELSE "read")
               /\ argv' = <<>>
               /\ UNCHANGED <<options, input, gpu, model, finishing>>
  /\ UNCHANGED <<diskVars, invocation>>

-----------------------------------------------------------------------------
(* A replay of --input. *)

ReadInput ==
  /\ pc = "read"
  /\ LET path == only(option.input_path)
         events == read_events(path, inputs)
     IN IF events = {}
          THEN Exit("1")
          ELSE /\ input' = {[path |-> path, events |-> only(events)]}
               /\ Goto("load")
               /\ UNCHANGED <<argv, options, gpu, model, finishing>>
  /\ UNCHANGED <<diskVars, invocation>>

(* A mistake: the loaded model does not reach the coordinator. *)
started_with_default(found) == initial_model_parameters(option.config)

(* initial_model.value_or(initial_model_parameters(config)) *)
started_with(found) ==
  IF found = {} THEN initial_model_parameters(option.config) ELSE only(found)

(* The GpuModel constructor may throw; set_training_model() gets a model    *)
(* that load_model_file() has validated.                                    *)
LoadModel ==
  /\ pc = "load"
  /\ LET wanted == option.model_in # {} /\ ~option.reset_model
         found == IF wanted THEN load_model_file(only(option.model_in)) ELSE {}
     IN \/ (wanted /\ found = {}) /\ Exit("1")
        \/ option.gpu_feature_upload /\ Exit("1")
        \/ /\ wanted => found # {}
           /\ model' = started_with(found)
           /\ gpu' = option.gpu_feature_upload
           /\ Goto("replay")
           /\ UNCHANGED <<argv, options, input, finishing>>
  /\ UNCHANGED <<diskVars, invocation>>

(* The RTL adopts the next model of the GPU, whose thresholds are those of  *)
(* --model-in or the GPU's own and in order; then comes the callback of     *)
(* --model-autosave, which the dashboard's replays do not have.             *)
Adopt ==
  /\ pc = "replay"
  /\ gpu
  /\ model.version < MaxVersion
  /\ model' = [version |-> model.version + 1, ordered |-> TRUE]
  /\ Goto(IF option.input_path # {} /\ option.model_autosave # {} THEN "save_open" ELSE "replay")
  /\ UNCHANGED <<diskVars, invocation, argv, options, input, gpu, finishing>>

(* run() returns.  An exception or, without a GPU, a market error makes     *)
(* main() return 1.                                                         *)
ReplayEnds ==
  /\ pc = "replay"
  /\ option.input_path # {}
  /\ \/ ~gpu /\ Exit("1")
     \/ option.model_out = {} /\ Exit("0")
     \/ /\ option.model_out # {}
        /\ finishing' = TRUE
        /\ Goto("save_open")
        /\ UNCHANGED <<argv, options, input, gpu, model>>
  /\ UNCHANGED <<diskVars, invocation>>

-----------------------------------------------------------------------------
(* save_model_file_atomically(), for the autosave callback and at the end.  *)

saved_to == only(IF finishing THEN option.model_out ELSE option.model_autosave)
Write(path, file) ==
  /\ models' = [models EXCEPT ![path] = file]
  /\ unsynced' = unsynced \cup {path}

(* The exception: main() reports it; but thrown by the callback while the   *)
(* stream is not drained, it leaves the coordinator waiting for ever.       *)
SaveThrows ==
  \/ Exit("1")
  \/ ~finishing /\ Goto("hung") /\ UNCHANGED processVars

(* validate(), then truncate the temporary file. *)
SaveOpen ==
  /\ pc = "save_open"
  /\ \/ SaveThrows /\ UNCHANGED <<models, unsynced>>
     \/ /\ validate(model)
        /\ Write(temporary(saved_to), Partial)
        /\ Goto("save_write")
        /\ UNCHANGED processVars
  /\ UNCHANGED <<inputs, invocation>>

(* Write the text and close.  A full disk is noticed if the stream writes   *)
(* before it is tested; the text is shorter than its buffer, so that only   *)
(* the destructor writes, and nobody sees it fail.                          *)
SaveWrite ==
  /\ pc = "save_write"
  /\ \/ Write(temporary(saved_to), File(model)) /\ Goto("save_rename") /\ UNCHANGED processVars
     \/ /\ Write(temporary(saved_to), Damaged)
        /\ SaveThrows \/ (Goto("save_rename") /\ UNCHANGED processVars)
  /\ UNCHANGED <<inputs, invocation>>

(* A mistake: the error code of rename() is not looked at. *)
rename_failed_unseen(error) == FALSE
rename_failed(error) == error

SaveRename ==
  /\ pc = "save_rename"
  /\ \E error \in BOOLEAN :
       /\ IF error
            THEN UNCHANGED <<models, unsynced>>
            ELSE /\ models' = [models EXCEPT ![saved_to] = models[temporary(saved_to)],
                                             ![temporary(saved_to)] = NoFile]
                 /\ unsynced' = (unsynced \ {saved_to, temporary(saved_to)})
                                  \cup {saved_to : t \in unsynced \cap {temporary(saved_to)}}
       /\ IF rename_failed(error)
            THEN SaveThrows
            ELSE IF finishing THEN Exit("0") ELSE Goto("replay") /\ UNCHANGED processVars
  /\ UNCHANGED <<inputs, invocation>>

-----------------------------------------------------------------------------
(* Control mode: one command at a time (Dashboard has the queue). *)

(* generate_market_csv() truncates the file, writes it as its buffer fills, *)
(* and closes it; what the last write leaves out is not noticed.            *)
GenerateOpen ==
  /\ pc = "control"
  /\ inputs' = [inputs EXCEPT ![GeneratedPath] = Csv(FALSE, 0, "nothing")]
  /\ unsynced' = unsynced \cup {GeneratedPath}
  /\ Goto("generate")
  /\ UNCHANGED <<models, processVars, invocation>>

GenerateWrite ==
  /\ pc = "generate"
  /\ \E file \in CutCsv(FileEvents) :
       /\ file.lines >= inputs[GeneratedPath].lines
       /\ inputs' = [inputs EXCEPT ![GeneratedPath] = file]
  /\ Goto("generate")
  /\ UNCHANGED <<models, unsynced, processVars, invocation>>

GenerateClose ==
  /\ pc = "generate"
  /\ inputs' \in {inputs, [inputs EXCEPT ![GeneratedPath] = write_csv(FileEvents)]}
  /\ Goto("control")
  /\ UNCHANGED <<models, unsynced, processVars, invocation>>

(* A run command: no --model-in, and its own choice of the GPU.  Whatever   *)
(* throws is shown as an activity and leaves the worker at its queue.       *)
RunCommand ==
  /\ pc = "control"
  /\ \E path \in DOMAIN inputs, with_gpu \in BOOLEAN :
       \E events \in read_events(path, inputs) :
         /\ input' = {[path |-> path, events |-> events]}
         /\ gpu' = with_gpu
         /\ model' = initial_model_parameters(option.config)
  /\ Goto("replay")
  /\ UNCHANGED <<diskVars, invocation, argv, options, finishing>>

RunCommandEnds ==
  /\ pc = "replay"
  /\ option.input_path = {}
  /\ input' = {} /\ gpu' = FALSE /\ model' = NoModel
  /\ Goto("control")
  /\ UNCHANGED <<diskVars, invocation, argv, options, finishing>>

StopSignal ==
  /\ pc = "control"
  /\ Exit("0")
  /\ UNCHANGED <<diskVars, invocation>>

-----------------------------------------------------------------------------
(* The process is killed, or ends in std::terminate. *)
Killed ==
  /\ pc # "exited"
  /\ Exit("killed")
  /\ UNCHANGED <<diskVars, invocation>>

Writeback ==
  /\ unsynced # {}
  /\ unsynced' = {}
  /\ UNCHANGED <<inputs, models, processVars, invocation, pc, code>>

(* Nothing is ever synced: what is not on the medium may be lost, though    *)
(* the rename that put it in place is not.                                  *)
PowerLoss ==
  /\ \E lost \in SUBSET unsynced :
       /\ models' = [p \in DOMAIN models |-> IF p \in lost THEN Damaged ELSE models[p]]
       /\ \/ GeneratedPath \notin lost /\ UNCHANGED inputs
          \/ /\ GeneratedPath \in lost
             /\ inputs' = [inputs EXCEPT ![GeneratedPath] = Csv(FALSE, 0, "nothing")]
  /\ unsynced' = {}
  /\ Exit("killed")
  /\ UNCHANGED invocation

Done == pc = "exited" /\ invocation = MaxInvocations /\ UNCHANGED vars

Next ==
  \/ Launch \/ Parse \/ Dispatch
  \/ ReadInput \/ LoadModel \/ Adopt \/ ReplayEnds
  \/ SaveOpen \/ SaveWrite \/ SaveRename
  \/ GenerateOpen \/ GenerateWrite \/ GenerateClose \/ RunCommand \/ RunCommandEnds \/ StopSignal
  \/ Killed \/ Writeback \/ PowerLoss
  \/ Done

Spec == Init /\ [][Next]_vars

-----------------------------------------------------------------------------
(* Properties. *)

(* Wherever a save is cut off (by a kill, an exception, a failed rename),   *)
(* and whatever model was active, the file at a model path is one that      *)
(* load_model_file() accepts.  Only a full disk that no test of the stream  *)
(* sees, or a power failure before the data is on the medium, leaves        *)
(* something else, and that is then refused.                                *)
CheckpointAlwaysLoads ==
  \A p \in ModelPaths : models[p].kind \in {"missing", "damaged"} \/ load_model_file(p) # {}

(* Resuming from a checkpoint never sets it back: while a process that      *)
(* loaded path p runs, and saves to p by --model-autosave or --model-out,   *)
(* no version there is lower than the one before.                           *)
CheckpointsNotLost ==
  [][\A p \in ModelPaths :
       /\ options # {} /\ option.model_in = {p} /\ ~option.reset_model
       /\ models'[p].kind = "json"
       => models'[p].model.version >= models[p].model.version]_vars

(* Exit code 0 after a replay with --model-out says that the final active   *)
(* model is at that path (unless the disk was full and nobody noticed).     *)
ExitZeroMeansSaved ==
  [][input # {} /\ option.input_path # {} /\ pc' = "exited" /\ code' = "0" =>
       \A p \in option.model_out : models'[p] \in {File(model), Damaged}]_vars

(* What reaches a replay was written as such: a complete file is read in    *)
(* full, and of an MKT1 file nothing but a complete one is taken.  (A CSV   *)
(* file that was cut is taken as far as it goes, unless the cut is inside   *)
(* the first four fields of a line.)                                        *)
WholeInputOnly ==
  \A i \in input :
    /\ i.path \in BinaryPaths => inputs[i.path] = write_binary(i.events.count)
    /\ inputs[i.path] = write_csv(FileEvents) => i.events = Events(FileEvents, TRUE)

(* A command line that is accepted leaves a configuration that passes       *)
(* validation, overrides included.  Its batch size is a configured one or a *)
(* number that somebody wrote, never what is left of it in 32 bits: only a  *)
(* negative number that std::stoull wraps to less than 2^32 is another.     *)
AcceptedOptionsSound ==
  pc = "parsed" =>
    LET size == option.config.feature_batch_size
    IN /\ validate_config(option.config)
       /\ \/ \E path \in DOMAIN ConfigFiles :
               \E config \in ConfigFiles[path] : size = config.feature_batch_size
          \/ \E i \in 1 .. Len(argv) :
               /\ argv[i] \in DOMAIN Numbers
               /\ size < UintModulus
               /\ size = Numbers[argv[i]] \/ size = Numbers[argv[i]] + UlongModulus
=============================================================================
