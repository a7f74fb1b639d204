------------------------- MODULE Application_proofs -------------------------
(***************************************************************************)
(* Proofs about Application: for every set of command lines and files, any  *)
(* number of invocations and versions, and kills and power failures at any  *)
(* step.                                                                    *)
(***************************************************************************)
EXTENDS Application, WellFoundedInduction, TLAPS

-----------------------------------------------------------------------------
(* The command line. *)

LEMMA TemporaryIsNoModelPath == \A p, q \in ModelPaths : temporary(p) # q
BY TemporaryAssumption, Zenon DEF temporary

(* A non-empty set of positions has a greatest one. *)
LEMMA GreatestPosition ==
  ASSUME NEW S, NEW n \in Nat, S \subseteq 0 .. n, S # {}
  PROVE  Max(S) \in S
<1> DEFINE D == {d \in Nat : n - d \in S}
<1>1. PICK x \in S : TRUE
  OBVIOUS
<1>2. n - x \in D
  <2>1. x \in Int /\ 0 <= x /\ x <= n
    OBVIOUS
  <2>2. n - x \in Nat /\ n - (n - x) = x
    BY <2>1
  <2> QED
    BY <1>1, <2>2
<1>3. D \subseteq Nat /\ D # {}
  BY <1>2
<1> HIDE DEF D
<1>4. PICK d \in D : \A e \in D : <<e, d>> \notin OpToRel(<, Nat)
  BY <1>3, NatLessThanWellFounded, WFMin
<1>5. \A y \in S : n - d >= y
  <2> TAKE y \in S
  <2>1. y \in Int /\ 0 <= y /\ y <= n
    OBVIOUS
  <2>2. n - y \in D
    <3>1. n - y \in Nat /\ n - (n - y) = y
      BY <2>1
    <3> QED
      BY <3>1 DEF D
  <2>3. ~(n - y < d)
    <3>1. n - y \in Nat /\ d \in Nat
      BY <2>2, <1>3
    <3> QED
      BY <3>1, <2>2, <1>4 DEF OpToRel
  <2> QED
    BY <2>1, <2>3, <1>3
<1>6. n - d \in S
  BY DEF D
<1> QED
  BY <1>5, <1>6, Zenon DEF Max

(* stoull() leaves a number as it is or adds 2^64 to it. *)
LEMMA UnsignedOption ==
  ASSUME NEW argument, NEW n \in parse_unsigned_option(argument)
  PROVE  /\ argument \in DOMAIN Numbers
         /\ n = Numbers[argument] \/ n = Numbers[argument] + UlongModulus
<1> DEFINE U == UlongModulus
           a == Numbers[argument]
<1>1. /\ argument \in DOMAIN Numbers
      /\ a \in 1 - U .. U - 1
      /\ n = a % U
  BY DEF parse_unsigned_option
<1>2. U \in Nat \ {0} /\ a \in Int
  BY <1>1, CommandLineAssumption
<1> HIDE DEF U, a
<1>3. a % U \in 0 .. U - 1 /\ a = (U * (a \div U)) + (a % U) /\ a \div U \in Int
  BY <1>2
<1>4. a \div U = 0 \/ a \div U = -1
  <2> DEFINE q == a \div U
  <2>1. q \in Int /\ U * q <= a /\ a < U * q + U /\ a < U /\ -U < a
    BY <1>1, <1>2, <1>3
  <2> HIDE DEF q
  <2>2. ~(q >= 1)
    <3>1. q >= 1 => U * q >= U
      BY <2>1, <1>2
    <3> QED
      BY <2>1, <3>1, <1>2
  <2>3. ~(q <= -2)
    <3>1. q <= -2 => U * q <= -(2 * U)
      BY <2>1, <1>2
    <3> QED
      BY <2>1, <3>1, <1>2
  <2>4. q = 0 \/ q = -1
    BY <2>1, <2>2, <2>3
  <2> QED
    BY <2>4 DEF q
<1>5. a % U = a \/ a % U = a + U
  BY <1>2, <1>3, <1>4
<1> QED
  BY <1>1, <1>5 DEF U, a

(* The batch size of AcceptedOptionsSound. *)
SizeSound(arguments, size) ==
  \/ \E path \in DOMAIN ConfigFiles :
       \E config \in ConfigFiles[path] : size = config.feature_batch_size
  \/ \E i \in 1 .. Len(arguments) :
       /\ arguments[i] \in DOMAIN Numbers
       /\ size < UintModulus
       /\ size = Numbers[arguments[i]] \/ size = Numbers[arguments[i]] + UlongModulus

(* What parse_command_line() lets through. *)
LEMMA ParsedLine ==
  ASSUME NEW S, NEW arguments \in Seq(S), NEW o \in parse_command_line(arguments)
  PROVE  validate_config(o.config) /\ SizeSound(arguments, o.config.feature_batch_size)
<1> DEFINE chosen == CHOOSE n \in last_number(arguments, "--batch-size") : TRUE
<1>1. /\ accepted(o) /\ well_formed(arguments)
      /\ \E config \in load_config(config_path(arguments)) : o = RuntimeOptions(arguments, config)
  BY DEF parse_command_line
<1>2. PICK config \in load_config(config_path(arguments)) : o = RuntimeOptions(arguments, config)
  BY <1>1
<1>3. /\ config_path(arguments) \in DOMAIN ConfigFiles
      /\ config \in ConfigFiles[config_path(arguments)]
      /\ config \in Config
  BY <1>2, CommandLineAssumption DEF load_config
<1>4. validate_config(o.config)
  BY <1>1 DEF accepted
<1>5. o.config = IF given(arguments, "--batch-size")
                   THEN [config EXCEPT !.feature_batch_size = chosen] ELSE config
  BY <1>2 DEF RuntimeOptions
<1>6. CASE ~given(arguments, "--batch-size")
  BY <1>3, <1>4, <1>5, <1>6 DEF SizeSound
<1>7. CASE given(arguments, "--batch-size")
  <2> DEFINE at == values_at(arguments, "--batch-size")
             k == Max(at)
  <2>1. option_at(arguments) \subseteq 1 .. Len(arguments) /\ Len(arguments) \in Nat
    BY DEF option_at
  <2>2. at \subseteq 0 .. Len(arguments) + 1 /\ at # {}
    BY <1>7, <2>1 DEF values_at, given
  <2>3. k \in at
    <3> HIDE DEF at
    <3>1. Len(arguments) + 1 \in Nat
      BY <2>1
    <3> QED
      BY <2>2, <3>1, GreatestPosition
  <2>4. PICK i \in option_at(arguments) : arguments[i] = "--batch-size" /\ k = i + 1
    BY <2>3 DEF values_at
  <2>5. /\ i < Len(arguments)
        /\ parse_unsigned_option(arguments[k]) # {}
        /\ \A n \in parse_unsigned_option(arguments[k]) : n < UintModulus
    BY <1>1, <2>4 DEF well_formed, require_value, NumberOptions
  <2>6. last_number(arguments, "--batch-size") = parse_unsigned_option(arguments[k])
    BY <1>7 DEF last_number, last_value
  <2>7. chosen \in parse_unsigned_option(arguments[k])
    BY <2>5, <2>6
  <2>8. k \in 1 .. Len(arguments)
    BY <2>1, <2>4, <2>5
  <2>9. o.config.feature_batch_size = chosen
    BY <1>3, <1>5, <1>7 DEF Config
  <2> HIDE DEF chosen, k
  <2> QED
    BY <1>4, <2>5, <2>7, <2>8, <2>9, UnsignedOption DEF SizeSound
<1> QED
  BY <1>6, <1>7

-----------------------------------------------------------------------------
(* The inductive invariant. *)

Model == [version : Nat, ordered : BOOLEAN]
Saving == {"save_open", "save_write", "save_rename"}
Replaying == Saving \cup {"load", "replay", "hung"}
Phases == Replaying \cup {"exited", "launched", "parsed", "read", "control", "generate"}

Launched == \E n \in 1 .. MaxInvocations : argv \in CommandLines(n)

(* What is known of the options at each step of the process. *)
OptionInv ==
  /\ invocation \in 0 .. MaxInvocations
  /\ pc \in Phases
  /\ pc \in {"exited", "launched"} <=> options = {}
  /\ pc \in {"launched", "parsed"} => Launched
  /\ pc = "parsed" => options = parse_command_line(argv)
  /\ options # {} =>
       /\ option.input_path # {} => option.model_out \cup option.model_autosave \subseteq ModelPaths
       /\ \A p, q \in option.model_out : p = q
  /\ pc \in {"read", "load", "hung"} \cup Saving => option.input_path # {}
  /\ pc \in {"control", "generate"} => option.input_path = {}

(* The replay's own state. *)
ReplayInv ==
  /\ finishing \in BOOLEAN
  /\ model \in Model
  /\ input # {} => pc \in Replaying
  /\ finishing => pc \in Saving
  /\ pc \in Saving => IF finishing THEN option.model_out # {} ELSE option.model_autosave # {}
  /\ pc \in {"save_write", "save_rename"} => validate(model)

(* A file under a model's path was validated before it was written. *)
SoundFile(file) ==
  file = NoFile \/ file = Damaged \/ \E m \in Model : validate(m) /\ file = File(m)

ModelFile == [kind : {"json", "missing", "partial", "damaged"}, model : Model]

DiskSound ==
  /\ DOMAIN models = ModelPaths \cup {temporary(p) : p \in ModelPaths}
  /\ models \in [DOMAIN models -> ModelFile]
  /\ \A p \in ModelPaths : SoundFile(models[p])
  /\ \A path \in DOMAIN inputs : inputs[path] \in EventFile

DiskInv ==
  /\ DiskSound
  /\ pc = "save_rename" => models[temporary(saved_to)] \in {File(model), Damaged}

(* The active model is as new as the checkpoint that it started from. *)
ResumeInv ==
  pc \in Saving \cup {"replay"} /\ option.input_path # {} /\ ~option.reset_model =>
    \A p \in ModelPaths : option.model_in = {p} => models[p].model.version <= model.version

AppInv == OptionInv /\ ReplayInv /\ DiskInv /\ ResumeInv /\ WholeInputOnly

-----------------------------------------------------------------------------
(* Facts that the steps share. *)

LEMMA OptionKept == options' = options => option' = option
BY DEF option, only

LEMMA OptionChosen == options # {} => option \in options
BY DEF option, only

(* An option has at most one value. *)
LEMMA OneValue ==
  ASSUME NEW arguments, NEW o \in parse_command_line(arguments), NEW p \in o.model_out,
         NEW q \in o.model_out
  PROVE  p = q
<1>1. PICK config : o = RuntimeOptions(arguments, config)
  BY DEF parse_command_line
<1>2. o.model_out = last_value(arguments, "--model-out")
  BY <1>1 DEF RuntimeOptions
<1> QED
  BY <1>2 DEF last_value

LEMMA SavedToModelPath ==
  ASSUME OptionInv, ReplayInv, pc \in Saving
  PROVE  /\ saved_to \in ModelPaths
         /\ \A p \in ModelPaths : temporary(saved_to) # p
         /\ finishing => saved_to \in option.model_out
<1>1. options # {} /\ option.input_path # {}
  BY DEF OptionInv, Saving
<1>2. saved_to \in option.model_out \cup option.model_autosave
  BY DEF ReplayInv, saved_to, only
<1>3. saved_to \in ModelPaths
  BY <1>1, <1>2 DEF OptionInv
<1>4. finishing => saved_to \in option.model_out
  BY DEF ReplayInv, saved_to, only
<1> QED
  BY <1>3, <1>4, TemporaryIsNoModelPath

LEMMA InitialModelTyped ==
  ASSUME NEW config
  PROVE  initial_model_parameters(config) \in Model
<1> DEFINE b == from_double(config.buy_threshold) > from_double(config.sell_threshold)
<1>1. b \in BOOLEAN
  OBVIOUS
<1> HIDE DEF b
<1>2. initial_model_parameters(config) = [version |-> 1, ordered |-> b]
  BY DEF initial_model_parameters, b
<1> QED
  BY <1>1, <1>2 DEF Model

LEMMA ModelFilesTyped ==
  /\ NoModel \in Model
  /\ NoFile \in ModelFile /\ Partial \in ModelFile /\ Damaged \in ModelFile
  /\ \A m \in Model : File(m) \in ModelFile
BY DEF NoModel, NoFile, Partial, Damaged, File, ModelFile, Model

LEMMA FilesTyped ==
  /\ Csv(FALSE, 0, "nothing") \in EventFile
  /\ \A file \in CutCsv(FileEvents) : file \in EventFile
  /\ write_csv(FileEvents) \in EventFile
<1>1. \A h \in BOOLEAN, n \in Nat, r \in {"nothing", "fields", "digits"} : Csv(h, n, r) \in EventFile
  BY DEF Csv, EventFile
<1>2. FileEvents \in Nat /\ \A n \in 0 .. FileEvents - 1 : n \in Nat
  BY EventFilesAssumption
<1>3. Csv(FALSE, 0, "nothing") \in EventFile
  BY <1>1
<1>4. write_csv(FileEvents) \in EventFile
  BY <1>1, <1>2 DEF write_csv
<1>5. ASSUME NEW file \in CutCsv(FileEvents) PROVE file \in EventFile
  <2>1. \/ file = Csv(FALSE, 0, "nothing")
        \/ \E n \in 0 .. FileEvents - 1, r \in {"nothing", "fields", "digits"} : file = Csv(TRUE, n, r)
    BY SMT DEF CutCsv, Csv
  <2> QED
    <3>1. CASE file = Csv(FALSE, 0, "nothing")
      BY <1>3, <3>1, Zenon
    <3>2. ASSUME NEW n \in 0 .. FileEvents - 1, NEW r \in {"nothing", "fields", "digits"},
                 file = Csv(TRUE, n, r)
          PROVE  file \in EventFile
      <4>1. n \in Nat
        BY <1>2
      <4> QED
        BY <3>2, <4>1 DEF Csv, EventFile
    <3> QED
      BY <2>1, <3>1, <3>2, Zenon
<1> QED
  BY <1>3, <1>4, <1>5, Zenon

LEMMA InitInv == Init => AppInv
<1> SUFFICES ASSUME Init PROVE AppInv
  OBVIOUS
<1>1. NoModel \in Model
  BY DEF NoModel, Model
<1>2. OptionInv
  BY ApplicationAssumption DEF Init, OptionInv, Phases, Replaying, Saving
<1>3. ReplayInv
  BY <1>1 DEF Init, ReplayInv, Replaying, Saving
<1>4. DiskInv
  BY ApplicationAssumption, ModelFilesTyped DEF Init, DiskInv, DiskSound, SoundFile
<1>5. ResumeInv
  BY DEF Init, ResumeInv, Saving
<1>6. WholeInputOnly
  BY DEF Init, WholeInputOnly
<1> QED
  BY <1>2, <1>3, <1>4, <1>5, <1>6 DEF AppInv

-----------------------------------------------------------------------------
(* The steps. *)

(* However a process ends, only the disk is left to look at. *)
LEMMA ExitStep ==
  ASSUME AppInv, NEW status, Exit(status), UNCHANGED invocation, DiskSound'
  PROVE  AppInv'
<1>1. NoModel \in Model
  BY DEF NoModel, Model
<1>2. OptionInv'
  BY DEF AppInv, OptionInv, Exit, Phases, Replaying, Saving
<1>3. ReplayInv'
  BY <1>1 DEF Exit, ReplayInv, Replaying, Saving
<1>4. DiskInv'
  BY DEF Exit, DiskInv
<1>5. ResumeInv'
  BY DEF Exit, ResumeInv, Saving
<1>6. WholeInputOnly'
  BY DEF Exit, WholeInputOnly
<1> QED
  BY <1>2, <1>3, <1>4, <1>5, <1>6 DEF AppInv

LEMMA DiskKept == AppInv /\ UNCHANGED diskVars => DiskSound'
BY DEF AppInv, DiskInv, DiskSound, diskVars, SoundFile

LEMMA LaunchStep == AppInv /\ Launch => AppInv'
<1> SUFFICES ASSUME AppInv, Launch PROVE AppInv'
  OBVIOUS
<1>1. OptionInv'
  BY ApplicationAssumption DEF AppInv, OptionInv, Launch, Goto, Phases, Replaying, Saving, Launched
<1>2. ReplayInv'
  BY DEF AppInv, ReplayInv, Launch, Goto, Replaying, Saving
<1>3. DiskInv'
  BY DiskKept DEF Launch, Goto, DiskInv
<1>4. ResumeInv' /\ WholeInputOnly'
  BY DEF AppInv, ReplayInv, Launch, Goto, ResumeInv, WholeInputOnly, Replaying, Saving
<1> QED
  BY <1>1, <1>2, <1>3, <1>4 DEF AppInv

LEMMA ParseStep == AppInv /\ Parse => AppInv'
<1> SUFFICES ASSUME AppInv, Parse PROVE AppInv'
  OBVIOUS
<1>1. DiskSound' /\ UNCHANGED invocation
  BY DiskKept DEF Parse
<1>2. CASE Exit("0") \/ Exit("2")
  BY <1>1, <1>2, ExitStep
<1>3. CASE /\ parse_command_line(argv) # {}
           /\ options' = parse_command_line(argv)
           /\ Goto("parsed")
           /\ UNCHANGED <<argv, input, gpu, model, finishing>>
  <2>1. PICK n \in 1 .. MaxInvocations : argv \in CommandLines(n)
    BY DEF Parse, AppInv, OptionInv, Launched
  <2>2. option' \in parse_command_line(argv)
    BY <1>3 DEF option, only
  <2>3. /\ option'.input_path # {} => option'.model_out \cup option'.model_autosave \subseteq ModelPaths
        /\ \A p, q \in option'.model_out : p = q
    BY <2>1, <2>2, CommandLinesAssumption, OneValue
  <2>4. OptionInv'
    BY <1>1, <1>3, <2>1, <2>3 DEF AppInv, OptionInv, Goto, Phases, Replaying, Saving, Launched
  <2>5. ReplayInv'
    BY <1>3 DEF AppInv, OptionInv, ReplayInv, Parse, Goto, Replaying, Saving
  <2>6. DiskInv'
    BY <1>1, <1>3 DEF Goto, DiskInv
  <2>7. ResumeInv' /\ WholeInputOnly'
    BY <1>3 DEF AppInv, ReplayInv, Parse, Goto, ResumeInv, WholeInputOnly, Replaying, Saving
  <2> QED
    BY <2>4, <2>5, <2>6, <2>7 DEF AppInv
<1> QED
  BY <1>2, <1>3 DEF Parse

LEMMA DispatchStep == AppInv /\ Dispatch => AppInv'
<1> SUFFICES ASSUME AppInv, Dispatch PROVE AppInv'
  OBVIOUS
<1>1. DiskSound' /\ UNCHANGED invocation
  BY DiskKept DEF Dispatch
<1>2. CASE Exit("0") \/ Exit("1")
  BY <1>1, <1>2, ExitStep
<1>3. CASE /\ Goto(IF option.input_path = {} THEN "control" ELSE "read")
           /\ argv' = <<>>
           /\ UNCHANGED <<options, input, gpu, model, finishing>>
  <2>1. option' = option
    BY <1>3, OptionKept
  <2>2. OptionInv'
    BY <1>1, <1>3, <2>1 DEF Dispatch, AppInv, OptionInv, Goto, Phases, Replaying, Saving
  <2>3. ReplayInv'
    BY <1>3, <2>1 DEF Dispatch, AppInv, ReplayInv, Goto, Replaying, Saving
  <2>4. DiskInv'
    BY <1>1, <1>3 DEF Goto, DiskInv
  <2>5. ResumeInv' /\ WholeInputOnly'
    BY <1>3 DEF Dispatch, AppInv, ReplayInv, Goto, ResumeInv, WholeInputOnly, Replaying, Saving
  <2> QED
    BY <2>2, <2>3, <2>4, <2>5 DEF AppInv
<1> QED
  BY <1>2, <1>3, Zenon DEF Dispatch

(* What the readers take of a file. *)
LEMMA WholeFileRead ==
  ASSUME DiskSound, NEW path, NEW events \in read_events(path, inputs)
  PROVE  /\ path \in BinaryPaths => inputs[path] = write_binary(events.count)
         /\ inputs[path] = write_csv(FileEvents) => events = Events(FileEvents, TRUE)
<1>1. path \in DOMAIN inputs /\ inputs[path] \in EventFile
  BY DEF read_events, DiskSound
<1>2. CASE path \in BinaryPaths
  <2>1. inputs[path].kind = "binary" /\ events \in read_binary(inputs[path])
    BY <1>1, <1>2 DEF read_events
  <2>2. inputs[path] \in [kind : {"binary"}, layout : BOOLEAN, count : Nat, records : Nat, extra : BOOLEAN]
    BY <1>1, <2>1 DEF EventFile, Missing
  <2>3. /\ inputs[path].layout /\ inputs[path].records = inputs[path].count /\ ~inputs[path].extra
        /\ events = Events(inputs[path].count, TRUE)
    BY <2>1 DEF read_binary
  <2>4. events.count = inputs[path].count
    BY <2>3 DEF Events
  <2>5. inputs[path] = write_binary(events.count)
    BY <2>2, <2>3, <2>4 DEF write_binary, Binary
  <2>6. inputs[path] # write_csv(FileEvents)
    BY <2>1 DEF write_csv, Csv
  <2> QED
    BY <2>5, <2>6
<1>3. CASE path \notin BinaryPaths
  <2>1. events \in read_csv(inputs[path])
    BY <1>1, <1>3 DEF read_events
  <2>2. inputs[path] = write_csv(FileEvents) => events = Events(FileEvents, TRUE)
    BY <2>1 DEF read_csv, write_csv, Csv
  <2> QED
    BY <1>3, <2>2
<1> QED
  BY <1>2, <1>3

LEMMA ReadInputStep == AppInv /\ ReadInput => AppInv'
<1> SUFFICES ASSUME AppInv, ReadInput PROVE AppInv'
  OBVIOUS
<1> DEFINE path == only(option.input_path)
           events == read_events(path, inputs)
<1>1. DiskSound' /\ UNCHANGED invocation /\ DiskSound
  BY DiskKept DEF ReadInput, AppInv, DiskInv
<1>2. CASE Exit("1")
  BY <1>1, <1>2, ExitStep
<1>3. CASE /\ events # {}
           /\ input' = {[path |-> path, events |-> only(events)]}
           /\ Goto("load")
           /\ UNCHANGED <<argv, options, gpu, model, finishing>>
  <2>1. option' = option
    BY <1>3, OptionKept
  <2>2. OptionInv'
    BY <1>1, <1>3, <2>1 DEF ReadInput, AppInv, OptionInv, Goto, Phases, Replaying, Saving
  <2>3. ReplayInv'
    BY <1>3, <2>1 DEF ReadInput, AppInv, ReplayInv, Goto, Replaying, Saving
  <2>4. DiskInv'
    BY <1>1, <1>3 DEF Goto, DiskInv
  <2>5. ResumeInv'
    BY <1>3 DEF Goto, ResumeInv, Saving
  <2>6. WholeInputOnly'
    <3>1. only(events) \in events /\ inputs' = inputs
      BY <1>3 DEF only, ReadInput, diskVars
    <3> HIDE DEF events
    <3>2. \A i \in input' : i.path = path /\ i.events = only(events)
      BY <1>3
    <3> HIDE DEF path
    <3> QED
      BY <1>1, <3>1, <3>2, WholeFileRead DEF WholeInputOnly, events
  <2> QED
    BY <2>2, <2>3, <2>4, <2>5, <2>6 DEF AppInv
<1> QED
  BY <1>2, <1>3, Zenon DEF ReadInput

LEMMA LoadModelStep == AppInv /\ LoadModel => AppInv'
<1> SUFFICES ASSUME AppInv, LoadModel PROVE AppInv'
  OBVIOUS
<1> DEFINE wanted == option.model_in # {} /\ ~option.reset_model
           found == IF wanted THEN load_model_file(only(option.model_in)) ELSE {}
<1>1. DiskSound' /\ UNCHANGED invocation /\ DiskSound /\ UNCHANGED <<models, inputs>>
  BY DiskKept DEF LoadModel, AppInv, DiskInv, diskVars
<1>2. CASE Exit("1")
  BY <1>1, <1>2, ExitStep
<1>3. CASE /\ wanted => found # {}
           /\ model' = started_with(found)
           /\ Goto("replay")
           /\ UNCHANGED <<argv, options, input, finishing>>
  <2>1. option' = option
    BY <1>3, OptionKept
  <2>2. OptionInv'
    BY <1>1, <1>3, <2>1 DEF LoadModel, AppInv, OptionInv, Goto, Phases, Replaying, Saving
  <2>3. \A m \in found : m = models[only(option.model_in)].model /\ m \in Model
    BY <1>1 DEF load_model_file, DiskSound, ModelFile
  <2>4. model' \in Model /\ (wanted => model' = models[only(option.model_in)].model)
    <3>1. CASE found = {}
      BY <1>3, <3>1, InitialModelTyped DEF started_with
    <3>2. CASE found # {}
      <4> HIDE DEF found
      <4> QED
        BY <1>3, <2>3, <3>2 DEF started_with, only
    <3> QED
      BY <3>1, <3>2
  <2>5. ReplayInv'
    BY <1>3, <2>1, <2>4 DEF LoadModel, AppInv, ReplayInv, Goto, Replaying, Saving
  <2>6. DiskInv'
    BY <1>1, <1>3 DEF Goto, DiskInv
  <2>7. ResumeInv'
    <3> SUFFICES ASSUME ~option.reset_model, NEW p \in ModelPaths, option.model_in = {p}
                 PROVE  models[p].model.version <= model'.version
      BY <1>1, <2>1 DEF ResumeInv
    <3>1. wanted /\ only(option.model_in) = p
      BY DEF only
    <3>2. model'.version \in Nat
      BY <2>4 DEF Model
    <3> QED
      BY <2>4, <3>1, <3>2
  <2>8. WholeInputOnly'
    BY <1>1, <1>3 DEF AppInv, WholeInputOnly
  <2> QED
    BY <2>2, <2>5, <2>6, <2>7, <2>8 DEF AppInv
<1> QED
  BY <1>2, <1>3, Zenon DEF LoadModel

LEMMA AdoptStep == AppInv /\ Adopt => AppInv'
<1> SUFFICES ASSUME AppInv, Adopt PROVE AppInv'
  OBVIOUS
<1>1. DiskSound' /\ UNCHANGED <<invocation, models, inputs, options, input, finishing>>
  BY DiskKept DEF Adopt, diskVars
<1>2. option' = option
  BY <1>1, OptionKept
<1>3. OptionInv'
  BY <1>1, <1>2 DEF Adopt, AppInv, OptionInv, Goto, Phases, Replaying, Saving
<1>4. model' \in Model /\ model'.version = model.version + 1 /\ model.version \in Nat
  BY DEF Adopt, AppInv, ReplayInv, Model
<1>5. ReplayInv'
  BY <1>1, <1>2, <1>4 DEF Adopt, AppInv, OptionInv, ReplayInv, Goto, Replaying, Saving
<1>6. DiskInv'
  BY <1>1 DEF Adopt, Goto, DiskInv
<1>7. ResumeInv'
  <2> SUFFICES ASSUME option.input_path # {}, ~option.reset_model,
                      NEW p \in ModelPaths, option.model_in = {p}
               PROVE  models[p].model.version <= model'.version
    BY <1>1, <1>2 DEF ResumeInv
  <2>1. models[p].model.version <= model.version
    BY DEF Adopt, AppInv, ResumeInv
  <2>2. models[p].model.version \in Nat
    BY DEF AppInv, DiskInv, DiskSound, ModelFile, Model
  <2> QED
    BY <1>4, <2>1, <2>2
<1>8. WholeInputOnly'
  BY <1>1 DEF AppInv, WholeInputOnly
<1> QED
  BY <1>3, <1>5, <1>6, <1>7, <1>8 DEF AppInv

LEMMA ReplayEndsStep == AppInv /\ ReplayEnds => AppInv'
<1> SUFFICES ASSUME AppInv, ReplayEnds PROVE AppInv'
  OBVIOUS
<1>1. DiskSound' /\ UNCHANGED <<invocation, models, inputs>>
  BY DiskKept DEF ReplayEnds, diskVars
<1>2. CASE Exit("0") \/ Exit("1")
  BY <1>1, <1>2, ExitStep
<1>3. CASE /\ option.model_out # {}
           /\ finishing' = TRUE
           /\ Goto("save_open")
           /\ UNCHANGED <<argv, options, input, gpu, model>>
  <2>1. option' = option
    BY <1>3, OptionKept
  <2>2. OptionInv'
    BY <1>1, <1>3, <2>1 DEF ReplayEnds, AppInv, OptionInv, Goto, Phases, Replaying, Saving
  <2>3. ReplayInv'
    BY <1>3, <2>1 DEF ReplayEnds, AppInv, ReplayInv, Goto, Replaying, Saving
  <2>4. DiskInv'
    BY <1>1, <1>3 DEF Goto, DiskInv
  <2>5. ResumeInv' /\ WholeInputOnly'
    BY <1>1, <1>3, <2>1 DEF ReplayEnds, AppInv, Goto, ResumeInv, WholeInputOnly, Saving
  <2> QED
    BY <2>2, <2>3, <2>4, <2>5 DEF AppInv
<1> QED
  BY <1>2, <1>3, Zenon DEF ReplayEnds

(* A save works on its temporary file, which is at no model's path. *)
LEMMA TemporaryWritten ==
  ASSUME AppInv, pc \in Saving, NEW file \in ModelFile, Write(temporary(saved_to), file),
         UNCHANGED inputs
  PROVE  /\ DiskSound'
         /\ \A p \in ModelPaths : models'[p] = models[p]
         /\ models'[temporary(saved_to)] = file
<1> DEFINE t == temporary(saved_to)
<1>1. saved_to \in ModelPaths /\ \A p \in ModelPaths : t # p
  BY SavedToModelPath DEF AppInv
<1>2. DiskSound
  BY DEF AppInv, DiskInv
<1>3. t \in DOMAIN models
  BY <1>1, <1>2 DEF DiskSound
<1> HIDE DEF t
<1>4. models' = [models EXCEPT ![t] = file]
  BY DEF Write, t
<1>5. /\ \A p \in ModelPaths : models'[p] = models[p]
      /\ DOMAIN models' = DOMAIN models /\ models'[t] = file
      /\ models' \in [DOMAIN models -> ModelFile]
  BY <1>1, <1>2, <1>3, <1>4 DEF DiskSound
<1>6. DiskSound'
  BY <1>2, <1>5 DEF DiskSound, SoundFile
<1> QED
  BY <1>5, <1>6 DEF t

(* The process goes on, with what a save has done to the disk. *)
LEMMA GoesOn ==
  ASSUME AppInv, NEW next \in Saving \cup {"hung", "replay"}, pc \in Saving,
         Goto(next), UNCHANGED <<processVars, invocation, inputs>>, DiskSound',
         next \notin Saving => ~finishing,
         next \in {"save_write", "save_rename"} => validate(model),
         next = "save_rename" => models'[temporary(saved_to)] \in {File(model), Damaged},
         \A p \in ModelPaths : models'[p].model.version <= model.version \/ models'[p] = models[p]
  PROVE  AppInv'
<1>1. /\ UNCHANGED <<argv, options, input, gpu, model, finishing, invocation, inputs>>
      /\ pc' = next
  BY DEF processVars, Goto
<1>2. option' = option
  BY <1>1, OptionKept
<1>3. saved_to' = saved_to
  BY <1>1, <1>2 DEF saved_to, only
<1>4. OptionInv'
  BY <1>1, <1>2 DEF AppInv, OptionInv, Phases, Replaying, Saving
<1>5. ReplayInv'
  BY <1>1, <1>2 DEF AppInv, ReplayInv, Replaying, Saving, validate
<1>6. DiskInv'
  BY <1>1, <1>3 DEF DiskInv, File
<1>7. ResumeInv'
  BY <1>1, <1>2 DEF AppInv, ResumeInv
<1>8. WholeInputOnly'
  BY <1>1 DEF AppInv, WholeInputOnly
<1> QED
  BY <1>4, <1>5, <1>6, <1>7, <1>8 DEF AppInv

LEMMA ThrowStep ==
  ASSUME AppInv, pc \in Saving, SaveThrows, UNCHANGED <<invocation, inputs>>, DiskSound',
         \A p \in ModelPaths : models'[p] = models[p]
  PROVE  AppInv'
<1>1. CASE Exit("1")
  BY <1>1, ExitStep
<1>2. CASE ~finishing /\ Goto("hung") /\ UNCHANGED processVars
  BY <1>2, GoesOn DEF Saving
<1> QED
  BY <1>1, <1>2 DEF SaveThrows

LEMMA SaveOpenStep == AppInv /\ SaveOpen => AppInv'
<1> SUFFICES ASSUME AppInv, SaveOpen PROVE AppInv'
  OBVIOUS
<1>1. pc \in Saving /\ UNCHANGED <<inputs, invocation>>
  BY DEF SaveOpen, Saving
<1>2. CASE SaveThrows /\ UNCHANGED <<models, unsynced>>
  BY <1>1, <1>2, ThrowStep, DiskKept DEF diskVars
<1>3. CASE /\ validate(model)
           /\ Write(temporary(saved_to), Partial)
           /\ Goto("save_write")
           /\ UNCHANGED processVars
  BY <1>1, <1>3, TemporaryWritten, ModelFilesTyped, GoesOn DEF Saving
<1> QED
  BY <1>2, <1>3 DEF SaveOpen

LEMMA SaveWriteStep == AppInv /\ SaveWrite => AppInv'
<1> SUFFICES ASSUME AppInv, SaveWrite PROVE AppInv'
  OBVIOUS
<1>1. /\ pc \in Saving /\ UNCHANGED <<inputs, invocation>>
      /\ validate(model) /\ model \in Model
  BY DEF SaveWrite, Saving, AppInv, ReplayInv
<1>2. ASSUME NEW file \in {File(model), Damaged}, Write(temporary(saved_to), file),
             Goto("save_rename"), UNCHANGED processVars
      PROVE  AppInv'
  <2>1. file \in ModelFile
    BY <1>1, ModelFilesTyped
  <2> QED
    BY <1>1, <1>2, <2>1, TemporaryWritten, GoesOn DEF Saving
<1>3. CASE Write(temporary(saved_to), Damaged) /\ SaveThrows
  BY <1>1, <1>3, TemporaryWritten, ModelFilesTyped, ThrowStep
<1> QED
  BY <1>2, <1>3 DEF SaveWrite

(* The rename puts a validated model at the path, or what a full disk left. *)
LEMMA Renamed ==
  ASSUME AppInv, pc = "save_rename", UNCHANGED inputs,
         models' = [models EXCEPT ![saved_to] = models[temporary(saved_to)],
                                  ![temporary(saved_to)] = NoFile]
  PROVE  /\ DiskSound'
         /\ models'[saved_to] \in {File(model), Damaged}
         /\ \A p \in ModelPaths : p # saved_to => models'[p] = models[p]
<1> DEFINE t == temporary(saved_to)
<1>1. saved_to \in ModelPaths /\ \A p \in ModelPaths : t # p
  BY SavedToModelPath DEF AppInv, Saving
<1>2. /\ DiskSound /\ models[t] \in {File(model), Damaged}
      /\ validate(model) /\ model \in Model
  BY DEF AppInv, DiskInv, ReplayInv
<1>3. t \in DOMAIN models /\ saved_to \in DOMAIN models
  BY <1>1, <1>2 DEF DiskSound
<1> HIDE DEF t
<1>4. models' = [models EXCEPT ![saved_to] = models[t], ![t] = NoFile]
  BY DEF t
<1>5. models[t] \in ModelFile /\ NoFile \in ModelFile
  BY <1>2, <1>3, ModelFilesTyped DEF DiskSound
<1>6. /\ \A p \in ModelPaths : p # saved_to => models'[p] = models[p]
      /\ models'[saved_to] = models[t]
      /\ DOMAIN models' = DOMAIN models
      /\ models' \in [DOMAIN models -> ModelFile]
  BY <1>1, <1>2, <1>3, <1>4, <1>5 DEF DiskSound
<1>7. SoundFile(models'[saved_to])
  BY <1>2, <1>6 DEF SoundFile
<1>8. ASSUME NEW p \in ModelPaths PROVE SoundFile(models'[p])
  <2>1. CASE p = saved_to
    BY <1>7, <2>1
  <2>2. CASE p # saved_to
    BY <1>2, <1>6, <2>2 DEF DiskSound
  <2> QED
    BY <2>1, <2>2
<1>9. DiskSound'
  BY <1>2, <1>6, <1>8 DEF DiskSound, SoundFile
<1> QED
  BY <1>2, <1>6, <1>9

LEMMA SaveRenameStep == AppInv /\ SaveRename => AppInv'
<1> SUFFICES ASSUME AppInv, SaveRename PROVE AppInv'
  OBVIOUS
<1>1. pc = "save_rename" /\ pc \in Saving /\ UNCHANGED <<inputs, invocation>>
  BY DEF SaveRename, Saving
<1>2. CASE UNCHANGED <<models, unsynced>> /\ SaveThrows
  BY <1>1, <1>2, ThrowStep, DiskKept DEF diskVars
<1>3. CASE /\ models' = [models EXCEPT ![saved_to] = models[temporary(saved_to)],
                                        ![temporary(saved_to)] = NoFile]
           /\ IF finishing THEN Exit("0") ELSE Goto("replay") /\ UNCHANGED processVars
  <2>1. /\ DiskSound'
        /\ models'[saved_to] \in {File(model), Damaged}
        /\ \A p \in ModelPaths : p # saved_to => models'[p] = models[p]
    BY <1>1, <1>3, Renamed
  <2>2. CASE Exit("0")
    BY <1>1, <2>1, <2>2, ExitStep
  <2>3. CASE ~finishing /\ Goto("replay") /\ UNCHANGED processVars
    <3>1. models'[saved_to].model.version <= model.version
      <4>1. model.version \in Nat
        BY DEF AppInv, ReplayInv, Model
      <4> QED
        BY <2>1, <4>1 DEF File, Damaged, NoModel
    <3>2. \A p \in ModelPaths : models'[p].model.version <= model.version \/ models'[p] = models[p]
      BY <2>1, <3>1
    <3> QED
      BY <1>1, <2>1, <2>3, <3>2, GoesOn DEF Saving
  <2> QED
    BY <1>3, <2>2, <2>3
<1> QED
  BY <1>2, <1>3, Zenon DEF SaveRename, rename_failed

(* Control mode writes the generated file while no replay runs. *)
LEMMA GenerateStep ==
  AppInv /\ (GenerateOpen \/ GenerateWrite \/ GenerateClose) => AppInv'
<1> SUFFICES ASSUME AppInv, GenerateOpen \/ GenerateWrite \/ GenerateClose PROVE AppInv'
  OBVIOUS
<1>1. /\ pc \in {"control", "generate"} /\ pc' \in {"control", "generate"}
      /\ UNCHANGED <<models, argv, options, input, gpu, model, finishing, invocation>>
  BY DEF GenerateOpen, GenerateWrite, GenerateClose, Goto, processVars
<1>2. \/ inputs' = inputs
      \/ \E file \in EventFile : inputs' = [inputs EXCEPT ![GeneratedPath] = file]
  <2>1. CASE GenerateOpen
    BY <2>1, FilesTyped DEF GenerateOpen, Csv
  <2>2. CASE GenerateWrite
    BY <2>2, FilesTyped DEF GenerateWrite
  <2>3. CASE GenerateClose
    BY <2>3, FilesTyped DEF GenerateClose
  <2> QED
    BY <2>1, <2>2, <2>3
<1>3. option' = option
  BY <1>1, OptionKept
<1>4. OptionInv'
  BY <1>1, <1>3 DEF AppInv, OptionInv, Phases, Replaying, Saving
<1>5. ReplayInv'
  BY <1>1, <1>3 DEF AppInv, ReplayInv, Replaying, Saving
<1>6. DiskInv'
  BY <1>1, <1>2 DEF AppInv, DiskInv, DiskSound, SoundFile
<1>7. ResumeInv' /\ WholeInputOnly'
  BY <1>1 DEF AppInv, ReplayInv, ResumeInv, WholeInputOnly, Replaying, Saving
<1> QED
  BY <1>4, <1>5, <1>6, <1>7 DEF AppInv

LEMMA RunCommandStep == AppInv /\ RunCommand => AppInv'
<1> SUFFICES ASSUME AppInv, RunCommand PROVE AppInv'
  OBVIOUS
<1>1. /\ pc = "control" /\ pc' = "replay"
      /\ UNCHANGED <<models, inputs, argv, options, finishing, invocation>>
  BY DEF RunCommand, Goto, diskVars
<1>2. DiskSound' /\ DiskSound
  BY DiskKept DEF RunCommand, AppInv, DiskInv
<1>3. PICK path : \E events \in read_events(path, inputs) :
        /\ input' = {[path |-> path, events |-> events]}
        /\ model' = initial_model_parameters(option.config)
  BY DEF RunCommand
<1>4. option' = option
  BY <1>1, OptionKept
<1>5. OptionInv'
  BY <1>1, <1>4 DEF AppInv, OptionInv, Phases, Replaying, Saving
<1>6. ReplayInv'
  BY <1>1, <1>3, InitialModelTyped DEF AppInv, ReplayInv, Replaying, Saving
<1>7. DiskInv' /\ ResumeInv'
  BY <1>1, <1>2, <1>4 DEF AppInv, OptionInv, DiskInv, ResumeInv
<1>8. WholeInputOnly'
  <2>1. PICK events \in read_events(path, inputs) : input' = {[path |-> path, events |-> events]}
    BY <1>3
  <2>2. \A i \in input' : i.path = path /\ i.events = events
    BY <2>1
  <2> QED
    BY <1>1, <1>2, <2>2, WholeFileRead DEF WholeInputOnly
<1> QED
  BY <1>5, <1>6, <1>7, <1>8 DEF AppInv

LEMMA RunCommandEndsStep == AppInv /\ RunCommandEnds => AppInv'
<1> SUFFICES ASSUME AppInv, RunCommandEnds PROVE AppInv'
  OBVIOUS
<1>1. /\ pc = "replay" /\ pc' = "control" /\ option.input_path = {}
      /\ input' = {} /\ model' = NoModel
      /\ UNCHANGED <<options, finishing, invocation>>
  BY DEF RunCommandEnds, Goto
<1>2. option' = option
  BY <1>1, OptionKept
<1>3. OptionInv'
  BY <1>1, <1>2 DEF AppInv, OptionInv, Phases, Replaying, Saving
<1>4. ReplayInv'
  BY <1>1, ModelFilesTyped DEF AppInv, ReplayInv, Replaying, Saving
<1>5. DiskInv'
  BY <1>1, DiskKept DEF RunCommandEnds, DiskInv
<1>6. ResumeInv' /\ WholeInputOnly'
  BY <1>1 DEF ResumeInv, WholeInputOnly, Saving
<1> QED
  BY <1>3, <1>4, <1>5, <1>6 DEF AppInv

LEMMA PowerLossStep == AppInv /\ PowerLoss => AppInv'
<1> SUFFICES ASSUME AppInv, PowerLoss PROVE AppInv'
  OBVIOUS
<1>1. DiskSound /\ Exit("killed") /\ UNCHANGED invocation
  BY DEF AppInv, DiskInv, PowerLoss
<1>2. PICK lost \in SUBSET unsynced :
        /\ models' = [p \in DOMAIN models |-> IF p \in lost THEN Damaged ELSE models[p]]
        /\ \/ UNCHANGED inputs
           \/ inputs' = [inputs EXCEPT ![GeneratedPath] = Csv(FALSE, 0, "nothing")]
  BY Zenon DEF PowerLoss
<1>3. DOMAIN models' = DOMAIN models /\ models' \in [DOMAIN models -> ModelFile]
  BY <1>1, <1>2, ModelFilesTyped DEF DiskSound
<1>4. \A p \in ModelPaths : models'[p] = Damaged \/ models'[p] = models[p]
  BY <1>1, <1>2 DEF DiskSound
<1>5. \A path \in DOMAIN inputs' : inputs'[path] \in EventFile
  <2> DEFINE file == Csv(FALSE, 0, "nothing")
  <2>1. file \in EventFile
    BY FilesTyped, Zenon
  <2> HIDE DEF file
  <2>2. UNCHANGED inputs \/ inputs' = [inputs EXCEPT ![GeneratedPath] = file]
    BY <1>2, Zenon DEF file
  <2> QED
    BY <1>1, <2>1, <2>2 DEF DiskSound
<1>6. DiskSound'
  BY <1>1, <1>3, <1>4, <1>5 DEF DiskSound, SoundFile
<1> QED
  BY <1>1, <1>6, ExitStep

LEMMA UnchangedStep ==
  AppInv /\ UNCHANGED <<inputs, models, processVars, invocation, pc, code>> => AppInv'
<1> SUFFICES ASSUME AppInv, UNCHANGED <<inputs, models, processVars, invocation, pc, code>>
             PROVE  AppInv'
  OBVIOUS
<1>1. UNCHANGED <<inputs, models, argv, options, input, gpu, model, finishing, invocation, pc>>
  BY DEF processVars
<1>2. option' = option
  BY <1>1, OptionKept
<1>3. OptionInv'
  BY <1>1, <1>2 DEF AppInv, OptionInv, Launched
<1>4. ReplayInv' /\ ResumeInv' /\ WholeInputOnly'
  BY <1>1, <1>2 DEF AppInv, ReplayInv, ResumeInv, WholeInputOnly, validate
<1>5. saved_to' = saved_to
  BY <1>1, <1>2 DEF saved_to, only
<1>6. DiskInv'
  BY <1>1, <1>5 DEF AppInv, DiskInv, DiskSound, SoundFile, File
<1> QED
  BY <1>3, <1>4, <1>6 DEF AppInv

LEMMA NextInv == AppInv /\ [Next]_vars => AppInv'
<1> SUFFICES ASSUME AppInv, [Next]_vars PROVE AppInv'
  OBVIOUS
<1>1. CASE Launch
  BY <1>1, LaunchStep
<1>2. CASE Parse
  BY <1>2, ParseStep
<1>3. CASE Dispatch
  BY <1>3, DispatchStep
<1>4. CASE ReadInput
  BY <1>4, ReadInputStep
<1>5. CASE LoadModel
  BY <1>5, LoadModelStep
<1>6. CASE Adopt
  BY <1>6, AdoptStep
<1>7. CASE ReplayEnds
  BY <1>7, ReplayEndsStep
<1>8. CASE SaveOpen
  BY <1>8, SaveOpenStep
<1>9. CASE SaveWrite
  BY <1>9, SaveWriteStep
<1>10. CASE SaveRename
  BY <1>10, SaveRenameStep
<1>11. CASE GenerateOpen \/ GenerateWrite \/ GenerateClose
  BY <1>11, GenerateStep
<1>12. CASE RunCommand
  BY <1>12, RunCommandStep
<1>13. CASE RunCommandEnds
  BY <1>13, RunCommandEndsStep
<1>14. CASE StopSignal \/ Killed
  BY <1>14, ExitStep, DiskKept DEF StopSignal, Killed
<1>15. CASE Writeback
  BY <1>15, UnchangedStep DEF Writeback
<1>16. CASE PowerLoss
  BY <1>16, PowerLossStep
<1>17. CASE UNCHANGED vars
  BY <1>17, UnchangedStep DEF vars, diskVars
<1> QED
  BY <1>1, <1>2, <1>3, <1>4, <1>5, <1>6, <1>7, <1>8, <1>9, <1>10, <1>11, <1>12, <1>13, <1>14,
     <1>15, <1>16, <1>17 DEF Next, Done

LEMMA AppInvariant == Spec => []AppInv
BY InitInv, NextInv, PTL DEF Spec

-----------------------------------------------------------------------------
(* The theorems. *)

(* Whatever cuts a save off, at whatever step, a model's path holds nothing, *)
(* a damaged file (a full disk, a power failure) or a model that loads.      *)
THEOREM CheckpointsLoad == Spec => []CheckpointAlwaysLoads
<1>1. AppInv => CheckpointAlwaysLoads
  <2> SUFFICES ASSUME AppInv, NEW p \in ModelPaths
               PROVE  models[p].kind \in {"missing", "damaged"} \/ load_model_file(p) # {}
    BY DEF CheckpointAlwaysLoads
  <2>1. p \in DOMAIN models /\ SoundFile(models[p])
    BY DEF AppInv, DiskInv, DiskSound
  <2>2. CASE models[p] = NoFile \/ models[p] = Damaged
    BY <2>2 DEF NoFile, Damaged
  <2>3. ASSUME NEW m \in Model, validate(m), models[p] = File(m)
        PROVE  load_model_file(p) # {}
    <3>1. models[p].kind = "json" /\ models[p].model = m
      BY <2>3 DEF File
    <3> QED
      BY <2>1, <2>3, <3>1 DEF load_model_file
  <2> QED
    BY <2>1, <2>2, <2>3 DEF SoundFile
<1> QED
  BY <1>1, AppInvariant, PTL

(* What a replay consumes was written as a whole, or cut where the CSV      *)
(* reader cannot see it.                                                    *)
THEOREM InputsAreWhole == Spec => []WholeInputOnly
<1>1. AppInv => WholeInputOnly
  BY DEF AppInv
<1> QED
  BY <1>1, AppInvariant, PTL

(* No command line that breaks a rule of the configuration is accepted, and *)
(* no number is cut to 32 bits on its way into the batch size.              *)
THEOREM OptionsAreSound == Spec => []AcceptedOptionsSound
<1>1. AppInv => AcceptedOptionsSound
  <2> SUFFICES ASSUME AppInv, pc = "parsed"
               PROVE  /\ validate_config(option.config)
                      /\ SizeSound(argv, option.config.feature_batch_size)
    BY DEF AcceptedOptionsSound, SizeSound
  <2>1. Launched /\ options = parse_command_line(argv) /\ options # {}
    BY DEF AppInv, OptionInv
  <2>2. PICK n \in 1 .. MaxInvocations : argv \in CommandLines(n)
    BY <2>1 DEF Launched
  <2>3. argv \in Seq(STRING)
    BY <2>2, CommandLinesAssumption, Zenon
  <2>4. option \in parse_command_line(argv)
    BY <2>1, OptionChosen
  <2> QED
    BY <2>3, <2>4, ParsedLine, Zenon
<1> QED
  BY <1>1, AppInvariant, PTL

(* Resuming never sets a checkpoint back. *)
THEOREM CheckpointsKept == Spec => CheckpointsNotLost
<1> DEFINE Kept == \A p \in ModelPaths :
             /\ options # {} /\ option.model_in = {p} /\ ~option.reset_model
             /\ models'[p].kind = "json"
             => models'[p].model.version >= models[p].model.version
<1>1. AppInv /\ AppInv' /\ [Next]_vars => [Kept]_vars
  <2> SUFFICES ASSUME AppInv, Next, NEW p \in ModelPaths, options # {}, option.model_in = {p},
                      ~option.reset_model, models'[p].kind = "json"
               PROVE  models'[p].model.version >= models[p].model.version
    OBVIOUS
  <2>1. models[p].model.version \in Nat
    BY DEF AppInv, DiskInv, DiskSound, ModelFile, Model
  <2>2. CASE models'[p] = models[p]
    BY <2>1, <2>2
  <2>3. CASE SaveOpen \/ SaveWrite
    <3>1. pc \in Saving /\ UNCHANGED inputs
      BY <2>3 DEF SaveOpen, SaveWrite, Saving
    <3>2. \/ UNCHANGED models
          \/ \E file \in ModelFile : Write(temporary(saved_to), file)
      BY <2>3, ModelFilesTyped DEF SaveOpen, SaveWrite, AppInv, ReplayInv
    <3> QED
      BY <2>2, <3>1, <3>2, TemporaryWritten
  <2>4. CASE SaveRename
    <3>1. \/ UNCHANGED models
          \/ models' = [models EXCEPT ![saved_to] = models[temporary(saved_to)],
                                      ![temporary(saved_to)] = NoFile]
      BY <2>4, Zenon DEF SaveRename
    <3>2. pc = "save_rename" /\ UNCHANGED inputs
      BY <2>4 DEF SaveRename
    <3>3. models'[p] = models[p] \/ (p = saved_to /\ models'[p] \in {File(model), Damaged})
      BY <3>1, <3>2, Renamed
    <3>4. models'[p] # Damaged
      BY DEF Damaged
    <3>5. models[p].model.version <= model.version
      BY <3>2 DEF AppInv, OptionInv, ResumeInv, Saving
    <3>6. model.version \in Nat
      BY DEF AppInv, ReplayInv, Model
    <3> QED
      BY <2>1, <2>2, <3>3, <3>4, <3>5, <3>6 DEF File
  <2>5. CASE PowerLoss
    <3>1. models'[p] = Damaged \/ models'[p] = models[p]
      BY <2>5 DEF PowerLoss, AppInv, DiskInv, DiskSound
    <3> QED
      BY <2>2, <3>1 DEF Damaged
  <2>6. CASE ~(SaveOpen \/ SaveWrite \/ SaveRename \/ PowerLoss)
    <3>1. UNCHANGED models
      BY <2>6 DEF Next, Launch, Parse, Dispatch, ReadInput, LoadModel, Adopt, ReplayEnds,
        GenerateOpen, GenerateWrite, GenerateClose, RunCommand, RunCommandEnds, StopSignal, Killed,
        Writeback, Done, vars, diskVars
    <3> QED
      BY <2>2, <3>1
  <2> QED
    BY <2>3, <2>4, <2>5, <2>6
<1> QED
  BY <1>1, AppInvariant, PTL DEF CheckpointsNotLost, Spec

(* Exit code 0 means that the final model is where --model-out says. *)
THEOREM ZeroMeansSaved == Spec => ExitZeroMeansSaved
<1> DEFINE Saved == input # {} /\ option.input_path # {} /\ pc' = "exited" /\ code' = "0" =>
             \A p \in option.model_out : models'[p] \in {File(model), Damaged}
<1>1. AppInv /\ [Next]_vars => [Saved]_vars
  <2> SUFFICES ASSUME AppInv, Next, input # {}, option.input_path # {}, pc' = "exited", code' = "0",
                      NEW p \in option.model_out
               PROVE  models'[p] \in {File(model), Damaged}
    OBVIOUS
  <2>1. pc \in Replaying
    BY DEF AppInv, ReplayInv
  <2>2. pc = "save_rename" /\ SaveRename
    <3>1. ~(Launch \/ Parse \/ Dispatch \/ ReadInput \/ GenerateOpen \/ GenerateWrite
              \/ GenerateClose \/ RunCommand \/ StopSignal)
      BY <2>1 DEF Replaying, Saving, Launch, Parse, Dispatch, ReadInput, GenerateOpen,
        GenerateWrite, GenerateClose, RunCommand, StopSignal
    <3>2. ~(LoadModel \/ Adopt \/ RunCommandEnds \/ Killed \/ PowerLoss \/ Writeback \/ Done)
      BY <2>1 DEF LoadModel, Adopt, RunCommandEnds, Killed, PowerLoss, Writeback, Done, Exit, Goto,
        Replaying, Saving
    <3>3. ~ReplayEnds
      BY DEF ReplayEnds, Exit, Goto
    <3>4. ~(SaveOpen \/ SaveWrite)
      BY DEF SaveOpen, SaveWrite, SaveThrows, Exit, Goto
    <3> QED
      BY <3>1, <3>2, <3>3, <3>4 DEF Next, SaveRename
  <2>3. /\ finishing /\ UNCHANGED inputs
        /\ models' = [models EXCEPT ![saved_to] = models[temporary(saved_to)],
                                    ![temporary(saved_to)] = NoFile]
    <3>1. UNCHANGED inputs
      BY <2>2 DEF SaveRename
    <3>2. ~SaveThrows
      BY <2>2 DEF SaveThrows, Exit, Goto
    <3>3. ~Goto("replay")
      BY DEF Goto
    <3> QED
      BY <2>2, <3>1, <3>2, <3>3, Zenon DEF SaveRename, rename_failed
  <2>4. p = saved_to
    <3>1. saved_to \in option.model_out /\ options # {}
      BY <2>2, <2>3, SavedToModelPath DEF AppInv, OptionInv, Saving
    <3> QED
      BY <3>1 DEF AppInv, OptionInv
  <2> QED
    BY <2>2, <2>3, <2>4, Renamed
<1> QED
  BY <1>1, AppInvariant, PTL DEF ExitZeroMeansSaved, Spec
=============================================================================
