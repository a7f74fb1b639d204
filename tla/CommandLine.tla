---------------------------- MODULE CommandLine ----------------------------
(***************************************************************************)
(* The configuration file and the command line (src/app/config.cpp).  A     *)
(* command line is a sequence of arguments; an optional value is {} or a    *)
(* singleton, and so is what may throw ConfigError.                         *)
(*                                                                          *)
(* The fields of a configuration are the ones a rule is about: counts is    *)
(* the least of the clock period, window, horizon, update interval and      *)
(* dashboard rate, and thresholds are numbers of quarter steps of Q16.16.   *)
(* JSON holds no infinity and no NaN, so the finiteness rules never apply.  *)
(***************************************************************************)
EXTENDS Integers, Sequences, FiniteSetsExt

CONSTANTS
  ConfigFiles,     \* path -> {} (absent, not JSON, not an object or of the
                   \* wrong types) or {config} with the absent fields filled in
  Numbers,         \* argument -> the integer it spells, for those that spell one
  UlongModulus,    \* 2^64
  UintModulus      \* 2^32

Config ==
  [order_book_depth : Nat, counts : Nat, feature_batch_size : Nat, learning_rate : Int,
   l2_regularisation : Int, buy_threshold : Int, sell_threshold : Int,
   dashboard_bind_address : STRING]

ASSUME CommandLineAssumption ==
  /\ UlongModulus \in Nat /\ UintModulus \in 1 .. UlongModulus
  /\ \A argument \in DOMAIN Numbers : Numbers[argument] \in Int
  /\ \A path \in DOMAIN ConfigFiles : ConfigFiles[path] \subseteq Config

DefaultConfigPath == "config/default.json"

validate_config(config) ==
  /\ config.order_book_depth = 10
  /\ config.counts > 0
  /\ config.feature_batch_size > 0
  /\ config.learning_rate > 0
  /\ config.l2_regularisation >= 0
  /\ config.buy_threshold > config.sell_threshold
  /\ config.dashboard_bind_address # ""

(* load_config() and parse_config(). *)
load_config(path) ==
  IF path \in DOMAIN ConfigFiles
    THEN {config \in ConfigFiles[path] : validate_config(config)}
    ELSE {}

(* std::stoull accepts a sign, negates in the unsigned type, and refuses    *)
(* what is out of its range.                                                *)
parse_unsigned_option(argument) ==
  IF argument \in DOMAIN Numbers /\ Numbers[argument] \in 1 - UlongModulus .. UlongModulus - 1
    THEN {Numbers[argument] % UlongModulus} ELSE {}

Flags == {"--reset-model", "--no-gpu", "--no-dashboard", "--list-opencl-devices",
          "--select-gpu", "--gpu-smoke-test", "--gpu-feature-upload", "--live",
          "--trace", "--benchmark", "--help", "-h", "--version"}
PathOptions == {"--config", "--input", "--model-in", "--model-out", "--model-autosave"}
NumberOptions == {"--events", "--seed", "--batch-size", "--gpu-index"}
require_value == PathOptions \cup NumberOptions \cup {"--gpu-name"}

(* The first pass knows no option but --config, so only a --config can take *)
(* the argument after it: a --config that another option has for its value  *)
(* is seen too.                                                             *)
config_at(argv) ==
  LET seen[i \in 1 .. Len(argv)] == argv[i] = "--config" /\ (i = 1 \/ ~seen[i - 1])
  IN {i \in 1 .. Len(argv) : seen[i]}

(* The second pass: the arguments it reads as options. *)
option_at(argv) ==
  LET option[i \in 1 .. Len(argv)] == i = 1 \/ ~(option[i - 1] /\ argv[i - 1] \in require_value)
  IN {i \in 1 .. Len(argv) : option[i]}

(* A mistake: the overrides are not validated. *)
accepted_unchecked(options) ==
  /\ options.events # {0}
  /\ options.gpu_index = {} \/ options.gpu_name = {}
  /\ options.no_gpu =>
       ~options.uses_gpu /\ options.gpu_index = {} /\ options.gpu_name = {}

(* What parse_command_line() checks when all arguments are read. *)
accepted(options) ==
  /\ options.events # {0}
  /\ options.gpu_index = {} \/ options.gpu_name = {}
  /\ options.no_gpu =>
       ~options.uses_gpu /\ options.gpu_index = {} /\ options.gpu_name = {}
  /\ validate_config(options.config)

(* An option given twice has its last value, but each of its values must be *)
(* one.                                                                     *)
given(argv, name) == \E i \in option_at(argv) : argv[i] = name
values_at(argv, name) == {i + 1 : i \in {j \in option_at(argv) : argv[j] = name}}
last_value(argv, name) == IF given(argv, name) THEN {argv[Max(values_at(argv, name))]} ELSE {}
last_number(argv, name) == UNION {parse_unsigned_option(value) : value \in last_value(argv, name)}

config_path(argv) ==
  IF config_at(argv) = {} THEN DefaultConfigPath ELSE argv[Max(config_at(argv)) + 1]

(* Nothing that parse_command_line() reads throws. *)
well_formed(argv) ==
  /\ Len(argv) \notin config_at(argv)
  /\ \A i \in option_at(argv) :
       /\ argv[i] \in Flags \cup require_value
       /\ argv[i] \in require_value => i < Len(argv)
       /\ argv[i] \in NumberOptions => parse_unsigned_option(argv[i + 1]) # {}
       /\ argv[i] \in {"--batch-size", "--gpu-index"} =>
            \A n \in parse_unsigned_option(argv[i + 1]) : n < UintModulus
       /\ argv[i] = "--gpu-name" => argv[i + 1] # ""

RuntimeOptions(argv, config) ==
  [config |-> IF given(argv, "--batch-size")
                THEN [config EXCEPT !.feature_batch_size =
                        CHOOSE n \in last_number(argv, "--batch-size") : TRUE]
                ELSE config,
   input_path |-> last_value(argv, "--input"), events |-> last_number(argv, "--events"),
   model_in |-> last_value(argv, "--model-in"), model_out |-> last_value(argv, "--model-out"),
   model_autosave |-> last_value(argv, "--model-autosave"),
   reset_model |-> given(argv, "--reset-model"), no_gpu |-> given(argv, "--no-gpu"),
   no_dashboard |-> given(argv, "--no-dashboard"),
   list_opencl_devices |-> given(argv, "--list-opencl-devices"),
   select_gpu |-> given(argv, "--select-gpu"), gpu_smoke_test |-> given(argv, "--gpu-smoke-test"),
   gpu_feature_upload |-> given(argv, "--gpu-feature-upload"),
   uses_gpu |-> \E name \in {"--select-gpu", "--gpu-smoke-test", "--gpu-feature-upload"} :
                  given(argv, name),
   gpu_index |-> last_number(argv, "--gpu-index"), gpu_name |-> last_value(argv, "--gpu-name")]

(* {options}, or {} for a ConfigError. *)
parse_command_line(argv) ==
  IF well_formed(argv)
    THEN {o \in {RuntimeOptions(argv, config) : config \in load_config(config_path(argv))} :
            accepted(o)}
    ELSE {}
=============================================================================
