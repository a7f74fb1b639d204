----------------------------- MODULE EventFiles -----------------------------
(***************************************************************************)
(* Market event files (src/market/event.cpp, src/io/event_reader.cpp).  A   *)
(* file is described by how much of it is there.  For CSV: the header, the  *)
(* number of complete lines, and what there is of one more line (nothing,   *)
(* some of its fields, or all but the last digits of its quantity).  For    *)
(* MKT1: magic and layout, the record count of the header, the complete     *)
(* records, and whether some bytes follow them.                             *)
(***************************************************************************)
EXTENDS Integers

CONSTANTS
  BinaryPaths,     \* the paths that end in .mkt or .bin
  FileEvents       \* the number of events of a complete file

ASSUME EventFilesAssumption == FileEvents \in Nat

Missing == [kind |-> "missing"]
Csv(header, lines, rest) == [kind |-> "csv", header |-> header, lines |-> lines, rest |-> rest]
Binary(layout, count, records, extra) ==
  [kind |-> "binary", layout |-> layout, count |-> count, records |-> records, extra |-> extra]

EventFile ==
  {Missing}
    \cup [kind : {"csv"}, header : BOOLEAN, lines : Nat, rest : {"nothing", "fields", "digits"}]
    \cup [kind : {"binary"}, layout : BOOLEAN, count : Nat, records : Nat, extra : BOOLEAN]

(* What write_csv() leaves when all of it reaches the disk, and the ways in *)
(* which a stream that stops early cuts it.                                 *)
write_csv(events) == Csv(TRUE, events, "nothing")
CutCsv(events) ==
  {Csv(FALSE, 0, "nothing")}
    \cup {Csv(TRUE, lines, rest) : lines \in 0 .. events - 1, rest \in {"nothing", "fields", "digits"}}
write_binary(events) == Binary(TRUE, events, events, FALSE)

(* A replay: its number of events, and whether the last one is as written.  *)
Events(count, exact) == [count |-> count, exact |-> exact]

(* A line that lacks digits still has five fields and a number in each. *)
read_csv(file) ==
  CASE ~file.header \/ file.rest = "fields" -> {}
    [] file.rest = "digits" -> {Events(file.lines + 1, FALSE)}
    [] OTHER -> {Events(file.lines, TRUE)}

(* A mistake: what follows the last record is not looked at. *)
read_binary_trailing(file) ==
  IF file.layout /\ file.records >= file.count THEN {Events(file.count, TRUE)} ELSE {}

(* Reads count records, and then there must be nothing left. *)
read_binary(file) ==
  IF file.layout /\ file.records = file.count /\ ~file.extra
    THEN {Events(file.count, TRUE)} ELSE {}

(* The extension chooses the reader; neither reader takes the other format. *)
read_events(path, files) ==
  IF path \notin DOMAIN files
    THEN {}
    ELSE CASE path \in BinaryPaths /\ files[path].kind = "binary" -> read_binary(files[path])
           [] path \notin BinaryPaths /\ files[path].kind = "csv" -> read_csv(files[path])
           [] OTHER -> {}
=============================================================================
