------------------------------ MODULE RtlStream ------------------------------
(***************************************************************************)
(* What market_stream_adapter promises its driver: it takes one event at a  *)
(* time, numbers it, and holds its one result until the driver takes it; a  *)
(* model is replaced only while it holds and processes nothing.  This is    *)
(* the RTL that VerilatorWorker's model works with.                         *)
(***************************************************************************)
EXTENDS Naturals

VARIABLES
  stage,      \* "idle", "busy" with an event, "held": its result waits
  accepted,   \* events taken so far; event accepted - 1 is the current one
  held_index, \* the stream index the held result shows
  model       \* version of the active model

streamVars == <<stage, accepted, held_index, model>>

Init ==
  /\ stage = "idle"
  /\ accepted = 0
  /\ held_index = 0
  /\ model = 0

Accept ==
  /\ stage = "idle"
  /\ stage' = "busy"
  /\ accepted' = accepted + 1
  /\ UNCHANGED <<held_index, model>>

Complete ==
  /\ stage = "busy"
  /\ stage' = "held"
  /\ held_index' = accepted - 1
  /\ UNCHANGED <<accepted, model>>

Take ==
  /\ stage = "held"
  /\ stage' = "idle"
  /\ UNCHANGED <<accepted, held_index, model>>

Commit ==
  /\ stage = "idle"
  /\ model' \in Nat
  /\ UNCHANGED <<stage, accepted, held_index>>

Next == Accept \/ Complete \/ Take \/ Commit

Spec == Init /\ [][Next]_streamVars
=============================================================================
