---------------------------- MODULE LiveTransport ----------------------------
(***************************************************************************)
(* What the threads of one LiveCoordinator::run share: the result ring, the *)
(* update mailbox, and the replay they work on.                             *)
(*                                                                          *)
(* The ring is SpscRing with kLiveResultRingCapacity slots.  A ring value   *)
(* is the stream index of an RTL result.  The other fields of               *)
(* RtlStreamResult that the host looks at are functions of the replay and   *)
(* not of its timing, so they are a table fixed for the run: whether the    *)
(* event was a book error, whether its features are valid, and whether both *)
(* sides of the book are quoted after it.                                   *)
(***************************************************************************)
EXTENDS Mailbox, SpscRing

CONSTANTS
  EventCount,        \* number of selected events of the replay
  Outcomes,          \* the replays to consider: tables of results
  Faults             \* what may go wrong outside the program; see FaultKinds

EventIndex == 0 .. EventCount - 1

(* backpressure_timeout: the consumer is so slow that the ring stays full    *)
(* for longer than kDefaultResultBackpressureTimeout.  autosave: the        *)
(* model_applied callback cannot write the model file.  opencl: a call to   *)
(* OpenCL fails.  gpu_config: the GpuWorker constructor rejects the         *)
(* configuration (a learning rate that is zero in Q16.16).                  *)
FaultKinds == {"backpressure_timeout", "autosave", "opencl", "gpu_config"}

ASSUME TransportAssumption ==
  /\ EventCount \in Nat
  /\ Values = 0 .. EventCount /\ DefaultValue = 0
  /\ Outcomes \subseteq [EventIndex -> [error : BOOLEAN, features_valid : BOOLEAN, quoted : BOOLEAN]]
  /\ Faults \subseteq FaultKinds

VARIABLE outcome              \* the replay of this run, a member of Outcomes

transportVars == <<outcome, mailboxVars, ringVars>>

TransportInit ==
  /\ outcome \in Outcomes
  /\ MailboxInit
  /\ RingInit
=============================================================================
