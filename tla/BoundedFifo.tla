----------------------------- MODULE BoundedFifo -----------------------------
(***************************************************************************)
(* What the result ring promises its two users: a queue of at most         *)
(* Capacity values, first in first out, from which the consumer takes one  *)
(* value at a time.  The consumer looks at the head before it removes it,  *)
(* and what it looks at does not change under it.                          *)
(***************************************************************************)
EXTENDS Naturals, Sequences

CONSTANTS Capacity, Values

VARIABLES
  queue,    \* the published values the consumer has not released yet
  held      \* <<>>, or <<v>> while the consumer reads the value v

fifoVars == <<queue, held>>

Init ==
  /\ queue = <<>>
  /\ held = <<>>

(* The producer publishes v. *)
Push(v) ==
  /\ Len(queue) < Capacity
  /\ queue' = Append(queue, v)
  /\ UNCHANGED held

(* The consumer begins to read the oldest value, which stays in the queue. *)
BeginPop ==
  /\ held = <<>>
  /\ queue # <<>>
  /\ held' = <<Head(queue)>>
  /\ UNCHANGED queue

(* The consumer gives the value's place back. *)
FinishPop ==
  /\ held # <<>>
  /\ queue' = Tail(queue)
  /\ held' = <<>>

Next ==
  \/ \E v \in Values : Push(v)
  \/ BeginPop
  \/ FinishPop

Spec == Init /\ [][Next]_fifoVars
=============================================================================
