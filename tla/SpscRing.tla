------------------------------ MODULE SpscRing ------------------------------
(***************************************************************************)
(* SpscRingBuffer (include/app/spsc_ring_buffer.hpp): the bounded          *)
(* single-producer single-consumer ring that carries RTL results from      *)
(* VerilatorWorker to GpuWorker (or to the coordinator's drain loop).      *)
(*                                                                         *)
(* Every action makes at most one access to an atomic position, so the     *)
(* interleavings of the actions are those of the two threads.              *)
(*                                                                         *)
(* Each position is an unsigned counter that wraps at PositionModulus      *)
(* (2^64 in the code).  The code keeps a private copy of each position and *)
(* an atomic one:                                                          *)
(*   - producer_write_position is the producer's copy and also the value   *)
(*     of its latest release store;                                        *)
(*   - published_write_position is the value the consumer's acquire load   *)
(*     returns.  It may lag: C++ lets a load return an older value until   *)
(*     the store has propagated.  With StaleLoads = FALSE stores are seen  *)
(*     at once, which is how the memory model of x86 shows these positions;*)
(*   - consumer_read_position and released_read_position are the same pair *)
(*     in the other direction.                                             *)
(***************************************************************************)
EXTENDS Integers, Sequences

CONSTANTS
  Capacity,         \* number of slots; 1024 in live_coordinator.cpp
  PositionModulus,  \* 2^64 in the code: where a position wraps to zero
  Values,           \* the type T
  DefaultValue,     \* T{}: make_unique<T[]> value-initialises the slots
  StaleLoads        \* may an acquire load return an older position?

(* require_positive_capacity, and what wrapping positions need: the slot    *)
(* index stays in step across the wrap because 1024 divides 2^64.           *)
ASSUME RingAssumption ==
  /\ Capacity \in Nat \ {0}
  /\ PositionModulus \in Nat
  /\ Capacity < PositionModulus
  /\ PositionModulus % Capacity = 0
  /\ DefaultValue \in Values
  /\ StaleLoads \in BOOLEAN

VARIABLES
  storage,
  producer_write_position,
  producer_has_reservation,
  published_write_position,
  consumer_read_position,
  consumer_has_value,
  released_read_position

producerVars == <<producer_write_position, producer_has_reservation>>
consumerVars == <<consumer_read_position, consumer_has_value>>
ringVars == <<storage, producerVars, published_write_position, consumerVars,
              released_read_position>>

Position == 0 .. PositionModulus - 1
Slot == 0 .. Capacity - 1

(* Unsigned arithmetic on positions: p + k, and the subtraction left - right. *)
Plus(p, k) == IF p + k < PositionModulus THEN p + k ELSE p + k - PositionModulus
Distance(left, right) ==
  IF left >= right THEN left - right ELSE left - right + PositionModulus

SlotOf(p) == p % Capacity

RingInit ==
  /\ storage = [s \in Slot |-> DefaultValue]
  /\ producer_write_position = 0
  /\ producer_has_reservation = FALSE
  /\ published_write_position = 0
  /\ consumer_read_position = 0
  /\ consumer_has_value = FALSE
  /\ released_read_position = 0

-----------------------------------------------------------------------------
(* The producer's calls.  A call that would throw logic_error (a second     *)
(* reservation, a publication without one) is not enabled; the modules that *)
(* use the ring show that their workers never make one.                     *)

(* Mistakes: one slot too many, and a signed comparison. *)
RingFullOffByOne == Distance(producer_write_position, released_read_position) > Capacity
RingFullSigned == producer_write_position - released_read_position >= Capacity

RingFull == Distance(producer_write_position, released_read_position) >= Capacity

try_reserve_push ==
  /\ ~producer_has_reservation
  /\ ~RingFull
  /\ producer_has_reservation' = TRUE
  /\ UNCHANGED <<storage, producer_write_position, published_write_position,
                 consumerVars, released_read_position>>

(* The caller writes v through the pointer that try_reserve_push returned.  *)
write_reserved_slot(v) ==
  /\ producer_has_reservation
  /\ storage' = [storage EXCEPT ![SlotOf(producer_write_position)] = v]
  /\ UNCHANGED <<producerVars, published_write_position, consumerVars,
                 released_read_position>>

publish_push ==
  /\ producer_has_reservation
  /\ producer_has_reservation' = FALSE
  /\ producer_write_position' = Plus(producer_write_position, 1)
  /\ published_write_position' =
       IF StaleLoads THEN published_write_position ELSE producer_write_position'
  /\ UNCHANGED <<storage, consumerVars, released_read_position>>

cancel_push ==
  /\ producer_has_reservation
  /\ producer_has_reservation' = FALSE
  /\ UNCHANGED <<storage, producer_write_position, published_write_position,
                 consumerVars, released_read_position>>

-----------------------------------------------------------------------------
(* The consumer's calls. *)

RingEmpty == consumer_read_position = published_write_position

(* A mistake: the slot is released before it is read. *)
try_begin_pop_releasing ==
  /\ ~consumer_has_value
  /\ ~RingEmpty
  /\ consumer_has_value' = TRUE
  /\ released_read_position' = Plus(consumer_read_position, 1)
  /\ UNCHANGED <<storage, producerVars, published_write_position,
                 consumer_read_position>>

try_begin_pop ==
  /\ ~consumer_has_value
  /\ ~RingEmpty
  /\ consumer_has_value' = TRUE
  /\ UNCHANGED <<storage, producerVars, published_write_position,
                 consumer_read_position, released_read_position>>

finish_pop ==
  /\ consumer_has_value
  /\ consumer_has_value' = FALSE
  /\ consumer_read_position' = Plus(consumer_read_position, 1)
  /\ released_read_position' =
       IF StaleLoads THEN released_read_position ELSE consumer_read_position'
  /\ UNCHANGED <<storage, producerVars, published_write_position>>

(* The slot the consumer reads while it holds a value. *)
value_in_hand == storage[SlotOf(consumer_read_position)]

(* size() as the producer's thread calls it for the dashboard: it sees its  *)
(* own stores, and whatever the consumer's stores it can see.  empty() on   *)
(* the consumer's thread is RingEmpty.                                      *)
size == Distance(producer_write_position, released_read_position)

-----------------------------------------------------------------------------
(* A release store reaches the other thread. *)

propagate_published ==
  /\ published_write_position # producer_write_position
  /\ published_write_position' = Plus(published_write_position, 1)
  /\ UNCHANGED <<storage, producerVars, consumerVars, released_read_position>>

propagate_released ==
  /\ released_read_position # consumer_read_position
  /\ released_read_position' = Plus(released_read_position, 1)
  /\ UNCHANGED <<storage, producerVars, published_write_position, consumerVars>>

Propagate == propagate_published \/ propagate_released

RingNext ==
  \/ try_reserve_push
  \/ \E v \in Values : write_reserved_slot(v)
  \/ publish_push
  \/ cancel_push
  \/ try_begin_pop
  \/ finish_pop
  \/ Propagate

RingSpec == RingInit /\ [][RingNext]_ringVars

-----------------------------------------------------------------------------
(* Properties. *)

(* Each variable has its type. *)
RingTypeOK ==
  /\ storage \in [Slot -> Values]
  /\ producer_write_position \in Position
  /\ producer_has_reservation \in BOOLEAN
  /\ published_write_position \in Position
  /\ consumer_read_position \in Position
  /\ consumer_has_value \in BOOLEAN
  /\ released_read_position \in Position

(* The four positions stay in their order around the counter's circle       *)
(* (released, consumed, published, written), none overtakes another, and    *)
(* the outer two are never more than Capacity apart.  This is what makes    *)
(* the unsigned subtractions of try_reserve_push and size() mean what they  *)
(* say, also across the wrap; size() is the last line.                      *)
PositionsInOrder ==
  /\ Distance(consumer_read_position, released_read_position)
     + Distance(published_write_position, consumer_read_position)
     + Distance(producer_write_position, published_write_position) = size
  /\ size <= Capacity

(* A writer never owns the slot the reader is looking at: the reserved slot *)
(* and the slot in hand differ, however the threads interleave and however  *)
(* old the positions are that their loads returned.                         *)
NoSlotAliasing ==
  producer_has_reservation /\ consumer_has_value
    => SlotOf(producer_write_position) # SlotOf(consumer_read_position)

(* Why the above hold.  A reservation keeps its room, because the consumer  *)
(* only ever gives slots back; a value in hand stays published, because     *)
(* only the consumer moves the read position.                               *)
ReservationHasRoom == producer_has_reservation => size < Capacity
ValueInHandIsPublished ==
  consumer_has_value => consumer_read_position # published_write_position

(* The inductive invariant of the ring. *)
RingInv ==
  /\ RingTypeOK
  /\ PositionsInOrder
  /\ ReservationHasRoom
  /\ ValueInHandIsPublished

(* The ring implements the bounded FIFO: the queue is the published slots   *)
(* not yet released, and the value in hand is read from the slot itself.    *)
QueueBar ==
  [i \in 1 .. Distance(producer_write_position, consumer_read_position) |->
     storage[SlotOf(Plus(consumer_read_position, i - 1))]]
HeldBar == IF consumer_has_value THEN <<value_in_hand>> ELSE <<>>

Fifo == INSTANCE BoundedFifo WITH queue <- QueueBar, held <- HeldBar

(* Every published value is delivered exactly once, in order and unchanged, *)
(* and a cancelled or unpublished write is never seen.                      *)
ImplementsFifo == Fifo!Spec
=============================================================================
