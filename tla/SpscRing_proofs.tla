--------------------------- MODULE SpscRing_proofs ---------------------------
(***************************************************************************)
(* Proofs about SpscRing, for every capacity, every counter width that the *)
(* capacity divides, every value type, and both kinds of load.             *)
(***************************************************************************)
EXTENDS SpscRing, TLAPS

-----------------------------------------------------------------------------
(* Arithmetic: what slots do when positions move. *)

(* Division and remainder of naturals. *)
LEMMA DivMod ==
  \A a \in Nat, c \in Nat \ {0} :
     /\ a % c \in 0 .. c - 1
     /\ a \div c \in Nat
     /\ a = c * (a \div c) + (a % c)
  OBVIOUS

(* A positive multiple of c is at least c. *)
LEMMA MultipleAtLeast == \A c \in Nat \ {0}, k \in Int : k >= 1 => c * k >= c
  OBVIOUS

(* Two numbers less than c apart have different remainders modulo c. *)
LEMMA NearbyRemaindersDiffer ==
  ASSUME NEW c \in Nat \ {0}, NEW a \in Nat, NEW d \in 1 .. c - 1
  PROVE  (a + d) % c # a % c
  <1>1. SUFFICES ASSUME (a + d) % c = a % c PROVE FALSE
    OBVIOUS
  <1>2. PICK q1 \in Nat, q2 \in Nat : d = c * q1 - c * q2
    <2>1. a + d \in Nat
      OBVIOUS
    <2>2. /\ (a + d) \div c \in Nat
          /\ a + d = c * ((a + d) \div c) + ((a + d) % c)
      BY <2>1, DivMod
    <2>3. a \div c \in Nat /\ a = c * (a \div c) + (a % c)
      BY DivMod
    <2>4. WITNESS (a + d) \div c \in Nat, a \div c \in Nat
    <2> QED
      BY <1>1, <2>2, <2>3, DivMod
  <1>3. d = c * (q1 - q2)
    BY <1>2
  <1>4. CASE q1 - q2 >= 1
    BY <1>3, <1>4, MultipleAtLeast
  <1>5. CASE q1 - q2 <= 0
    <2>1. c * (q1 - q2) <= 0
      BY <1>5
    <2> QED
      BY <2>1, <1>3
  <1> QED
    BY <1>4, <1>5

(* Taking a multiple of c away does not change the remainder. *)
LEMMA RemainderWithoutMultiple ==
  ASSUME NEW c \in Nat \ {0}, NEW a \in Nat, NEW w \in Nat,
         w <= a, w % c = 0
  PROVE  (a - w) % c = a % c
  <1> DEFINE r == a % c
             r2 == (a - w) % c
             k == ((a - w) \div c) + (w \div c) - (a \div c)
  <1>1. /\ r \in 0 .. c - 1
        /\ r2 \in 0 .. c - 1
        /\ k \in Int
        /\ r - r2 = c * k
    BY DivMod
  <1>2. CASE k >= 1
    BY <1>1, <1>2, MultipleAtLeast
  <1>3. CASE k <= -1
    <2>1. -k \in Int /\ -k >= 1
      BY <1>1, <1>3
    <2>2. c * (-k) >= c
      BY <2>1, MultipleAtLeast
    <2>3. r2 - r = c * (-k)
      BY <1>1
    <2> QED
      BY <1>1, <2>2, <2>3
  <1>4. CASE k = 0
    BY <1>1, <1>4
  <1> QED
    BY <1>1, <1>2, <1>3, <1>4

(* The linear part of the assumption, without the remainder. *)
LEMMA Sizes ==
  /\ Capacity \in Nat \ {0}
  /\ PositionModulus \in Nat
  /\ Capacity < PositionModulus
  BY RingAssumption

(* The slot of a position a little further on, across the wrap or not.      *)
LEMMA SlotAhead ==
  ASSUME NEW p \in Position, NEW k \in 0 .. Capacity
  PROVE  /\ Plus(p, k) \in Position
         /\ SlotOf(Plus(p, k)) = (p + k) % Capacity
  <1>1. CASE p + k < PositionModulus
    BY <1>1, Sizes DEF Plus, SlotOf, Position
  <1>2. CASE p + k >= PositionModulus
    <2>1. (p + k - PositionModulus) % Capacity = (p + k) % Capacity
      <3>1. p + k \in Nat /\ PositionModulus <= p + k
        BY <1>2, Sizes DEF Position
      <3>2. PositionModulus % Capacity = 0
        BY RingAssumption
      <3>3. ASSUME NEW a \in Nat, PositionModulus <= a
            PROVE  (a - PositionModulus) % Capacity = a % Capacity
        BY <3>2, <3>3, Sizes, RemainderWithoutMultiple
      <3>4. PICK a \in Nat : a = p + k
        BY <3>1
      <3>5. (a - PositionModulus) % Capacity = a % Capacity
        BY <3>1, <3>3, <3>4
      <3>6. a - PositionModulus = p + k - PositionModulus
        BY <3>4, Sizes DEF Position
      <3> QED
        BY <3>4, <3>5, <3>6, Zenon
    <2>2. Plus(p, k) = p + k - PositionModulus
      BY <1>2, Sizes DEF Plus, Position
    <2>3. Plus(p, k) \in Position
      BY <1>2, <2>2, Sizes DEF Position
    <2> QED
      BY <2>1, <2>2, <2>3 DEF SlotOf
  <1> QED
    BY <1>1, <1>2, Sizes DEF Position

(* Every position names a slot. *)
LEMMA SlotInRange == ASSUME NEW p \in Position PROVE SlotOf(p) \in Slot
  BY DivMod, Sizes DEF Position, SlotOf, Slot

(* A position is the sum of another one and the distance between them. *)
LEMMA DistancePlus ==
  ASSUME NEW p \in Position, NEW q \in Position
  PROVE  Distance(p, q) \in 0 .. PositionModulus - 1 /\ p = Plus(q, Distance(p, q))
  BY Sizes DEF Position, Plus, Distance

(* Slots of distinct positions less than Capacity apart are distinct. *)
LEMMA SlotsDiffer ==
  ASSUME NEW p \in Position, NEW i \in 0 .. Capacity - 1, NEW j \in 0 .. Capacity - 1,
         i < j
  PROVE  SlotOf(Plus(p, i)) # SlotOf(Plus(p, j))
  <1>1. SlotOf(Plus(p, i)) = (p + i) % Capacity /\ SlotOf(Plus(p, j)) = (p + j) % Capacity
    BY SlotAhead, Sizes
  <1>2. p + i \in Nat /\ j - i \in 1 .. Capacity - 1 /\ p + j = (p + i) + (j - i)
    BY Sizes DEF Position
  <1>3. ((p + i) + (j - i)) % Capacity # (p + i) % Capacity
    BY <1>2, Sizes, NearbyRemaindersDiffer
  <1> QED
    BY <1>1, <1>2, <1>3

-----------------------------------------------------------------------------
(* Positions are closed under steps. *)
LEMMA NextPosition == ASSUME NEW p \in Position PROVE Plus(p, 1) \in Position
  BY Sizes DEF Position, Plus

(* A distance is a natural number, zero only between equal positions. *)
LEMMA DistanceNat ==
  ASSUME NEW p \in Position, NEW q \in Position
  PROVE  Distance(p, q) \in Nat /\ (Distance(p, q) = 0 <=> p = q)
  BY Sizes DEF Position, Distance

(* The distance grows by one when the position in front moves on. *)
LEMMA StepAhead ==
  ASSUME NEW p \in Position, NEW q \in Position, Distance(p, q) < Capacity
  PROVE  Distance(Plus(p, 1), q) = Distance(p, q) + 1
  BY Sizes DEF Position, Plus, Distance

(* The distance shrinks by one when the position behind moves on. *)
LEMMA StepBehind ==
  ASSUME NEW p \in Position, NEW q \in Position, p # q
  PROVE  Distance(p, Plus(q, 1)) = Distance(p, q) - 1
  BY Sizes DEF Position, Plus, Distance

(* Distances add up along the circle when they do not go all the way round. *)
LEMMA DistanceSum ==
  ASSUME NEW p \in Position, NEW q \in Position, NEW r \in Position,
         Distance(p, q) + Distance(q, r) <= Capacity
  PROVE  Distance(p, r) = Distance(p, q) + Distance(q, r)
  BY Sizes DEF Position, Distance

-----------------------------------------------------------------------------
(* The invariant. *)

(* Distances compose: how far the writer is ahead of the reader. *)
LEMMA Occupancy ==
  ASSUME RingInv
  PROVE  /\ Distance(producer_write_position, consumer_read_position) =
              Distance(producer_write_position, published_write_position)
              + Distance(published_write_position, consumer_read_position)
         /\ Distance(producer_write_position, consumer_read_position) <= size
         /\ Distance(producer_write_position, consumer_read_position) \in 0 .. Capacity
  BY Sizes DEF RingInv, RingTypeOK, PositionsInOrder, Distance, Position, size

(* RingInv is inductive.  Each action moves at most one of the positions,   *)
(* and only towards the next one in the circle.                             *)
LEMMA RingInvInductive == RingInv /\ [RingNext]_ringVars => RingInv'
  <1> SUFFICES ASSUME RingInv, [RingNext]_ringVars
               PROVE  RingInv'
    OBVIOUS
  <1> USE DEF RingInv, RingTypeOK, PositionsInOrder, ReservationHasRoom,
              ValueInHandIsPublished, size
  <1> DEFINE w == producer_write_position
             p == published_write_position
             c == consumer_read_position
             r == released_read_position
  <1>0. /\ Capacity \in Nat /\ w \in Position /\ p \in Position
        /\ c \in Position /\ r \in Position
        /\ Distance(c, r) \in Nat /\ Distance(p, c) \in Nat /\ Distance(w, p) \in Nat
        /\ Distance(w, r) = Distance(c, r) + Distance(p, c) + Distance(w, p)
        /\ Distance(w, r) <= Capacity
    BY Sizes, DistanceNat
  <1>1. CASE try_reserve_push
    BY <1>0, <1>1 DEF try_reserve_push, RingFull, consumerVars
  <1>2. ASSUME NEW v \in Values, write_reserved_slot(v)
        PROVE  RingInv'
    <2>1. storage' \in [Slot -> Values]
      BY <1>2, SlotInRange DEF write_reserved_slot
    <2> QED
      BY <1>2, <2>1 DEF write_reserved_slot, producerVars, consumerVars
  <1>3. CASE publish_push
    <2>1. w' = Plus(w, 1) /\ c' = c /\ r' = r /\ p' \in {p, w'} /\ Distance(w, r) < Capacity
      BY <1>0, <1>3 DEF publish_push, consumerVars
    <2>2. w' \in Position
      BY <1>0, <2>1, NextPosition
    <2>3. Distance(w', r) = Distance(w, r) + 1 /\ Distance(w', p) = Distance(w, p) + 1
      BY <1>0, <2>1, StepAhead
    <2>4. Distance(w, c) = Distance(w, p) + Distance(p, c)
      BY <1>0, DistanceSum
    <2>5. Distance(w', c) = Distance(w, p) + Distance(p, c) + 1
      BY <1>0, <2>1, <2>4, StepAhead
    <2>6. Distance(w', w') = 0 /\ w' # c
      <3>1. Distance(w', c) # 0
        BY <1>0, <2>5
      <3> QED
        BY <1>0, <2>2, <3>1, DistanceNat
    <2>7. PositionsInOrder'
      <3>1. CASE p' = p
        BY <1>0, <2>1, <2>3, <3>1
      <3>2. CASE p' = w'
        BY <1>0, <2>1, <2>3, <2>5, <2>6, <3>2
      <3> QED
        BY <2>1, <3>1, <3>2
    <2> QED
      BY <1>3, <2>1, <2>2, <2>6, <2>7 DEF publish_push, consumerVars
  <1>4. CASE cancel_push
    BY <1>4 DEF cancel_push, consumerVars
  <1>5. CASE try_begin_pop
    BY <1>5 DEF try_begin_pop, RingEmpty, producerVars
  <1>6. CASE finish_pop
    <2>1. w' = w /\ p' = p /\ c' = Plus(c, 1) /\ r' \in {r, c'} /\ c # p
      BY <1>0, <1>6 DEF finish_pop, producerVars
    <2>2. c' \in Position
      BY <1>0, <2>1, NextPosition
    <2>3. Distance(p, c') = Distance(p, c) - 1
      BY <1>0, <2>1, StepBehind
    <2>4. Distance(p, c) # 0
      BY <1>0, <2>1, DistanceNat
    <2>5. Distance(c', r) = Distance(c, r) + 1
      BY <1>0, <2>1, <2>4, StepAhead
    <2>6. Distance(c', c') = 0
      BY <2>2, DistanceNat
    <2>7. Distance(w, c') = Distance(w, p) + Distance(p, c')
      BY <1>0, <2>2, <2>3, <2>4, DistanceSum
    <2>8. size' <= size /\ PositionsInOrder'
      <3>1. CASE r' = r
        BY <1>0, <2>1, <2>3, <2>5, <3>1
      <3>2. CASE r' = c'
        BY <1>0, <2>1, <2>3, <2>4, <2>6, <2>7, <3>2
      <3> QED
        BY <2>1, <3>1, <3>2
    <2>9. ReservationHasRoom'
      BY <1>0, <1>6, <2>1, <2>8, DistanceNat, <2>2 DEF finish_pop, producerVars
    <2> QED
      BY <1>6, <2>1, <2>2, <2>8, <2>9 DEF finish_pop, producerVars
  <1>7. CASE propagate_published
    <2>1. w' = w /\ c' = c /\ r' = r /\ p' = Plus(p, 1) /\ p # w
      BY <1>7 DEF propagate_published, producerVars, consumerVars
    <2>2. p' \in Position
      BY <1>0, <2>1, NextPosition
    <2>3. Distance(w, p') = Distance(w, p) - 1 /\ Distance(w, p) # 0
      BY <1>0, <2>1, StepBehind, DistanceNat
    <2>4. Distance(p', c) = Distance(p, c) + 1
      BY <1>0, <2>1, <2>3, StepAhead
    <2>5. c # p'
      BY <1>0, <2>2, <2>4, DistanceNat
    <2> QED
      BY <1>0, <1>7, <2>1, <2>2, <2>3, <2>4, <2>5
         DEF propagate_published, producerVars, consumerVars
  <1>8. CASE propagate_released
    <2>1. w' = w /\ c' = c /\ p' = p /\ r' = Plus(r, 1) /\ r # c
      BY <1>8 DEF propagate_released, producerVars, consumerVars
    <2>2. r' \in Position
      BY <1>0, <2>1, NextPosition
    <2>3. Distance(c, r') = Distance(c, r) - 1 /\ Distance(c, r) # 0
      BY <1>0, <2>1, StepBehind, DistanceNat
    <2>4. w # r
      BY <1>0, <2>3, DistanceNat
    <2>5. Distance(w, r') = Distance(w, r) - 1
      BY <1>0, <2>1, <2>4, StepBehind
    <2> QED
      BY <1>0, <1>8, <2>1, <2>2, <2>3, <2>5
         DEF propagate_released, producerVars, consumerVars
  <1>9. CASE UNCHANGED ringVars
    BY <1>9 DEF ringVars, producerVars, consumerVars
  <1> QED
    BY <1>1, <1>2, <1>3, <1>4, <1>5, <1>6, <1>7, <1>8, <1>9 DEF RingNext, Propagate

(* The initial ring satisfies it. *)
LEMMA RingInvInit == RingInit => RingInv
  <1> SUFFICES ASSUME RingInit PROVE RingInv
    OBVIOUS
  <1>1. storage \in [Slot -> Values]
    BY RingAssumption DEF RingInit
  <1>2. 0 \in Position /\ Distance(0, 0) = 0 /\ 0 <= Capacity
    BY Sizes DEF Position, Distance
  <1>3. RingTypeOK
    BY <1>1, <1>2 DEF RingInit, RingTypeOK
  <1>4. PositionsInOrder
    <2>1. Distance(0, 0) + Distance(0, 0) + Distance(0, 0) = Distance(0, 0)
      BY <1>2
    <2> QED
      BY <1>2, <2>1, Zenon DEF RingInit, PositionsInOrder, size
  <1>5. ReservationHasRoom /\ ValueInHandIsPublished
    BY DEF RingInit, ReservationHasRoom, ValueInHandIsPublished
  <1> QED
    BY <1>3, <1>4, <1>5 DEF RingInv

(* The positions keep their order and their bound in every reachable state. *)
THEOREM RingInvariance == RingSpec => []RingInv
  BY RingInvInit, RingInvInductive, PTL DEF RingSpec

(* Positions stay in the counter's range and storage in its type through    *)
(* every push, pop, cancel and wrap.                                        *)
THEOREM RingTypeCorrect == RingSpec => []RingTypeOK
  BY RingInvariance, PTL DEF RingInv

(* However the positions of SpscRingBuffer wrap, released <= read <=        *)
(* published <= written along the circle, over at most Capacity slots.      *)
THEOREM PositionsStayInOrder == RingSpec => []PositionsInOrder
  BY RingInvariance, PTL DEF RingInv

(* The reserved slot is never the slot in hand. *)
LEMMA ReservedSlotIsFree == RingInv => NoSlotAliasing
  <1> SUFFICES ASSUME RingInv, producer_has_reservation, consumer_has_value
               PROVE  SlotOf(producer_write_position) # SlotOf(consumer_read_position)
    BY DEF NoSlotAliasing
  <1> DEFINE d == Distance(producer_write_position, consumer_read_position)
  <1>1. d \in 1 .. Capacity - 1
    BY Occupancy, Sizes DEF RingInv, RingTypeOK, ReservationHasRoom, ValueInHandIsPublished,
       Distance, Position, size
  <1>2. /\ producer_write_position = Plus(consumer_read_position, d)
        /\ consumer_read_position = Plus(consumer_read_position, 0)
    BY DistancePlus, Sizes DEF RingInv, RingTypeOK, Plus, Position
  <1>3. SlotOf(Plus(consumer_read_position, 0)) # SlotOf(Plus(consumer_read_position, d))
    BY <1>1, SlotsDiffer, Sizes DEF RingInv, RingTypeOK
  <1> QED
    BY <1>2, <1>3

(* No interleaving and no stale load lets the producer write the slot the   *)
(* consumer is reading.                                                     *)
THEOREM SlotSafety == RingSpec => []NoSlotAliasing
  BY RingInvariance, ReservedSlotIsFree, PTL

-----------------------------------------------------------------------------
(* The ring implements the bounded FIFO. *)

(* The queue's length, and its i-th value. *)
LEMMA QueueShape ==
  ASSUME RingInv
  PROVE  /\ QueueBar \in Seq(Values)
         /\ Len(QueueBar) = Distance(producer_write_position, consumer_read_position)
         /\ \A i \in 1 .. Len(QueueBar) :
               QueueBar[i] = storage[SlotOf(Plus(consumer_read_position, i - 1))]
  <1> DEFINE d == Distance(producer_write_position, consumer_read_position)
  <1>1. d \in 0 .. Capacity
    BY Occupancy
  <1>2. ASSUME NEW i \in 1 .. d
        PROVE  storage[SlotOf(Plus(consumer_read_position, i - 1))] \in Values
    <2>1. i - 1 \in 0 .. Capacity
      BY <1>1, Sizes
    <2>2. SlotOf(Plus(consumer_read_position, i - 1)) \in Slot
      BY <2>1, SlotAhead, SlotInRange DEF RingInv, RingTypeOK
    <2> QED
      BY <2>2 DEF RingInv, RingTypeOK
  <1> HIDE DEF d
  <1> QED
    BY <1>1, <1>2, Sizes DEF QueueBar, d

(* The mapped state is unchanged when neither the queue's positions, nor    *)
(* any slot in the queue, nor the consumer's flag changes.                  *)
LEMMA QueueUntouched ==
  ASSUME UNCHANGED <<storage, producer_write_position, consumerVars>>
  PROVE  UNCHANGED <<QueueBar, HeldBar>>
  BY DEF consumerVars, QueueBar, HeldBar, value_in_hand

(* A write to the reserved slot is not seen through the queue. *)
LEMMA PrivateWrite ==
  ASSUME RingInv, NEW v \in Values, write_reserved_slot(v)
  PROVE  UNCHANGED <<QueueBar, HeldBar>>
  <1> DEFINE d == Distance(producer_write_position, consumer_read_position)
             slot == SlotOf(producer_write_position)
             at(i) == SlotOf(Plus(consumer_read_position, i - 1))
  <1>1. d \in 0 .. Capacity - 1 /\ Capacity \in Nat
    BY Occupancy, Sizes DEF RingInv, RingTypeOK, ReservationHasRoom, write_reserved_slot,
       size, Distance, Position
  <1>2. /\ consumer_read_position \in Position
        /\ producer_write_position = Plus(consumer_read_position, d)
    BY DistancePlus DEF RingInv, RingTypeOK
  <1>3. ASSUME NEW i \in 1 .. d
        PROVE  at(i) # slot /\ at(i) \in Slot
    <2>1. /\ i - 1 \in 0 .. Capacity - 1 /\ i - 1 \in 0 .. Capacity
          /\ i - 1 < d
      BY <1>1
    <2>2. at(i) # slot
      BY <1>1, <1>2, <2>1, SlotsDiffer
    <2> QED
      BY <1>2, <2>1, <2>2, SlotAhead, SlotInRange
  <1>4. /\ storage' = [storage EXCEPT ![slot] = v]
        /\ UNCHANGED <<producer_write_position, consumer_read_position, consumer_has_value>>
        /\ storage \in [Slot -> Values]
    BY DEF write_reserved_slot, producerVars, consumerVars, RingInv, RingTypeOK
  <1>5. ASSUME NEW i \in 1 .. d PROVE storage'[at(i)] = storage[at(i)]
    BY <1>3, <1>4
  <1>6. QueueBar' = QueueBar
    BY <1>4, <1>5 DEF QueueBar
  <1>7. HeldBar' = HeldBar
    <2>1. CASE consumer_has_value
      <3>1. NoSlotAliasing
        BY ReservedSlotIsFree
      <3>2. SlotOf(consumer_read_position) # slot /\ SlotOf(consumer_read_position) \in Slot
        BY <1>2, <2>1, <3>1, SlotInRange DEF NoSlotAliasing, write_reserved_slot
      <3> QED
        BY <1>4, <3>2 DEF HeldBar, value_in_hand
    <2>2. CASE ~consumer_has_value
      BY <1>4, <2>2 DEF HeldBar
    <2> QED
      BY <2>1, <2>2
  <1> QED
    BY <1>6, <1>7

(* Publishing appends the reserved slot's value. *)
LEMMA PublishAppends ==
  ASSUME RingInv, publish_push
  PROVE  /\ storage[SlotOf(producer_write_position)] \in Values
         /\ QueueBar' = Append(QueueBar, storage[SlotOf(producer_write_position)])
         /\ HeldBar' = HeldBar
         /\ Len(QueueBar) < Capacity
  <1> DEFINE d == Distance(producer_write_position, consumer_read_position)
             v == storage[SlotOf(producer_write_position)]
  <1>1. d \in 0 .. Capacity - 1 /\ Capacity \in Nat
    BY Occupancy, Sizes DEF RingInv, RingTypeOK, ReservationHasRoom, publish_push,
       size, Distance, Position
  <1>2. /\ consumer_read_position \in Position
        /\ producer_write_position \in Position
        /\ producer_write_position = Plus(consumer_read_position, d)
        /\ storage \in [Slot -> Values]
    BY DistancePlus DEF RingInv, RingTypeOK
  <1>3. /\ UNCHANGED <<storage, consumer_read_position, consumer_has_value>>
        /\ producer_write_position' = Plus(producer_write_position, 1)
    BY DEF publish_push, consumerVars
  <1>4. Distance(producer_write_position', consumer_read_position') = d + 1
    BY <1>1, <1>2, <1>3, StepAhead
  <1>5. v \in Values
    BY <1>2, SlotInRange
  <1>6. /\ QueueBar \in Seq(Values) /\ Len(QueueBar) = d
        /\ QueueBar = [i \in 1 .. d |-> storage[SlotOf(Plus(consumer_read_position, i - 1))]]
    BY QueueShape DEF QueueBar
  <1>7. QueueBar' =
          [i \in 1 .. (d + 1) |-> storage[SlotOf(Plus(consumer_read_position, i - 1))]]
    BY <1>3, <1>4 DEF QueueBar
  <1>8. storage[SlotOf(Plus(consumer_read_position, (d + 1) - 1))] = v
    BY <1>1, <1>2
  <1> HIDE DEF d, v
  <1>9. QueueBar' = Append(QueueBar, v)
    BY <1>1, <1>5, <1>6, <1>7, <1>8
  <1>10. HeldBar' = HeldBar
    BY <1>3 DEF HeldBar, value_in_hand
  <1>11. Len(QueueBar) < Capacity
    BY <1>1, <1>6
  <1> QED
    BY <1>5, <1>9, <1>10, <1>11 DEF v

LEMMA PublishPushes ==
  ASSUME RingInv, publish_push
  PROVE  \E v \in Values : Fifo!Push(v)
  BY PublishAppends DEF Fifo!Push

(* Beginning to read shows the head of the queue. *)
LEMMA BeginPopReadsHead ==
  ASSUME RingInv, try_begin_pop
  PROVE  Fifo!BeginPop
  <1> DEFINE d == Distance(producer_write_position, consumer_read_position)
  <1>1. d >= 1 /\ d \in Nat
    BY Occupancy, DistanceNat, Sizes DEF RingInv, RingTypeOK, try_begin_pop, RingEmpty
  <1>2. /\ UNCHANGED <<storage, producer_write_position, consumer_read_position>>
        /\ ~consumer_has_value
        /\ consumer_has_value'
    BY DEF try_begin_pop, producerVars
  <1>3. Plus(consumer_read_position, 1 - 1) = consumer_read_position
    BY Sizes DEF RingInv, RingTypeOK, Plus, Position
  <1>4. /\ QueueBar \in Seq(Values) /\ Len(QueueBar) = d
        /\ QueueBar[1] = value_in_hand
    BY <1>1, <1>3, QueueShape DEF value_in_hand
  <1>5. QueueBar # <<>> /\ Head(QueueBar) = value_in_hand
    BY <1>1, <1>4
  <1>6. HeldBar = <<>> /\ HeldBar' = <<value_in_hand>>
    BY <1>2 DEF HeldBar, value_in_hand
  <1>7. QueueBar' = QueueBar
    BY <1>2 DEF QueueBar
  <1> QED
    BY <1>5, <1>6, <1>7 DEF Fifo!BeginPop

(* Finishing removes the head. *)
LEMMA FinishPopRemovesHead ==
  ASSUME RingInv, finish_pop
  PROVE  Fifo!FinishPop
  <1> DEFINE d == Distance(producer_write_position, consumer_read_position)
             c == consumer_read_position
  <1>1. d >= 1 /\ d \in 0 .. Capacity
    BY Occupancy, DistanceNat, Sizes DEF RingInv, RingTypeOK, finish_pop,
       ValueInHandIsPublished
  <1>2. /\ UNCHANGED <<storage, producer_write_position>>
        /\ consumer_read_position' = Plus(c, 1)
        /\ consumer_has_value
        /\ ~consumer_has_value'
        /\ c \in Position /\ producer_write_position \in Position
    BY DEF finish_pop, producerVars, RingInv, RingTypeOK
  <1>3. Distance(producer_write_position', consumer_read_position') = d - 1
    <2>1. producer_write_position # c
      BY <1>1, <1>2, DistanceNat
    <2> QED
      BY <1>2, <2>1, StepBehind
  <1>4. ASSUME NEW i \in 1 .. (d - 1)
        PROVE  Plus(Plus(c, 1), i - 1) = Plus(c, (i + 1) - 1)
    BY <1>1, <1>2, Sizes DEF Plus, Position
  <1>5. /\ QueueBar \in Seq(Values) /\ Len(QueueBar) = d
        /\ QueueBar = [i \in 1 .. d |-> storage[SlotOf(Plus(c, i - 1))]]
    BY QueueShape DEF QueueBar
  <1>6. QueueBar' = [i \in 1 .. (d - 1) |-> storage[SlotOf(Plus(Plus(c, 1), i - 1))]]
    BY <1>2, <1>3 DEF QueueBar
  <1>7. QueueBar' = [i \in 1 .. (d - 1) |-> storage[SlotOf(Plus(c, (i + 1) - 1))]]
    BY <1>4, <1>6
  <1> HIDE DEF d
  <1>8. QueueBar' = Tail(QueueBar)
    <2>1. Tail(QueueBar) = [i \in 1 .. (d - 1) |-> QueueBar[i + 1]]
      BY <1>1, <1>5
    <2>2. ASSUME NEW i \in 1 .. (d - 1)
          PROVE  QueueBar[i + 1] = storage[SlotOf(Plus(c, (i + 1) - 1))]
      BY <1>1, <1>5
    <2> QED
      BY <1>7, <2>1, <2>2
  <1>9. HeldBar # <<>> /\ HeldBar' = <<>>
    BY <1>2 DEF HeldBar
  <1> QED
    BY <1>8, <1>9 DEF Fifo!FinishPop

(* Every step of the ring is a step of the queue or leaves it unchanged. *)
LEMMA RingStepIsFifoStep ==
  RingInv /\ [RingNext]_ringVars => [Fifo!Next]_<<QueueBar, HeldBar>>
  <1> SUFFICES ASSUME RingInv, [RingNext]_ringVars
               PROVE  [Fifo!Next]_<<QueueBar, HeldBar>>
    OBVIOUS
  <1>1. CASE try_reserve_push
    BY <1>1, QueueUntouched DEF try_reserve_push
  <1>2. ASSUME NEW v \in Values, write_reserved_slot(v)
        PROVE  [Fifo!Next]_<<QueueBar, HeldBar>>
    BY <1>2, PrivateWrite
  <1>3. CASE publish_push
    BY <1>3, PublishPushes DEF Fifo!Next
  <1>4. CASE cancel_push
    BY <1>4, QueueUntouched DEF cancel_push
  <1>5. CASE try_begin_pop
    BY <1>5, BeginPopReadsHead DEF Fifo!Next
  <1>6. CASE finish_pop
    BY <1>6, FinishPopRemovesHead DEF Fifo!Next
  <1>7. CASE Propagate
    BY <1>7, QueueUntouched DEF Propagate, propagate_published, propagate_released,
       producerVars
  <1>8. CASE UNCHANGED ringVars
    BY <1>8, QueueUntouched DEF ringVars, producerVars
  <1> QED
    BY <1>1, <1>2, <1>3, <1>4, <1>5, <1>6, <1>7, <1>8 DEF RingNext

(* The ring delivers every published value exactly once, in order and       *)
(* unchanged, and never holds more than Capacity of them.                   *)
THEOREM RingImplementsFifo == RingSpec => ImplementsFifo
  <1>1. RingInit => Fifo!Init
    <2> SUFFICES ASSUME RingInit PROVE QueueBar = <<>> /\ HeldBar = <<>>
      BY DEF Fifo!Init
    <2>1. Distance(producer_write_position, consumer_read_position) = 0
      BY Sizes DEF RingInit, Distance
    <2> QED
      BY <2>1 DEF RingInit, QueueBar, HeldBar
  <1> QED
    BY <1>1, RingInvariance, RingStepIsFifoStep, PTL
       DEF RingSpec, ImplementsFifo, Fifo!Spec, Fifo!fifoVars
=============================================================================
