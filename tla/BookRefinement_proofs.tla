------------------------ MODULE BookRefinement_proofs ------------------------
(***************************************************************************)
(* Proofs that both books of BookDifferential implement BookSpec, for every *)
(* depth, range of prices and quantities and policy on crossed books.       *)
(***************************************************************************)
EXTENDS BookDifferential_proofs, FiniteSetTheorems

-----------------------------------------------------------------------------
(* The map that the slots of a side represent. *)

MapOf(ls) == [p \in Price |-> Cpp!quantity_at(ls, p)]

(* A price in the book maps to its quantity, any other to zero. *)
LEMMA MapOfSide ==
  ASSUME NEW s \in Side, NEW ls, SideOK(ls, s), NEW p \in Price
  PROVE  /\ \A i : Holds(ls, i, p) => MapOf(ls)[p] = ls[i].quantity
         /\ (\A i : ~Holds(ls, i, p)) => MapOf(ls)[p] = 0
<1> DEFINE slots == {i \in Cpp!Slot : ls[i].price_ticks = p}
<1>1. p > 0 /\ p \in 0 .. MaxPrice /\ Cpp!Slot \subseteq Nat
  BY BookAssumption DEF Price, Cpp!Slot
<1>2. \A i : i \in slots <=> Holds(ls, i, p)
  <2>1. \A i \in Cpp!Slot : ls[i].quantity = 0 => ls[i].price_ticks = 0
    BY DEF SideOK, Spaced
  <2>2. ASSUME NEW i, i \in slots PROVE Holds(ls, i, p)
    <3>1. i \in Cpp!Slot /\ ls[i].price_ticks = p
      BY <2>2
    <3>2. ls[i].quantity # 0
      BY <1>1, <2>1, <3>1
    <3> QED
      BY <3>1, <3>2 DEF Holds
  <2>3. ASSUME NEW i, Holds(ls, i, p) PROVE i \in slots
    BY <2>3 DEF Holds
  <2> QED
    BY <2>2, <2>3
<1>3. MapOf(ls)[p] = IF slots = {} THEN 0 ELSE ls[Cpp!Min(slots)].quantity
  BY DEF MapOf, Cpp!quantity_at
<1>4. slots \subseteq Nat
  BY <1>1
<1> HIDE DEF slots
<1>5. ASSUME NEW i, Holds(ls, i, p) PROVE MapOf(ls)[p] = ls[i].quantity
  <2>1. slots # {} /\ Cpp!Min(slots) \in slots
    BY <1>2, <1>4, <1>5, Least
  <2>2. Cpp!Min(slots) = i
    BY <1>1, <1>2, <1>5, <2>1, OneSlot
  <2> QED
    BY <1>3, <2>1, <2>2
<1>6. ASSUME \A i : ~Holds(ls, i, p) PROVE MapOf(ls)[p] = 0
  BY <1>2, <1>3, <1>6
<1> QED
  BY <1>5, <1>6

(* The map is what the tallies say. *)
LEMMA MapOfTallies ==
  ASSUME NEW s \in Side, NEW ls, SideOK(ls, s)
  PROVE  MapOf(ls) \in [Price -> Quantity] /\ Tallies(MapOf(ls), ls)
<1>1. \A i \in Cpp!Slot : ls[i].quantity \in Quantity
  BY DEF SideOK, Level
<1>2. ASSUME NEW p \in Price
      PROVE  /\ MapOf(ls)[p] \in Quantity
             /\ MapOf(ls)[p] > 0 => \E i \in Cpp!Slot : Holds(ls, i, p)
  <2>1. CASE \E i : Holds(ls, i, p)
    BY <1>1, <2>1, MapOfSide DEF Holds
  <2>2. CASE \A i : ~Holds(ls, i, p)
    <3>1. MapOf(ls)[p] = 0
      BY <2>2, MapOfSide
    <3> QED
      BY <3>1, BookAssumption DEF Quantity
  <2> QED
    BY <2>1, <2>2
<1>3. ASSUME NEW i \in Cpp!Slot, ls[i].quantity # 0
      PROVE  MapOf(ls)[ls[i].price_ticks] = ls[i].quantity
  <2>1. Holds(ls, i, ls[i].price_ticks) /\ ls[i].price_ticks \in Price
    BY <1>3, BookAssumption DEF Holds, SideOK, Spaced, Level, Price
  <2> QED
    BY <2>1, MapOfSide
<1>4. MapOf(ls) = [p \in Price |-> MapOf(ls)[p]]
  BY DEF MapOf
<1> QED
  BY <1>2, <1>3, <1>4 DEF Tallies

-----------------------------------------------------------------------------
(* Keeping the best BookDepth prices of a map. *)

Above(s, m, p) == {q \in Price : m[q] > 0 /\ before(s, q, p)}
Best(s, m) ==
  [p \in Price |-> IF Cardinality(Above(s, m, p)) < BookDepth THEN m[p] ELSE 0]

(* The slots hold what the map holds, but for prices worse than a full side. *)
Shows(s, m, ls) ==
  /\ \A i \in Cpp!Slot : ls[i].quantity # 0 => m[ls[i].price_ticks] = ls[i].quantity
  /\ \A p \in Price : m[p] > 0 =>
       \/ \E i \in Cpp!Slot : Holds(ls, i, p)
       \/ ls[BookDepth].quantity # 0 /\ rank(s, ls[BookDepth].price_ticks) < rank(s, p)

(* The better price has the smaller rank. *)
LEMMA BeforeIsRank ==
  ASSUME NEW s \in Side, NEW p \in Int, NEW q \in Int
  PROVE  before(s, p, q) <=> rank(s, p) < rank(s, q)
  BY DEF before, rank, Side

(* The prices of the first n slots are n prices. *)
FirstOf(ls, n) == {ls[i].price_ticks : i \in 1 .. n}
LEMMA FirstPrices ==
  ASSUME NEW s \in Side, NEW ls, SideOK(ls, s), NEW n \in 0 .. BookDepth,
         \A i \in 1 .. n : ls[i].quantity # 0
  PROVE  /\ IsFiniteSet(FirstOf(ls, n)) /\ Cardinality(FirstOf(ls, n)) = n
         /\ FirstOf(ls, n) \subseteq Price
<1> DEFINE prices == FirstOf(ls, n)
           f == [i \in 1 .. n |-> ls[i].price_ticks]
<1>1. n \in Nat /\ 1 .. n \subseteq Cpp!Slot /\ BookDepth \in Nat
  BY BookAssumption DEF Cpp!Slot
<1>2. \A i \in 1 .. n : ls[i].price_ticks \in Price /\ Holds(ls, i, ls[i].price_ticks)
  BY <1>1, BookAssumption DEF Holds, SideOK, Spaced, Level, Price
<1>3. \A i, j \in 1 .. n : ls[i].price_ticks = ls[j].price_ticks => i = j
  <2> TAKE i, j \in 1 .. n
  <2> HAVE ls[i].price_ticks = ls[j].price_ticks
  <2>1. Holds(ls, i, ls[i].price_ticks) /\ Holds(ls, j, ls[i].price_ticks)
    BY <1>2
  <2>2. ls[i].price_ticks \in 0 .. MaxPrice
    BY <1>2 DEF Price
  <2> QED
    BY <2>1, <2>2, OneSlot
<1>4. f \in Bijection(1 .. n, prices)
  BY <1>3 DEF Bijection, Injection, Surjection, IsInjective, FirstOf
<1>5. IsFiniteSet(1 .. n) /\ Cardinality(1 .. n) = n
  <2>1. 1 \in Int /\ n \in Int
    BY <1>1
  <2>2. /\ IsFiniteSet(1 .. n)
        /\ Cardinality(1 .. n) = IF 1 > n THEN 0 ELSE n - 1 + 1
    BY <2>1, FS_Interval
  <2> QED
    BY <1>1, <2>2
<1>6. IsFiniteSet(prices) /\ Cardinality(prices) = n
  BY <1>4, <1>5, FS_Bijection DEF ExistsBijection
<1>7. prices \subseteq Price
  BY <1>2 DEF FirstOf
<1> QED
  BY <1>6, <1>7

(* Of a map that the slots show, the best BookDepth prices are the slots'.  *)
LEMMA BestIsShown ==
  ASSUME NEW s \in Side, NEW ls, SideOK(ls, s), NEW m \in [Price -> Quantity], Shows(s, m, ls)
  PROVE  Best(s, m) = MapOf(ls)
<1>1. /\ BookDepth \in Nat /\ BookDepth > 0 /\ BookDepth \in Cpp!Slot
      /\ Price \subseteq Int /\ Price \subseteq 0 .. MaxPrice
      /\ Cpp!Slot = 1 .. BookDepth
  BY BookAssumption DEF Price, Cpp!Slot
<1>2. \A i, j \in Cpp!Slot :
        i < j /\ ls[j].quantity # 0 =>
          /\ ls[i].quantity # 0
          /\ rank(s, ls[i].price_ticks) + (j - i) <= rank(s, ls[j].price_ticks)
  BY DEF SideOK, Spaced
<1>3. \A i \in Cpp!Slot : rank(s, ls[i].price_ticks) \in Int
  BY DEF SideOK, Level, rank
<1>4. \A p, q \in Price : (before(s, q, p) <=> rank(s, q) < rank(s, p)) /\ rank(s, p) \in Int
  BY <1>1, BeforeIsRank DEF rank
<1>5. ASSUME NEW p \in Price, NEW i, Holds(ls, i, p)
      PROVE  Best(s, m)[p] = MapOf(ls)[p]
  <2> DEFINE prices == FirstOf(ls, i - 1)
  <2>1. i \in 1 .. BookDepth /\ i \in Cpp!Slot /\ ls[i].price_ticks = p /\ ls[i].quantity # 0
    BY <1>1, <1>5 DEF Holds
  <2>2. m[p] = ls[i].quantity /\ MapOf(ls)[p] = ls[i].quantity
    BY <1>5, <2>1, MapOfSide DEF Shows
  <2>3. \A j \in 1 .. i - 1 : ls[j].quantity # 0
    BY <1>1, <1>2, <2>1
  <2>4. i - 1 \in 0 .. BookDepth
    BY <1>1, <2>1
  <2>5. IsFiniteSet(prices) /\ Cardinality(prices) = i - 1
    BY <2>3, <2>4, FirstPrices
  <2>6. ASSUME NEW q \in Above(s, m, p) PROVE q \in prices
    <3>1. q \in Price /\ m[q] > 0 /\ rank(s, q) < rank(s, p)
      BY <1>4 DEF Above
    <3>2. ASSUME ls[BookDepth].quantity # 0, rank(s, ls[BookDepth].price_ticks) < rank(s, q)
          PROVE FALSE
      <4>1. rank(s, ls[i].price_ticks) <= rank(s, ls[BookDepth].price_ticks)
        <5>1. CASE i = BookDepth
          BY <1>1, <1>3, <5>1
        <5>2. CASE i < BookDepth
          BY <1>1, <1>2, <1>3, <2>1, <3>2, <5>2
        <5> QED
          BY <1>1, <2>1, <5>1, <5>2
      <4> QED
        BY <1>1, <1>3, <1>4, <2>1, <3>1, <3>2, <4>1
    <3>3. PICK j \in Cpp!Slot : Holds(ls, j, q)
      BY <3>1, <3>2 DEF Shows
    <3>4. ls[j].price_ticks = q /\ ls[j].quantity # 0
      BY <3>3 DEF Holds
    <3>5. j # i
      BY <1>4, <2>1, <3>1, <3>4
    <3>6. ~(i < j)
      BY <1>1, <1>2, <1>3, <2>1, <3>1, <3>4
    <3>7. j \in 1 .. i - 1
      BY <1>1, <2>1, <3>5, <3>6
    <3> QED
      BY <3>4, <3>7 DEF FirstOf
  <2>7. Cardinality(Above(s, m, p)) <= i - 1 /\ Cardinality(Above(s, m, p)) \in Nat
    <3> HIDE DEF prices
    <3>1. Above(s, m, p) \in SUBSET prices
      BY <2>6
    <3>2. IsFiniteSet(Above(s, m, p)) /\ Cardinality(Above(s, m, p)) <= Cardinality(prices)
      BY <2>5, <3>1, FS_Subset
    <3> QED
      BY <2>5, <3>2, FS_CardinalityType
  <2>8. Cardinality(Above(s, m, p)) < BookDepth
    BY <1>1, <2>1, <2>7
  <2> QED
    BY <2>2, <2>8 DEF Best
<1>6. ASSUME NEW p \in Price, \A i : ~Holds(ls, i, p), m[p] > 0
      PROVE  Best(s, m)[p] = 0
  <2> DEFINE prices == FirstOf(ls, BookDepth)
  <2>1. ls[BookDepth].quantity # 0 /\ rank(s, ls[BookDepth].price_ticks) < rank(s, p)
    BY <1>6 DEF Shows
  <2>2. \A j \in 1 .. BookDepth :
          ls[j].quantity # 0 /\ rank(s, ls[j].price_ticks) <= rank(s, ls[BookDepth].price_ticks)
    <3> TAKE j \in 1 .. BookDepth
    <3>1. CASE j = BookDepth
      BY <1>1, <1>3, <2>1, <3>1
    <3>2. CASE j < BookDepth
      BY <1>1, <1>2, <1>3, <2>1, <3>2
    <3> QED
      BY <1>1, <3>1, <3>2
  <2>3. BookDepth \in 0 .. BookDepth
    BY <1>1
  <2>4. Cardinality(prices) = BookDepth /\ prices \subseteq Price
    <3>1. \A j \in 1 .. BookDepth : ls[j].quantity # 0
      BY <2>2
    <3> QED
      BY <2>3, <3>1, FirstPrices
  <2>5. ASSUME NEW j \in 1 .. BookDepth PROVE ls[j].price_ticks \in Above(s, m, p)
    <3>1. j \in Cpp!Slot /\ ls[j].quantity # 0 /\ ls[j].quantity \in Nat
      BY <1>1, <2>2 DEF SideOK, Level, Quantity
    <3>2. ls[j].price_ticks \in Price
      BY <2>4 DEF FirstOf
    <3>3. m[ls[j].price_ticks] > 0
      BY <3>1 DEF Shows
    <3>4. rank(s, ls[j].price_ticks) < rank(s, p)
      BY <1>1, <1>3, <1>4, <2>1, <2>2, <3>1
    <3> QED
      BY <1>4, <3>2, <3>3, <3>4 DEF Above
  <2>6. IsFiniteSet(Above(s, m, p))
    <3>1. IsFiniteSet(1 .. MaxPrice)
      BY BookAssumption, FS_Interval
    <3>2. Above(s, m, p) \in SUBSET (1 .. MaxPrice)
      BY DEF Above, Price
    <3> QED
      BY <3>1, <3>2, FS_Subset
  <2>7. BookDepth <= Cardinality(Above(s, m, p)) /\ Cardinality(Above(s, m, p)) \in Nat
    <3>1. prices \in SUBSET Above(s, m, p)
      BY <2>5 DEF FirstOf
    <3> HIDE DEF prices
    <3> QED
      BY <2>4, <2>6, <3>1, FS_Subset, FS_CardinalityType
  <2>8. ~(Cardinality(Above(s, m, p)) < BookDepth)
    BY <1>1, <2>7
  <2> QED
    BY <2>8 DEF Best
<1>7. ASSUME NEW p \in Price PROVE Best(s, m)[p] = MapOf(ls)[p]
  <2>1. CASE \E i : Holds(ls, i, p)
    BY <1>5, <2>1
  <2>2. CASE \A i : ~Holds(ls, i, p)
    <3>1. MapOf(ls)[p] = 0
      BY <2>2, MapOfSide
    <3>2. m[p] > 0 \/ m[p] = 0
      BY BookAssumption DEF Quantity
    <3>3. CASE m[p] = 0
      BY <3>1, <3>3 DEF Best
    <3> QED
      BY <1>6, <2>2, <3>1, <3>2, <3>3
  <2> QED
    BY <2>1, <2>2
<1>8. Best(s, m) = [p \in Price |-> Best(s, m)[p]] /\ MapOf(ls) = [p \in Price |-> MapOf(ls)[p]]
  BY DEF Best, MapOf
<1> QED
  BY <1>7, <1>8

-----------------------------------------------------------------------------
(* What changed_side() does is the new quantity in the map, the best        *)
(* BookDepth prices kept.                                                    *)

AfterEvent(m, e) == [m EXCEPT ![e.price] = LeftAt(m[e.price], e)]

(* At a price that is in the book. *)
LEMMA AfterHeld ==
  ASSUME NEW e \in Event, well_formed(e), NEW ls, SideOK(ls, e.side),
         NEW k, Holds(ls, k, e.price), NEW new, new = Cpp!changed_side(ls, e)
  PROVE  /\ Best(e.side, AfterEvent(MapOf(ls), e)) = MapOf(new.levels)
         /\ MapOf(new.levels)[e.price] - MapOf(ls)[e.price] = new.added
<1> DEFINE m == MapOf(ls)
           after == AfterEvent(m, e)
<1>1. e.side \in Side /\ e.price \in Price
  BY BookAssumption DEF Event, well_formed, Price
<1>2. m \in [Price -> Quantity] /\ Tallies(m, ls) /\ m[e.price] = ls[k].quantity
  BY <1>1, MapOfTallies, MapOfSide
<1>3. m[e.price] \in Quantity
  BY <1>1, <1>2
<1>4. LeftAt(m[e.price], e) \in Quantity
  BY <1>3, LeftTyped
<1>5. after \in [Price -> Quantity] /\ after[e.price] = LeftAt(m[e.price], e)
  BY <1>1, <1>2, <1>4 DEF AfterEvent
<1>6. new.added = after[e.price] - m[e.price] /\ SideOK(new.levels, e.side)
  BY <1>2, <1>5, ChangedHeld
<1>7. Tallies(after, new.levels)
  BY <1>1, <1>2, TallyHeld DEF AfterEvent
<1> HIDE DEF m, after
<1>8. Shows(e.side, after, new.levels)
  BY <1>7 DEF Tallies, Shows
<1>9. Best(e.side, after) = MapOf(new.levels)
  BY <1>1, <1>5, <1>6, <1>8, BestIsShown
<1>10. MapOf(new.levels)[e.price] = after[e.price]
  <2>1. CASE \E i : Holds(new.levels, i, e.price)
    <3>1. PICK i : Holds(new.levels, i, e.price)
      BY <2>1
    <3>2. MapOf(new.levels)[e.price] = new.levels[i].quantity
      BY <1>1, <1>6, <3>1, MapOfSide
    <3> QED
      BY <1>7, <3>1, <3>2 DEF Tallies, Holds
  <2>2. CASE \A i : ~Holds(new.levels, i, e.price)
    <3>1. MapOf(new.levels)[e.price] = 0
      BY <1>1, <1>6, <2>2, MapOfSide
    <3>2. after[e.price] \in Nat /\ ~(after[e.price] > 0)
      BY <1>1, <1>5, <1>7, <2>2 DEF Tallies, Quantity
    <3> QED
      BY <3>1, <3>2
  <2> QED
    BY <2>1, <2>2
<1> QED
  BY <1>6, <1>9, <1>10 DEF m, after

(* An Add at a price that is not: the last slot may drop out, or the price  *)
(* itself may be too bad to be kept.                                        *)
LEMMA AfterPlaced ==
  ASSUME NEW e \in Event, well_formed(e), e.type = "Add", NEW ls, SideOK(ls, e.side),
         NEW k, Place(ls, e.side, k, e.price), NEW new, new = Cpp!changed_side(ls, e)
  PROVE  /\ Best(e.side, AfterEvent(MapOf(ls), e)) = MapOf(new.levels)
         /\ MapOf(new.levels)[e.price] - MapOf(ls)[e.price] = new.added
<1> DEFINE m == MapOf(ls)
           after == AfterEvent(m, e)
           s == e.side
           slots == new.levels
<1>1. /\ s \in Side /\ e.price \in Price /\ e.price \in 0 .. MaxPrice /\ e.price > 0
      /\ BookDepth \in Nat /\ BookDepth > 0 /\ BookDepth \in Cpp!Slot /\ Cpp!Slot = 1 .. BookDepth
      /\ k \in 1 .. BookDepth + 1
      /\ e.quantity \in Quantity /\ e.quantity > 0 /\ e.quantity \in Nat
  BY BookAssumption DEF Event, well_formed, Price, Place, Cpp!Slot, Quantity
<1>2. \A i : ~Holds(ls, i, e.price)
  BY <1>1, NotBoth
<1>3. m \in [Price -> Quantity] /\ Tallies(m, ls) /\ m[e.price] = 0
  BY <1>1, <1>2, MapOfTallies, MapOfSide
<1>4. LeftAt(m[e.price], e) = e.quantity
  <2>1. saturated_add(0, e.quantity) = e.quantity
    BY <1>1, BookAssumption DEF saturated_add, Quantity
  <2>2. LeftAt(0, e) = saturated_add(0, e.quantity)
    BY DEF LeftAt
  <2> QED
    BY <1>3, <2>1, <2>2
<1>5. /\ after \in [Price -> Quantity] /\ after[e.price] = e.quantity
      /\ \A p \in Price : p # e.price => after[p] = m[p]
  BY <1>1, <1>3, <1>4 DEF AfterEvent
<1>6. /\ slots = Cpp!insert(ls, k, LevelOf(e))
      /\ new.added = IF k \in Cpp!Slot THEN e.quantity ELSE 0
      /\ SideOK(slots, s)
  BY <1>1, ChangedPlaced, Zenon
<1>7. \A i \in Cpp!Slot :
        /\ i < k => slots[i] = ls[i]
        /\ i = k => slots[i] = LevelOf(e)
        /\ i > k => slots[i] = ls[i - 1]
  BY <1>1, <1>6 DEF Cpp!insert
<1>8. \A i \in Cpp!Slot : ls[i].quantity # 0 =>
        /\ ls[i].price_ticks \in Price /\ ls[i].price_ticks # e.price
        /\ after[ls[i].price_ticks] = ls[i].quantity
  <2> TAKE i \in Cpp!Slot
  <2> HAVE ls[i].quantity # 0
  <2>1. ls[i].price_ticks \in Price
    BY BookAssumption DEF SideOK, Spaced, Level, Price
  <2>2. ls[i].price_ticks # e.price
    BY <1>2 DEF Holds
  <2> QED
    BY <1>3, <1>5, <2>1, <2>2 DEF Tallies
<1> HIDE DEF m, after, slots, s
<1>9. ASSUME NEW i \in Cpp!Slot, slots[i].quantity # 0
      PROVE  after[slots[i].price_ticks] = slots[i].quantity
  <2>1. CASE i < k
    BY <1>7, <1>8, <1>9, <2>1
  <2>2. CASE i = k
    BY <1>5, <1>7, <2>2 DEF LevelOf
  <2>3. CASE i > k
    <3>1. i - 1 \in Cpp!Slot
      BY <1>1, <2>3
    <3> QED
      BY <1>7, <1>8, <1>9, <2>3, <3>1
  <2> QED
    BY <1>1, <2>1, <2>2, <2>3
<1>10. ASSUME NEW p \in Price, after[p] > 0
       PROVE  \/ \E i \in Cpp!Slot : Holds(slots, i, p)
              \/ slots[BookDepth].quantity # 0 /\ rank(s, slots[BookDepth].price_ticks) < rank(s, p)
  <2>1. CASE p = e.price /\ k \in Cpp!Slot
    <3>1. Holds(slots, k, p)
      BY <1>1, <1>7, <2>1 DEF LevelOf, Holds
    <3> QED
      BY <2>1, <3>1
  <2>2. CASE p = e.price /\ k \notin Cpp!Slot
    <3>1. BookDepth < k
      BY <1>1, <2>2
    <3>2. slots[BookDepth] = ls[BookDepth]
      BY <1>1, <1>7, <3>1
    <3> QED
      BY <1>1, <2>2, <3>1, <3>2 DEF Place, s
  <2>3. CASE p # e.price
    <3>1. PICK j \in Cpp!Slot : Holds(ls, j, p)
      BY <1>3, <1>5, <1>10, <2>3 DEF Tallies
    <3>2. ls[j].quantity # 0 /\ ls[j].price_ticks = p
      BY <3>1 DEF Holds
    <3>3. CASE j < k
      BY <1>7, <3>2, <3>3 DEF Holds
    <3>4. CASE j >= k /\ j < BookDepth
      <4>1. j + 1 \in Cpp!Slot /\ j + 1 > k /\ (j + 1) - 1 = j
        BY <1>1, <3>4
      <4>2. slots[j + 1] = ls[j]
        BY <1>7, <4>1
      <4> QED
        BY <3>2, <4>1, <4>2 DEF Holds
    <3>5. CASE j >= k /\ j = BookDepth
      <4>1. CASE k = BookDepth
        <5>1. slots[BookDepth] = LevelOf(e)
          BY <1>1, <1>7, <4>1
        <5>2. rank(s, e.price) < rank(s, p)
          BY <1>1, <3>2, <3>5, <4>1 DEF Place, s
        <5> QED
          BY <1>1, <5>1, <5>2 DEF LevelOf
      <4>2. CASE k < BookDepth
        <5>1. BookDepth - 1 \in Cpp!Slot /\ BookDepth - 1 < j
          BY <1>1, <3>5, <4>2
        <5>2. slots[BookDepth] = ls[BookDepth - 1]
          BY <1>1, <1>7, <4>2
        <5>3. /\ ls[BookDepth - 1].quantity # 0
              /\ rank(s, ls[BookDepth - 1].price_ticks) + (j - (BookDepth - 1)) <= rank(s, ls[j].price_ticks)
          BY <3>2, <5>1 DEF SideOK, Spaced, s
        <5>4. /\ rank(s, ls[BookDepth - 1].price_ticks) \in Int
              /\ rank(s, ls[j].price_ticks) \in Int
          BY <5>1 DEF SideOK, Level, rank
        <5> QED
          BY <1>1, <3>2, <3>5, <5>2, <5>3, <5>4
      <4> QED
        BY <1>1, <3>5, <4>1, <4>2
    <3> QED
      BY <1>1, <3>3, <3>4, <3>5
  <2> QED
    BY <2>1, <2>2, <2>3
<1>11. Best(s, after) = MapOf(slots)
  <2>1. Shows(s, after, slots)
    BY <1>9, <1>10 DEF Shows
  <2> QED
    BY <1>1, <1>5, <1>6, <2>1, BestIsShown
<1>12. MapOf(slots)[e.price] = new.added
  <2>1. CASE k \in Cpp!Slot
    <3>1. Holds(slots, k, e.price) /\ slots[k].quantity = e.quantity
      BY <1>1, <1>7, <2>1 DEF LevelOf, Holds
    <3>2. MapOf(slots)[e.price] = slots[k].quantity
      BY <1>1, <1>6, <3>1, MapOfSide
    <3> QED
      BY <1>6, <2>1, <3>1, <3>2
  <2>2. CASE k \notin Cpp!Slot
    <3>1. \A i \in Cpp!Slot : slots[i] = ls[i]
      BY <1>1, <1>7, <2>2
    <3>2. \A i : ~Holds(slots, i, e.price)
      BY <1>2, <3>1 DEF Holds
    <3>3. MapOf(slots)[e.price] = 0
      BY <1>1, <1>6, <3>2, MapOfSide
    <3> QED
      BY <1>6, <2>2, <3>3
  <2> QED
    BY <2>1, <2>2
<1>13. new.added \in Int
  BY <1>1, <1>6
<1> QED
  BY <1>3, <1>11, <1>12, <1>13 DEF m, after, slots, s

-----------------------------------------------------------------------------
(* The terms of BookSpec, for the map of a book. *)

BookMap(b) == [s \in Side |-> MapOf(b[s])]
CandidateMap(m, e) == [m EXCEPT ![e.side] = Best(e.side, AfterEvent(m[e.side], e))]
CrossedMap(m) == \E bid, ask \in Price : m["Bid"][bid] > 0 /\ m["Ask"][ask] > 0 /\ bid >= ask
ErrorOf(m, e) ==
  IF ~well_formed(e) THEN "InvalidEvent"
  ELSE IF e.type # "Add" /\ m[e.side][e.price] = 0 THEN "MissingPrice"
  ELSE IF ~AllowCrossed /\ CrossedMap(CandidateMap(m, e)) THEN "CrossedBook" ELSE "None"
FlowOf(m, e) == side_sign(e.side) * (CandidateMap(m, e)[e.side][e.price] - m[e.side][e.price])
ReportOf(m, e) ==
  IF ErrorOf(m, e) = "None"
    THEN [error |-> "None", order_flow |-> FlowOf(m, e),
          trade_flow |-> IF e.type = "Trade" THEN FlowOf(m, e) ELSE 0]
    ELSE NoFlow(ErrorOf(m, e))

(* The C++ book's instance of BookSpec says the same ... *)
LEMMA CppTerms ==
  ASSUME NEW m, NEW e
  PROVE  /\ Cpp!Promise!Candidate(m, e) = CandidateMap(m, e)
         /\ Cpp!Promise!Error(m, e) = ErrorOf(m, e)
         /\ Cpp!Promise!Report(m, e) = ReportOf(m, e)
<1>1. \A s, n : Cpp!Promise!Truncated(s, n) = Best(s, n)
  <2>1. \A S : Cpp!Promise!Cardinality(S) = Cardinality(S)
    BY DEF Cpp!Promise!Cardinality, Cardinality
  <2>2. \A s, n, p : Cpp!Promise!Better(s, n, p) = Above(s, n, p)
    BY DEF Cpp!Promise!Better, Cpp!Promise!Visible, Cpp!Promise!before, Cpp!Promise!Price,
           Above, before, Price
  <2> QED
    BY <2>1, <2>2 DEF Cpp!Promise!Truncated, Cpp!Promise!Price, Price, Best
<1>2. \A old : Cpp!Promise!NewQuantity(old, e) = LeftAt(old, e)
  BY DEF Cpp!Promise!NewQuantity, LeftAt, Cpp!Promise!saturated_add, saturated_add
<1>3. Cpp!Promise!Candidate(m, e) = CandidateMap(m, e)
  BY <1>1, <1>2, Zenon DEF Cpp!Promise!Candidate, CandidateMap, AfterEvent
<1>4. \A n : Cpp!Promise!Crossed(n) <=> CrossedMap(n)
  BY DEF Cpp!Promise!Crossed, Cpp!Promise!Visible, Cpp!Promise!Price, Price, CrossedMap
<1>5. Cpp!Promise!well_formed(e) <=> well_formed(e)
  BY DEF Cpp!Promise!well_formed, well_formed
<1>6. Cpp!Promise!Error(m, e) = ErrorOf(m, e)
  BY <1>3, <1>4, <1>5 DEF Cpp!Promise!Error, ErrorOf
<1>7. Cpp!Promise!Flow(m, e) = FlowOf(m, e)
  BY <1>3 DEF Cpp!Promise!Flow, FlowOf, Cpp!Promise!side_sign, side_sign
<1>8. Cpp!Promise!Report(m, e) = ReportOf(m, e)
  BY <1>6, <1>7 DEF Cpp!Promise!Report, ReportOf, Cpp!Promise!NoFlow, NoFlow
<1> QED
  BY <1>3, <1>6, <1>8

(* ... and so does the RTL's. *)
LEMMA RtlTerms ==
  ASSUME NEW m, NEW e
  PROVE  /\ Rtl!Promise!Candidate(m, e) = CandidateMap(m, e)
         /\ Rtl!Promise!Error(m, e) = ErrorOf(m, e)
         /\ Rtl!Promise!Report(m, e) = ReportOf(m, e)
<1>1. \A s, n : Rtl!Promise!Truncated(s, n) = Best(s, n)
  <2>1. \A S : Rtl!Promise!Cardinality(S) = Cardinality(S)
    BY DEF Rtl!Promise!Cardinality, Cardinality
  <2>2. \A s, n, p : Rtl!Promise!Better(s, n, p) = Above(s, n, p)
    BY DEF Rtl!Promise!Better, Rtl!Promise!Visible, Rtl!Promise!before, Rtl!Promise!Price,
           Above, before, Price
  <2> QED
    BY <2>1, <2>2 DEF Rtl!Promise!Truncated, Rtl!Promise!Price, Price, Best
<1>2. \A old : Rtl!Promise!NewQuantity(old, e) = LeftAt(old, e)
  BY DEF Rtl!Promise!NewQuantity, LeftAt, Rtl!Promise!saturated_add, saturated_add
<1>3. Rtl!Promise!Candidate(m, e) = CandidateMap(m, e)
  BY <1>1, <1>2, Zenon DEF Rtl!Promise!Candidate, CandidateMap, AfterEvent
<1>4. \A n : Rtl!Promise!Crossed(n) <=> CrossedMap(n)
  BY DEF Rtl!Promise!Crossed, Rtl!Promise!Visible, Rtl!Promise!Price, Price, CrossedMap
<1>5. Rtl!Promise!well_formed(e) <=> well_formed(e)
  BY DEF Rtl!Promise!well_formed, well_formed
<1>6. Rtl!Promise!Error(m, e) = ErrorOf(m, e)
  BY <1>3, <1>4, <1>5 DEF Rtl!Promise!Error, ErrorOf
<1>7. Rtl!Promise!Flow(m, e) = FlowOf(m, e)
  BY <1>3 DEF Rtl!Promise!Flow, FlowOf, Rtl!Promise!side_sign, side_sign
<1>8. Rtl!Promise!Report(m, e) = ReportOf(m, e)
  BY <1>6, <1>7 DEF Rtl!Promise!Report, ReportOf, Rtl!Promise!NoFlow, NoFlow
<1> QED
  BY <1>3, <1>6, <1>8

-----------------------------------------------------------------------------
(* apply() answers as BookSpec does. *)

(* The best prices cross when any two do. *)
LEMMA SameCrossing ==
  ASSUME NEW b, BookOK(b)
  PROVE  CrossedMap(BookMap(b)) <=> Cpp!crossed(b)
<1>1. /\ "Bid" \in Side /\ "Ask" \in Side
      /\ SideOK(b["Bid"], "Bid") /\ SideOK(b["Ask"], "Ask")
      /\ BookMap(b)["Bid"] = MapOf(b["Bid"]) /\ BookMap(b)["Ask"] = MapOf(b["Ask"])
      /\ 1 \in Cpp!Slot /\ Cpp!Slot = 1 .. BookDepth /\ BookDepth \in Nat
  BY BookAssumption DEF BookOK, BookMap, Side, Cpp!Slot
<1>2. ASSUME NEW s \in Side, SideOK(b[s], s), NEW p \in Price, MapOf(b[s])[p] > 0
      PROVE  b[s][1].quantity # 0 /\ rank(s, b[s][1].price_ticks) <= rank(s, p)
  <2>1. PICK i \in Cpp!Slot : Holds(b[s], i, p)
    BY <1>2, MapOfTallies DEF Tallies
  <2>2. b[s][i].quantity # 0 /\ b[s][i].price_ticks = p
    BY <2>1 DEF Holds
  <2>3. /\ rank(s, b[s][i].price_ticks) \in Int /\ rank(s, b[s][1].price_ticks) \in Int
    BY <1>1, <1>2 DEF SideOK, Level, rank
  <2>4. CASE i = 1
    BY <2>2, <2>3, <2>4
  <2>5. CASE 1 < i
    <3>1. /\ b[s][1].quantity # 0
          /\ rank(s, b[s][1].price_ticks) + (i - 1) <= rank(s, b[s][i].price_ticks)
      BY <1>1, <1>2, <2>2, <2>5 DEF SideOK, Spaced
    <3> QED
      BY <1>1, <2>2, <2>3, <2>5, <3>1
  <2> QED
    BY <1>1, <2>4, <2>5
<1>3. ASSUME NEW s \in Side, SideOK(b[s], s), b[s][1].quantity # 0
      PROVE  b[s][1].price_ticks \in Price /\ MapOf(b[s])[b[s][1].price_ticks] > 0
  <2>1. Holds(b[s], 1, b[s][1].price_ticks) /\ b[s][1].price_ticks \in Price
    <3>1. b[s][1].price_ticks > 0 /\ b[s][1].price_ticks \in 0 .. MaxPrice
      BY <1>1, <1>3, Zenon DEF SideOK, Spaced, Level
    <3> QED
      BY <1>1, <1>3, <3>1, BookAssumption DEF Holds, Price
  <2>2. MapOf(b[s])[b[s][1].price_ticks] = b[s][1].quantity
    BY <1>3, <2>1, MapOfSide
  <2>3. b[s][1].quantity \in Nat
    BY <1>1, <1>3 DEF SideOK, Level, Quantity
  <2> QED
    BY <1>3, <2>1, <2>2, <2>3
<1>4. ASSUME CrossedMap(BookMap(b)) PROVE Cpp!crossed(b)
  <2>1. PICK bid \in Price, ask \in Price :
          MapOf(b["Bid"])[bid] > 0 /\ MapOf(b["Ask"])[ask] > 0 /\ bid >= ask
    BY <1>1, <1>4 DEF CrossedMap
  <2>2. b["Bid"][1].quantity # 0 /\ rank("Bid", b["Bid"][1].price_ticks) <= rank("Bid", bid)
    BY <1>1, <1>2, <2>1
  <2>3. b["Ask"][1].quantity # 0 /\ rank("Ask", b["Ask"][1].price_ticks) <= rank("Ask", ask)
    BY <1>1, <1>2, <2>1
  <2>4. bid \in Int /\ ask \in Int /\ b["Bid"][1].price_ticks \in Int /\ b["Ask"][1].price_ticks \in Int
    BY <1>1, BookAssumption DEF Price, SideOK, Level
  <2>5. b["Bid"][1].price_ticks >= b["Ask"][1].price_ticks
    BY <2>1, <2>2, <2>3, <2>4 DEF rank
  <2> QED
    BY <2>2, <2>3, <2>5 DEF Cpp!crossed
<1>5. ASSUME Cpp!crossed(b) PROVE CrossedMap(BookMap(b))
  <2>1. b["Bid"][1].quantity # 0 /\ b["Ask"][1].quantity # 0
        /\ b["Bid"][1].price_ticks >= b["Ask"][1].price_ticks
    BY <1>5 DEF Cpp!crossed
  <2>2. /\ b["Bid"][1].price_ticks \in Price /\ MapOf(b["Bid"])[b["Bid"][1].price_ticks] > 0
        /\ b["Ask"][1].price_ticks \in Price /\ MapOf(b["Ask"])[b["Ask"][1].price_ticks] > 0
    BY <1>1, <1>3, <2>1
  <2> QED
    BY <1>1, <2>1, <2>2 DEF CrossedMap
<1> QED
  BY <1>4, <1>5

(* A price has a quantity exactly when lookup() finds it. *)
LEMMA KnownIsMapped ==
  ASSUME NEW b, BookOK(b), NEW e \in Event, well_formed(e)
  PROVE  Known(b, e) <=> BookMap(b)[e.side][e.price] # 0
<1>1. /\ e.side \in Side /\ e.price \in Price /\ SideOK(b[e.side], e.side)
      /\ BookMap(b)[e.side] = MapOf(b[e.side])
  BY BookAssumption DEF Event, well_formed, Price, BookOK, BookMap
<1>2. CASE Known(b, e)
  <2>1. PICK i \in Cpp!Slot : Holds(b[e.side], i, e.price)
    BY <1>2 DEF Known
  <2>2. MapOf(b[e.side])[e.price] = b[e.side][i].quantity
    BY <1>1, <2>1, MapOfSide
  <2> QED
    BY <1>1, <1>2, <2>1, <2>2 DEF Holds
<1>3. CASE ~Known(b, e)
  <2>1. \A i : ~Holds(b[e.side], i, e.price)
    BY <1>3 DEF Known, Holds
  <2>2. MapOf(b[e.side])[e.price] = 0
    BY <1>1, <2>1, MapOfSide
  <2> QED
    BY <1>1, <1>3, <2>2
<1> QED
  BY <1>2, <1>3

(* The candidate of a served event and its flow. *)
LEMMA ServedTerms ==
  ASSUME NEW b, BookOK(b), NEW e \in Event, Served(b, e)
  PROVE  /\ CandidateMap(BookMap(b), e) = BookMap(Candidate(b, e))
         /\ FlowOf(BookMap(b), e) = Flow(b, e)
<1> DEFINE ls == b[e.side]
           new == changed(b, e)
<1>1. /\ e.side \in Side /\ e.price \in 0 .. MaxPrice /\ e.price \in Price
      /\ SideOK(ls, e.side) /\ well_formed(e) /\ b = [s \in Side |-> b[s]]
  BY BookAssumption DEF Event, well_formed, Price, BookOK, Served
<1>2. new = Cpp!changed_side(ls, e)
  BY DEF changed
<1> HIDE DEF ls, new
<1>3. /\ Best(e.side, AfterEvent(MapOf(ls), e)) = MapOf(new.levels)
      /\ MapOf(new.levels)[e.price] - MapOf(ls)[e.price] = new.added
  <2>1. CASE Known(b, e)
    <3>1. PICK k \in Cpp!Slot : Holds(ls, k, e.price)
      BY <2>1 DEF Known, ls
    <3> QED
      BY <1>1, <1>2, <3>1, AfterHeld
  <2>2. CASE ~Known(b, e)
    <3>1. e.type = "Add"
      BY <2>2 DEF Served
    <3>2. PICK k \in 1 .. BookDepth + 1 : Place(ls, e.side, k, e.price)
      BY <1>1, <2>2, HeldOrPlaced DEF Known, ls
    <3> QED
      BY <1>1, <1>2, <3>1, <3>2, AfterPlaced
  <2> QED
    BY <2>1, <2>2
<1>4. Candidate(b, e) = [s \in Side |-> IF s = e.side THEN new.levels ELSE b[s]]
  BY <1>1 DEF Candidate, new
<1>5. CandidateMap(BookMap(b), e) =
        [s \in Side |-> IF s = e.side THEN Best(e.side, AfterEvent(MapOf(ls), e)) ELSE MapOf(b[s])]
  BY <1>1 DEF CandidateMap, BookMap, ls
<1>6. CandidateMap(BookMap(b), e) = BookMap(Candidate(b, e))
  BY <1>3, <1>4, <1>5 DEF BookMap
<1>7. /\ CandidateMap(BookMap(b), e)[e.side] = MapOf(new.levels)
      /\ BookMap(b)[e.side] = MapOf(ls)
  BY <1>1, <1>3, <1>5 DEF BookMap, ls
<1>8. FlowOf(BookMap(b), e) = Flow(b, e)
  BY <1>3, <1>7 DEF FlowOf, Flow, new
<1> QED
  BY <1>6, <1>8

(* The three cases of apply(), as BookSpec tells them apart. *)
LEMMA Answers ==
  ASSUME NEW b, BookOK(b), NEW e \in Event
  PROVE  /\ ~well_formed(e) => ErrorOf(BookMap(b), e) = "InvalidEvent"
         /\ well_formed(e) /\ ~Served(b, e) => ErrorOf(BookMap(b), e) = "MissingPrice"
         /\ Served(b, e) =>
              ErrorOf(BookMap(b), e) = IF Crosses(Candidate(b, e)) THEN "CrossedBook" ELSE "None"
         /\ ErrorOf(BookMap(b), e) # "None" =>
              ReportOf(BookMap(b), e) = NoFlow(ErrorOf(BookMap(b), e))
         /\ ErrorOf(BookMap(b), e) = "None" =>
              /\ Served(b, e) /\ ~Crosses(Candidate(b, e))
              /\ ReportOf(BookMap(b), e) =
                   [error |-> "None", order_flow |-> Flow(b, e), trade_flow |-> TradeFlow(b, e)]
              /\ CandidateMap(BookMap(b), e) = BookMap(Candidate(b, e))
<1>1. ~well_formed(e) => ErrorOf(BookMap(b), e) = "InvalidEvent"
  BY DEF ErrorOf
<1>2. well_formed(e) /\ ~Served(b, e) => ErrorOf(BookMap(b), e) = "MissingPrice"
  BY KnownIsMapped DEF Served, ErrorOf
<1>3. ASSUME Served(b, e)
      PROVE  ErrorOf(BookMap(b), e) = IF Crosses(Candidate(b, e)) THEN "CrossedBook" ELSE "None"
  <2>1. well_formed(e) /\ ~(e.type # "Add" /\ BookMap(b)[e.side][e.price] = 0)
    <3>1. well_formed(e)
      BY <1>3 DEF Served
    <3>2. Known(b, e) <=> BookMap(b)[e.side][e.price] # 0
      BY <3>1, KnownIsMapped
    <3> QED
      BY <1>3, <3>1, <3>2 DEF Served
  <2>2. CrossedMap(CandidateMap(BookMap(b), e)) <=> Cpp!crossed(Candidate(b, e))
    <3>1. BookOK(Candidate(b, e))
      BY <1>3, CandidateOK
    <3>2. CrossedMap(BookMap(Candidate(b, e))) <=> Cpp!crossed(Candidate(b, e))
      BY <3>1, SameCrossing
    <3> QED
      BY <1>3, <3>2, ServedTerms
  <2> QED
    BY <2>1, <2>2 DEF ErrorOf, Crosses
<1>4. ErrorOf(BookMap(b), e) # "None" =>
        ReportOf(BookMap(b), e) = NoFlow(ErrorOf(BookMap(b), e))
  BY DEF ReportOf
<1>5. ASSUME ErrorOf(BookMap(b), e) = "None"
      PROVE  Served(b, e) /\ ~Crosses(Candidate(b, e))
  BY <1>1, <1>2, <1>3, <1>5
<1>6. ASSUME ErrorOf(BookMap(b), e) = "None"
      PROVE  /\ ReportOf(BookMap(b), e) =
                  [error |-> "None", order_flow |-> Flow(b, e), trade_flow |-> TradeFlow(b, e)]
             /\ CandidateMap(BookMap(b), e) = BookMap(Candidate(b, e))
  <2>1. FlowOf(BookMap(b), e) = Flow(b, e)
    BY <1>5, <1>6, ServedTerms
  <2> QED
    BY <1>5, <1>6, <2>1, ServedTerms DEF ReportOf, TradeFlow
<1> QED
  BY <1>1, <1>2, <1>3, <1>4, <1>5, <1>6

-----------------------------------------------------------------------------
(* The C++ book. *)

(* What BookSpec sees of it. *)
LEMMA CppView ==
  /\ \A b : Cpp!BookBar(b) = BookMap(b)
  /\ \A e : e \in Cpp!Promise!Event <=> e \in Event
  /\ \A error : Cpp!NoFlow(error) = NoFlow(error) /\ Cpp!Promise!NoFlow(error) = NoFlow(error)
<1>1. \A b : Cpp!BookBar(b) = BookMap(b)
  BY DEF Cpp!BookBar, BookMap, MapOf, Cpp!Side, Side, Cpp!Price, Price
<1>2. \A e : e \in Cpp!Promise!Event <=> e \in Event
  BY DEF Cpp!Promise!Event, Event, Cpp!Promise!EventType, EventType, Cpp!Promise!Side, Side,
         Cpp!Promise!Quantity, Quantity
<1>3. \A error : Cpp!NoFlow(error) = NoFlow(error) /\ Cpp!Promise!NoFlow(error) = NoFlow(error)
  BY DEF Cpp!NoFlow, NoFlow, Cpp!Promise!NoFlow
<1> QED
  BY <1>1, <1>2, <1>3

(* The callers are told the report of BookSpec. *)
LEMMA CppAnswer ==
  ASSUME NEW b, BookOK(b), NEW e \in Event
  PROVE  LET answer == Cpp!applied(b, e)
         IN /\ BookMap(answer.book) =
                 IF ErrorOf(BookMap(b), e) = "None" THEN CandidateMap(BookMap(b), e) ELSE BookMap(b)
            /\ ReportOf(BookMap(b), e) =
                 IF answer.result.error = "None" THEN answer.result
                                                 ELSE NoFlow(answer.result.error)
<1>1. CASE ~well_formed(e)
  <2>1. ErrorOf(BookMap(b), e) = "InvalidEvent"
    BY <1>1, Answers
  <2> QED
    BY <1>1, <2>1, Answers, Applied DEF NoFlow
<1>2. CASE well_formed(e) /\ ~Served(b, e)
  <2>1. ErrorOf(BookMap(b), e) = "MissingPrice"
    BY <1>2, Answers
  <2> QED
    BY <1>2, <2>1, Answers, Applied DEF NoFlow
<1>3. CASE Served(b, e) /\ Crosses(Candidate(b, e))
  <2>1. ErrorOf(BookMap(b), e) = "CrossedBook"
    BY <1>3, Answers
  <2> QED
    BY <1>3, <2>1, Answers, Applied DEF NoFlow
<1>4. CASE Served(b, e) /\ ~Crosses(Candidate(b, e))
  <2>1. ErrorOf(BookMap(b), e) = "None"
    BY <1>4, Answers
  <2> QED
    BY <1>4, <2>1, Answers, Applied
<1> QED
  BY <1>1, <1>2, <1>3, <1>4 DEF Served

LEMMA CppInitial ==
  ASSUME Init
  PROVE  Cpp!Promise!Init
<1>1. /\ levels = [s \in Side |-> [i \in Cpp!Slot |-> Cpp!Unused]]
      /\ last_event = NoEvent /\ last_result = NoFlow("None")
  BY CppView DEF Init, Cpp!Init, Cpp!Side, Side, Cpp!NoEvent, NoEvent
<1>2. BookOK(levels)
  BY InvInitial DEF Inv, BenchInv
<1>3. ASSUME NEW s \in Side, NEW p \in Price
      PROVE  MapOf(levels[s])[p] = 0
  <2>1. SideOK(levels[s], s) /\ levels[s] = [i \in Cpp!Slot |-> Cpp!Unused]
    BY <1>1, <1>2 DEF BookOK
  <2>2. \A i : ~Holds(levels[s], i, p)
    BY <2>1 DEF Holds, Cpp!Unused
  <2> QED
    BY <2>1, <2>2, MapOfSide
<1>4. BookMap(levels) = [s \in Side |-> [p \in Price |-> 0]]
  <2>1. \A s \in Side : MapOf(levels[s]) = [p \in Price |-> MapOf(levels[s])[p]]
    BY DEF MapOf
  <2> QED
    BY <1>3, <2>1 DEF BookMap
<1>5. Cpp!BookBar(levels) = Cpp!Promise!EmptyBook
  BY <1>4, CppView DEF Cpp!Promise!EmptyBook, Cpp!Promise!Side, Side, Cpp!Promise!Price, Price
<1>6. Cpp!OutcomeBar = {Cpp!Promise!NoFlow("None")}
  BY <1>1, CppView DEF Cpp!OutcomeBar, NoFlow
<1>7. last_event = Cpp!Promise!NoEvent
  BY <1>1 DEF Cpp!Promise!NoEvent, NoEvent
<1> QED
  BY <1>5, <1>6, <1>7 DEF Cpp!Promise!Init

(* A call of apply() serves its event. *)
LEMMA CppServes ==
  ASSUME Inv, NEW e \in Event, Cpp!apply(e)
  PROVE  Cpp!Promise!Serve
<1>1. /\ levels' = Cpp!applied(levels, e).book /\ last_result' = Cpp!applied(levels, e).result
      /\ last_event' = e
  BY DEF Cpp!apply
<1>2. BookOK(levels)
  BY DEF Inv, BenchInv
<1>3. Cpp!OutcomeBar # {}
  BY DEF Cpp!OutcomeBar
<1>4. Cpp!OutcomeBar' = {Cpp!Promise!Report(Cpp!BookBar(levels), last_event')}
  <2>1. Cpp!OutcomeBar' = {ReportOf(BookMap(levels), e)}
    BY <1>1, <1>2, CppAnswer, CppView DEF Cpp!OutcomeBar
  <2> QED
    BY <1>1, <2>1, CppTerms, CppView
<1>5. Cpp!BookBar(levels)' =
        IF Cpp!Promise!Error(Cpp!BookBar(levels), last_event') = "None"
          THEN Cpp!Promise!Candidate(Cpp!BookBar(levels), last_event') ELSE Cpp!BookBar(levels)
  <2>1. Cpp!BookBar(levels)' = BookMap(levels')
    BY CppView
  <2>2. BookMap(levels') =
          IF ErrorOf(BookMap(levels), e) = "None" THEN CandidateMap(BookMap(levels), e)
                                                  ELSE BookMap(levels)
    BY <1>1, <1>2, CppAnswer
  <2> QED
    BY <1>1, <2>1, <2>2, CppTerms, CppView
<1>6. last_event' \in Cpp!Promise!Event
  BY <1>1, CppView
<1> QED
  BY <1>3, <1>4, <1>5, <1>6 DEF Cpp!Promise!Serve

LEMMA CppStep ==
  Inv /\ GeneratedInv /\ [Next]_vars => [Cpp!Promise!Next]_(Cpp!Promise!bookVars)
<1> SUFFICES ASSUME Inv, GeneratedInv, [Next]_vars
             PROVE  Cpp!Promise!Next \/ UNCHANGED Cpp!Promise!bookVars
  OBVIOUS
<1>1. ASSUME NEW e \in Event, Cpp!apply(e) PROVE Cpp!Promise!Next
  BY <1>1, CppServes DEF Cpp!Promise!Next
<1>2. CASE DrawBench
  <2>1. PICK e \in next_event : Cpp!apply(e)
    BY <1>2 DEF DrawBench, ApplyAndSubmit
  <2>2. e \in Event
    BY BenchEvents DEF Inv
  <2> QED
    BY <1>1, <2>1, <2>2
<1>3. CASE DrawGenerator
  <2>1. PICK e \in generator_event : Cpp!apply(e)
    BY <1>3 DEF DrawGenerator, ApplyAndSubmit
  <2>2. e \in Event
    BY GeneratorEvents
  <2> QED
    BY <1>1, <2>1, <2>2
<1>4. CASE DrawAny
  BY <1>1, <1>4 DEF DrawAny, ApplyAndSubmit
<1>5. CASE UNCHANGED cppVars
  BY <1>5 DEF cppVars, Cpp!Promise!bookVars, Cpp!BookBar, Cpp!quantity_at, Cpp!OutcomeBar
<1> QED
  BY <1>2, <1>3, <1>4, <1>5 DEF Next, Tick, Compare, IdleTick, GoOn, vars

-----------------------------------------------------------------------------
(* The RTL book. *)

(* The registers of a side represent the map their mirror does. *)
LEMMA RegistersMapped ==
  ASSUME NEW r, NEW s \in Side, SideOK(Mirror(r)[s], s), NEW p \in Price
  PROVE  Rtl!quantity_at(r[s], p) = MapOf(Mirror(r)[s])[p]
<1> DEFINE ls == Mirror(r)[s]
           slots == {i \in Rtl!Slot : r[s][i].price_ticks = p}
<1>1. p > 0 /\ p \in 0 .. MaxPrice /\ Rtl!Slot \subseteq Nat
  BY BookAssumption DEF Price, Rtl!Slot
<1>2. Rtl!quantity_at(r[s], p) = IF slots = {} THEN 0 ELSE r[s][Rtl!Min(slots)].quantity
  BY DEF Rtl!quantity_at
<1>3. \A i \in slots : Holds(ls, i + 1, p) /\ ls[i + 1] = r[s][i]
  <2> TAKE i \in slots
  <2>1. i \in Rtl!Slot /\ r[s][i].price_ticks = p
    OBVIOUS
  <2>2. i + 1 \in Cpp!Slot /\ ls[i + 1] = r[s][i]
    BY <2>1, MirrorAt
  <2>3. \A k \in Cpp!Slot : ls[k].quantity = 0 => ls[k].price_ticks = 0
    BY DEF SideOK, Spaced
  <2>4. ls[i + 1].quantity # 0
    BY <1>1, <2>1, <2>2, <2>3
  <2> QED
    BY <2>1, <2>2, <2>4 DEF Holds
<1>4. ASSUME NEW k, Holds(ls, k, p) PROVE slots # {}
  <2>1. k \in Cpp!Slot /\ ls[k].price_ticks = p
    BY <1>4 DEF Holds
  <2>2. k - 1 \in Rtl!Slot
    BY <2>1, BookAssumption DEF Cpp!Slot, Rtl!Slot
  <2>3. r[s][k - 1] = ls[k]
    BY <2>1, MirrorAt
  <2> QED
    BY <2>1, <2>2, <2>3
<1>5. ASSUME slots # {} PROVE Rtl!Min(slots) \in slots
  <2>1. PICK d \in slots : \A y \in slots : d <= y
    <3>1. slots \subseteq Nat
      BY <1>1
    <3> HIDE DEF slots
    <3>2. Cpp!Min(slots) \in slots /\ \A y \in slots : Cpp!Min(slots) <= y
      BY <1>5, <3>1, Least
    <3> QED
      BY <3>2
  <2> HIDE DEF slots
  <2> QED
    BY <2>1, Zenon DEF Rtl!Min
<1> HIDE DEF slots, ls
<1>6. CASE slots = {}
  <2>1. MapOf(ls)[p] = 0
    BY <1>4, <1>6, MapOfSide DEF ls
  <2> QED
    BY <1>2, <1>6, <2>1 DEF ls
<1>7. CASE slots # {}
  <2>1. Holds(ls, Rtl!Min(slots) + 1, p) /\ ls[Rtl!Min(slots) + 1] = r[s][Rtl!Min(slots)]
    BY <1>3, <1>5, <1>7
  <2>2. MapOf(ls)[p] = ls[Rtl!Min(slots) + 1].quantity
    BY <2>1, MapOfSide DEF ls
  <2> QED
    BY <1>2, <1>7, <2>1, <2>2 DEF ls
<1> QED
  BY <1>6, <1>7

(* What BookSpec sees of the RTL book. *)
LEMMA RtlView ==
  /\ BookOK(Mirror(live)) => Rtl!BookBar = BookMap(Mirror(live))
  /\ \A e : e \in Rtl!Promise!Event <=> e \in Event
<1>1. ASSUME BookOK(Mirror(live)) PROVE Rtl!BookBar = BookMap(Mirror(live))
  <2>1. \A s \in Side : \A p \in Price :
          Rtl!quantity_at(live[s], p) = MapOf(Mirror(live)[s])[p]
    BY <1>1, RegistersMapped DEF BookOK
  <2>2. \A s \in Side : MapOf(Mirror(live)[s]) = [p \in Price |-> MapOf(Mirror(live)[s])[p]]
    BY DEF MapOf
  <2>3. Rtl!BookBar = [s \in Side |-> [p \in Price |-> Rtl!quantity_at(live[s], p)]]
    BY DEF Rtl!BookBar, Rtl!Side, Side, Rtl!Price, Price
  <2> QED
    BY <2>1, <2>2, <2>3 DEF BookMap
<1>2. \A e : e \in Rtl!Promise!Event <=> e \in Event
  BY DEF Rtl!Promise!Event, Event, Rtl!Promise!EventType, EventType, Rtl!Promise!Side, Side,
         Rtl!Promise!Quantity, Quantity
<1> QED
  BY <1>1, <1>2

LEMMA RtlInitial ==
  ASSUME Init
  PROVE  Rtl!Promise!Init
<1>1. /\ state = "IDLE" /\ current_event = NoEvent
      /\ event_error = "None" /\ order_flow_delta = 0 /\ trade_flow_delta = 0
  BY DEF Init, Rtl!Reset, Rtl!NoEvent, NoEvent
<1>2. BookOK(Mirror(live)) /\ levels = Mirror(live)
  BY <1>1, InvInitial DEF Inv, BenchInv, RtlInv, Settled
<1>3. Cpp!Promise!Init
  BY CppInitial
<1>4. BookMap(Mirror(live)) = [s \in Side |-> [p \in Price |-> 0]]
  BY <1>2, <1>3, CppView
     DEF Cpp!Promise!Init, Cpp!Promise!EmptyBook, Cpp!Promise!Side, Side, Cpp!Promise!Price, Price
<1>5. Rtl!BookBar = Rtl!Promise!EmptyBook
  BY <1>2, <1>4, RtlView DEF Rtl!Promise!EmptyBook, Rtl!Promise!Side, Side, Rtl!Promise!Price, Price
<1>6. Rtl!OutcomeBar = {Rtl!Promise!NoFlow("None")}
  BY <1>1 DEF Rtl!OutcomeBar, Rtl!Promise!NoFlow
<1>7. current_event = Rtl!Promise!NoEvent
  BY <1>1 DEF Rtl!Promise!NoEvent, NoEvent
<1> QED
  BY <1>5, <1>6, <1>7 DEF Rtl!Promise!Init

(* The handshake. *)
LEMMA RtlAccepts ==
  ASSUME Inv, NEW e \in Event, Rtl!Accept(e)
  PROVE  Rtl!Promise!Accept
<1>1. state = "IDLE" /\ state' = "VALIDATE" /\ current_event' = e /\ live' = live
  BY DEF Rtl!Accept, Rtl!in_ready
<1>2. Rtl!OutcomeBar # {} /\ Rtl!OutcomeBar' = {}
  BY <1>1 DEF Rtl!OutcomeBar
<1>3. Rtl!BookBar' = Rtl!BookBar
  BY <1>1 DEF Rtl!BookBar
<1>4. current_event' \in Rtl!Promise!Event
  BY <1>1, RtlView
<1> QED
  BY <1>2, <1>3, <1>4 DEF Rtl!Promise!Accept

(* A clock that decides the event completes it. *)
LEMMA RtlDecides ==
  ASSUME Inv, Inv', state \in BusyStates \ {"FINISH"}, state' = "FINISH",
         current_event' = current_event,
         NEW m, m = BookMap(Mirror(live)),
         BookMap(Mirror(live')) = IF ErrorOf(m, current_event) = "None"
                                    THEN CandidateMap(m, current_event) ELSE m,
         ReportOf(m, current_event) = [error |-> event_error', order_flow |-> order_flow_delta',
                                       trade_flow |-> trade_flow_delta']
  PROVE  Rtl!Promise!Complete
<1>1. BookOK(Mirror(live)) /\ BookOK(Mirror(live))'
  BY DEF Inv, BenchInv
<1>2. Rtl!BookBar = m
  BY <1>1, RtlView
<1>3. Rtl!BookBar' = BookMap(Mirror(live'))
  <2>1. (BookOK(Mirror(live)) => Rtl!BookBar = BookMap(Mirror(live)))'
    BY RtlView, PTL
  <2> QED
    BY <1>1, <2>1
<1>4. Rtl!OutcomeBar = {}
  BY DEF Rtl!OutcomeBar, BusyStates
<1>5. Rtl!OutcomeBar' = {ReportOf(m, current_event)}
  BY DEF Rtl!OutcomeBar
<1>6. /\ Rtl!OutcomeBar' = {Rtl!Promise!Report(Rtl!BookBar, current_event)}
      /\ Rtl!BookBar' = IF Rtl!Promise!Error(Rtl!BookBar, current_event) = "None"
                          THEN Rtl!Promise!Candidate(Rtl!BookBar, current_event) ELSE Rtl!BookBar
  BY <1>2, <1>3, <1>5, RtlTerms
<1> QED
  BY <1>4, <1>6 DEF Rtl!Promise!Complete

(* VALIDATE finds the event ill-formed. *)
LEMMA RtlInvalid ==
  ASSUME Inv, Inv', Rtl!Validate, state' = "FINISH"
  PROVE  Rtl!Promise!Complete
<1>1. /\ state = "VALIDATE" /\ current_event' = current_event /\ live' = live
      /\ ~Rtl!well_formed(current_event) /\ event_error' = "InvalidEvent"
      /\ order_flow_delta' = order_flow_delta /\ trade_flow_delta' = trade_flow_delta
  BY DEF Rtl!Validate, Rtl!busy
<1>2. order_flow_delta = 0 /\ trade_flow_delta = 0
  BY <1>1 DEF Inv, RtlInv, AtValidate, Untouched, NoReport
<1>3. BookOK(Mirror(live)) /\ current_event \in Event
  BY DEF Inv, TypeOK, BenchInv
<1>4. ~well_formed(current_event)
  BY <1>1 DEF Rtl!well_formed, well_formed
<1>5. ErrorOf(BookMap(Mirror(live)), current_event) = "InvalidEvent"
  BY <1>3, <1>4, Answers
<1>6. ReportOf(BookMap(Mirror(live)), current_event) = NoFlow("InvalidEvent")
  BY <1>3, <1>5, Answers
<1> QED
  BY <1>1, <1>2, <1>5, <1>6, RtlDecides DEF BusyStates, NoFlow

(* APPLY finds no level to change. *)
LEMMA RtlMissing ==
  ASSUME Inv, Inv', Rtl!ApplyReject
  PROVE  Rtl!Promise!Complete
<1>1. /\ state = "APPLY" /\ state' = "FINISH" /\ current_event' = current_event /\ live' = live
      /\ current_event.type # "Add"
      /\ ~match_found \/ (current_event.type # "Update" /\ current_event.quantity = 0)
      /\ event_error' = IF match_found THEN "InvalidEvent" ELSE "MissingPrice"
      /\ order_flow_delta' = order_flow_delta /\ trade_flow_delta' = trade_flow_delta
  BY DEF Rtl!ApplyReject, Rtl!busy
<1>2. AtApply(Mirror(live), current_event)
  BY <1>1 DEF Inv, RtlInv
<1>3. /\ BookOK(Mirror(live)) /\ current_event \in Event
      /\ current_event.side \in Side /\ current_event.price \in 0 .. MaxPrice
      /\ SideOK(Mirror(live)[current_event.side], current_event.side)
      /\ current_event.quantity \in Nat
  BY BusyFacts DEF Inv
<1>4. /\ well_formed(current_event) /\ Found(Mirror(live), current_event)
      /\ order_flow_delta = 0 /\ trade_flow_delta = 0
  BY <1>2 DEF AtApply, Untouched, NoReport
<1>5. ~match_found
  BY <1>1, <1>3, <1>4 DEF well_formed
<1>6. ~Known(Mirror(live), current_event)
  BY <1>3, <1>4, <1>5, NotBoth DEF Found, Known
<1>7. ErrorOf(BookMap(Mirror(live)), current_event) = "MissingPrice"
  BY <1>1, <1>3, <1>4, <1>6, Answers DEF Served
<1>8. ReportOf(BookMap(Mirror(live)), current_event) = NoFlow("MissingPrice")
  BY <1>3, <1>7, Answers
<1> QED
  BY <1>1, <1>4, <1>5, <1>7, <1>8, RtlDecides DEF BusyStates, NoFlow

(* CHECK_CROSS drops the candidate. *)
LEMMA RtlCrossed ==
  ASSUME Inv, Inv', Rtl!RejectCrossed
  PROVE  Rtl!Promise!Complete
<1>1. /\ state = "CHECK_CROSS" /\ state' = "FINISH" /\ current_event' = current_event
      /\ live' = live /\ Rtl!work_crossed
      /\ event_error' = "CrossedBook" /\ order_flow_delta' = 0 /\ trade_flow_delta' = 0
  BY DEF Rtl!RejectCrossed, Rtl!busy
<1>2. AtCheckCross(Mirror(live), current_event)
  BY <1>1 DEF Inv, RtlInv
<1>3. Served(Mirror(live), current_event) /\ Crosses(Candidate(Mirror(live), current_event))
  BY <1>1, <1>2, SameCross DEF AtCheckCross
<1>4. BookOK(Mirror(live)) /\ current_event \in Event
  BY DEF Inv, TypeOK, BenchInv
<1>5. ErrorOf(BookMap(Mirror(live)), current_event) = "CrossedBook"
  BY <1>3, <1>4, Answers
<1>6. ReportOf(BookMap(Mirror(live)), current_event) = NoFlow("CrossedBook")
  BY <1>4, <1>5, Answers
<1> QED
  BY <1>1, <1>5, <1>6, RtlDecides DEF BusyStates, NoFlow

(* COMMIT makes the candidate the live book. *)
LEMMA RtlCommits ==
  ASSUME Inv, Inv', Rtl!Commit
  PROVE  Rtl!Promise!Complete
<1>1. /\ state = "COMMIT" /\ state' = "FINISH" /\ current_event' = current_event
      /\ live' = IF operation_changes_book THEN work ELSE live
      /\ event_error' = event_error /\ order_flow_delta' = order_flow_delta
      /\ trade_flow_delta' = trade_flow_delta
  BY DEF Rtl!Commit, Rtl!busy, Rtl!report
<1>2. AtCommit(Mirror(live), current_event)
  BY <1>1 DEF Inv, RtlInv
<1>3. Mirror(live') = Candidate(Mirror(live), current_event)
  BY <1>1, <1>2 DEF AtCommit
<1>4. /\ Served(Mirror(live), current_event) /\ ~Crosses(Candidate(Mirror(live), current_event))
      /\ event_error = "None" /\ order_flow_delta = Flow(Mirror(live), current_event)
      /\ trade_flow_delta = TradeFlow(Mirror(live), current_event)
  BY <1>2 DEF AtCommit, FlowReport
<1>5. BookOK(Mirror(live)) /\ current_event \in Event
  BY DEF Inv, TypeOK, BenchInv
<1>6. ErrorOf(BookMap(Mirror(live)), current_event) = "None"
  BY <1>4, <1>5, Answers
<1>7. /\ CandidateMap(BookMap(Mirror(live)), current_event) =
           BookMap(Candidate(Mirror(live), current_event))
      /\ ReportOf(BookMap(Mirror(live)), current_event) =
           [error |-> "None", order_flow |-> Flow(Mirror(live), current_event),
            trade_flow |-> TradeFlow(Mirror(live), current_event)]
  BY <1>5, <1>6, Answers
<1> QED
  BY <1>1, <1>3, <1>4, <1>6, <1>7, RtlDecides DEF BusyStates

(* Every other clock is invisible to BookSpec. *)
LEMMA RtlQuiet ==
  ASSUME current_event' = current_event, live' = live,
         \/ state \in BusyStates \ {"FINISH"} /\ state' \in BusyStates \ {"FINISH"}
         \/ /\ state \in {"FINISH", "IDLE"} /\ state' \in {"FINISH", "IDLE"}
            /\ UNCHANGED <<event_error, order_flow_delta, trade_flow_delta>>
  PROVE  UNCHANGED Rtl!Promise!bookVars
<1>1. Rtl!BookBar' = Rtl!BookBar
  BY DEF Rtl!BookBar
<1>2. Rtl!OutcomeBar' = Rtl!OutcomeBar
  BY DEF Rtl!OutcomeBar, BusyStates
<1> QED
  BY <1>1, <1>2 DEF Rtl!Promise!bookVars

LEMMA RtlStep ==
  Inv /\ GeneratedInv /\ [Next]_vars => [Rtl!Promise!Next]_(Rtl!Promise!bookVars)
<1> SUFFICES ASSUME Inv, GeneratedInv, [Next]_vars
             PROVE  Rtl!Promise!Next \/ UNCHANGED Rtl!Promise!bookVars
  OBVIOUS
<1>1. Inv'
  BY InvStep
<1>2. ASSUME NEW e \in Event, Rtl!Accept(e) PROVE Rtl!Promise!Next
  BY <1>2, RtlAccepts DEF Rtl!Promise!Next
<1>3. CASE DrawBench
  <2>1. PICK e \in next_event : Rtl!Accept(e)
    BY <1>3 DEF DrawBench, ApplyAndSubmit
  <2>2. e \in Event
    BY BenchEvents DEF Inv
  <2> QED
    BY <1>2, <2>1, <2>2
<1>4. CASE DrawGenerator
  <2>1. PICK e \in generator_event : Rtl!Accept(e)
    BY <1>4 DEF DrawGenerator, ApplyAndSubmit
  <2>2. e \in Event
    BY GeneratorEvents
  <2> QED
    BY <1>2, <2>1, <2>2
<1>5. CASE DrawAny
  BY <1>2, <1>5 DEF DrawAny, ApplyAndSubmit
<1>6. CASE Tick
  <2>1. Rtl!BusyClock
    BY <1>6 DEF Tick
  <2>2. CASE Rtl!Validate
    <3>1. CASE state' = "FINISH"
      BY <1>1, <2>2, <3>1, RtlInvalid DEF Rtl!Promise!Next
    <3>2. CASE state' # "FINISH"
      BY <2>2, <3>2, RtlQuiet DEF Rtl!Validate, Rtl!busy, BusyStates
    <3> QED
      BY <3>1, <3>2
  <2>3. CASE Rtl!ApplyReject
    BY <1>1, <2>3, RtlMissing DEF Rtl!Promise!Next
  <2>4. CASE Rtl!RejectCrossed
    BY <1>1, <2>4, RtlCrossed DEF Rtl!Promise!Next
  <2>5. CASE Rtl!Commit
    BY <1>1, <2>5, RtlCommits DEF Rtl!Promise!Next
  <2>6. CASE Rtl!Search \/ Rtl!SearchDone \/ Rtl!NotCrossed
    BY <2>6, RtlQuiet DEF Rtl!Search, Rtl!SearchDone, Rtl!NotCrossed, Rtl!busy, BusyStates
  <2>7. CASE Rtl!ApplyAddToLevel \/ Rtl!ApplyAddBeyondDepth \/ Rtl!ApplyInsert
    BY <2>7, RtlQuiet
       DEF Rtl!ApplyAddToLevel, Rtl!ApplyAddBeyondDepth, Rtl!ApplyInsert, Rtl!busy, BusyStates
  <2>8. CASE Rtl!ApplyChangeLevel \/ Rtl!ApplyRemoveLevel
    BY <2>8, RtlQuiet DEF Rtl!ApplyChangeLevel, Rtl!ApplyRemoveLevel, Rtl!busy, BusyStates
  <2>9. CASE Rtl!ShiftRight \/ Rtl!FillGap \/ Rtl!ShiftLeft \/ Rtl!ClearLast
    BY <2>9, RtlQuiet
       DEF Rtl!ShiftRight, Rtl!FillGap, Rtl!ShiftLeft, Rtl!ClearLast, Rtl!busy, BusyStates
  <2>10. CASE Rtl!Finish
    BY <2>10, RtlQuiet DEF Rtl!Finish, Rtl!report
  <2> QED
    BY <2>1, <2>2, <2>3, <2>4, <2>5, <2>6, <2>7, <2>8, <2>9, <2>10 DEF Rtl!BusyClock
<1>7. CASE IdleTick
  BY <1>7, RtlQuiet DEF IdleTick, Rtl!StayIdle, Rtl!in_ready, Rtl!report
<1>8. CASE UNCHANGED rtlVars
  BY <1>8 DEF rtlVars, Rtl!Promise!bookVars, Rtl!BookBar, Rtl!OutcomeBar
<1> QED
  BY <1>3, <1>4, <1>5, <1>6, <1>7, <1>8 DEF Next, Compare, GoOn, vars

-----------------------------------------------------------------------------
(* The theorems. *)

(* OrderBook::apply() implements the map of the best BookDepth prices: its  *)
(* search and shifting over slots are a map update, whatever the history.   *)
THEOREM CppBookImplements == Spec => CppImplementsBook
<1>1. Init => Cpp!Promise!Init
  BY CppInitial
<1>2. Inv /\ GeneratedInv /\ [Next]_vars => [Cpp!Promise!Next]_(Cpp!Promise!bookVars)
  BY CppStep
<1> QED
  BY <1>1, <1>2, BooksInvariant, PTL
     DEF Spec, CppImplementsBook, Cpp!ImplementsBook, Cpp!Promise!Spec

(* order_book.sv implements it too, over many clocks: the live book changes *)
(* all at once or not at all, in the clock in which the event is decided.   *)
THEOREM RtlBookImplements == Spec => RtlImplementsBook
<1>1. Init => Rtl!Promise!Init
  BY RtlInitial
<1>2. Inv /\ GeneratedInv /\ [Next]_vars => [Rtl!Promise!Next]_(Rtl!Promise!bookVars)
  BY RtlStep
<1> QED
  BY <1>1, <1>2, BooksInvariant, PTL
     DEF Spec, RtlImplementsBook, Rtl!ImplementsBook, Rtl!Promise!Spec
=============================================================================
