----------------------- MODULE BookDifferential_proofs -----------------------
(***************************************************************************)
(* Proofs about BookDifferential: for every depth of the books, range of    *)
(* prices and quantities, with crossed books allowed or not.                *)
(***************************************************************************)
EXTENDS BookDifferential, WellFoundedInduction, TLAPS

-----------------------------------------------------------------------------
(* The microprice. *)

(* A quotient and its remainder. *)
LEMMA DivMod ==
  ASSUME NEW n \in Nat, NEW d \in Nat \ {0}
  PROVE  /\ n \div d \in Nat /\ n % d \in 0 .. d - 1
         /\ n = d * (n \div d) + (n % d)
  <1>1. n \div d \in Nat
    <2>1. \A q \in Int : q = n \div d => q >= 0
      OBVIOUS
    <2> QED
      BY <2>1
  <1>2. n % d \in 0 .. d - 1
    OBVIOUS
  <1>3. \A x \in Nat : \A y \in Nat \ {0} : x = y * (x \div y) + (x % y)
    BY SMTT(30)
  <1> QED
    BY <1>1, <1>2, <1>3

(* rounded_divide() of positive numbers is the nearest integer. *)
LEMMA RoundedToNearest ==
  ASSUME NEW n \in Nat, NEW d \in Nat \ {0}
  PROVE  /\ rounded_divide(n, d) \in Nat
         /\ 2 * magnitude(rounded_divide(n, d) * d - n) <= d
  <1> DEFINE q == n \div d
             r == n % d
             half == (d + 1) \div 2
             product == d * q
  <1>1. q \in Nat /\ r \in 0 .. d - 1 /\ n = product + r /\ product \in Nat
    <2>1. q \in Nat /\ r \in 0 .. d - 1 /\ n = d * q + r
      BY DivMod
    <2>2. \A k \in Nat : d * k \in Nat
      OBVIOUS
    <2> HIDE DEF q, r
    <2> QED
      BY <2>1, <2>2
  <1>2. half \in Nat /\ 2 * half >= d /\ 2 * half <= d + 1
    OBVIOUS
  <1>3. rounded_divide(n, d) = q + (IF r >= half THEN 1 ELSE 0)
    BY DEF rounded_divide, magnitude
  <1>4. q * d = product /\ (q + 1) * d = product + d
    BY <1>1
  <1> HIDE DEF q, r, half, product
  <1>5. CASE r >= half
    <2>1. rounded_divide(n, d) = q + 1 /\ rounded_divide(n, d) * d = product + d
      BY <1>3, <1>4, <1>5
    <2> QED
      BY <1>1, <1>2, <1>5, <2>1 DEF magnitude
  <1>6. CASE ~(r >= half)
    <2>1. rounded_divide(n, d) = q /\ rounded_divide(n, d) * d = product
      BY <1>1, <1>3, <1>4, <1>6
    <2> QED
      BY <1>1, <1>2, <1>6, <2>1 DEF magnitude
  <1> QED
    BY <1>5, <1>6

(* A product that reaches one with a larger factor. *)
LEMMA LargerFactor ==
  ASSUME NEW a \in Int, NEW b \in Int, NEW d \in Nat \ {0}, a < b
  PROVE  a * d + d <= b * d
  <1>1. b - a >= 1 /\ b - a \in Int
    OBVIOUS
  <1>2. \A k \in Int : k >= 1 => k * d >= d
    OBVIOUS
  <1>3. (b - a) * d >= d
    BY <1>1, <1>2
  <1>4. b * d = a * d + (b - a) * d
    OBVIOUS
  <1>. QED
    BY <1>3, <1>4

(* The nearest integer to a mean lies between its extremes. *)
LEMMA NearestIsBetween ==
  ASSUME NEW low \in Nat, NEW high \in Nat, NEW d \in Nat \ {0}, NEW n \in Nat, NEW q \in Nat,
         low * d <= n, n <= high * d, 2 * magnitude(q * d - n) <= d
  PROVE  low <= q /\ q <= high
  <1> DEFINE qd == q * d
             ld == low * d
             hd == high * d
  <1>0. qd \in Nat /\ ld \in Nat /\ hd \in Nat
    OBVIOUS
  <1>1. q < low => qd + d <= ld
    BY LargerFactor
  <1>2. high < q => hd + d <= qd
    BY LargerFactor
  <1>3. ld <= n /\ n <= hd /\ 2 * magnitude(qd - n) <= d
    OBVIOUS
  <1> HIDE DEF qd, ld, hd
  <1>. QED
    BY <1>0, <1>1, <1>2, <1>3 DEF magnitude

(* The weighted sum is between the prices times the total. *)
LEMMA MeanIsBetween ==
  ASSUME NEW a \in Nat, NEW b \in Nat, NEW x \in Nat, NEW y \in Nat, a <= b
  PROVE  a * (x + y) <= b * x + a * y /\ b * x + a * y <= b * (x + y)
  <1>1. b * x = a * x + (b - a) * x /\ b * y = a * y + (b - a) * y
    OBVIOUS
  <1>2. (b - a) * x >= 0 /\ (b - a) * y >= 0
    OBVIOUS
  <1>3. a * (x + y) = a * x + a * y /\ b * (x + y) = b * x + b * y
    OBVIOUS
  <1> QED
    BY <1>1, <1>2, <1>3

(* microprice_ticks() of two used levels, its sum representable. *)
LEMMA NearestMicroprice ==
  ASSUME NEW bid \in [price_ticks : Nat, quantity : Nat],
         NEW ask \in [price_ticks : Nat, quantity : Nat],
         bid.quantity > 0, ask.quantity > 0, Representable(weighted_price(bid, ask))
  PROVE  LET micro == microprice_ticks(bid, ask)
             total == bid.quantity + ask.quantity
         IN /\ \/ bid.price_ticks <= micro /\ micro <= ask.price_ticks
               \/ ask.price_ticks <= micro /\ micro <= bid.price_ticks
            /\ 2 * magnitude(micro * total - weighted_price(bid, ask)) <= total
  <1> DEFINE b == bid.price_ticks
             a == ask.price_ticks
             x == bid.quantity
             y == ask.quantity
             w == weighted_price(bid, ask)
             micro == microprice_ticks(bid, ask)
             total == x + y
  <1>1. a \in Nat /\ b \in Nat /\ x \in Nat /\ y \in Nat /\ total \in Nat \ {0}
    OBVIOUS
  <1>2. w = a * x + b * y /\ w \in Nat
    BY <1>1 DEF weighted_price
  <1>3. wide(w) = w
    <2>1. WideLimit \in Nat \ {0} /\ w < WideLimit
      BY <1>2, FixedPointAssumption DEF Representable
    <2>2. w + WideLimit \in 0 .. 2 * WideLimit - 1
      BY <1>2, <2>1
    <2>3. \A v \in Nat : \A m \in Nat \ {0} : v < m => v % m = v
      OBVIOUS
    <2>4. (w + WideLimit) % (2 * WideLimit) = w + WideLimit
      BY <2>1, <2>2, <2>3
    <2> QED
      BY <1>2, <2>1, <2>4 DEF wide
  <1>4. micro \in Nat /\ 2 * magnitude(micro * total - w) <= total
    BY <1>1, <1>2, <1>3, RoundedToNearest DEF microprice_ticks
  <1>5. CASE b <= a
    <2>1. b * total <= w /\ w <= a * total
      BY <1>1, <1>2, <1>5, MeanIsBetween
    <2>2. b <= micro /\ micro <= a
      BY <1>1, <1>2, <1>4, <2>1, NearestIsBetween
    <2> QED
      BY <1>4, <2>2
  <1>6. CASE a <= b
    <2>1. a * total <= w /\ w <= b * total
      <3>1. a * (y + x) <= b * y + a * x /\ b * y + a * x <= b * (y + x)
        BY <1>1, <1>6, MeanIsBetween
      <3>2. y + x = total /\ b * y + a * x = w
        BY <1>1, <1>2
      <3> QED
        BY <3>1, <3>2
    <2>2. a <= micro /\ micro <= b
      BY <1>1, <1>2, <1>4, <2>1, NearestIsBetween
    <2> QED
      BY <1>4, <2>2
  <1> QED
    BY <1>1, <1>5, <1>6

-----------------------------------------------------------------------------
(* The slots of a side. *)

Level == [price_ticks : 0 .. MaxPrice, quantity : Quantity]

(* A side's prices as numbers that grow from the best price to the worst.  *)
rank(s, price) == IF s = "Bid" THEN -price ELSE price

(* Used slots come first and are strictly ordered, so that two of them are  *)
(* at least as many ticks apart as slots; unused ones are zero.             *)
Spaced(ls, s) ==
  \A i \in Cpp!Slot :
    /\ ls[i].quantity = 0 => ls[i].price_ticks = 0
    /\ ls[i].quantity # 0 => ls[i].price_ticks > 0
    /\ \A j \in Cpp!Slot :
         i < j /\ ls[j].quantity # 0 =>
           /\ ls[i].quantity # 0
           /\ rank(s, ls[i].price_ticks) + (j - i) <= rank(s, ls[j].price_ticks)

SideOK(ls, s) == ls \in [Cpp!Slot -> Level] /\ Spaced(ls, s)

(* The slot of a price that is in the book, and the place of one that is not. *)
Holds(ls, i, price) ==
  i \in Cpp!Slot /\ ls[i].quantity # 0 /\ ls[i].price_ticks = price
Place(ls, s, k, price) ==
  /\ k \in 1 .. BookDepth + 1
  /\ \A j \in Cpp!Slot :
       j < k => ls[j].quantity # 0 /\ rank(s, ls[j].price_ticks) < rank(s, price)
  /\ k \in Cpp!Slot =>
       ls[k].quantity = 0 \/ rank(s, price) < rank(s, ls[k].price_ticks)

(* A set of numbers has a least element. *)
LEMMA Least ==
  ASSUME NEW S, S \subseteq Nat, S # {}
  PROVE  Cpp!Min(S) \in S /\ \A y \in S : Cpp!Min(S) <= y
<1>1. PICK d \in S : \A e \in S : <<e, d>> \notin OpToRel(<, Nat)
  BY NatLessThanWellFounded, WFMin
<1>2. ASSUME NEW y \in S PROVE d <= y
  <2>1. y \in Nat /\ d \in Nat
    OBVIOUS
  <2>2. ~(y < d)
    BY <1>1, <2>1 DEF OpToRel
  <2> QED
    BY <2>1, <2>2
<1> QED
  BY <1>2, Zenon DEF Cpp!Min

(* Where the loop of lookup() stops. *)
LEMMA StopSlot ==
  ASSUME NEW s \in Side, NEW ls, SideOK(ls, s), NEW price \in 0 .. MaxPrice,
         NEW k, k = Cpp!stop_slot(ls, s, price)
  PROVE  /\ k \in 1 .. BookDepth + 1
         /\ \A j \in Cpp!Slot :
              j < k => ls[j].quantity # 0 /\ rank(s, ls[j].price_ticks) < rank(s, price)
         /\ k \in Cpp!Slot =>
              ls[k].quantity = 0 \/ rank(s, price) <= rank(s, ls[k].price_ticks)
<1> DEFINE S == {BookDepth + 1} \cup
                {i \in Cpp!Slot : \/ ls[i].quantity = 0
                                  \/ before(s, price, ls[i].price_ticks)
                                  \/ ls[i].price_ticks = price}
<1>1. S \subseteq Nat /\ S # {} /\ S \subseteq 1 .. BookDepth + 1
  BY BookAssumption DEF Cpp!Slot
<1>2. k = Cpp!Min(S)
  BY DEF Cpp!stop_slot, Cpp!before, before
<1>3. k \in S /\ \A y \in S : k <= y
  BY <1>1, <1>2, Least
<1>4. k \in 1 .. BookDepth + 1
  BY <1>1, <1>3
<1>5. ASSUME NEW j \in Cpp!Slot, j < k
      PROVE  ls[j].quantity # 0 /\ rank(s, ls[j].price_ticks) < rank(s, price)
  <2>1. j \in Int /\ k \in Int /\ ls[j].price_ticks \in Int
    BY <1>4, BookAssumption DEF Cpp!Slot, SideOK, Level
  <2>2. j \notin S
    BY <1>3, <1>5, <2>1
  <2> QED
    BY <2>1, <2>2 DEF before, rank, Side
<1>6. ASSUME k \in Cpp!Slot
      PROVE  ls[k].quantity = 0 \/ rank(s, price) <= rank(s, ls[k].price_ticks)
  <2>1. k # BookDepth + 1 /\ ls[k].price_ticks \in Int
    BY <1>6, BookAssumption DEF Cpp!Slot, SideOK, Level
  <2> QED
    BY <1>3, <2>1 DEF before, rank, Side
<1> QED
  BY <1>4, <1>5, <1>6

(* lookup() finds the slot of a price, and there is only one. *)
LEMMA LookupFinds ==
  ASSUME NEW s \in Side, NEW ls, SideOK(ls, s), NEW price \in 0 .. MaxPrice,
         NEW i, Holds(ls, i, price)
  PROVE  Cpp!lookup(ls, s, price) = [found |-> TRUE, index |-> i]
<1> DEFINE k == Cpp!stop_slot(ls, s, price)
<1>1. /\ k \in 1 .. BookDepth + 1
      /\ \A j \in Cpp!Slot :
           j < k => ls[j].quantity # 0 /\ rank(s, ls[j].price_ticks) < rank(s, price)
      /\ k \in Cpp!Slot =>
           ls[k].quantity = 0 \/ rank(s, price) <= rank(s, ls[k].price_ticks)
  BY StopSlot
<1>2. Cpp!lookup(ls, s, price) =
        [found |-> k \in Cpp!Slot /\ ls[k].quantity # 0 /\ ls[k].price_ticks = price, index |-> k]
  BY DEF Cpp!lookup
<1> HIDE DEF k
<1>3. i \in 1 .. BookDepth /\ BookDepth \in Nat /\ rank(s, price) \in Int
  BY BookAssumption DEF Holds, Cpp!Slot, rank
<1>4. ~(i < k)
  BY <1>1, <1>3 DEF Holds
<1>5. ~(k < i)
  <2>1. SUFFICES ASSUME k < i PROVE FALSE
    OBVIOUS
  <2>2. k \in Cpp!Slot /\ i \in Cpp!Slot /\ ls[i].quantity # 0 /\ ls[i].price_ticks = price
    BY <1>1, <1>3, <2>1 DEF Holds, Cpp!Slot
  <2>3. ls[k].quantity # 0 /\ rank(s, ls[k].price_ticks) + i - k <= rank(s, price)
    BY <2>1, <2>2 DEF SideOK, Spaced
  <2>4. rank(s, ls[k].price_ticks) \in Int
    BY <2>2 DEF SideOK, Level, rank
  <2>5. rank(s, price) <= rank(s, ls[k].price_ticks)
    BY <1>1, <2>2, <2>3
  <2> QED
    BY <1>1, <1>3, <2>1, <2>3, <2>4, <2>5
<1>6. k = i
  BY <1>1, <1>3, <1>4, <1>5
<1> QED
  BY <1>2, <1>6 DEF Holds

(* lookup() finds the place of a price that is not in the book. *)
LEMMA LookupMisses ==
  ASSUME NEW s \in Side, NEW ls, SideOK(ls, s), NEW price \in 0 .. MaxPrice,
         NEW p, Place(ls, s, p, price)
  PROVE  Cpp!lookup(ls, s, price) = [found |-> FALSE, index |-> p]
<1> DEFINE k == Cpp!stop_slot(ls, s, price)
<1>1. /\ k \in 1 .. BookDepth + 1
      /\ \A j \in Cpp!Slot :
           j < k => ls[j].quantity # 0 /\ rank(s, ls[j].price_ticks) < rank(s, price)
      /\ k \in Cpp!Slot =>
           ls[k].quantity = 0 \/ rank(s, price) <= rank(s, ls[k].price_ticks)
  BY StopSlot
<1>2. Cpp!lookup(ls, s, price) =
        [found |-> k \in Cpp!Slot /\ ls[k].quantity # 0 /\ ls[k].price_ticks = price, index |-> k]
  BY DEF Cpp!lookup
<1> HIDE DEF k
<1>3. p \in 1 .. BookDepth + 1 /\ BookDepth \in Nat /\ rank(s, price) \in Int
  BY BookAssumption DEF Place, Cpp!Slot, rank
<1>4. \A j \in Cpp!Slot : rank(s, ls[j].price_ticks) \in Int
  BY DEF SideOK, Level, rank
<1>5. ~(p < k)
  BY <1>1, <1>3, <1>4 DEF Place, Cpp!Slot
<1>6. ~(k < p)
  BY <1>1, <1>3, <1>4 DEF Place, Cpp!Slot
<1>7. k = p
  BY <1>1, <1>3, <1>5, <1>6
<1>8. ~(k \in Cpp!Slot /\ ls[k].quantity # 0 /\ ls[k].price_ticks = price)
  BY <1>3, <1>7 DEF Place
<1> QED
  BY <1>2, <1>7, <1>8

(* Every price has a slot or a place. *)
LEMMA HeldOrPlaced ==
  ASSUME NEW s \in Side, NEW ls, SideOK(ls, s), NEW price \in 0 .. MaxPrice
  PROVE  (\E i \in Cpp!Slot : Holds(ls, i, price)) \/ (\E k \in 1 .. BookDepth + 1 : Place(ls, s, k, price))
<1> DEFINE k == Cpp!stop_slot(ls, s, price)
<1>1. /\ k \in 1 .. BookDepth + 1
      /\ \A j \in Cpp!Slot :
           j < k => ls[j].quantity # 0 /\ rank(s, ls[j].price_ticks) < rank(s, price)
      /\ k \in Cpp!Slot =>
           ls[k].quantity = 0 \/ rank(s, price) <= rank(s, ls[k].price_ticks)
  BY StopSlot
<1> HIDE DEF k
<1>2. CASE k \in Cpp!Slot /\ ls[k].quantity # 0 /\ ls[k].price_ticks = price
  BY <1>2 DEF Holds
<1>3. CASE ~(k \in Cpp!Slot /\ ls[k].quantity # 0 /\ ls[k].price_ticks = price)
  <2>1. k \in Cpp!Slot =>
          ls[k].quantity = 0 \/ rank(s, price) < rank(s, ls[k].price_ticks)
    BY <1>1, <1>3 DEF rank, SideOK, Level
  <2>2. Place(ls, s, k, price)
    BY <1>1, <2>1 DEF Place
  <2> QED
    BY <1>1, <2>2
<1> QED
  BY <1>2, <1>3

-----------------------------------------------------------------------------
(* What an event does to the slots of its side. *)

SetQuantity(ls, i, q) ==
  [j \in Cpp!Slot |-> IF j = i THEN [price_ticks |-> ls[i].price_ticks, quantity |-> q] ELSE ls[j]]

(* The update of one field, written as a whole array. *)
LEMMA SetQuantityIsUpdate ==
  ASSUME NEW ls \in [Cpp!Slot -> Level], NEW i \in Cpp!Slot, NEW q \in Quantity
  PROVE  [ls EXCEPT ![i].quantity = q] = SetQuantity(ls, i, q)
<1>1. [ls[i] EXCEPT !.quantity = q] = [price_ticks |-> ls[i].price_ticks, quantity |-> q]
  <2> DEFINE r == ls[i]
  <2>1. r \in Level
    OBVIOUS
  <2> HIDE DEF r
  <2>2. [r EXCEPT !.quantity = q] = [price_ticks |-> r.price_ticks, quantity |-> q]
    BY <2>1 DEF Level
  <2> QED
    BY <2>2 DEF r
<1>2. [ls EXCEPT ![i].quantity = q] = [ls EXCEPT ![i] = [ls[i] EXCEPT !.quantity = q]]
  OBVIOUS
<1> QED
  BY <1>1, <1>2 DEF SetQuantity

(* A used slot that keeps some quantity keeps the side in order ... *)
LEMMA SetQuantityOK ==
  ASSUME NEW s \in Side, NEW ls, SideOK(ls, s), NEW i \in Cpp!Slot, ls[i].quantity # 0,
         NEW q \in Quantity \ {0}
  PROVE  SideOK(SetQuantity(ls, i, q), s)
<1> DEFINE new == SetQuantity(ls, i, q)
<1>1. new \in [Cpp!Slot -> Level]
  BY DEF SetQuantity, SideOK, Level
<1>2. \A j \in Cpp!Slot : /\ new[j].price_ticks = ls[j].price_ticks
                          /\ (new[j].quantity = 0) <=> (ls[j].quantity = 0)
  BY DEF SetQuantity
<1> HIDE DEF new
<1>3. Spaced(new, s)
  BY <1>2 DEF Spaced, SideOK
<1>10. SideOK(new, s)
  BY <1>1, <1>3 DEF SideOK
<1> QED
  BY <1>10 DEF new

(* ... so does remove() of a slot ... *)
LEMMA RemoveOK ==
  ASSUME NEW s \in Side, NEW ls, SideOK(ls, s), NEW k \in Cpp!Slot
  PROVE  SideOK(Cpp!remove(ls, k), s)
<1> DEFINE new == Cpp!remove(ls, k)
           from(i) == IF i < k THEN i ELSE i + 1
<1>1. BookDepth \in Nat /\ k \in 1 .. BookDepth /\ MaxPrice \in Nat /\ MaxQuantity \in Nat
  BY BookAssumption DEF Cpp!Slot
<1>2. /\ new = [i \in Cpp!Slot |-> new[i]]
      /\ \A i \in Cpp!Slot : /\ from(i) \in Cpp!Slot => new[i] = ls[from(i)]
                             /\ from(i) \notin Cpp!Slot => new[i].price_ticks = 0 /\ new[i].quantity = 0
                                                           /\ new[i] \in Level
  BY <1>1 DEF Cpp!remove, Cpp!Slot, Cpp!Unused, Level, Quantity
<1> HIDE DEF new
<1>3. new \in [Cpp!Slot -> Level]
  BY <1>2 DEF SideOK
<1>4. \A i \in Cpp!Slot : rank(s, ls[i].price_ticks) \in Int
  BY DEF SideOK, Level, rank
<1>5. ASSUME NEW i \in Cpp!Slot
      PROVE  /\ new[i].quantity = 0 => new[i].price_ticks = 0
             /\ new[i].quantity # 0 => new[i].price_ticks > 0
  BY <1>2 DEF SideOK, Spaced
<1>6. ASSUME NEW i \in Cpp!Slot, NEW j \in Cpp!Slot, i < j, new[j].quantity # 0
      PROVE  /\ new[i].quantity # 0
             /\ rank(s, new[i].price_ticks) + (j - i) <= rank(s, new[j].price_ticks)
  <2>1. from(j) \in Cpp!Slot /\ new[j] = ls[from(j)]
    BY <1>2, <1>6
  <2>2. from(i) \in Cpp!Slot /\ from(i) < from(j) /\ from(j) - from(i) >= j - i
        /\ from(i) \in Int /\ from(j) \in Int /\ i \in Int /\ j \in Int
    BY <1>1, <1>6, <2>1 DEF Cpp!Slot
  <2>3. new[i] = ls[from(i)]
    BY <1>2, <2>2
  <2> HIDE DEF from
  <2>4. /\ ls[from(i)].quantity # 0
        /\ rank(s, ls[from(i)].price_ticks) + (from(j) - from(i)) <= rank(s, ls[from(j)].price_ticks)
    BY <1>6, <2>1, <2>2 DEF SideOK, Spaced
  <2>5. rank(s, ls[from(i)].price_ticks) \in Int /\ rank(s, ls[from(j)].price_ticks) \in Int
    BY <1>4, <2>1, <2>2
  <2> QED
    BY <2>1, <2>2, <2>3, <2>4, <2>5
<1>10. SideOK(new, s)
  BY <1>3, <1>5, <1>6 DEF SideOK, Spaced
<1> QED
  BY <1>10 DEF new

(* ... and insert() at the place of a price, the last slot dropped or not. *)
LEMMA InsertOK ==
  ASSUME NEW s \in Side, NEW ls, SideOK(ls, s), NEW level \in Level,
         level.price_ticks > 0, level.quantity # 0,
         NEW k, Place(ls, s, k, level.price_ticks)
  PROVE  SideOK(Cpp!insert(ls, k, level), s)
<1> DEFINE new == Cpp!insert(ls, k, level)
<1>1. BookDepth \in Nat /\ k \in 1 .. BookDepth + 1 /\ k \in Int
  BY BookAssumption DEF Cpp!Slot, Place
<1>2. /\ new = [i \in Cpp!Slot |-> new[i]]
      /\ \A i \in Cpp!Slot : /\ i \in Int /\ 1 <= i /\ i <= BookDepth
                             /\ i < k => new[i] = ls[i]
                             /\ i = k => new[i] = level
                             /\ i > k => i - 1 \in Cpp!Slot /\ new[i] = ls[i - 1]
  BY <1>1 DEF Cpp!insert, Cpp!Slot
<1> HIDE DEF new
<1>3. new \in [Cpp!Slot -> Level]
  BY <1>1, <1>2 DEF SideOK
<1>4. /\ \A i \in Cpp!Slot : rank(s, ls[i].price_ticks) \in Int
      /\ rank(s, level.price_ticks) \in Int
  BY DEF SideOK, Level, rank
<1>5. ASSUME NEW i \in Cpp!Slot
      PROVE  /\ new[i].quantity = 0 => new[i].price_ticks = 0
             /\ new[i].quantity # 0 => new[i].price_ticks > 0
  BY <1>1, <1>2 DEF SideOK, Spaced
<1>6. \A i, j \in Cpp!Slot :
        i < j /\ ls[j].quantity # 0 =>
           /\ ls[i].quantity # 0
           /\ rank(s, ls[i].price_ticks) + (j - i) <= rank(s, ls[j].price_ticks)
  BY DEF SideOK, Spaced
<1>7. \A i \in Cpp!Slot :
        i < k => ls[i].quantity # 0 /\ rank(s, ls[i].price_ticks) + (k - i) <= rank(s, level.price_ticks)
  <2> TAKE i \in Cpp!Slot
  <2> HAVE i < k
  <2>1. k - 1 \in Cpp!Slot /\ i <= k - 1
    BY <1>1, <1>2 DEF Cpp!Slot
  <2>2. ls[k - 1].quantity # 0 /\ rank(s, ls[k - 1].price_ticks) < rank(s, level.price_ticks)
    BY <1>1, <2>1 DEF Place
  <2>3. CASE i = k - 1
    BY <1>1, <1>2, <1>4, <2>1, <2>2, <2>3
  <2>4. CASE i < k - 1
    BY <1>1, <1>2, <1>4, <1>6, <2>1, <2>2, <2>4
  <2> QED
    BY <1>1, <1>2, <2>1, <2>3, <2>4
<1>8. \A j \in Cpp!Slot :
        k <= j /\ ls[j].quantity # 0 =>
          rank(s, level.price_ticks) + (j + 1 - k) <= rank(s, ls[j].price_ticks)
  <2> TAKE j \in Cpp!Slot
  <2> HAVE k <= j /\ ls[j].quantity # 0
  <2>1. k \in Cpp!Slot
    BY <1>1, <1>2 DEF Cpp!Slot
  <2>2. ls[k].quantity # 0
    BY <1>1, <1>2, <1>6, <2>1
  <2>3. rank(s, level.price_ticks) < rank(s, ls[k].price_ticks)
    BY <2>1, <2>2 DEF Place
  <2> QED
    BY <1>1, <1>2, <1>4, <1>6, <2>1, <2>3
<1>9. ASSUME NEW i \in Cpp!Slot, NEW j \in Cpp!Slot, i < j, new[j].quantity # 0
      PROVE  /\ new[i].quantity # 0
             /\ rank(s, new[i].price_ticks) + (j - i) <= rank(s, new[j].price_ticks)
  <2>1. CASE j < k
    BY <1>1, <1>2, <1>6, <1>9, <2>1
  <2>2. CASE j = k
    BY <1>1, <1>2, <1>7, <1>9, <2>2
  <2>3. CASE j > k
    <3>1. j - 1 \in Cpp!Slot /\ new[j] = ls[j - 1] /\ k <= j - 1 /\ j - 1 + 1 = j
      BY <1>1, <1>2, <2>3
    <3>2. rank(s, level.price_ticks) + (j - k) <= rank(s, ls[j - 1].price_ticks)
      BY <1>1, <1>2, <1>8, <1>9, <3>1
    <3>3. CASE i > k
      <4>1. i - 1 \in Cpp!Slot /\ new[i] = ls[i - 1] /\ i - 1 < j - 1
        BY <1>1, <1>2, <1>9, <3>3
      <4>2. /\ ls[i - 1].quantity # 0
            /\ rank(s, ls[i - 1].price_ticks) + ((j - 1) - (i - 1)) <= rank(s, ls[j - 1].price_ticks)
        BY <1>6, <1>9, <3>1, <4>1
      <4> QED
        BY <1>2, <3>1, <4>1, <4>2
    <3>4. CASE i = k
      BY <1>2, <3>1, <3>2, <3>4
    <3>5. CASE i < k
      <4>1. ls[i].quantity # 0 /\ rank(s, ls[i].price_ticks) + (k - i) <= rank(s, level.price_ticks)
        BY <1>7, <3>5
      <4> QED
        BY <1>1, <1>2, <1>4, <3>1, <3>2, <3>5, <4>1
    <3> QED
      BY <1>1, <1>2, <3>3, <3>4, <3>5
  <2> QED
    BY <1>1, <1>2, <2>1, <2>2, <2>3
<1>10. SideOK(new, s)
  BY <1>3, <1>5, <1>9 DEF SideOK, Spaced
<1> QED
  BY <1>10 DEF new

(* invariants() has nothing to say of such a side. *)
LEMMA SideChecked ==
  ASSUME NEW s \in Side, NEW ls, SideOK(ls, s)
  PROVE  Cpp!side_ok(ls, s)
<1>1. ASSUME NEW i \in Cpp!Slot, ls[i].quantity # 0
      PROVE  /\ \A j \in 1 .. i - 1 : ls[j].quantity # 0
             /\ ls[i].price_ticks > 0
             /\ i > 1 => Cpp!before(s, ls[i - 1].price_ticks, ls[i].price_ticks)
  <2>1. i \in Int /\ 1 <= i /\ i <= BookDepth /\ BookDepth \in Nat
    BY BookAssumption DEF Cpp!Slot
  <2>2. \A j \in 1 .. i - 1 : j \in Cpp!Slot /\ j < i
    BY <2>1 DEF Cpp!Slot
  <2>3. ASSUME i > 1
        PROVE  Cpp!before(s, ls[i - 1].price_ticks, ls[i].price_ticks)
    <3>1. i - 1 \in Cpp!Slot /\ i - 1 < i
      BY <2>1, <2>3 DEF Cpp!Slot
    <3>2. rank(s, ls[i - 1].price_ticks) + 1 <= rank(s, ls[i].price_ticks)
      BY <1>1, <2>1, <3>1 DEF SideOK, Spaced
    <3>3. ls[i - 1].price_ticks \in Int /\ ls[i].price_ticks \in Int
      BY <3>1 DEF SideOK, Level
    <3> QED
      BY <3>2, <3>3 DEF Cpp!before, rank
  <2> QED
    BY <1>1, <2>2, <2>3 DEF SideOK, Spaced
<1>2. \A i \in Cpp!Slot : ls[i].quantity = 0 => ls[i].price_ticks = 0
  BY DEF SideOK, Spaced
<1> QED
  BY <1>1, <1>2 DEF Cpp!side_ok

(* The quantity an event leaves at a price that has old, and its level.     *)
LeftAt(old, e) ==
  CASE e.type = "Add" -> saturated_add(old, e.quantity)
    [] e.type = "Update" -> e.quantity
    [] OTHER -> IF e.quantity >= old THEN 0 ELSE old - e.quantity
LevelOf(e) == [price_ticks |-> e.price, quantity |-> e.quantity]

(* What an event leaves is a quantity, and an Add leaves some. *)
LEMMA LeftTyped ==
  ASSUME NEW e \in Event, well_formed(e), NEW old \in Quantity
  PROVE  LeftAt(old, e) \in Quantity /\ (e.type = "Add" => LeftAt(old, e) # 0)
<1>1. MaxQuantity \in Nat /\ MaxQuantity > 0 /\ e.quantity \in 0 .. MaxQuantity /\ old \in 0 .. MaxQuantity
  BY BookAssumption DEF Event, Quantity
<1>2. e.type = "Add" => LeftAt(old, e) \in 1 .. MaxQuantity
  BY <1>1 DEF LeftAt, saturated_add, well_formed
<1>3. e.type = "Update" => LeftAt(old, e) \in 0 .. MaxQuantity
  BY <1>1 DEF LeftAt
<1>4. e.type \notin {"Add", "Update"} => LeftAt(old, e) \in 0 .. MaxQuantity
  BY <1>1 DEF LeftAt
<1> QED
  BY <1>1, <1>2, <1>3, <1>4 DEF Quantity

(* changed_side() at a price that is in the book. *)
LEMMA ChangedHeld ==
  ASSUME NEW e \in Event, well_formed(e), NEW ls, SideOK(ls, e.side),
         NEW i, Holds(ls, i, e.price), NEW left, left = LeftAt(ls[i].quantity, e)
  PROVE  /\ Cpp!changed_side(ls, e).levels =
              IF left = 0 THEN Cpp!remove(ls, i) ELSE SetQuantity(ls, i, left)
         /\ Cpp!changed_side(ls, e).added = left - ls[i].quantity
         /\ SideOK(Cpp!changed_side(ls, e).levels, e.side)
<1> DEFINE old == ls[i].quantity
           cpp_left == IF e.type = "Update" THEN e.quantity
                         ELSE old - (IF e.quantity < old THEN e.quantity ELSE old)
           updated(q) == [ls EXCEPT ![i].quantity = q]
<1>1. e.side \in Side /\ e.price \in 0 .. MaxPrice /\ e.type \in EventType /\ e.quantity \in Int
  BY BookAssumption DEF Event, Quantity
<1>2. Cpp!lookup(ls, e.side, e.price) = [found |-> TRUE, index |-> i]
  BY <1>1, LookupFinds
<1>3. i \in Cpp!Slot /\ old # 0 /\ ls \in [Cpp!Slot -> Level] /\ old \in Quantity /\ old \in Int
  BY BookAssumption DEF Holds, SideOK, Level, Quantity
<1>4. left \in Quantity /\ (e.type = "Add" => left # 0)
  BY <1>3, LeftTyped
<1>5. Cpp!changed_side(ls, e) =
        IF e.type = "Add"
          THEN [levels |-> updated(Cpp!saturated_add(old, e.quantity)),
                added |-> Cpp!saturated_add(old, e.quantity) - old]
          ELSE [levels |-> IF cpp_left = 0 THEN Cpp!remove(ls, i)
                                           ELSE updated(cpp_left),
                added |-> cpp_left - old]
  BY <1>2 DEF Cpp!changed_side
<1>6. e.type = "Add" => Cpp!saturated_add(old, e.quantity) = left
  BY DEF LeftAt, Cpp!saturated_add, saturated_add
<1>7. e.type # "Add" => cpp_left = left
  BY <1>1, <1>3 DEF LeftAt
<1>8. updated(left) = SetQuantity(ls, i, left)
  BY <1>3, <1>4, SetQuantityIsUpdate
<1> HIDE DEF cpp_left, updated
<1>9. /\ Cpp!changed_side(ls, e).levels =
           IF left = 0 THEN Cpp!remove(ls, i) ELSE SetQuantity(ls, i, left)
      /\ Cpp!changed_side(ls, e).added = left - ls[i].quantity
  <2>1. CASE e.type = "Add"
    BY <1>4, <1>5, <1>6, <1>8, <2>1
  <2>2. CASE e.type # "Add"
    BY <1>5, <1>7, <1>8, <2>2
  <2> QED
    BY <2>1, <2>2
<1>10. CASE left = 0
  BY <1>1, <1>3, <1>9, <1>10, RemoveOK
<1>11. CASE left # 0
  BY <1>1, <1>3, <1>4, <1>9, <1>11, SetQuantityOK
<1> QED
  BY <1>9, <1>10, <1>11

(* changed_side() of an Add at a price that is not. *)
LEMMA ChangedPlaced ==
  ASSUME NEW e \in Event, well_formed(e), e.type = "Add", NEW ls, SideOK(ls, e.side),
         NEW k, Place(ls, e.side, k, e.price)
  PROVE  /\ Cpp!changed_side(ls, e).levels = Cpp!insert(ls, k, LevelOf(e))
         /\ Cpp!changed_side(ls, e).added = IF k \in Cpp!Slot THEN e.quantity ELSE 0
         /\ SideOK(Cpp!changed_side(ls, e).levels, e.side)
<1>1. e.side \in Side /\ e.price \in 0 .. MaxPrice /\ e.quantity \in Quantity
  BY DEF Event
<1>2. Cpp!lookup(ls, e.side, e.price) = [found |-> FALSE, index |-> k]
  <2>1. ASSUME NEW s \in Side, NEW price \in 0 .. MaxPrice, SideOK(ls, s), Place(ls, s, k, price)
        PROVE  Cpp!lookup(ls, s, price) = [found |-> FALSE, index |-> k]
    BY <2>1, LookupMisses
  <2> QED
    BY <1>1, <2>1
<1>3. Cpp!changed_side(ls, e) =
        [levels |-> Cpp!insert(ls, k, LevelOf(e)), added |-> IF k \in Cpp!Slot THEN e.quantity ELSE 0]
  BY <1>2 DEF Cpp!changed_side, LevelOf
<1>4. LevelOf(e) \in Level /\ LevelOf(e).price_ticks = e.price /\ LevelOf(e).quantity = e.quantity
  BY <1>1 DEF LevelOf, Level
<1>5. e.price > 0 /\ e.quantity # 0
  BY BookAssumption, <1>1 DEF well_formed, Quantity
<1>6. SideOK(Cpp!insert(ls, k, LevelOf(e)), e.side)
  BY <1>1, <1>4, <1>5, InsertOK
<1> QED
  BY <1>3, <1>6

-----------------------------------------------------------------------------
(* apply(). *)

BookOK(b) == b = [s \in Side |-> b[s]] /\ \A s \in Side : SideOK(b[s], s)

Known(b, e) == \E i \in Cpp!Slot : Holds(b[e.side], i, e.price)
Served(b, e) == well_formed(e) /\ (e.type = "Add" \/ Known(b, e))
changed(b, e) == Cpp!changed_side(b[e.side], e)
Candidate(b, e) == [b EXCEPT ![e.side] = changed(b, e).levels]
Flow(b, e) == side_sign(e.side) * changed(b, e).added
TradeFlow(b, e) == IF e.type = "Trade" THEN Flow(b, e) ELSE 0
Crosses(b) == ~AllowCrossed /\ Cpp!crossed(b)

(* lookup() finds what is known and nothing else. *)
LEMMA FoundIsKnown ==
  ASSUME NEW b, BookOK(b), NEW e \in Event
  PROVE  Cpp!lookup(b[e.side], e.side, e.price).found <=> Known(b, e)
<1> DEFINE ls == b[e.side]
<1>1. e.side \in Side /\ e.price \in 0 .. MaxPrice
  BY DEF Event
<1>2. SideOK(ls, e.side)
  BY <1>1 DEF BookOK
<1> HIDE DEF ls
<1>3. CASE Known(b, e)
  <2>1. PICK i \in Cpp!Slot : Holds(ls, i, e.price)
    BY <1>3 DEF Known, ls
  <2>2. Cpp!lookup(ls, e.side, e.price) = [found |-> TRUE, index |-> i]
    BY <1>1, <1>2, <2>1, LookupFinds
  <2> QED
    BY <1>3, <2>2 DEF ls
<1>4. CASE ~Known(b, e)
  <2>1. PICK k \in 1 .. BookDepth + 1 : Place(ls, e.side, k, e.price)
    BY <1>1, <1>2, <1>4, HeldOrPlaced DEF Known, ls
  <2>2. Cpp!lookup(ls, e.side, e.price) = [found |-> FALSE, index |-> k]
    BY <1>1, <1>2, <2>1, LookupMisses
  <2> QED
    BY <1>4, <2>2 DEF ls
<1> QED
  BY <1>3, <1>4

(* The candidate of a served event has nothing InvariantViolation is for.   *)
LEMMA CandidateOK ==
  ASSUME NEW b, BookOK(b), NEW e \in Event, Served(b, e)
  PROVE  BookOK(Candidate(b, e))
<1> DEFINE ls == b[e.side]
<1>1. e.side \in Side /\ e.price \in 0 .. MaxPrice
  BY DEF Event
<1>2. SideOK(ls, e.side) /\ well_formed(e)
  BY <1>1 DEF BookOK, Served
<1>3. SideOK(changed(b, e).levels, e.side)
  <2>1. CASE Known(b, e)
    <3>1. PICK i \in Cpp!Slot : Holds(ls, i, e.price)
      BY <2>1 DEF Known
    <3> QED
      BY <1>2, <3>1, ChangedHeld DEF changed
  <2>2. CASE ~Known(b, e)
    <3>1. PICK k \in 1 .. BookDepth + 1 : Place(ls, e.side, k, e.price)
      BY <1>1, <1>2, <2>2, HeldOrPlaced DEF Known
    <3>2. e.type = "Add"
      BY <2>2 DEF Served
    <3> QED
      BY <1>2, <3>1, <3>2, ChangedPlaced DEF changed
  <2> QED
    BY <2>1, <2>2
<1> QED
  BY <1>1, <1>3 DEF BookOK, Candidate

(* apply() in three cases; InvariantViolation is none of them. *)
LEMMA Applied ==
  ASSUME NEW b, BookOK(b), NEW e \in Event
  PROVE  /\ ~well_formed(e) =>
              Cpp!applied(b, e) = [book |-> b, result |-> NoFlow("InvalidEvent")]
         /\ well_formed(e) /\ ~Served(b, e) =>
              Cpp!applied(b, e) = [book |-> b, result |-> NoFlow("MissingPrice")]
         /\ Served(b, e) =>
              Cpp!applied(b, e) =
                [book |-> IF Crosses(Candidate(b, e)) THEN b ELSE Candidate(b, e),
                 result |-> [error |-> IF Crosses(Candidate(b, e)) THEN "CrossedBook" ELSE "None",
                             order_flow |-> Flow(b, e), trade_flow |-> TradeFlow(b, e)]]
<1>1. Cpp!well_formed(e) <=> well_formed(e)
  BY DEF Cpp!well_formed, well_formed
<1>2. Cpp!lookup(b[e.side], e.side, e.price).found <=> Known(b, e)
  BY FoundIsKnown
<1>3. \A error : Cpp!NoFlow(error) = NoFlow(error)
  BY DEF Cpp!NoFlow, NoFlow
<1>4. CASE ~well_formed(e)
  <2>1. Cpp!applied(b, e) = [book |-> b, result |-> Cpp!NoFlow("InvalidEvent")]
    BY <1>1, <1>4 DEF Cpp!applied
  <2> QED
    BY <1>3, <1>4, <2>1 DEF Served
<1>5. CASE well_formed(e) /\ ~Served(b, e)
  <2>1. e.type # "Add" /\ ~Cpp!lookup(b[e.side], e.side, e.price).found
    BY <1>2, <1>5 DEF Served
  <2>2. Cpp!applied(b, e) = [book |-> b, result |-> Cpp!NoFlow("MissingPrice")]
    BY <1>1, <1>5, <2>1 DEF Cpp!applied
  <2> QED
    BY <1>3, <1>5, <2>2
<1>6. CASE Served(b, e)
  <2>1. well_formed(e) /\ ~(e.type # "Add" /\ ~Cpp!lookup(b[e.side], e.side, e.price).found)
    BY <1>2, <1>6 DEF Served
  <2>2. Cpp!side_sign(e.side) * changed(b, e).added = Flow(b, e)
    BY DEF Flow, Cpp!side_sign, side_sign
  <2>3. BookOK(Candidate(b, e))
    BY <1>6, CandidateOK
  <2> DEFINE c == Candidate(b, e)
             error == Cpp!invariants(c)
  <2>4. Cpp!applied(b, e) =
          [book |-> IF error = "None" THEN c ELSE b,
           result |-> IF error \in {"InvalidEvent", "MissingPrice"}
                        THEN Cpp!NoFlow(error)
                        ELSE [error |-> error, order_flow |-> Flow(b, e), trade_flow |-> TradeFlow(b, e)]]
    BY <1>1, <2>1, <2>2 DEF Cpp!applied, Candidate, changed, TradeFlow
  <2>5. \A s \in Cpp!Side : Cpp!side_ok(c[s], s)
    BY <2>3, SideChecked DEF Cpp!Side, Side, BookOK
  <2> HIDE DEF c
  <2>6. error = IF Crosses(c) THEN "CrossedBook" ELSE "None"
    BY <2>5 DEF Cpp!invariants, Crosses
  <2> HIDE DEF error
  <2>7. error # "InvalidEvent" /\ error # "MissingPrice"
    BY <2>6
  <2> QED
    BY <1>6, <2>1, <2>4, <2>6, <2>7 DEF c
<1> QED
  BY <1>4, <1>5, <1>6 DEF Served

-----------------------------------------------------------------------------
(* The invariant: what the registers of the RTL hold in each of its states, *)
(* in terms of the book the event found, which is in `live' until Commit.   *)

RegisterBook == [Side -> [Rtl!Slot -> Level]]

(* The register file as the C++ book indexes it. *)
Mirror(r) == [s \in Side |-> [i \in Cpp!Slot |-> r[s][i - 1]]]

Passed(ls, s, i, price) ==
  ls[i].quantity # 0 /\ rank(s, ls[i].price_ticks) <= rank(s, price)

(* The search registers after the first n slots. *)
Scanned(ls, s, n, price) ==
  /\ match_found => match_index \in 0 .. n - 1 /\ Holds(ls, match_index + 1, price)
  /\ ~match_found => \A i \in 1 .. n : ~Holds(ls, i, price)
  /\ insert_found => /\ insert_index \in 0 .. n - 1
                     /\ ~Passed(ls, s, insert_index + 1, price)
                     /\ \A i \in 1 .. insert_index : Passed(ls, s, i, price)
  /\ ~insert_found => insert_index = BookDepth /\ \A i \in 1 .. n : Passed(ls, s, i, price)

(* And after all of them. *)
Found(b, e) ==
  /\ match_found => match_index \in Rtl!Slot /\ Holds(b[e.side], match_index + 1, e.price)
  /\ ~match_found => /\ insert_index \in 0 .. BookDepth
                     /\ Place(b[e.side], e.side, insert_index + 1, e.price)

NoReport == event_error = "None" /\ order_flow_delta = 0 /\ trade_flow_delta = 0
FlowReport(b, e) ==
  event_error = "None" /\ order_flow_delta = Flow(b, e) /\ trade_flow_delta = TradeFlow(b, e)
Untouched == work = live /\ ~operation_changes_book /\ NoReport

AtValidate == Untouched /\ latency = 0

AtSearch(b, e) ==
  /\ Untouched
  /\ well_formed(e)
  /\ scan_index \in 0 .. BookDepth
  /\ latency = scan_index + 1
  /\ Scanned(b[e.side], e.side, scan_index, e.price)

AtApply(b, e) ==
  /\ Untouched
  /\ well_formed(e)
  /\ latency = BookDepth + 2
  /\ Found(b, e)

(* The levels above shift_index have moved one slot down ... *)
AtShiftRight(b, e) ==
  /\ well_formed(e) /\ e.type = "Add"
  /\ ~match_found /\ Found(b, e)
  /\ insert_index \in Rtl!Slot
  /\ shift_index \in insert_index .. BookDepth - 1
  /\ latency = 2 * BookDepth + 2 - shift_index
  /\ NoReport
  /\ \A s \in Side : s # e.side => work[s] = live[s]
  /\ \A i \in Rtl!Slot :
       work[e.side][i] = IF i <= shift_index THEN live[e.side][i] ELSE live[e.side][i - 1]

(* ... and the ones between match_index and shift_index one slot up. *)
AtRemove(b, e) ==
  /\ Served(b, e)
  /\ match_found /\ Found(b, e)
  /\ LeftAt(live[e.side][match_index].quantity, e) = 0
  /\ shift_index \in match_index .. BookDepth - 1
  /\ latency = BookDepth + 3 + shift_index - match_index
  /\ FlowReport(b, e)
  /\ \A s \in Side : s # e.side => work[s] = live[s]
  /\ \A i \in Rtl!Slot :
       work[e.side][i] = IF match_index <= i /\ i < shift_index
                           THEN live[e.side][i + 1] ELSE live[e.side][i]

AtCheckCross(b, e) ==
  /\ Served(b, e)
  /\ Mirror(work) = Candidate(b, e)
  /\ FlowReport(b, e)
  /\ ~operation_changes_book => work = live
  /\ latency \in 0 .. 2 * BookDepth + 3

AtCommit(b, e) ==
  /\ Served(b, e)
  /\ Mirror(work) = Candidate(b, e)
  /\ ~Crosses(Candidate(b, e))
  /\ FlowReport(b, e)
  /\ ~operation_changes_book => work = live
  /\ latency \in 0 .. 2 * BookDepth + 4

(* The event is decided: the books are the same, and so are the reports,    *)
(* but for the flows of a crossing event.                                   *)
Settled ==
  /\ levels = Mirror(live)
  /\ last_result.error = event_error
  /\ event_error # "CrossedBook" => flows_match

RtlInv ==
  LET b == Mirror(live)
      e == current_event
  IN /\ state \in {"VALIDATE", "SEARCH", "APPLY", "SHIFT_RIGHT", "REMOVE", "CHECK_CROSS", "COMMIT"} =>
          levels = Cpp!applied(b, e).book /\ last_result = Cpp!applied(b, e).result
     /\ state = "VALIDATE" => AtValidate
     /\ state = "SEARCH" => AtSearch(b, e)
     /\ state = "APPLY" => AtApply(b, e)
     /\ state = "SHIFT_RIGHT" => AtShiftRight(b, e)
     /\ state = "REMOVE" => AtRemove(b, e)
     /\ state = "CHECK_CROSS" => AtCheckCross(b, e)
     /\ state = "COMMIT" => AtCommit(b, e)
     /\ state \in {"FINISH", "IDLE"} => Settled
     /\ state = "FINISH" => latency \in 0 .. 2 * BookDepth + 5

BusyStates ==
  {"VALIDATE", "SEARCH", "APPLY", "SHIFT_RIGHT", "REMOVE", "CHECK_CROSS", "COMMIT", "FINISH"}

TypeOK ==
  /\ source \in {"bench", "generator", "any"}
  /\ bench_pc \in {"next_event", "wait", "compare", "failed"}
  /\ state \in BusyStates \cup {"IDLE"}
  /\ current_event \in Event
  /\ levels \in [Side -> [Cpp!Slot -> Level]]
  /\ live \in RegisterBook
  /\ work \in RegisterBook
  /\ match_found \in BOOLEAN /\ insert_found \in BOOLEAN
  /\ operation_changes_book \in BOOLEAN

BenchInv ==
  /\ BookOK(levels)
  /\ BookOK(Mirror(live))
  /\ bench_pc = "wait" <=> state # "IDLE"
  /\ bench_pc = "failed" => event_error = "CrossedBook"

(* The events of the bench and the generator stay in their bands. *)
InBand(b) ==
  \A s \in Side : \A i \in Cpp!Slot : b[s][i].quantity # 0 => b[s][i].price_ticks \in PriceBand(s)
SourceInv == source # "any" => InBand(levels) /\ last_result.error # "CrossedBook"

(* A map of the generator holds exactly what the slots of a side hold. *)
Tallies(map, ls) ==
  /\ \A i \in Cpp!Slot : ls[i].quantity # 0 => map[ls[i].price_ticks] = ls[i].quantity
  /\ \A p \in Price : map[p] > 0 => \E i \in Cpp!Slot : Holds(ls, i, p)
GeneratedInv ==
  /\ generated \in [Side -> [Price -> Quantity]]
  /\ source = "generator" =>
       last_result.error = "None" /\ \A s \in Side : Tallies(generated[s], levels[s])

Inv == TypeOK /\ BenchInv /\ RtlInv /\ SourceInv

-----------------------------------------------------------------------------
(* A new event. *)

(* The type that the form of a book implies. *)
LEMMA BookTyped ==
  ASSUME NEW b, BookOK(b)
  PROVE  b \in [Side -> [Cpp!Slot -> Level]]
BY DEF BookOK, SideOK

(* apply() keeps the form of a book, whatever it returns. *)
LEMMA AppliedOK ==
  ASSUME NEW b, BookOK(b), NEW e \in Event
  PROVE  BookOK(Cpp!applied(b, e).book)
<1>1. CASE ~well_formed(e)
  BY <1>1, Applied
<1>2. CASE well_formed(e) /\ ~Served(b, e)
  BY <1>2, Applied
<1>3. CASE Served(b, e)
  BY <1>3, Applied, CandidateOK
<1> QED
  BY <1>1, <1>2, <1>3

(* A slot of the mirror is the register one below. *)
LEMMA MirrorAt ==
  ASSUME NEW r, NEW s \in Side
  PROVE  /\ \A i \in Cpp!Slot : Mirror(r)[s][i] = r[s][i - 1]
         /\ \A i \in Rtl!Slot : i + 1 \in Cpp!Slot /\ Mirror(r)[s][i + 1] = r[s][i]
<1>1. \A i \in Rtl!Slot : i + 1 \in Cpp!Slot /\ (i + 1) - 1 = i
  BY BookAssumption DEF Rtl!Slot, Cpp!Slot
<1> QED
  BY <1>1 DEF Mirror

(* apply() and the handshake, for any event. *)
LEMMA DrawStep ==
  ASSUME TypeOK, BenchInv, RtlInv, NEW e \in Event, ApplyAndSubmit(e)
  PROVE  TypeOK' /\ BenchInv' /\ RtlInv'
<1>1. /\ state = "IDLE" /\ state' = "VALIDATE"
      /\ current_event' = e /\ live' = live /\ work' = live
      /\ match_found' = match_found /\ insert_found' = insert_found
      /\ operation_changes_book' = FALSE /\ latency' = 0
      /\ event_error' = "None" /\ order_flow_delta' = 0 /\ trade_flow_delta' = 0
      /\ bench_pc' = "wait" /\ source' = source
      /\ levels' = Cpp!applied(levels, e).book /\ last_result' = Cpp!applied(levels, e).result
  BY DEF ApplyAndSubmit, Cpp!apply, Rtl!Accept, Rtl!in_ready, Rtl!search
<1>2. levels = Mirror(live)
  BY <1>1 DEF RtlInv, Settled
<1>3. BookOK(levels)
  BY DEF BenchInv
<1>4. BookOK(levels')
  BY <1>1, <1>3, AppliedOK
<1>5. levels' \in [Side -> [Cpp!Slot -> Level]]
  BY <1>4, BookTyped
<1>6. TypeOK'
  BY <1>1, <1>5 DEF TypeOK, BusyStates
<1>7. Mirror(live') = Mirror(live)
  BY <1>1
<1>8. BenchInv'
  BY <1>1, <1>2, <1>3, <1>4, <1>7 DEF BenchInv
<1>9. AtValidate'
  BY <1>1 DEF AtValidate, Untouched, NoReport
<1>10. RtlInv'
  BY <1>1, <1>2, <1>7, <1>9 DEF RtlInv
<1> QED
  BY <1>6, <1>8, <1>10

-----------------------------------------------------------------------------
(* One lemma for each kind of busy clock. *)

Clocked ==
  /\ RtlInv'
  /\ BookOK(Mirror(live'))
  /\ live' \in RegisterBook /\ work' \in RegisterBook
  /\ match_found' \in BOOLEAN /\ insert_found' \in BOOLEAN /\ operation_changes_book' \in BOOLEAN
  /\ current_event' = current_event
  /\ state' \in BusyStates
  /\ event_done' = FALSE
  /\ latency' < kCycleLimit

(* VALIDATE: on to the search, or InvalidEvent. *)
LEMMA ValidateStep ==
  ASSUME TypeOK, BenchInv, RtlInv, Rtl!Validate, UNCHANGED cppVars
  PROVE  Clocked
<1>1. state = "VALIDATE" /\ event_done' = FALSE /\ latency' = latency + 1
      /\ current_event' = current_event /\ live' = live /\ work' = work
      /\ operation_changes_book' = operation_changes_book
      /\ order_flow_delta' = order_flow_delta /\ trade_flow_delta' = trade_flow_delta
  BY DEF Rtl!Validate, Rtl!busy, Rtl!report
<1>2. Untouched /\ latency = 0 /\ levels = Cpp!applied(Mirror(live), current_event).book
      /\ last_result = Cpp!applied(Mirror(live), current_event).result
  BY <1>1 DEF RtlInv, AtValidate
<1>3. BookOK(Mirror(live)) /\ current_event \in Event
  BY DEF BenchInv, TypeOK
<1>4. levels' = levels /\ last_result' = last_result
  BY DEF cppVars
<1>5. kCycleLimit \in Nat /\ 2 < kCycleLimit /\ BookDepth \in Nat /\ BookDepth > 0
  BY DifferentialAssumption, BookAssumption
<1>6. CASE well_formed(current_event)
  <2>1. /\ state' = "SEARCH" /\ scan_index' = 0 /\ insert_index' = BookDepth
        /\ match_found' = FALSE /\ insert_found' = FALSE
        /\ event_error' = event_error
    BY <1>6 DEF Rtl!Validate, Rtl!busy, Rtl!report, Rtl!well_formed, well_formed
  <2>2. AtSearch(Mirror(live), current_event)'
    BY <1>1, <1>2, <1>5, <1>6, <2>1 DEF AtSearch, Untouched, NoReport, Scanned, well_formed
  <2>3. RtlInv'
    BY <1>1, <1>2, <1>4, <2>1, <2>2 DEF RtlInv
  <2>4. match_found' \in BOOLEAN /\ insert_found' \in BOOLEAN /\ operation_changes_book' \in BOOLEAN
    BY <1>1, <2>1, Zenon DEF TypeOK
  <2>5. latency' < kCycleLimit /\ state' \in BusyStates
    BY <1>1, <1>2, <1>5, <2>1 DEF BusyStates
  <2>6. live' \in RegisterBook /\ work' \in RegisterBook /\ BookOK(Mirror(live'))
    BY <1>1, <1>3 DEF TypeOK
  <2> QED
    BY <1>1, <2>3, <2>4, <2>5, <2>6 DEF Clocked
<1>7. CASE ~well_formed(current_event)
  <2>1. /\ state' = "FINISH" /\ event_error' = "InvalidEvent"
        /\ match_found' = match_found /\ insert_found' = insert_found
    BY <1>7 DEF Rtl!Validate, Rtl!busy, Rtl!search, Rtl!well_formed, well_formed
  <2>2. levels = Mirror(live) /\ last_result = NoFlow("InvalidEvent")
    BY <1>2, <1>3, <1>7, Applied
  <2>3. Settled'
    BY <1>1, <1>2, <1>4, <2>1, <2>2 DEF Settled, flows_match, Untouched, NoReport, NoFlow
  <2>4. RtlInv'
    BY <1>1, <1>2, <1>5, <2>1, <2>3 DEF RtlInv
  <2> QED
    BY <1>1, <1>2, <1>3, <1>5, <2>1, <2>4 DEF Clocked, TypeOK, BusyStates, Untouched
<1> QED
  BY <1>6, <1>7

(* SEARCH, one slot. *)
LEMMA SearchStep ==
  ASSUME TypeOK, BenchInv, RtlInv, Rtl!Search, UNCHANGED cppVars
  PROVE  Clocked
<1> DEFINE s == current_event.side
           price == current_event.price
           ls == Mirror(live)[s]
           n == scan_index
           level == work[s][n]
           matches == level.quantity # 0 /\ level.price_ticks = price
           here == /\ ~insert_found
                   /\ ~matches
                   /\ level.quantity = 0 \/ ~before(s, level.price_ticks, price)
<1>1. /\ state = "SEARCH" /\ state' = "SEARCH" /\ event_done' = FALSE /\ latency' = latency + 1
      /\ n # BookDepth /\ scan_index' = n + 1
      /\ current_event' = current_event /\ live' = live /\ work' = work
      /\ operation_changes_book' = operation_changes_book /\ event_error' = event_error
      /\ order_flow_delta' = order_flow_delta /\ trade_flow_delta' = trade_flow_delta
  BY DEF Rtl!Search, Rtl!busy, Rtl!report
<1>2. /\ match_found' = (match_found \/ matches)
      /\ insert_found' = (insert_found \/ here)
  BY Zenon DEF Rtl!Search, Rtl!selected_work_level, Rtl!side, Rtl!price_precedes_event,
               Rtl!before, before
<1>3. /\ match_index' = IF matches THEN n ELSE match_index
      /\ insert_index' = IF here THEN n ELSE insert_index
  BY DEF Rtl!Search, Rtl!selected_work_level, Rtl!side, Rtl!price_precedes_event,
         Rtl!before, before
<1>4. AtSearch(Mirror(live), current_event)
      /\ levels = Cpp!applied(Mirror(live), current_event).book
      /\ last_result = Cpp!applied(Mirror(live), current_event).result
  BY <1>1 DEF RtlInv
<1>5. levels' = levels /\ last_result' = last_result
  BY DEF cppVars
<1>6. BookDepth \in Nat /\ BookDepth > 0 /\ kCycleLimit \in Nat /\ BookDepth + 6 < kCycleLimit
  BY DifferentialAssumption, BookAssumption
<1>7. s \in Side /\ price \in 0 .. MaxPrice /\ SideOK(ls, s)
  BY DEF TypeOK, Event, BenchInv, BookOK
<1>8. n \in 0 .. BookDepth - 1 /\ latency = n + 1 /\ work = live /\ well_formed(current_event)
  BY <1>1, <1>4, <1>6 DEF AtSearch, Untouched
<1>9. n + 1 \in Cpp!Slot /\ level = ls[n + 1]
  BY <1>6, <1>7, <1>8, MirrorAt DEF Rtl!Slot
<1>10. Scanned(ls, s, n, price)
  BY <1>4 DEF AtSearch
<1>11. level.price_ticks \in Int /\ price \in Int
  BY <1>7, <1>9 DEF SideOK, Level
<1> HIDE DEF ls, level, s, price, n
<1>12. matches <=> Holds(ls, n + 1, price)
  BY <1>9 DEF Holds
<1>13. here <=> (~insert_found /\ ~Passed(ls, s, n + 1, price))
  BY <1>7, <1>9, <1>11 DEF Passed, rank, before, Side
<1> HIDE DEF matches, here
<1>14. n \in Int /\ 0 <= n /\ n < BookDepth /\ 1 .. n + 1 = (1 .. n) \cup {n + 1}
  BY <1>6, <1>8
<1>15. match_found' => match_index' \in 0 .. (n + 1) - 1 /\ Holds(ls, match_index' + 1, price)
  <2>1. CASE matches
    BY <1>3, <1>12, <1>14, <2>1
  <2>2. CASE ~matches
    <3>1. match_index' = match_index /\ (match_found' => match_found)
      BY <1>2, <1>3, <2>2
    <3>2. match_found => match_index \in 0 .. n - 1 /\ Holds(ls, match_index + 1, price)
      BY <1>10 DEF Scanned
    <3> QED
      BY <1>14, <3>1, <3>2
  <2> QED
    BY <2>1, <2>2
<1>16. ~match_found' => \A i \in 1 .. n + 1 : ~Holds(ls, i, price)
  BY <1>2, <1>10, <1>12, <1>14 DEF Scanned
<1>17. insert_found' => /\ insert_index' \in 0 .. (n + 1) - 1
                        /\ ~Passed(ls, s, insert_index' + 1, price)
                        /\ \A i \in 1 .. insert_index' : Passed(ls, s, i, price)
  <2>1. CASE here
    <3>1. insert_index' = n /\ ~insert_found /\ ~Passed(ls, s, n + 1, price)
      BY <1>3, <1>13, <2>1
    <3>2. \A i \in 1 .. n : Passed(ls, s, i, price)
      BY <1>10, <3>1 DEF Scanned
    <3> QED
      BY <1>14, <3>1, <3>2
  <2>2. CASE ~here
    <3>1. insert_index' = insert_index /\ (insert_found' => insert_found)
      BY <1>2, <1>3, <2>2
    <3>2. insert_found => /\ insert_index \in 0 .. n - 1
                          /\ ~Passed(ls, s, insert_index + 1, price)
                          /\ \A i \in 1 .. insert_index : Passed(ls, s, i, price)
      BY <1>10 DEF Scanned
    <3> QED
      BY <1>14, <3>1, <3>2
  <2> QED
    BY <2>1, <2>2
<1>18. ~insert_found' => insert_index' = BookDepth /\ \A i \in 1 .. n + 1 : Passed(ls, s, i, price)
  BY <1>2, <1>3, <1>10, <1>13, <1>14 DEF Scanned
<1>19. Scanned(Mirror(live)[current_event.side], current_event.side, scan_index, current_event.price)'
  BY <1>1, <1>15, <1>16, <1>17, <1>18 DEF Scanned, ls, s, price
<1>20. AtSearch(Mirror(live), current_event)'
  <2>1. Untouched'
    BY <1>1, <1>4 DEF AtSearch, Untouched, NoReport
  <2>2. scan_index' \in 0 .. BookDepth /\ latency' = scan_index' + 1
    BY <1>1, <1>6, <1>8, <1>14
  <2> QED
    BY <1>1, <1>8, <1>19, <2>1, <2>2 DEF AtSearch, well_formed
<1>21. RtlInv'
  BY <1>1, <1>4, <1>5, <1>20 DEF RtlInv
<1>22. match_found' \in BOOLEAN /\ insert_found' \in BOOLEAN /\ operation_changes_book' \in BOOLEAN
  BY <1>1, <1>2, Zenon DEF TypeOK
<1>23. latency' < kCycleLimit /\ state' \in BusyStates
  BY <1>1, <1>6, <1>8, <1>14 DEF BusyStates
<1>24. live' \in RegisterBook /\ work' \in RegisterBook /\ BookOK(Mirror(live'))
  BY <1>1 DEF TypeOK, BenchInv
<1> QED
  BY <1>1, <1>21, <1>22, <1>23, <1>24 DEF Clocked

(* The search registers say what lookup() says. *)
LEMMA SearchDoneStep ==
  ASSUME TypeOK, BenchInv, RtlInv, Rtl!SearchDone, UNCHANGED cppVars
  PROVE  Clocked
<1> DEFINE s == current_event.side
           price == current_event.price
           ls == Mirror(live)[s]
<1>1. /\ state = "SEARCH" /\ state' = "APPLY" /\ event_done' = FALSE /\ latency' = latency + 1
      /\ scan_index = BookDepth
      /\ current_event' = current_event /\ live' = live /\ work' = work
      /\ operation_changes_book' = operation_changes_book /\ event_error' = event_error
      /\ order_flow_delta' = order_flow_delta /\ trade_flow_delta' = trade_flow_delta
      /\ match_found' = match_found /\ insert_found' = insert_found
      /\ match_index' = match_index /\ insert_index' = insert_index
  BY DEF Rtl!SearchDone, Rtl!busy, Rtl!report, Rtl!search
<1>2. AtSearch(Mirror(live), current_event)
      /\ levels = Cpp!applied(Mirror(live), current_event).book
      /\ last_result = Cpp!applied(Mirror(live), current_event).result
  BY <1>1 DEF RtlInv
<1>3. levels' = levels /\ last_result' = last_result
  BY DEF cppVars
<1>4. BookDepth \in Nat /\ BookDepth > 0 /\ kCycleLimit \in Nat /\ BookDepth + 6 < kCycleLimit
  BY DifferentialAssumption, BookAssumption
<1>5. s \in Side /\ price \in 0 .. MaxPrice /\ SideOK(ls, s)
  BY DEF TypeOK, Event, BenchInv, BookOK
<1>6. Scanned(ls, s, BookDepth, price) /\ latency = BookDepth + 1
  BY <1>1, <1>2 DEF AtSearch
<1> HIDE DEF ls, s, price
<1>7. match_found => match_index \in Rtl!Slot /\ Holds(ls, match_index + 1, price)
  BY <1>6 DEF Scanned, Rtl!Slot
<1>8. ASSUME ~match_found
      PROVE  insert_index \in 0 .. BookDepth /\ Place(ls, s, insert_index + 1, price)
  <2>1. insert_index \in 0 .. BookDepth /\ \A i \in 1 .. insert_index : Passed(ls, s, i, price)
    BY <1>4, <1>6 DEF Scanned
  <2>2. \A i \in Cpp!Slot : ~Holds(ls, i, price)
    BY <1>6, <1>8 DEF Scanned, Cpp!Slot
  <2>3. \A i \in Cpp!Slot : ls[i].quantity # 0 => rank(s, ls[i].price_ticks) # rank(s, price)
    BY <1>5, <2>2 DEF Holds, rank, SideOK, Level
  <2>4. \A i \in Cpp!Slot : rank(s, ls[i].price_ticks) \in Int /\ rank(s, price) \in Int
    BY <1>5 DEF rank, SideOK, Level
  <2>5. \A i \in Cpp!Slot : i < insert_index + 1 =>
          ls[i].quantity # 0 /\ rank(s, ls[i].price_ticks) < rank(s, price)
    BY <1>4, <2>1, <2>3, <2>4 DEF Passed, Cpp!Slot
  <2>6. insert_index + 1 \in Cpp!Slot =>
          \/ ls[insert_index + 1].quantity = 0
          \/ rank(s, price) < rank(s, ls[insert_index + 1].price_ticks)
    <3> HAVE insert_index + 1 \in Cpp!Slot
    <3>1. insert_index # BookDepth
      BY <1>4 DEF Cpp!Slot
    <3>2. ~Passed(ls, s, insert_index + 1, price)
      BY <1>6, <3>1 DEF Scanned
    <3> QED
      BY <2>4, <3>2 DEF Passed
  <2>7. insert_index + 1 \in 1 .. BookDepth + 1
    BY <1>4, <2>1
  <2> QED
    BY <2>1, <2>5, <2>6, <2>7 DEF Place
<1>9. Found(Mirror(live), current_event)'
  BY <1>1, <1>7, <1>8 DEF Found, ls, s, price
<1>10. AtApply(Mirror(live), current_event)'
  <2>1. Untouched'
    BY <1>1, <1>2 DEF AtSearch, Untouched, NoReport
  <2>2. latency' = BookDepth + 2
    BY <1>1, <1>4, <1>6
  <2>3. well_formed(current_event)
    BY <1>2 DEF AtSearch
  <2> QED
    BY <1>1, <1>9, <2>1, <2>2, <2>3 DEF AtApply, well_formed
<1>11. RtlInv'
  BY <1>1, <1>2, <1>3, <1>10 DEF RtlInv
<1>12. match_found' \in BOOLEAN /\ insert_found' \in BOOLEAN /\ operation_changes_book' \in BOOLEAN
  BY <1>1, Zenon DEF TypeOK
<1>13. latency' < kCycleLimit /\ state' \in BusyStates
  BY <1>1, <1>4, <1>6 DEF BusyStates
<1>14. live' \in RegisterBook /\ work' \in RegisterBook /\ BookOK(Mirror(live'))
  BY <1>1 DEF TypeOK, BenchInv
<1> QED
  BY <1>1, <1>11, <1>12, <1>13, <1>14 DEF Clocked

-----------------------------------------------------------------------------
(* What the steps that change the working copy share. *)

(* A price in the book has no place outside it. *)
LEMMA NotBoth ==
  ASSUME NEW s \in Side, NEW ls, SideOK(ls, s), NEW price \in 0 .. MaxPrice,
         NEW k, Place(ls, s, k, price), NEW i, Holds(ls, i, price)
  PROVE  FALSE
<1>1. Cpp!lookup(ls, s, price) = [found |-> FALSE, index |-> k]
  BY LookupMisses
<1>2. Cpp!lookup(ls, s, price) = [found |-> TRUE, index |-> i]
  BY LookupFinds
<1> QED
  BY <1>1, <1>2

OthersKept(r, new, s) == \A t \in Side : t # s => new[t] = r[t]

(* One level of one side is replaced. *)
Updated(r, new, s, i, level) ==
  /\ new \in RegisterBook
  /\ OthersKept(r, new, s)
  /\ \A j \in Rtl!Slot : new[s][j] = IF j = i THEN level ELSE r[s][j]

(* The registers of a side hold the slots of a C++ side. *)
HoldSlots(new, s, slots) ==
  slots = [i \in Cpp!Slot |-> slots[i]] /\ \A i \in Cpp!Slot : new[s][i - 1] = slots[i]

(* Registers with the changed slots of the event's side are the candidate. *)
LEMMA MirrorCandidate ==
  ASSUME NEW r, NEW new, NEW e \in Event, OthersKept(r, new, e.side),
         HoldSlots(new, e.side, changed(Mirror(r), e).levels)
  PROVE  Mirror(new) = Candidate(Mirror(r), e)
<1> DEFINE slots == changed(Mirror(r), e).levels
<1>1. e.side \in Side /\ slots = [i \in Cpp!Slot |-> slots[i]]
      /\ \A i \in Cpp!Slot : new[e.side][i - 1] = slots[i]
  BY DEF Event, HoldSlots
<1>2. Candidate(Mirror(r), e) =
        [s \in Side |-> IF s = e.side THEN slots ELSE [i \in Cpp!Slot |-> r[s][i - 1]]]
  BY <1>1 DEF Candidate, Mirror
<1> HIDE DEF slots
<1>3. ASSUME NEW s \in Side
      PROVE  [i \in Cpp!Slot |-> new[s][i - 1]] =
               IF s = e.side THEN slots ELSE [i \in Cpp!Slot |-> r[s][i - 1]]
  <2>1. CASE s = e.side
    <3>1. [i \in Cpp!Slot |-> new[s][i - 1]] = [i \in Cpp!Slot |-> slots[i]]
      BY <1>1, <2>1
    <3> QED
      BY <1>1, <2>1, <3>1
  <2>2. CASE s # e.side
    BY <2>2 DEF OthersKept
  <2> QED
    BY <2>1, <2>2
<1> QED
  BY <1>2, <1>3 DEF Mirror

(* A write of one level of a register file ... *)
LEMMA RegisterUpdate ==
  ASSUME NEW r \in RegisterBook, NEW s \in Side, NEW i \in Rtl!Slot, NEW level \in Level
  PROVE  Updated(r, [r EXCEPT ![s][i] = level], s, i, level)
BY DEF RegisterBook, Updated, OthersKept

(* ... and of its quantity. *)
LEMMA RegisterQuantity ==
  ASSUME NEW r \in RegisterBook, NEW s \in Side, NEW i \in Rtl!Slot, NEW q \in Quantity
  PROVE  Updated(r, [r EXCEPT ![s][i].quantity = q], s, i,
                 [price_ticks |-> r[s][i].price_ticks, quantity |-> q])
<1> DEFINE level == [r[s][i] EXCEPT !.quantity = q]
           x == r[s][i]
<1>1. x \in Level
  BY DEF RegisterBook
<1> HIDE DEF x
<1>2. [x EXCEPT !.quantity = q] = [price_ticks |-> x.price_ticks, quantity |-> q]
  BY <1>1 DEF Level
<1>3. level = [price_ticks |-> r[s][i].price_ticks, quantity |-> q]
  BY <1>2 DEF x
<1>4. level \in Level
  BY <1>1, <1>3 DEF Level, x
<1>5. [r EXCEPT ![s][i].quantity = q] = [r EXCEPT ![s][i] = level]
  OBVIOUS
<1> HIDE DEF level
<1> QED
  BY <1>3, <1>4, <1>5, RegisterUpdate

(* The facts an event that is being served rests on. *)
LEMMA BusyFacts ==
  ASSUME TypeOK, BenchInv
  PROVE  /\ BookOK(Mirror(live)) /\ current_event \in Event
         /\ current_event.side \in Side /\ current_event.price \in 0 .. MaxPrice
         /\ current_event.quantity \in Nat /\ current_event.quantity \in Quantity
         /\ current_event.type \in EventType
         /\ SideOK(Mirror(live)[current_event.side], current_event.side)
         /\ BookDepth \in Nat /\ BookDepth > 0 /\ kCycleLimit \in Nat
         /\ 2 * BookDepth + 6 <= kCycleLimit
BY DifferentialAssumption, BookAssumption DEF TypeOK, Event, Quantity, BenchInv, BookOK

(* The matched level, as both books see it. *)
LEMMA MatchedLevel ==
  ASSUME TypeOK, BenchInv, match_found, Found(Mirror(live), current_event),
         well_formed(current_event),
         NEW old, old = live[current_event.side][match_index].quantity,
         NEW left, left = LeftAt(old, current_event)
  PROVE  /\ match_index \in Rtl!Slot /\ match_index + 1 \in Cpp!Slot
         /\ Holds(Mirror(live)[current_event.side], match_index + 1, current_event.price)
         /\ Known(Mirror(live), current_event) /\ Served(Mirror(live), current_event)
         /\ Mirror(live)[current_event.side][match_index + 1] = live[current_event.side][match_index]
         /\ old \in Quantity /\ old \in Nat /\ old > 0
         /\ left \in Quantity /\ left \in Nat
         /\ changed(Mirror(live), current_event).levels =
              IF left = 0 THEN Cpp!remove(Mirror(live)[current_event.side], match_index + 1)
                          ELSE SetQuantity(Mirror(live)[current_event.side], match_index + 1, left)
         /\ changed(Mirror(live), current_event).added = left - old
<1> DEFINE ls == Mirror(live)[current_event.side]
           i == match_index + 1
<1>1. match_index \in Rtl!Slot /\ Holds(ls, i, current_event.price)
  BY DEF Found
<1>2. i \in Cpp!Slot /\ ls[i] = live[current_event.side][match_index]
  BY <1>1, BusyFacts, MirrorAt
<1>3. old = ls[i].quantity
  BY <1>2
<1> HIDE DEF ls, i
<1>4. SideOK(ls, current_event.side)
  BY BusyFacts DEF ls
<1>5. ls[i].quantity # 0 /\ ls[i].quantity \in Quantity
  BY <1>1, <1>2, <1>4 DEF Holds, SideOK, Level
<1>6. old \in Quantity /\ old \in Nat /\ old > 0
  BY <1>3, <1>5, BookAssumption DEF Quantity
<1>7. left \in Quantity
  BY <1>6, LeftTyped, BusyFacts
<1>8. left \in Nat
  BY <1>7, BookAssumption DEF Quantity
<1>9. /\ Cpp!changed_side(ls, current_event).levels =
           IF left = 0 THEN Cpp!remove(ls, i) ELSE SetQuantity(ls, i, left)
      /\ Cpp!changed_side(ls, current_event).added = left - ls[i].quantity
  BY <1>1, <1>3, <1>4, BusyFacts, ChangedHeld
<1>10. Known(Mirror(live), current_event)
  BY <1>1, <1>2 DEF Known, ls
<1> QED
  BY <1>1, <1>2, <1>3, <1>6, <1>7, <1>8, <1>9, <1>10 DEF ls, i, changed, Served

-----------------------------------------------------------------------------
(* APPLY. *)

(* What a clock in APPLY starts from. *)
LEMMA ApplyFacts ==
  ASSUME RtlInv, state = "APPLY", UNCHANGED cppVars
  PROVE  /\ work = live /\ operation_changes_book = FALSE /\ NoReport
         /\ well_formed(current_event) /\ latency = BookDepth + 2
         /\ Found(Mirror(live), current_event)
         /\ levels = Cpp!applied(Mirror(live), current_event).book
         /\ last_result = Cpp!applied(Mirror(live), current_event).result
         /\ levels' = levels /\ last_result' = last_result
<1>1. /\ AtApply(Mirror(live), current_event)
      /\ levels = Cpp!applied(Mirror(live), current_event).book
      /\ last_result = Cpp!applied(Mirror(live), current_event).result
  BY DEF RtlInv
<1>2. levels' = levels /\ last_result' = last_result
  BY DEF cppVars
<1> QED
  BY <1>1, <1>2 DEF AtApply, Untouched

(* Only a missing price gets here: VALIDATE let no zero quantity through. *)
LEMMA ApplyRejectStep ==
  ASSUME TypeOK, BenchInv, RtlInv, Rtl!ApplyReject, UNCHANGED cppVars
  PROVE  Clocked
<1>1. /\ state = "APPLY" /\ state' = "FINISH" /\ event_done' = FALSE /\ latency' = latency + 1
      /\ current_event.type # "Add"
      /\ ~match_found \/ (current_event.type # "Update" /\ current_event.quantity = 0)
      /\ event_error' = IF match_found THEN "InvalidEvent" ELSE "MissingPrice"
      /\ current_event' = current_event /\ live' = live /\ work' = work
      /\ operation_changes_book' = operation_changes_book
      /\ order_flow_delta' = order_flow_delta /\ trade_flow_delta' = trade_flow_delta
      /\ match_found' = match_found /\ insert_found' = insert_found
  BY DEF Rtl!ApplyReject, Rtl!busy, Rtl!report, Rtl!search
<1>2. ~match_found
  BY <1>1, ApplyFacts, BusyFacts DEF well_formed
<1>3. \A i \in Cpp!Slot : ~Holds(Mirror(live)[current_event.side], i, current_event.price)
  BY <1>1, <1>2, ApplyFacts, BusyFacts, NotBoth DEF Found
<1>4. ~Served(Mirror(live), current_event)
  BY <1>1, <1>3 DEF Served, Known
<1>5. levels = Mirror(live) /\ last_result = NoFlow("MissingPrice")
  BY <1>1, <1>4, ApplyFacts, BusyFacts, Applied
<1>6. Settled'
  BY <1>1, <1>2, <1>5, ApplyFacts DEF Settled, flows_match, NoReport, NoFlow
<1>7. latency' \in 0 .. 2 * BookDepth + 5 /\ latency' < kCycleLimit
  BY <1>1, ApplyFacts, BusyFacts
<1>8. RtlInv'
  BY <1>1, <1>6, <1>7 DEF RtlInv
<1>9. match_found' \in BOOLEAN /\ insert_found' \in BOOLEAN /\ operation_changes_book' \in BOOLEAN
  BY <1>1, Zenon DEF TypeOK
<1>10. live' \in RegisterBook /\ work' \in RegisterBook /\ BookOK(Mirror(live'))
  BY <1>1 DEF TypeOK, BenchInv
<1> QED
  BY <1>1, <1>7, <1>8, <1>9, <1>10 DEF Clocked, BusyStates

(* A level that keeps some quantity: the working copy is the candidate.     *)
LEMMA MatchedChange ==
  ASSUME TypeOK, BenchInv, RtlInv, state = "APPLY", UNCHANGED cppVars, match_found,
         NEW left, left = LeftAt(live[current_event.side][match_index].quantity, current_event),
         left # 0,
         NEW new, new = [work EXCEPT ![current_event.side][match_index].quantity = left]
  PROVE  new \in RegisterBook /\ Mirror(new) = Candidate(Mirror(live), current_event)
<1> DEFINE s == current_event.side
           i == match_index
           ls == Mirror(live)[s]
           slots == SetQuantity(ls, i + 1, left)
<1>1. /\ i \in Rtl!Slot /\ i + 1 \in Cpp!Slot /\ ls[i + 1] = live[s][i]
      /\ left \in Quantity
      /\ changed(Mirror(live), current_event).levels = slots
  BY ApplyFacts, MatchedLevel
<1>2. s \in Side /\ current_event \in Event /\ work = live /\ live \in RegisterBook
  BY ApplyFacts, BusyFacts DEF TypeOK
<1>3. Updated(live, new, s, i, [price_ticks |-> live[s][i].price_ticks, quantity |-> left])
  <2>1. new = [live EXCEPT ![s][i].quantity = left]
    BY <1>2
  <2>2. live \in RegisterBook /\ s \in Side /\ i \in Rtl!Slot /\ left \in Quantity
    BY <1>1, <1>2
  <2> HIDE DEF s, i
  <2>3. Updated(live, [live EXCEPT ![s][i].quantity = left], s, i,
                [price_ticks |-> live[s][i].price_ticks, quantity |-> left])
    BY ONLY <2>2, RegisterQuantity, Zenon
  <2> QED
    BY <2>1, <2>3, Zenon
<1>4. ASSUME NEW j \in Cpp!Slot PROVE new[s][j - 1] = slots[j]
  <2>1. j - 1 \in Rtl!Slot /\ (j - 1 = i <=> j = i + 1) /\ ls[j] = live[s][j - 1]
    BY <1>1, <1>2, BusyFacts, MirrorAt DEF Cpp!Slot, Rtl!Slot
  <2>2. slots[j] = IF j = i + 1 THEN [price_ticks |-> ls[i + 1].price_ticks, quantity |-> left] ELSE ls[j]
    BY DEF SetQuantity
  <2> QED
    BY <1>1, <1>3, <2>1, <2>2 DEF Updated
<1>5. HoldSlots(new, s, slots)
  BY <1>4 DEF HoldSlots, SetQuantity
<1> HIDE DEF slots
<1> QED
  BY <1>1, <1>2, <1>3, <1>5, MirrorCandidate DEF Updated

(* An Add to a level that exists. *)
LEMMA ApplyAddToLevelStep ==
  ASSUME TypeOK, BenchInv, RtlInv, Rtl!ApplyAddToLevel, UNCHANGED cppVars
  PROVE  Clocked
<1> DEFINE old == live[current_event.side][match_index].quantity
           left == LeftAt(old, current_event)
<1>1. /\ state = "APPLY" /\ state' = "CHECK_CROSS" /\ event_done' = FALSE /\ latency' = latency + 1
      /\ current_event.type = "Add" /\ match_found
      /\ current_event' = current_event /\ live' = live
      /\ event_error' = event_error /\ trade_flow_delta' = trade_flow_delta
      /\ match_found' = match_found /\ insert_found' = insert_found
  BY DEF Rtl!ApplyAddToLevel, Rtl!busy, Rtl!search
<1>2. operation_changes_book' = TRUE
  BY DEF Rtl!ApplyAddToLevel
<1>3. work = live
  BY <1>1, ApplyFacts
<1>4. Rtl!saturated_add(old, current_event.quantity) = left
  BY <1>1 DEF LeftAt, Rtl!saturated_add, saturated_add
<1>5. /\ work' = [work EXCEPT ![current_event.side][match_index].quantity = left]
      /\ order_flow_delta' = side_sign(current_event.side) * (left - old)
  BY <1>3, <1>4 DEF Rtl!ApplyAddToLevel, Rtl!set_matched, Rtl!matched, Rtl!selected_work_level,
                    Rtl!side, Rtl!order_flow_sign, Rtl!side_sign, side_sign
<1> HIDE DEF old, left
<1>6. /\ old \in Quantity /\ Served(Mirror(live), current_event)
      /\ changed(Mirror(live), current_event).added = left - old
  BY <1>1, ApplyFacts, MatchedLevel DEF old, left
<1>7. left # 0
  BY <1>1, <1>6, ApplyFacts, BusyFacts, LeftTyped DEF left
<1>8. work' \in RegisterBook /\ Mirror(work') = Candidate(Mirror(live), current_event)
  BY <1>1, <1>5, <1>7, MatchedChange DEF old, left
<1>9. FlowReport(Mirror(live), current_event)'
  BY <1>1, <1>5, <1>6, ApplyFacts DEF FlowReport, Flow, TradeFlow, NoReport, changed
<1>10. latency' \in 0 .. 2 * BookDepth + 3 /\ latency' < kCycleLimit
  BY <1>1, ApplyFacts, BusyFacts
<1>11. AtCheckCross(Mirror(live), current_event)'
  BY <1>1, <1>2, <1>6, <1>8, <1>9, <1>10 DEF AtCheckCross, Served, Known, Candidate, changed
<1>12. RtlInv'
  BY <1>1, <1>11, ApplyFacts DEF RtlInv
<1>13. match_found' \in BOOLEAN /\ insert_found' \in BOOLEAN /\ operation_changes_book' \in BOOLEAN
  BY <1>1, <1>2, Zenon DEF TypeOK
<1>14. live' \in RegisterBook /\ BookOK(Mirror(live'))
  BY <1>1 DEF TypeOK, BenchInv
<1> QED
  BY <1>1, <1>8, <1>10, <1>12, <1>13, <1>14 DEF Clocked, BusyStates

(* An Add beyond the depth: insert() changes no slot either. *)
LEMMA ApplyAddBeyondDepthStep ==
  ASSUME TypeOK, BenchInv, RtlInv, Rtl!ApplyAddBeyondDepth, UNCHANGED cppVars
  PROVE  Clocked
<1> DEFINE ls == Mirror(live)[current_event.side]
           slots == Cpp!insert(ls, BookDepth + 1, LevelOf(current_event))
<1>1. /\ state = "APPLY" /\ state' = "CHECK_CROSS" /\ event_done' = FALSE /\ latency' = latency + 1
      /\ current_event.type = "Add" /\ ~match_found /\ insert_index = BookDepth
      /\ current_event' = current_event /\ live' = live /\ work' = work
      /\ event_error' = event_error /\ order_flow_delta' = order_flow_delta
      /\ trade_flow_delta' = trade_flow_delta
      /\ operation_changes_book' = operation_changes_book
      /\ match_found' = match_found /\ insert_found' = insert_found
  BY DEF Rtl!ApplyAddBeyondDepth, Rtl!busy, Rtl!search, Rtl!report
<1>2. Place(ls, current_event.side, BookDepth + 1, current_event.price)
  BY <1>1, ApplyFacts DEF Found
<1>3. /\ changed(Mirror(live), current_event).levels = slots
      /\ changed(Mirror(live), current_event).added = 0
  <2>1. BookDepth + 1 \notin Cpp!Slot
    BY BusyFacts DEF Cpp!Slot
  <2> QED
    BY <1>1, <1>2, <2>1, ApplyFacts, BusyFacts, ChangedPlaced DEF changed
<1>4. \A i \in Cpp!Slot : slots[i] = ls[i] /\ ls[i] = live[current_event.side][i - 1]
  BY BusyFacts, MirrorAt DEF Cpp!insert, Cpp!Slot
<1>5. HoldSlots(live, current_event.side, slots)
  BY <1>4 DEF HoldSlots, Cpp!insert
<1> HIDE DEF slots
<1>6. Mirror(live) = Candidate(Mirror(live), current_event)
  <2>1. OthersKept(live, live, current_event.side)
    BY DEF OthersKept
  <2> QED
    BY <1>3, <1>5, <2>1, BusyFacts, MirrorCandidate
<1>7. Mirror(work') = Candidate(Mirror(live), current_event) /\ work' = live'
  BY <1>1, <1>6, ApplyFacts
<1>8. Flow(Mirror(live), current_event) = 0
  BY <1>3, BusyFacts DEF Flow, side_sign
<1>9. FlowReport(Mirror(live), current_event)'
  BY <1>1, <1>8, ApplyFacts DEF FlowReport, Flow, TradeFlow, NoReport, changed
<1>10. latency' \in 0 .. 2 * BookDepth + 3 /\ latency' < kCycleLimit
  BY <1>1, ApplyFacts, BusyFacts
<1>11. Served(Mirror(live), current_event)
  BY <1>1, ApplyFacts DEF Served
<1>12. AtCheckCross(Mirror(live), current_event)'
  BY <1>1, <1>7, <1>9, <1>10, <1>11 DEF AtCheckCross, Served, Known, Candidate, changed
<1>13. RtlInv'
  BY <1>1, <1>12, ApplyFacts DEF RtlInv
<1>14. match_found' \in BOOLEAN /\ insert_found' \in BOOLEAN /\ operation_changes_book' \in BOOLEAN
  BY <1>1, Zenon DEF TypeOK
<1>15. live' \in RegisterBook /\ work' \in RegisterBook /\ BookOK(Mirror(live'))
  BY <1>1 DEF TypeOK, BenchInv
<1> QED
  BY <1>1, <1>10, <1>13, <1>14, <1>15 DEF Clocked, BusyStates

(* An Add that makes room for itself. *)
LEMMA ApplyInsertStep ==
  ASSUME TypeOK, BenchInv, RtlInv, Rtl!ApplyInsert, UNCHANGED cppVars
  PROVE  Clocked
<1>1. /\ state = "APPLY" /\ state' = "SHIFT_RIGHT" /\ event_done' = FALSE /\ latency' = latency + 1
      /\ current_event.type = "Add" /\ ~match_found /\ insert_index # BookDepth
      /\ shift_index' = BookDepth - 1
      /\ current_event' = current_event /\ live' = live /\ work' = work
      /\ event_error' = event_error /\ order_flow_delta' = order_flow_delta
      /\ trade_flow_delta' = trade_flow_delta
      /\ operation_changes_book' = operation_changes_book
      /\ match_found' = match_found /\ insert_found' = insert_found
      /\ match_index' = match_index /\ insert_index' = insert_index
  BY DEF Rtl!ApplyInsert, Rtl!busy, Rtl!search, Rtl!report, Rtl!LastIndex
<1>2. insert_index \in Rtl!Slot /\ insert_index \in 0 .. BookDepth - 1
  BY <1>1, ApplyFacts, BusyFacts DEF Found, Rtl!Slot
<1>3. Found(Mirror(live), current_event)'
  BY <1>1, ApplyFacts DEF Found
<1>4. NoReport'
  BY <1>1, ApplyFacts DEF NoReport
<1>5. latency' = 2 * BookDepth + 2 - (BookDepth - 1) /\ latency' < kCycleLimit
  BY <1>1, ApplyFacts, BusyFacts
<1>6. \A i \in Rtl!Slot : i <= BookDepth - 1
  BY BusyFacts DEF Rtl!Slot
<1>7. AtShiftRight(Mirror(live), current_event)'
  BY <1>1, <1>2, <1>3, <1>4, <1>5, <1>6, ApplyFacts, BusyFacts DEF AtShiftRight, well_formed
<1>8. RtlInv'
  BY <1>1, <1>7, ApplyFacts DEF RtlInv
<1>9. match_found' \in BOOLEAN /\ insert_found' \in BOOLEAN /\ operation_changes_book' \in BOOLEAN
  BY <1>1, Zenon DEF TypeOK
<1>10. live' \in RegisterBook /\ work' \in RegisterBook /\ BookOK(Mirror(live'))
  BY <1>1 DEF TypeOK, BenchInv
<1> QED
  BY <1>1, <1>5, <1>8, <1>9, <1>10 DEF Clocked, BusyStates

(* An Update, Cancel or Trade that leaves some quantity. *)
LEMMA ApplyChangeLevelStep ==
  ASSUME TypeOK, BenchInv, RtlInv, Rtl!ApplyChangeLevel, UNCHANGED cppVars
  PROVE  Clocked
<1> DEFINE old == live[current_event.side][match_index].quantity
           left == LeftAt(old, current_event)
           quantity == IF current_event.type = "Update"
                         THEN current_event.quantity ELSE old - current_event.quantity
<1>1. /\ state = "APPLY" /\ state' = "CHECK_CROSS" /\ event_done' = FALSE /\ latency' = latency + 1
      /\ match_found
      /\ current_event' = current_event /\ live' = live
      /\ event_error' = event_error
      /\ match_found' = match_found /\ insert_found' = insert_found
      /\ trade_flow_delta' =
           IF current_event.type = "Trade" THEN order_flow_delta' ELSE trade_flow_delta
  BY DEF Rtl!ApplyChangeLevel, Rtl!busy, Rtl!search
<1>2. operation_changes_book' = TRUE
  BY DEF Rtl!ApplyChangeLevel
<1>3. work = live
  BY <1>1, ApplyFacts
<1>4. \/ current_event.type = "Update" /\ current_event.quantity # 0
      \/ current_event.type \in {"Cancel", "Trade"} /\ current_event.quantity \in 1 .. old - 1
  BY <1>3 DEF Rtl!ApplyChangeLevel, Rtl!matched, Rtl!selected_work_level, Rtl!side
<1>5. /\ work' = [work EXCEPT ![current_event.side][match_index].quantity = quantity]
      /\ order_flow_delta' = side_sign(current_event.side) * (quantity - old)
  BY <1>3 DEF Rtl!ApplyChangeLevel, Rtl!set_matched, Rtl!matched, Rtl!selected_work_level,
              Rtl!side, Rtl!order_flow_sign, Rtl!side_sign, side_sign
<1>6. /\ old \in Quantity /\ old \in Nat /\ Served(Mirror(live), current_event)
      /\ changed(Mirror(live), current_event).added = left - old
  BY <1>1, ApplyFacts, MatchedLevel
<1> HIDE DEF old
<1>7. quantity = left /\ left # 0 /\ current_event.type # "Add"
  BY <1>4, <1>6, BusyFacts DEF LeftAt
<1> HIDE DEF left, quantity
<1>8. work' \in RegisterBook /\ Mirror(work') = Candidate(Mirror(live), current_event)
  BY <1>1, <1>5, <1>7, MatchedChange DEF old, left
<1>9. FlowReport(Mirror(live), current_event)'
  BY <1>1, <1>5, <1>6, <1>7, ApplyFacts DEF FlowReport, Flow, TradeFlow, NoReport, changed
<1>10. latency' \in 0 .. 2 * BookDepth + 3 /\ latency' < kCycleLimit
  BY <1>1, ApplyFacts, BusyFacts
<1>11. AtCheckCross(Mirror(live), current_event)'
  BY <1>1, <1>2, <1>6, <1>8, <1>9, <1>10 DEF AtCheckCross, Served, Known, Candidate, changed
<1>12. RtlInv'
  BY <1>1, <1>11, ApplyFacts DEF RtlInv
<1>13. match_found' \in BOOLEAN /\ insert_found' \in BOOLEAN /\ operation_changes_book' \in BOOLEAN
  BY <1>1, <1>2, Zenon DEF TypeOK
<1>14. live' \in RegisterBook /\ BookOK(Mirror(live'))
  BY <1>1 DEF TypeOK, BenchInv
<1> QED
  BY <1>1, <1>8, <1>10, <1>12, <1>13, <1>14 DEF Clocked, BusyStates

(* One that leaves none: the flows are reported at once. *)
LEMMA ApplyRemoveLevelStep ==
  ASSUME TypeOK, BenchInv, RtlInv, Rtl!ApplyRemoveLevel, UNCHANGED cppVars
  PROVE  Clocked
<1> DEFINE old == live[current_event.side][match_index].quantity
           left == LeftAt(old, current_event)
<1>1. /\ state = "APPLY" /\ state' = "REMOVE" /\ event_done' = FALSE /\ latency' = latency + 1
      /\ match_found
      /\ current_event' = current_event /\ live' = live /\ work' = work
      /\ event_error' = event_error
      /\ match_found' = match_found /\ insert_found' = insert_found
      /\ match_index' = match_index /\ insert_index' = insert_index
      /\ shift_index' = match_index
      /\ trade_flow_delta' =
           IF current_event.type = "Trade" THEN order_flow_delta' ELSE trade_flow_delta
  BY DEF Rtl!ApplyRemoveLevel, Rtl!busy, Rtl!search
<1>2. operation_changes_book' = TRUE
  BY DEF Rtl!ApplyRemoveLevel
<1>3. work = live
  BY <1>1, ApplyFacts
<1>4. \/ current_event.type = "Update" /\ current_event.quantity = 0
      \/ current_event.type \in {"Cancel", "Trade"} /\ current_event.quantity >= old
  BY <1>3 DEF Rtl!ApplyRemoveLevel, Rtl!matched, Rtl!selected_work_level, Rtl!side
<1>5. order_flow_delta' = -side_sign(current_event.side) * old
  BY <1>3 DEF Rtl!ApplyRemoveLevel, Rtl!matched, Rtl!selected_work_level,
              Rtl!side, Rtl!order_flow_sign, Rtl!side_sign, side_sign
<1>6. /\ old \in Nat /\ Served(Mirror(live), current_event)
      /\ match_index \in Rtl!Slot
      /\ changed(Mirror(live), current_event).added = left - old
  BY <1>1, ApplyFacts, MatchedLevel
<1> HIDE DEF old
<1>7. left = 0
  BY <1>4, <1>6, BusyFacts DEF LeftAt
<1> HIDE DEF left
<1>8. order_flow_delta' = Flow(Mirror(live), current_event)
  BY <1>5, <1>6, <1>7 DEF Flow, side_sign
<1>9. FlowReport(Mirror(live), current_event)'
  BY <1>1, <1>8, ApplyFacts DEF FlowReport, Flow, TradeFlow, NoReport, changed
<1>10. latency' = BookDepth + 3 + shift_index' - match_index' /\ latency' < kCycleLimit
       /\ match_index \in 0 .. BookDepth - 1
  BY <1>1, <1>6, ApplyFacts, BusyFacts DEF Rtl!Slot
<1>11. Found(Mirror(live), current_event)'
  BY <1>1, ApplyFacts DEF Found
<1>12. LeftAt(live[current_event.side][match_index].quantity, current_event) = 0
  BY <1>7 DEF left, old
<1>13. \A i \in Rtl!Slot : ~(match_index <= i /\ i < match_index)
  BY <1>10, BusyFacts DEF Rtl!Slot
<1>14. AtRemove(Mirror(live), current_event)'
  BY <1>1, <1>3, <1>6, <1>9, <1>10, <1>11, <1>12, <1>13, BusyFacts
     DEF AtRemove, Served, Known, LeftAt, saturated_add
<1>15. RtlInv'
  BY <1>1, <1>14, ApplyFacts DEF RtlInv
<1>16. match_found' \in BOOLEAN /\ insert_found' \in BOOLEAN /\ operation_changes_book' \in BOOLEAN
  BY <1>1, <1>2, Zenon DEF TypeOK
<1>17. live' \in RegisterBook /\ work' \in RegisterBook /\ BookOK(Mirror(live'))
  BY <1>1 DEF TypeOK, BenchInv
<1> QED
  BY <1>1, <1>10, <1>15, <1>16, <1>17 DEF Clocked, BusyStates

-----------------------------------------------------------------------------
(* SHIFT_RIGHT and REMOVE, the check and the commit. *)

(* The C++ book has served the event that the RTL is busy with. *)
LEMMA PendingFacts ==
  ASSUME RtlInv, state \in BusyStates \ {"FINISH"}, UNCHANGED cppVars
  PROVE  /\ levels = Cpp!applied(Mirror(live), current_event).book
         /\ last_result = Cpp!applied(Mirror(live), current_event).result
         /\ levels' = levels /\ last_result' = last_result
<1>1. levels' = levels /\ last_result' = last_result
  BY DEF cppVars
<1> QED
  BY <1>1 DEF RtlInv, BusyStates

(* A level moves down a slot. *)
LEMMA ShiftRightStep ==
  ASSUME TypeOK, BenchInv, RtlInv, Rtl!ShiftRight, UNCHANGED cppVars
  PROVE  Clocked
<1> DEFINE s == current_event.side
           k == shift_index
<1>1. /\ state = "SHIFT_RIGHT" /\ state' = "SHIFT_RIGHT" /\ event_done' = FALSE
      /\ latency' = latency + 1 /\ k > insert_index /\ shift_index' = k - 1
      /\ work' = [work EXCEPT ![s][k] = work[s][k - 1]]
      /\ current_event' = current_event /\ live' = live
      /\ event_error' = event_error /\ order_flow_delta' = order_flow_delta
      /\ trade_flow_delta' = trade_flow_delta
      /\ operation_changes_book' = operation_changes_book
      /\ match_found' = match_found /\ insert_found' = insert_found
      /\ match_index' = match_index /\ insert_index' = insert_index
  BY DEF Rtl!ShiftRight, Rtl!busy, Rtl!search, Rtl!report, Rtl!selected_work_level, Rtl!side
<1>2. AtShiftRight(Mirror(live), current_event)
  BY <1>1 DEF RtlInv
<1>3. /\ insert_index \in 0 .. BookDepth - 1 /\ k \in insert_index .. BookDepth - 1
      /\ k \in Rtl!Slot /\ k - 1 \in Rtl!Slot
  BY <1>1, <1>2, BusyFacts DEF AtShiftRight, Rtl!Slot
<1>4. Updated(work, work', s, k, work[s][k - 1])
  <2>1. work \in RegisterBook /\ s \in Side /\ work[s][k - 1] \in Level
    BY <1>3, BusyFacts DEF TypeOK, RegisterBook
  <2> QED
    BY <1>1, <1>3, <2>1, RegisterUpdate
<1> HIDE DEF s, k
<1>5. \A i \in Rtl!Slot : work[s][i] = IF i <= k THEN live[s][i] ELSE live[s][i - 1]
  BY <1>2 DEF AtShiftRight, s, k
<1>6. \A i \in Rtl!Slot : work'[s][i] = IF i <= k - 1 THEN live[s][i] ELSE live[s][i - 1]
  BY <1>3, <1>4, <1>5, BusyFacts DEF Updated, Rtl!Slot
<1>7. \A t \in Side : t # s => work'[t] = live[t]
  BY <1>2, <1>4 DEF AtShiftRight, Updated, OthersKept, s
<1>8. Found(Mirror(live), current_event)' /\ NoReport'
  BY <1>1, <1>2 DEF Found, NoReport, AtShiftRight
<1>9. /\ latency' = 2 * BookDepth + 2 - shift_index' /\ latency' < kCycleLimit
      /\ shift_index' \in insert_index .. BookDepth - 1
  BY <1>1, <1>2, <1>3, BusyFacts DEF AtShiftRight, k
<1>10. AtShiftRight(Mirror(live), current_event)'
  BY <1>1, <1>2, <1>6, <1>7, <1>8, <1>9 DEF AtShiftRight, well_formed, s
<1>11. RtlInv'
  BY <1>1, <1>10, PendingFacts DEF RtlInv, BusyStates
<1>12. match_found' \in BOOLEAN /\ insert_found' \in BOOLEAN /\ operation_changes_book' \in BOOLEAN
  BY <1>1, Zenon DEF TypeOK
<1>13. live' \in RegisterBook /\ work' \in RegisterBook /\ BookOK(Mirror(live'))
  BY <1>1, <1>4 DEF TypeOK, BenchInv, Updated
<1> QED
  BY <1>1, <1>9, <1>11, <1>12, <1>13 DEF Clocked, BusyStates

(* The shifted copy with its gap filled is what insert() returns. *)
LEMMA FillGapStep ==
  ASSUME TypeOK, BenchInv, RtlInv, Rtl!FillGap, UNCHANGED cppVars
  PROVE  Clocked
<1> DEFINE s == current_event.side
           k == insert_index
           ls == Mirror(live)[s]
           slots == Cpp!insert(ls, k + 1, LevelOf(current_event))
<1>1. /\ state = "SHIFT_RIGHT" /\ state' = "CHECK_CROSS" /\ event_done' = FALSE
      /\ latency' = latency + 1 /\ shift_index <= k
      /\ work' = [work EXCEPT ![s][k] = LevelOf(current_event)]
      /\ order_flow_delta' = side_sign(s) * current_event.quantity
      /\ current_event' = current_event /\ live' = live
      /\ event_error' = event_error /\ trade_flow_delta' = trade_flow_delta
      /\ match_found' = match_found /\ insert_found' = insert_found
  BY DEF Rtl!FillGap, Rtl!busy, Rtl!search, Rtl!side, Rtl!order_flow_sign, Rtl!side_sign,
         side_sign, LevelOf
<1>2. operation_changes_book' = TRUE
  BY DEF Rtl!FillGap
<1>3. AtShiftRight(Mirror(live), current_event)
  BY <1>1 DEF RtlInv
<1>4. /\ k \in 0 .. BookDepth - 1 /\ k \in Rtl!Slot /\ shift_index = k
      /\ k + 1 \in Cpp!Slot /\ latency = 2 * BookDepth + 2 - k
      /\ Place(ls, s, k + 1, current_event.price)
      /\ well_formed(current_event) /\ current_event.type = "Add" /\ NoReport
  BY <1>1, <1>3, BusyFacts DEF AtShiftRight, Rtl!Slot, Cpp!Slot, Found
<1>5. Updated(work, work', s, k, LevelOf(current_event))
  <2>1. work \in RegisterBook /\ s \in Side /\ LevelOf(current_event) \in Level
    BY BusyFacts DEF TypeOK, LevelOf, Level
  <2> QED
    BY <1>1, <1>4, <2>1, RegisterUpdate
<1>6. /\ changed(Mirror(live), current_event).levels = slots
      /\ changed(Mirror(live), current_event).added = current_event.quantity
  BY <1>4, BusyFacts, ChangedPlaced DEF changed
<1>7. ASSUME NEW j \in Cpp!Slot PROVE work'[s][j - 1] = slots[j]
  <2>1. j - 1 \in Rtl!Slot /\ j \in 1 .. BookDepth
    BY BusyFacts DEF Cpp!Slot, Rtl!Slot
  <2>2. work[s][j - 1] = IF j - 1 <= k THEN live[s][j - 1] ELSE live[s][j - 1 - 1]
    BY <1>3, <1>4, <2>1 DEF AtShiftRight
  <2>3. work'[s][j - 1] = IF j - 1 = k THEN LevelOf(current_event) ELSE work[s][j - 1]
    BY <1>5, <2>1 DEF Updated
  <2>4. CASE j < k + 1
    <3>1. slots[j] = ls[j] /\ ls[j] = live[s][j - 1]
      <4>1. j # k + 1
        BY <1>4, <2>1, <2>4
      <4>2. slots[j] = ls[j]
        BY <2>4, <4>1 DEF Cpp!insert
      <4> QED
        BY <4>2, BusyFacts, MirrorAt
    <3> QED
      BY <1>4, <2>1, <2>2, <2>3, <2>4, <3>1
  <2>5. CASE j = k + 1
    <3>1. slots[j] = LevelOf(current_event)
      BY <1>4, <2>5 DEF Cpp!insert
    <3> QED
      BY <1>4, <2>3, <2>5, <3>1
  <2>6. CASE j > k + 1
    <3>1. j - 1 \in Cpp!Slot
      BY <1>4, <2>1, <2>6, BusyFacts DEF Cpp!Slot
    <3>2. slots[j] = ls[j - 1] /\ ls[j - 1] = live[s][j - 1 - 1]
      <4>1. ~(j < k + 1) /\ j # k + 1
        BY <1>4, <2>1, <2>6
      <4>2. slots[j] = ls[j - 1]
        BY <4>1 DEF Cpp!insert
      <4>3. s \in Side
        BY BusyFacts
      <4> QED
        BY <3>1, <4>2, <4>3, MirrorAt
    <3> QED
      BY <1>4, <2>1, <2>2, <2>3, <2>6, <3>2
  <2> QED
    BY <1>4, <2>1, <2>4, <2>5, <2>6
<1>8. HoldSlots(work', s, slots)
  BY <1>7 DEF HoldSlots, Cpp!insert
<1> HIDE DEF slots
<1>9. OthersKept(live, work', s)
  BY <1>3, <1>5 DEF AtShiftRight, Updated, OthersKept
<1>10. Mirror(work') = Candidate(Mirror(live), current_event)
  BY <1>6, <1>8, <1>9, BusyFacts, MirrorCandidate
<1>11. FlowReport(Mirror(live), current_event)'
  BY <1>1, <1>4, <1>6 DEF FlowReport, Flow, TradeFlow, NoReport, changed
<1>12. latency' \in 0 .. 2 * BookDepth + 3 /\ latency' < kCycleLimit
  BY <1>1, <1>4, BusyFacts
<1>13. Served(Mirror(live), current_event)
  BY <1>4 DEF Served
<1>14. AtCheckCross(Mirror(live), current_event)'
  BY <1>1, <1>2, <1>10, <1>11, <1>12, <1>13 DEF AtCheckCross, Served, Known, Candidate, changed
<1>15. RtlInv'
  BY <1>1, <1>14, PendingFacts DEF RtlInv, BusyStates
<1>16. match_found' \in BOOLEAN /\ insert_found' \in BOOLEAN /\ operation_changes_book' \in BOOLEAN
  BY <1>1, <1>2, Zenon DEF TypeOK
<1>17. live' \in RegisterBook /\ work' \in RegisterBook /\ BookOK(Mirror(live'))
  BY <1>1, <1>5 DEF TypeOK, BenchInv, Updated
<1> QED
  BY <1>1, <1>12, <1>15, <1>16, <1>17 DEF Clocked, BusyStates

(* A level moves up a slot. *)
LEMMA ShiftLeftStep ==
  ASSUME TypeOK, BenchInv, RtlInv, Rtl!ShiftLeft, UNCHANGED cppVars
  PROVE  Clocked
<1> DEFINE s == current_event.side
           k == shift_index
<1>1. /\ state = "REMOVE" /\ state' = "REMOVE" /\ event_done' = FALSE
      /\ latency' = latency + 1 /\ k < BookDepth - 1 /\ shift_index' = k + 1
      /\ work' = [work EXCEPT ![s][k] = work[s][k + 1]]
      /\ current_event' = current_event /\ live' = live
      /\ event_error' = event_error /\ order_flow_delta' = order_flow_delta
      /\ trade_flow_delta' = trade_flow_delta
      /\ operation_changes_book' = operation_changes_book
      /\ match_found' = match_found /\ insert_found' = insert_found
      /\ match_index' = match_index /\ insert_index' = insert_index
  BY DEF Rtl!ShiftLeft, Rtl!busy, Rtl!search, Rtl!report, Rtl!selected_work_level, Rtl!side,
         Rtl!LastIndex
<1>2. AtRemove(Mirror(live), current_event)
  BY <1>1 DEF RtlInv
<1>3. /\ match_index \in 0 .. BookDepth - 1 /\ k \in match_index .. BookDepth - 1
      /\ k \in Rtl!Slot /\ k + 1 \in Rtl!Slot
  BY <1>1, <1>2, BusyFacts DEF AtRemove, Rtl!Slot, Found
<1>4. Updated(work, work', s, k, work[s][k + 1])
  <2>1. work \in RegisterBook /\ s \in Side /\ work[s][k + 1] \in Level
    BY <1>3, BusyFacts DEF TypeOK, RegisterBook
  <2> QED
    BY <1>1, <1>3, <2>1, RegisterUpdate
<1> HIDE DEF s, k
<1>5. \A i \in Rtl!Slot :
        work[s][i] = IF match_index <= i /\ i < k THEN live[s][i + 1] ELSE live[s][i]
  BY <1>2 DEF AtRemove, s, k
<1>6. \A i \in Rtl!Slot :
        work'[s][i] = IF match_index <= i /\ i < k + 1 THEN live[s][i + 1] ELSE live[s][i]
  BY <1>3, <1>4, <1>5, BusyFacts DEF Updated, Rtl!Slot
<1>7. \A t \in Side : t # s => work'[t] = live[t]
  BY <1>2, <1>4 DEF AtRemove, Updated, OthersKept, s
<1>8. Found(Mirror(live), current_event)' /\ FlowReport(Mirror(live), current_event)'
  BY <1>1, <1>2 DEF Found, FlowReport, AtRemove, Flow, TradeFlow, changed
<1>9. /\ latency' = BookDepth + 3 + shift_index' - match_index /\ latency' < kCycleLimit
      /\ shift_index' \in match_index .. BookDepth - 1
  BY <1>1, <1>2, <1>3, BusyFacts DEF AtRemove, k
<1>10. AtRemove(Mirror(live), current_event)'
  BY <1>1, <1>2, <1>6, <1>7, <1>8, <1>9
     DEF AtRemove, Served, Known, LeftAt, saturated_add, s
<1>11. RtlInv'
  BY <1>1, <1>10, PendingFacts DEF RtlInv, BusyStates
<1>12. match_found' \in BOOLEAN /\ insert_found' \in BOOLEAN /\ operation_changes_book' \in BOOLEAN
  BY <1>1, Zenon DEF TypeOK
<1>13. live' \in RegisterBook /\ work' \in RegisterBook /\ BookOK(Mirror(live'))
  BY <1>1, <1>4 DEF TypeOK, BenchInv, Updated
<1> QED
  BY <1>1, <1>9, <1>11, <1>12, <1>13 DEF Clocked, BusyStates

(* The shifted copy with its last slot cleared is what remove() returns. *)
LEMMA ClearLastStep ==
  ASSUME TypeOK, BenchInv, RtlInv, Rtl!ClearLast, UNCHANGED cppVars
  PROVE  Clocked
<1> DEFINE s == current_event.side
           k == match_index
           ls == Mirror(live)[s]
           slots == Cpp!remove(ls, k + 1)
           last == BookDepth - 1
<1>1. /\ state = "REMOVE" /\ state' = "CHECK_CROSS" /\ event_done' = FALSE
      /\ latency' = latency + 1 /\ shift_index >= last
      /\ work' = [work EXCEPT ![s][last] = Rtl!Unused]
      /\ current_event' = current_event /\ live' = live
      /\ event_error' = event_error /\ order_flow_delta' = order_flow_delta
      /\ trade_flow_delta' = trade_flow_delta
      /\ match_found' = match_found /\ insert_found' = insert_found
  BY DEF Rtl!ClearLast, Rtl!busy, Rtl!search, Rtl!report, Rtl!side, Rtl!LastIndex
<1>2. operation_changes_book' = TRUE
  BY DEF Rtl!ClearLast
<1>3. AtRemove(Mirror(live), current_event)
  BY <1>1 DEF RtlInv
<1>4. /\ k \in 0 .. last /\ last \in Rtl!Slot /\ shift_index = last
      /\ latency = BookDepth + 3 + last - k
      /\ Served(Mirror(live), current_event) /\ FlowReport(Mirror(live), current_event)
  BY <1>1, <1>3, BusyFacts DEF AtRemove, Rtl!Slot, Found
<1>5. Updated(work, work', s, last, Rtl!Unused)
  <2>1. work \in RegisterBook /\ s \in Side
    BY BusyFacts DEF TypeOK
  <2>2. Rtl!Unused \in Level
    BY BookAssumption DEF Rtl!Unused, Level, Quantity
  <2> QED
    BY <1>1, <1>4, <2>1, <2>2, RegisterUpdate
<1>6. changed(Mirror(live), current_event).levels = slots
  BY <1>3, MatchedLevel DEF AtRemove, Served
<1>7. ASSUME NEW j \in Cpp!Slot PROVE work'[s][j - 1] = slots[j]
  <2>1. j - 1 \in Rtl!Slot /\ j \in 1 .. BookDepth /\ s \in Side
    BY BusyFacts DEF Cpp!Slot, Rtl!Slot
  <2>2. work[s][j - 1] = IF k <= j - 1 /\ j - 1 < last THEN live[s][j - 1 + 1] ELSE live[s][j - 1]
    BY <1>3, <1>4, <2>1 DEF AtRemove
  <2>3. work'[s][j - 1] = IF j - 1 = last THEN Rtl!Unused ELSE work[s][j - 1]
    BY <1>5, <2>1 DEF Updated
  <2>4. CASE j < k + 1
    <3>1. slots[j] = ls[j] /\ ls[j] = live[s][j - 1]
      BY <1>4, <2>1, <2>4, BusyFacts, MirrorAt DEF Cpp!remove
    <3> QED
      BY <1>4, <2>1, <2>2, <2>3, <2>4, <3>1, BusyFacts
  <2>5. CASE j >= k + 1 /\ j < BookDepth
    <3>1. j + 1 \in Cpp!Slot /\ j + 1 - 1 = j /\ j - 1 + 1 = j
      BY <2>1, <2>5, BusyFacts DEF Cpp!Slot
    <3>2. slots[j] = ls[j + 1]
      BY <1>4, <2>1, <2>5, BusyFacts DEF Cpp!remove
    <3>3. ls[j + 1] = live[s][j]
      BY <2>1, <3>1, MirrorAt
    <3> QED
      BY <1>4, <2>1, <2>2, <2>3, <2>5, <3>1, <3>2, <3>3, BusyFacts
  <2>6. CASE j = BookDepth
    <3>1. slots[j] = Cpp!Unused
      BY <1>4, <2>1, <2>6, BusyFacts DEF Cpp!remove
    <3> QED
      BY <2>3, <2>6, <3>1 DEF Cpp!Unused, Rtl!Unused
  <2> QED
    BY <1>4, <2>1, <2>4, <2>5, <2>6, BusyFacts
<1>8. HoldSlots(work', s, slots)
  BY <1>7 DEF HoldSlots, Cpp!remove
<1> HIDE DEF slots
<1>9. OthersKept(live, work', s)
  BY <1>3, <1>5 DEF AtRemove, Updated, OthersKept
<1>10. Mirror(work') = Candidate(Mirror(live), current_event)
  BY <1>6, <1>8, <1>9, BusyFacts, MirrorCandidate
<1>11. FlowReport(Mirror(live), current_event)'
  BY <1>1, <1>4 DEF FlowReport, Flow, TradeFlow, changed
<1>12. latency' \in 0 .. 2 * BookDepth + 3 /\ latency' < kCycleLimit
  BY <1>1, <1>4, BusyFacts
<1>13. AtCheckCross(Mirror(live), current_event)'
  BY <1>1, <1>2, <1>4, <1>10, <1>11, <1>12 DEF AtCheckCross, Served, Known, Candidate, changed
<1>14. RtlInv'
  BY <1>1, <1>13, PendingFacts DEF RtlInv, BusyStates
<1>15. match_found' \in BOOLEAN /\ insert_found' \in BOOLEAN /\ operation_changes_book' \in BOOLEAN
  BY <1>1, <1>2, Zenon DEF TypeOK
<1>16. live' \in RegisterBook /\ work' \in RegisterBook /\ BookOK(Mirror(live'))
  BY <1>1, <1>5 DEF TypeOK, BenchInv, Updated
<1> QED
  BY <1>1, <1>12, <1>14, <1>15, <1>16 DEF Clocked, BusyStates

(* The RTL and the C++ book look at the same two levels. *)
LEMMA SameCross ==
  Rtl!work_crossed <=> Crosses(Mirror(work))
<1>1. 1 \in Cpp!Slot /\ 1 - 1 = 0
  BY BookAssumption DEF Cpp!Slot
<1>2. Mirror(work)["Bid"][1] = work["Bid"][0] /\ Mirror(work)["Ask"][1] = work["Ask"][0]
  BY <1>1 DEF Mirror, Side
<1> QED
  BY <1>2 DEF Rtl!work_crossed, Crosses, Cpp!crossed

(* A crossed candidate is dropped by both, with different flows. *)
LEMMA RejectCrossedStep ==
  ASSUME TypeOK, BenchInv, RtlInv, Rtl!RejectCrossed, UNCHANGED cppVars
  PROVE  Clocked
<1>1. /\ state = "CHECK_CROSS" /\ state' = "FINISH" /\ event_done' = FALSE
      /\ latency' = latency + 1 /\ Rtl!work_crossed
      /\ event_error' = "CrossedBook"
      /\ current_event' = current_event /\ live' = live /\ work' = work
      /\ operation_changes_book' = operation_changes_book
      /\ match_found' = match_found /\ insert_found' = insert_found
  BY DEF Rtl!RejectCrossed, Rtl!busy, Rtl!search
<1>2. AtCheckCross(Mirror(live), current_event)
  BY <1>1 DEF RtlInv
<1>3. Served(Mirror(live), current_event) /\ Crosses(Candidate(Mirror(live), current_event))
  BY <1>1, <1>2, SameCross DEF AtCheckCross
<1>4. levels = Mirror(live) /\ last_result.error = "CrossedBook"
  BY <1>1, <1>3, PendingFacts, BusyFacts, Applied DEF BusyStates
<1>5. Settled'
  BY <1>1, <1>4, PendingFacts DEF Settled, BusyStates
<1>6. latency' \in 0 .. 2 * BookDepth + 5 /\ latency' < kCycleLimit
  BY <1>1, <1>2, BusyFacts DEF AtCheckCross
<1>7. RtlInv'
  BY <1>1, <1>5, <1>6 DEF RtlInv
<1>8. match_found' \in BOOLEAN /\ insert_found' \in BOOLEAN /\ operation_changes_book' \in BOOLEAN
  BY <1>1, Zenon DEF TypeOK
<1>9. live' \in RegisterBook /\ work' \in RegisterBook /\ BookOK(Mirror(live'))
  BY <1>1 DEF TypeOK, BenchInv
<1> QED
  BY <1>1, <1>6, <1>7, <1>8, <1>9 DEF Clocked, BusyStates

(* A candidate that may be committed. *)
LEMMA NotCrossedStep ==
  ASSUME TypeOK, BenchInv, RtlInv, Rtl!NotCrossed, UNCHANGED cppVars
  PROVE  Clocked
<1>1. /\ state = "CHECK_CROSS" /\ state' = "COMMIT" /\ event_done' = FALSE
      /\ latency' = latency + 1 /\ ~Rtl!work_crossed
      /\ current_event' = current_event /\ live' = live /\ work' = work
      /\ event_error' = event_error /\ order_flow_delta' = order_flow_delta
      /\ trade_flow_delta' = trade_flow_delta
      /\ operation_changes_book' = operation_changes_book
      /\ match_found' = match_found /\ insert_found' = insert_found
  BY DEF Rtl!NotCrossed, Rtl!busy, Rtl!search, Rtl!report
<1>2. AtCheckCross(Mirror(live), current_event)
  BY <1>1 DEF RtlInv
<1>3. ~Crosses(Candidate(Mirror(live), current_event))
  BY <1>1, <1>2, SameCross DEF AtCheckCross
<1>4. FlowReport(Mirror(live), current_event)'
  BY <1>1, <1>2 DEF FlowReport, Flow, TradeFlow, changed, AtCheckCross
<1>5. latency' \in 0 .. 2 * BookDepth + 4 /\ latency' < kCycleLimit
  BY <1>1, <1>2, BusyFacts DEF AtCheckCross
<1>6. AtCommit(Mirror(live), current_event)'
  BY <1>1, <1>2, <1>3, <1>4, <1>5
     DEF AtCommit, AtCheckCross, Served, Known, Candidate, changed, Crosses
<1>7. RtlInv'
  BY <1>1, <1>6, PendingFacts DEF RtlInv, BusyStates
<1>8. match_found' \in BOOLEAN /\ insert_found' \in BOOLEAN /\ operation_changes_book' \in BOOLEAN
  BY <1>1, Zenon DEF TypeOK
<1>9. live' \in RegisterBook /\ work' \in RegisterBook /\ BookOK(Mirror(live'))
  BY <1>1 DEF TypeOK, BenchInv
<1> QED
  BY <1>1, <1>5, <1>7, <1>8, <1>9 DEF Clocked, BusyStates

(* The live book becomes the candidate, in one clock. *)
LEMMA CommitStep ==
  ASSUME TypeOK, BenchInv, RtlInv, Rtl!Commit, UNCHANGED cppVars
  PROVE  Clocked
<1>1. /\ state = "COMMIT" /\ state' = "FINISH" /\ event_done' = FALSE
      /\ latency' = latency + 1
      /\ live' = IF operation_changes_book THEN work ELSE live
      /\ current_event' = current_event /\ work' = work
      /\ event_error' = event_error /\ order_flow_delta' = order_flow_delta
      /\ trade_flow_delta' = trade_flow_delta
      /\ operation_changes_book' = operation_changes_book
      /\ match_found' = match_found /\ insert_found' = insert_found
  BY DEF Rtl!Commit, Rtl!busy, Rtl!search, Rtl!report
<1>2. AtCommit(Mirror(live), current_event)
  BY <1>1 DEF RtlInv
<1>3. live' = work
  BY <1>1, <1>2 DEF AtCommit
<1>4. Mirror(live') = Candidate(Mirror(live), current_event)
  BY <1>2, <1>3 DEF AtCommit
<1>5. /\ levels = Candidate(Mirror(live), current_event)
      /\ last_result = [error |-> "None", order_flow |-> Flow(Mirror(live), current_event),
                        trade_flow |-> TradeFlow(Mirror(live), current_event)]
  BY <1>1, <1>2, PendingFacts, BusyFacts, Applied DEF AtCommit, BusyStates
<1>6. Settled'
  BY <1>1, <1>2, <1>4, <1>5, PendingFacts
     DEF Settled, BusyStates, flows_match, AtCommit, FlowReport
<1>7. latency' \in 0 .. 2 * BookDepth + 5 /\ latency' < kCycleLimit
  BY <1>1, <1>2, BusyFacts DEF AtCommit
<1>8. RtlInv'
  BY <1>1, <1>6, <1>7 DEF RtlInv
<1>9. match_found' \in BOOLEAN /\ insert_found' \in BOOLEAN /\ operation_changes_book' \in BOOLEAN
  BY <1>1, Zenon DEF TypeOK
<1>10. BookOK(Mirror(live'))
  BY <1>2, <1>4, BusyFacts, CandidateOK DEF AtCommit
<1>11. live' \in RegisterBook /\ work' \in RegisterBook
  BY <1>1, <1>3 DEF TypeOK
<1> QED
  BY <1>1, <1>7, <1>8, <1>9, <1>10, <1>11 DEF Clocked, BusyStates

(* Every clock but the last. *)
LEMMA BusyStep ==
  ASSUME TypeOK, BenchInv, RtlInv, Rtl!BusyClock, ~Rtl!Finish, UNCHANGED cppVars
  PROVE  Clocked
BY ValidateStep, SearchStep, SearchDoneStep, ApplyRejectStep, ApplyAddToLevelStep,
   ApplyAddBeyondDepthStep, ApplyInsertStep, ApplyChangeLevelStep, ApplyRemoveLevelStep,
   ShiftRightStep, FillGapStep, ShiftLeftStep, ClearLastStep, RejectCrossedStep,
   NotCrossedStep, CommitStep
   DEF Rtl!BusyClock

-----------------------------------------------------------------------------
(* The events of the bench and of the generator. *)

(* An Add brings its own price; nothing else brings any. *)
LEMMA CandidatePrices ==
  ASSUME NEW b, BookOK(b), NEW e \in Event, Served(b, e), NEW s \in Side, NEW i \in Cpp!Slot,
         Candidate(b, e)[s][i].quantity # 0
  PROVE  \/ e.type = "Add" /\ s = e.side /\ Candidate(b, e)[s][i].price_ticks = e.price
         \/ \E j \in Cpp!Slot : /\ b[s][j].quantity # 0
                                /\ b[s][j].price_ticks = Candidate(b, e)[s][i].price_ticks
<1> DEFINE ls == b[e.side]
           new == changed(b, e).levels
<1>1. e.side \in Side /\ e.price \in 0 .. MaxPrice /\ BookDepth \in Nat
  BY BookAssumption DEF Event
<1>2. SideOK(ls, e.side) /\ well_formed(e)
  BY <1>1 DEF BookOK, Served
<1>3. Candidate(b, e)[s] = IF s = e.side THEN new ELSE b[s]
  BY <1>1 DEF Candidate, BookOK
<1>4. CASE s # e.side
  BY <1>3, <1>4
<1>5. CASE s = e.side
  <2>1. Candidate(b, e)[s][i] = new[i] /\ b[s] = ls
    BY <1>3, <1>5
  <2>2. CASE Known(b, e)
    <3>1. PICK k \in Cpp!Slot : Holds(ls, k, e.price)
      BY <2>2 DEF Known
    <3> DEFINE left == LeftAt(ls[k].quantity, e)
    <3>2. new = IF left = 0 THEN Cpp!remove(ls, k) ELSE SetQuantity(ls, k, left)
      BY <1>2, <3>1, ChangedHeld DEF changed
    <3> HIDE DEF ls, left
    <3>3. CASE left = 0
      <4>1. new[i] = Cpp!Unused \/ \E j \in Cpp!Slot : new[i] = ls[j]
        BY <1>1, <3>2, <3>3 DEF Cpp!remove, Cpp!Slot
      <4> QED
        BY <1>5, <2>1, <4>1 DEF Cpp!Unused
    <3>4. CASE left # 0
      <4>1. new[i].price_ticks = ls[i].price_ticks
        BY <3>2, <3>4 DEF SetQuantity
      <4>2. ls[i].quantity # 0
        BY <2>1, <3>1, <3>2, <3>4 DEF SetQuantity, Holds
      <4> QED
        BY <2>1, <4>1, <4>2
    <3> QED
      BY <3>3, <3>4
  <2>3. CASE ~Known(b, e)
    <3>1. PICK k \in 1 .. BookDepth + 1 : Place(ls, e.side, k, e.price)
      BY <1>1, <1>2, <2>3, HeldOrPlaced DEF Known
    <3>2. e.type = "Add"
      BY <2>3 DEF Served
    <3>3. new = Cpp!insert(ls, k, LevelOf(e))
      BY <1>2, <3>1, <3>2, ChangedPlaced DEF changed
    <3> HIDE DEF ls
    <3>4. new[i] = LevelOf(e) \/ \E j \in Cpp!Slot : new[i] = ls[j]
      BY <1>1, <3>3 DEF Cpp!insert, Cpp!Slot
    <3> QED
      BY <1>5, <2>1, <3>2, <3>4 DEF LevelOf
  <2> QED
    BY <2>2, <2>3
<1> QED
  BY <1>4, <1>5

(* Books within the bands cannot cross. *)
LEMMA BandsDoNotCross ==
  ASSUME NEW b, InBand(b)
  PROVE  ~Cpp!crossed(b)
<1>1. 1 \in Cpp!Slot
  BY BookAssumption DEF Cpp!Slot
<1>2. b["Bid"][1].quantity # 0 => b["Bid"][1].price_ticks \in PriceBand("Bid")
  BY <1>1 DEF InBand, Side
<1>3. b["Ask"][1].quantity # 0 => b["Ask"][1].price_ticks \in PriceBand("Ask")
  BY <1>1 DEF InBand, Side
<1>4. /\ \A p \in PriceBand("Bid") : p \in Int /\ p <= HighestBid
      /\ \A p \in PriceBand("Ask") : p \in Int /\ LowestAsk <= p
  BY DifferentialAssumption, BookAssumption DEF PriceBand, Price
<1> QED
  BY <1>2, <1>3, <1>4, DifferentialAssumption DEF Cpp!crossed

(* An Add in its band, and any other event, leave a book in its bands. *)
LEMMA StaysInBand ==
  ASSUME NEW b, BookOK(b), InBand(b), NEW e \in Event,
         e.type = "Add" => e.price \in PriceBand(e.side)
  PROVE  /\ InBand(Cpp!applied(b, e).book)
         /\ Cpp!applied(b, e).result.error # "CrossedBook"
         /\ Served(b, e) => /\ Cpp!applied(b, e).result.error = "None"
                            /\ Cpp!applied(b, e).book = Candidate(b, e)
<1>1. CASE ~well_formed(e)
  BY <1>1, Applied DEF NoFlow, Served
<1>2. CASE well_formed(e) /\ ~Served(b, e)
  BY <1>2, Applied DEF NoFlow
<1>3. CASE Served(b, e)
  <2>1. InBand(Candidate(b, e))
    <3> SUFFICES ASSUME NEW s \in Side, NEW i \in Cpp!Slot, Candidate(b, e)[s][i].quantity # 0
                 PROVE  Candidate(b, e)[s][i].price_ticks \in PriceBand(s)
      BY DEF InBand
    <3>1. \/ e.type = "Add" /\ s = e.side /\ Candidate(b, e)[s][i].price_ticks = e.price
          \/ \E j \in Cpp!Slot : /\ b[s][j].quantity # 0
                                 /\ b[s][j].price_ticks = Candidate(b, e)[s][i].price_ticks
      BY <1>3, CandidatePrices
    <3> QED
      BY <3>1 DEF InBand
  <2>2. ~Crosses(Candidate(b, e))
    BY <2>1, BandsDoNotCross DEF Crosses
  <2> QED
    BY <1>3, <2>1, <2>2, Applied
<1> QED
  BY <1>1, <1>2, <1>3

(* What next_event() draws. *)
LEMMA BenchEvents ==
  ASSUME TypeOK, NEW e \in next_event
  PROVE  e \in Event /\ (e.type = "Add" => e.price \in PriceBand(e.side))
<1>1. PICK s \in Side : e \in drawn(s, choose_level(s))
  BY DEF next_event
<1>2. choose_level(s) \subseteq 0 .. MaxPrice
  BY DEF choose_level, TypeOK, Level
<1>3. PriceBand(s) \subseteq 0 .. MaxPrice
  BY BookAssumption DEF PriceBand, Price
<1>4. e.side = s /\ (e.type = "Add" => e.price \in PriceBand(s))
  BY <1>1 DEF drawn
<1>5. e \in Event
  BY <1>1, <1>2, <1>3 DEF drawn, Event, EventType
<1> QED
  BY <1>4, <1>5

(* What the generator draws. *)
LEMMA GeneratorEvents ==
  ASSUME GeneratedInv, NEW e \in generator_event
  PROVE  /\ e \in Event /\ well_formed(e) /\ e.price \in Price
         /\ e.type = "Add" => e.price \in PriceBand(e.side)
         /\ e.type # "Add" => generated[e.side][e.price] > 0
<1>1. PICK s \in Side : e \in drawn(s, {p \in Price : generated[s][p] > 0})
  BY DEF generator_event
<1>2. PriceBand(s) \subseteq Price /\ Price \subseteq 0 .. MaxPrice /\ \A p \in Price : p > 0
  BY BookAssumption DEF PriceBand, Price
<1>3. e.side = s /\ e.type \in EventType /\ e.quantity \in Quantity
      /\ (e.type # "Update" => e.quantity # 0)
      /\ e \in Event
  BY <1>1, <1>2 DEF drawn, Event, EventType
<1>4. /\ e.type = "Add" => e.price \in PriceBand(s)
      /\ e.type # "Add" => e.price \in Price /\ generated[s][e.price] > 0
  BY <1>1 DEF drawn
<1>5. well_formed(e)
  <2>1. e.price \in Price
    BY <1>2, <1>4
  <2>2. e.quantity # 0 => e.quantity > 0
    BY <1>3, BookAssumption DEF Quantity
  <2> QED
    BY <1>2, <1>3, <2>1, <2>2 DEF well_formed
<1> QED
  BY <1>2, <1>3, <1>4, <1>5

-----------------------------------------------------------------------------
(* The generator's maps. *)

(* Two slots do not hold the same price. *)
LEMMA OneSlot ==
  ASSUME NEW s \in Side, NEW ls, SideOK(ls, s), NEW price \in 0 .. MaxPrice,
         NEW i, Holds(ls, i, price), NEW j, Holds(ls, j, price)
  PROVE  i = j
<1>1. Cpp!lookup(ls, s, price) = [found |-> TRUE, index |-> i]
  BY LookupFinds
<1>2. Cpp!lookup(ls, s, price) = [found |-> TRUE, index |-> j]
  BY LookupFinds
<1> QED
  BY <1>1, <1>2

(* The map follows the book at a price that is in it ... *)
LEMMA TallyHeld ==
  ASSUME NEW e \in Event, well_formed(e), e.price \in Price, NEW ls, SideOK(ls, e.side),
         NEW map \in [Price -> Quantity], Tallies(map, ls), NEW k, Holds(ls, k, e.price)
  PROVE  Tallies([map EXCEPT ![e.price] = LeftAt(map[e.price], e)], Cpp!changed_side(ls, e).levels)
<1> DEFINE left == LeftAt(map[e.price], e)
           after == [map EXCEPT ![e.price] = left]
           new == Cpp!changed_side(ls, e).levels
<1>1. e.side \in Side /\ e.price \in 0 .. MaxPrice /\ BookDepth \in Nat /\ k \in 1 .. BookDepth
      /\ k \in Cpp!Slot /\ ls \in [Cpp!Slot -> Level]
  BY BookAssumption DEF Event, Holds, Cpp!Slot, SideOK
<1>2. map[e.price] = ls[k].quantity /\ ls[k].quantity \in Quantity
  BY <1>1 DEF Tallies, Holds, Level
<1>3. left = LeftAt(ls[k].quantity, e)
  BY <1>2
<1>4. new = IF left = 0 THEN Cpp!remove(ls, k) ELSE SetQuantity(ls, k, left)
  BY <1>3, ChangedHeld
<1>5. left \in Quantity
  BY <1>2, <1>3, LeftTyped
<1>6. after[e.price] = left /\ \A p \in Price : p # e.price => after[p] = map[p]
  OBVIOUS
<1>7. \A i \in Cpp!Slot : ls[i].quantity # 0 =>
        ls[i].price_ticks \in Price /\ (ls[i].price_ticks = e.price => i = k)
  <2> TAKE i \in Cpp!Slot
  <2> HAVE ls[i].quantity # 0
  <2>1. ls[i].price_ticks \in Price
    BY <1>1, BookAssumption DEF SideOK, Spaced, Level, Price
  <2>2. ls[i].price_ticks = e.price => Holds(ls, i, e.price)
    BY DEF Holds
  <2> QED
    BY <1>1, <2>1, <2>2, OneSlot
<1> HIDE DEF left, after, new
<1>8. CASE left = 0
  <2> DEFINE from(i) == IF i < k THEN i ELSE i + 1
  <2>1. \A i \in Cpp!Slot : /\ from(i) \in Cpp!Slot => new[i] = ls[from(i)] /\ from(i) # k
                            /\ from(i) \notin Cpp!Slot => new[i].quantity = 0
    BY <1>1, <1>4, <1>8 DEF Cpp!remove, Cpp!Slot, Cpp!Unused
  <2>2. \A j \in Cpp!Slot : j # k => \E i \in Cpp!Slot : from(i) = j
    <3> TAKE j \in Cpp!Slot
    <3> HAVE j # k
    <3>1. CASE j < k
      BY <3>1
    <3>2. CASE j > k
      <4>1. j - 1 \in Cpp!Slot /\ from(j - 1) = j
        BY <1>1, <3>2 DEF Cpp!Slot
      <4> QED
        BY <4>1
    <3> QED
      BY <1>1, <3>1, <3>2 DEF Cpp!Slot
  <2> HIDE DEF from
  <2>3. ASSUME NEW i \in Cpp!Slot, new[i].quantity # 0
        PROVE  after[new[i].price_ticks] = new[i].quantity
    <3>1. from(i) \in Cpp!Slot /\ new[i] = ls[from(i)] /\ from(i) # k
      BY <2>1, <2>3
    <3>2. ls[from(i)].price_ticks \in Price /\ ls[from(i)].price_ticks # e.price
      BY <1>7, <2>3, <3>1
    <3> QED
      BY <1>6, <2>3, <3>1, <3>2 DEF Tallies
  <2>4. ASSUME NEW p \in Price, after[p] > 0
        PROVE  \E i \in Cpp!Slot : Holds(new, i, p)
    <3>1. p # e.price
      BY <1>6, <1>8, <2>4
    <3>2. PICK j \in Cpp!Slot : Holds(ls, j, p)
      BY <1>6, <2>4, <3>1 DEF Tallies
    <3>3. j # k
      BY <3>1, <3>2 DEF Holds
    <3>4. PICK i \in Cpp!Slot : from(i) = j
      BY <2>2, <3>3
    <3>5. new[i] = ls[j]
      BY <2>1, <3>4
    <3> QED
      BY <3>2, <3>5 DEF Holds
  <2> QED
    BY <2>3, <2>4 DEF Tallies, after, left, new
<1>9. CASE left # 0
  <2>1. \A i \in Cpp!Slot : /\ new[i].price_ticks = ls[i].price_ticks
                            /\ i # k => new[i] = ls[i]
                            /\ i = k => new[i].quantity = left
    BY <1>4, <1>9 DEF SetQuantity
  <2>2. ASSUME NEW i \in Cpp!Slot, new[i].quantity # 0
        PROVE  after[new[i].price_ticks] = new[i].quantity
    <3>1. CASE i = k
      BY <1>6, <2>1, <3>1 DEF Holds
    <3>2. CASE i # k
      BY <1>6, <1>7, <2>1, <2>2, <3>2 DEF Tallies
    <3> QED
      BY <3>1, <3>2
  <2>3. ASSUME NEW p \in Price, after[p] > 0
        PROVE  \E i \in Cpp!Slot : Holds(new, i, p)
    <3>1. CASE p = e.price
      <4>1. Holds(new, k, p)
        BY <1>1, <1>9, <2>1, <3>1 DEF Holds
      <4> QED
        BY <1>1, <4>1
    <3>2. CASE p # e.price
      <4>1. PICK j \in Cpp!Slot : Holds(ls, j, p)
        BY <1>6, <2>3, <3>2 DEF Tallies
      <4>2. j # k
        BY <3>2, <4>1 DEF Holds
      <4> QED
        BY <2>1, <4>1, <4>2 DEF Holds
    <3> QED
      BY <3>1, <3>2
  <2> QED
    BY <2>2, <2>3 DEF Tallies, after, left, new
<1> QED
  BY <1>8, <1>9

(* A side whose prices are within its band has room for one more of them:   *)
(* the band has no more prices than the side has slots.                     *)
LEMMA RoomInBand ==
  ASSUME NEW s \in Side, NEW ls, SideOK(ls, s),
         \A i \in Cpp!Slot : ls[i].quantity # 0 => ls[i].price_ticks \in PriceBand(s),
         NEW price \in PriceBand(s), NEW k, Place(ls, s, k, price)
  PROVE  ls[BookDepth].quantity = 0 /\ k \in Cpp!Slot
<1> DEFINE base == IF s = "Bid" THEN -HighestBid ELSE LowestAsk
           at(i) == rank(s, ls[i].price_ticks)
           r == rank(s, price)
           D == BookDepth
<1>1. D \in Nat /\ D > 0 /\ D \in Cpp!Slot /\ 1 \in Cpp!Slot /\ k \in 1 .. D + 1 /\ k \in Int
      /\ base \in Int
  BY BookAssumption, DifferentialAssumption DEF Cpp!Slot, Place
<1>2. \A p \in PriceBand(s) : rank(s, p) \in base .. base + D - 1
  BY BookAssumption, DifferentialAssumption DEF PriceBand, Price, rank, Side
<1>3. r \in base .. base + D - 1
  BY <1>2
<1>4. \A i \in Cpp!Slot : ls[i].quantity # 0 => at(i) \in base .. base + D - 1
  BY <1>2
<1>5. \A i, j \in Cpp!Slot : i < j /\ ls[j].quantity # 0 => ls[i].quantity # 0 /\ at(i) + (j - i) <= at(j)
  BY DEF SideOK, Spaced
<1>6. \A i \in Cpp!Slot : at(i) \in Int /\ i \in 1 .. D
  BY DEF SideOK, Level, rank, Cpp!Slot
<1>7. /\ \A j \in Cpp!Slot : j < k => ls[j].quantity # 0 /\ at(j) < r
      /\ k \in Cpp!Slot => ls[k].quantity = 0 \/ r < at(k)
  BY DEF Place
<1> HIDE DEF base, at, r, D
<1>8. ASSUME ls[D].quantity # 0 PROVE FALSE
  <2>1. at(D) \in base .. base + D - 1
    BY <1>1, <1>4, <1>8
  <2>2. k \in Cpp!Slot /\ k <= D
    <3>1. k # D + 1
      BY <1>1, <1>3, <1>4, <1>5, <1>6, <1>7, <1>8, <2>1
    <3> QED
      BY <1>1, <3>1 DEF Cpp!Slot, D
  <2>3. ls[k].quantity # 0 /\ at(k) + (D - k) <= at(D)
    <3>1. CASE k = D
      BY <1>1, <1>6, <1>8, <3>1
    <3>2. CASE k < D
      BY <1>1, <1>5, <1>8, <2>2, <3>2
    <3> QED
      BY <1>1, <2>2, <3>1, <3>2
  <2>4. r < at(k)
    BY <1>7, <2>2, <2>3
  <2>5. CASE k = 1
    BY <1>1, <1>3, <1>6, <2>1, <2>2, <2>3, <2>4, <2>5
  <2>6. CASE k > 1
    <3>1. k - 1 \in Cpp!Slot /\ k - 1 < k
      BY <1>1, <2>2, <2>6 DEF Cpp!Slot, D
    <3>2. ls[k - 1].quantity # 0 /\ at(k - 1) < r
      BY <1>7, <3>1
    <3>3. at(1) + (k - 1 - 1) <= at(k - 1) /\ ls[1].quantity # 0
      <4>1. CASE k - 1 = 1
        BY <1>1, <1>6, <3>2, <4>1
      <4>2. CASE 1 < k - 1
        BY <1>1, <1>5, <3>1, <3>2, <4>2
      <4> QED
        BY <1>1, <2>6, <4>1, <4>2
    <3>4. at(1) \in base .. base + D - 1
      BY <1>1, <1>4, <3>3
    <3> QED
      BY <1>1, <1>3, <1>6, <2>1, <2>2, <2>3, <2>4, <3>1, <3>2, <3>3, <3>4
  <2> QED
    BY <1>1, <2>5, <2>6
<1>9. ls[D].quantity = 0
  BY <1>8
<1>10. k # D + 1
  BY <1>1, <1>7, <1>9
<1> QED
  BY <1>1, <1>9, <1>10 DEF Cpp!Slot, D

(* ... and at one that is not, which pushes nothing out. *)
LEMMA TallyPlaced ==
  ASSUME NEW e \in Event, well_formed(e), e.type = "Add", e.price \in PriceBand(e.side),
         NEW ls, SideOK(ls, e.side),
         \A i \in Cpp!Slot : ls[i].quantity # 0 => ls[i].price_ticks \in PriceBand(e.side),
         NEW map \in [Price -> Quantity], Tallies(map, ls),
         NEW k, Place(ls, e.side, k, e.price)
  PROVE  Tallies([map EXCEPT ![e.price] = LeftAt(map[e.price], e)], Cpp!changed_side(ls, e).levels)
<1> DEFINE left == LeftAt(map[e.price], e)
           after == [map EXCEPT ![e.price] = left]
           new == Cpp!changed_side(ls, e).levels
<1>1. e.side \in Side /\ e.price \in 0 .. MaxPrice /\ e.price \in Price
      /\ e.quantity \in 0 .. MaxQuantity /\ BookDepth \in Nat /\ BookDepth > 0
      /\ MaxQuantity \in Nat /\ ls \in [Cpp!Slot -> Level]
  BY BookAssumption DEF Event, SideOK, PriceBand, Quantity
<1>2. k \in Cpp!Slot /\ k \in 1 .. BookDepth /\ ls[BookDepth].quantity = 0
  BY <1>1, RoomInBand DEF Cpp!Slot
<1>3. \A i \in Cpp!Slot : ~Holds(ls, i, e.price)
  BY <1>1, NotBoth
<1>4. map[e.price] = 0
  <2>1. ~(map[e.price] > 0)
    BY <1>1, <1>3 DEF Tallies
  <2>2. map[e.price] \in 0 .. MaxQuantity
    BY <1>1 DEF Quantity
  <2> QED
    BY <1>1, <2>1, <2>2
<1>5. left = e.quantity /\ left # 0
  BY <1>1, <1>4 DEF LeftAt, saturated_add, well_formed
<1>6. new = Cpp!insert(ls, k, LevelOf(e))
  BY ChangedPlaced
<1>7. after[e.price] = left /\ \A p \in Price : p # e.price => after[p] = map[p]
  BY <1>1
<1>8. \A i \in Cpp!Slot : ls[i].quantity # 0 => ls[i].price_ticks \in Price /\ ls[i].price_ticks # e.price
  BY <1>3 DEF Holds, PriceBand
<1>9. \A i \in Cpp!Slot : /\ i \in 1 .. BookDepth
                          /\ i < k => new[i] = ls[i]
                          /\ i = k => new[i].price_ticks = e.price /\ new[i].quantity = left
                          /\ i > k => i - 1 \in Cpp!Slot /\ new[i] = ls[i - 1]
  BY <1>1, <1>2, <1>5, <1>6 DEF Cpp!insert, Cpp!Slot, LevelOf
<1> HIDE DEF left, after, new
<1>10. ASSUME NEW i \in Cpp!Slot, new[i].quantity # 0
       PROVE  after[new[i].price_ticks] = new[i].quantity
  <2>1. CASE i = k
    BY <1>7, <1>9, <2>1
  <2>2. CASE i # k
    <3>1. PICK j \in Cpp!Slot : new[i] = ls[j]
      BY <1>2, <1>9, <2>2
    <3>2. ls[j].price_ticks \in Price /\ ls[j].price_ticks # e.price
      BY <1>8, <1>10, <3>1
    <3> QED
      BY <1>7, <1>10, <3>1, <3>2 DEF Tallies
  <2> QED
    BY <2>1, <2>2
<1>11. ASSUME NEW p \in Price, after[p] > 0
       PROVE  \E i \in Cpp!Slot : Holds(new, i, p)
  <2>1. CASE p = e.price
    <3>1. Holds(new, k, p)
      BY <1>2, <1>5, <1>9, <2>1 DEF Holds
    <3> QED
      BY <1>2, <3>1
  <2>2. CASE p # e.price
    <3>1. PICK j \in Cpp!Slot : Holds(ls, j, p)
      BY <1>7, <1>11, <2>2 DEF Tallies
    <3>2. j # BookDepth /\ j \in 1 .. BookDepth
      BY <1>2, <1>9, <3>1 DEF Holds
    <3>3. CASE j < k
      <4>1. new[j] = ls[j]
        BY <1>9, <3>3
      <4> QED
        BY <3>1, <4>1 DEF Holds
    <3>4. CASE j >= k
      <4>1. j + 1 \in Cpp!Slot /\ j + 1 > k /\ j + 1 - 1 = j
        BY <1>1, <1>2, <3>2, <3>4 DEF Cpp!Slot
      <4>2. new[j + 1] = ls[j]
        BY <1>9, <4>1
      <4> QED
        BY <3>1, <4>1, <4>2 DEF Holds
    <3>5. j < k \/ j >= k
      BY <1>1, <1>2, <3>2
    <3> QED
      BY <3>3, <3>4, <3>5
  <2> QED
    BY <2>1, <2>2
<1> QED
  BY <1>10, <1>11 DEF Tallies, after, left, new

-----------------------------------------------------------------------------
(* The steps of the bench. *)

(* An event of the bench. *)
LEMMA DrawBenchStep ==
  ASSUME Inv, GeneratedInv, DrawBench
  PROVE  Inv' /\ GeneratedInv'
<1>1. PICK e \in next_event : ApplyAndSubmit(e)
  BY DEF DrawBench
<1>2. e \in Event /\ (e.type = "Add" => e.price \in PriceBand(e.side))
  BY <1>1, BenchEvents DEF Inv
<1>3. TypeOK' /\ BenchInv' /\ RtlInv'
  BY <1>1, <1>2, DrawStep DEF Inv
<1>4. /\ source = "bench" /\ source' = source /\ generated' = generated
      /\ levels' = Cpp!applied(levels, e).book /\ last_result' = Cpp!applied(levels, e).result
  BY <1>1 DEF DrawBench, ApplyAndSubmit, Cpp!apply
<1>5. SourceInv'
  BY <1>2, <1>4, StaysInBand DEF Inv, SourceInv, BenchInv, InBand
<1>6. GeneratedInv'
  BY <1>4 DEF GeneratedInv
<1> QED
  BY <1>3, <1>5, <1>6 DEF Inv

(* Any event. *)
LEMMA DrawAnyStep ==
  ASSUME Inv, GeneratedInv, DrawAny
  PROVE  Inv' /\ GeneratedInv'
<1>1. PICK e \in Event : ApplyAndSubmit(e)
  BY DEF DrawAny
<1>2. TypeOK' /\ BenchInv' /\ RtlInv'
  BY <1>1, DrawStep DEF Inv
<1>3. source = "any" /\ source' = source /\ generated' = generated
  BY <1>1 DEF DrawAny, ApplyAndSubmit
<1>4. SourceInv' /\ GeneratedInv'
  BY <1>3 DEF SourceInv, GeneratedInv
<1> QED
  BY <1>2, <1>4 DEF Inv

(* An event of the generator. *)
LEMMA DrawGeneratorStep ==
  ASSUME Inv, GeneratedInv, DrawGenerator
  PROVE  Inv' /\ GeneratedInv'
<1>1. PICK e \in generator_event :
        /\ generated' = [generated EXCEPT ![e.side][e.price] = generated_after(e)]
        /\ ApplyAndSubmit(e)
  BY DEF DrawGenerator
<1>2. /\ e \in Event /\ well_formed(e) /\ e.price \in Price
      /\ e.type = "Add" => e.price \in PriceBand(e.side)
      /\ e.type # "Add" => generated[e.side][e.price] > 0
  BY <1>1, GeneratorEvents
<1>3. TypeOK' /\ BenchInv' /\ RtlInv'
  BY <1>1, <1>2, DrawStep DEF Inv
<1>4. /\ source = "generator" /\ source' = source
      /\ levels' = Cpp!applied(levels, e).book /\ last_result' = Cpp!applied(levels, e).result
  BY <1>1 DEF DrawGenerator, ApplyAndSubmit, Cpp!apply
<1>5. BookOK(levels) /\ InBand(levels)
  BY <1>4 DEF Inv, BenchInv, SourceInv
<1>6. SourceInv'
  BY <1>2, <1>4, <1>5, StaysInBand DEF SourceInv, InBand
<1>7. /\ generated \in [Side -> [Price -> Quantity]]
      /\ \A s \in Side : Tallies(generated[s], levels[s])
  BY <1>4 DEF GeneratedInv
<1> DEFINE s == e.side
           map == generated[s]
           ls == levels[s]
<1>8. s \in Side /\ map \in [Price -> Quantity] /\ Tallies(map, ls) /\ SideOK(ls, s)
      /\ e.price \in 0 .. MaxPrice
  BY <1>2, <1>5, <1>7 DEF Event, BookOK
<1>9. Served(levels, e)
  BY <1>2, <1>8 DEF Served, Known, Tallies
<1>10. last_result'.error = "None" /\ levels' = Candidate(levels, e)
  BY <1>2, <1>4, <1>5, <1>9, StaysInBand
<1>11. generated_after(e) = LeftAt(map[e.price], e)
  BY DEF generated_after, LeftAt
<1>12. generated_after(e) \in Quantity
  <2>1. map[e.price] \in Quantity
    BY <1>2, <1>8
  <2> QED
    BY <1>2, <1>11, <2>1, LeftTyped
<1>13. generated' \in [Side -> [Price -> Quantity]]
  BY <1>1, <1>2, <1>7, <1>8, <1>12
<1>14. Tallies([map EXCEPT ![e.price] = LeftAt(map[e.price], e)], Cpp!changed_side(ls, e).levels)
  <2>1. CASE Known(levels, e)
    <3>1. PICK k \in Cpp!Slot : Holds(ls, k, e.price)
      BY <2>1 DEF Known
    <3> HIDE DEF map, ls
    <3> QED
      BY <1>2, <1>8, <3>1, TallyHeld
  <2>2. CASE ~Known(levels, e)
    <3>1. PICK k \in 1 .. BookDepth + 1 : Place(ls, s, k, e.price)
      BY <1>8, <2>2, HeldOrPlaced DEF Known
    <3>2. e.type = "Add" /\ e.price \in PriceBand(e.side)
      BY <1>2, <1>9, <2>2 DEF Served
    <3>3. \A i \in Cpp!Slot : ls[i].quantity # 0 => ls[i].price_ticks \in PriceBand(s)
      BY <1>5, <1>8 DEF InBand
    <3> HIDE DEF map, ls
    <3> QED
      BY <1>2, <1>8, <3>1, <3>2, <3>3, TallyPlaced
  <2> QED
    BY <2>1, <2>2
<1>15. ASSUME NEW t \in Side PROVE Tallies(generated'[t], levels'[t])
  <2>1. CASE t = s
    <3>1. generated'[t] = [map EXCEPT ![e.price] = LeftAt(map[e.price], e)]
      BY <1>1, <1>7, <1>8, <1>11, <2>1
    <3>2. levels'[t] = Cpp!changed_side(ls, e).levels
      BY <1>5, <1>8, <1>10, <2>1 DEF Candidate, changed, BookOK
    <3> QED
      BY <1>14, <3>1, <3>2
  <2>2. CASE t # s
    <3>1. generated'[t] = generated[t]
      BY <1>1, <1>7, <1>8, <2>2
    <3>2. levels'[t] = levels[t]
      BY <1>5, <1>8, <1>10, <2>2 DEF Candidate, BookOK
    <3> QED
      BY <1>7, <3>1, <3>2
  <2> QED
    BY <2>1, <2>2
<1>16. GeneratedInv'
  BY <1>10, <1>13, <1>15 DEF GeneratedInv, Tallies, Holds
<1> QED
  BY <1>3, <1>6, <1>16 DEF Inv

(* A clock: no event outlasts the limit, and the last one is compared. *)
LEMMA TickStep ==
  ASSUME Inv, GeneratedInv, Tick
  PROVE  Inv' /\ GeneratedInv'
<1>1. /\ bench_pc = "wait" /\ source' = source /\ generated' = generated
      /\ levels' = levels /\ last_result' = last_result /\ UNCHANGED cppVars
      /\ Rtl!BusyClock
  BY DEF Tick, cppVars
<1>2. SourceInv' /\ GeneratedInv'
  BY <1>1 DEF Inv, SourceInv, GeneratedInv, InBand, Tallies, Holds
<1>3. CASE Rtl!Finish
  <2>1. /\ state = "FINISH" /\ state' = "IDLE"
        /\ current_event' = current_event /\ live' = live /\ work' = work
        /\ event_error' = event_error /\ order_flow_delta' = order_flow_delta
        /\ trade_flow_delta' = trade_flow_delta
        /\ operation_changes_book' = operation_changes_book
        /\ match_found' = match_found /\ insert_found' = insert_found
    BY <1>3 DEF Rtl!Finish, Rtl!search, Rtl!report
  <2>2. event_done'
    BY <1>3 DEF Rtl!Finish
  <2>3. bench_pc' = "compare"
    BY <2>2 DEF Tick
  <2>4. RtlInv'
    BY <1>1, <2>1 DEF Inv, RtlInv, Settled, flows_match
  <2>5. TypeOK' /\ BenchInv'
    BY <1>1, <2>1, <2>3 DEF Inv, TypeOK, BenchInv
  <2> QED
    BY <1>2, <2>4, <2>5 DEF Inv
<1>4. CASE ~Rtl!Finish
  <2>1. Clocked
    BY <1>1, <1>4, BusyStep DEF Inv
  <2>2. kCycleLimit \in Nat /\ ~event_done' /\ latency' < kCycleLimit
    BY <2>1, DifferentialAssumption DEF Clocked
  <2>3. latency' \in Nat
    BY <2>1, BookAssumption DEF Clocked, RtlInv, BusyStates, AtValidate, AtSearch, AtApply,
         AtShiftRight, AtRemove, AtCheckCross, AtCommit, Found, Rtl!Slot
  <2>4. bench_pc' = "wait"
    BY <2>2, <2>3 DEF Tick
  <2>5. TypeOK' /\ BenchInv'
    BY <1>1, <2>1, <2>4 DEF Inv, TypeOK, BenchInv, Clocked, BusyStates
  <2> QED
    BY <1>2, <2>1, <2>5 DEF Inv, Clocked
<1> QED
  BY <1>3, <1>4

(* Steps that leave the books, the reports and the event alone. *)
LEMMA QuietStep ==
  ASSUME Inv, GeneratedInv, state = "IDLE",
         UNCHANGED <<source, generated, cppVars, state, current_event, live, work, match_found,
                     insert_found, operation_changes_book, event_error, order_flow_delta,
                     trade_flow_delta>>,
         bench_pc' \in {"next_event", "compare", "failed"},
         bench_pc' = "failed" => event_error = "CrossedBook"
  PROVE  Inv' /\ GeneratedInv'
<1>1. levels' = levels /\ last_result' = last_result
  BY DEF cppVars
<1>2. SourceInv' /\ GeneratedInv'
  BY <1>1 DEF Inv, SourceInv, GeneratedInv, InBand, Tallies, Holds
<1>3. RtlInv'
  BY <1>1 DEF Inv, RtlInv, Settled, flows_match
<1>4. TypeOK' /\ BenchInv'
  BY <1>1 DEF Inv, TypeOK, BenchInv
<1> QED
  BY <1>2, <1>3, <1>4 DEF Inv

(* A mismatch that compare() finds is a crossing event. *)
LEMMA CompareFails ==
  ASSUME Inv, state = "IDLE"
  PROVE  levels_match /\ (~compare => event_error = "CrossedBook" /\ last_result.error = "CrossedBook")
<1>1. Settled
  BY DEF Inv, RtlInv
<1>2. levels_match
  BY <1>1 DEF Settled, levels_match, Mirror
<1> QED
  BY <1>1, <1>2 DEF Settled, compare

(* Two empty books satisfy the invariant ... *)
LEMMA InvInitial ==
  Init => Inv /\ GeneratedInv
<1> SUFFICES ASSUME Init PROVE Inv /\ GeneratedInv
  OBVIOUS
<1>1. /\ source \in {"bench", "generator", "any"} /\ bench_pc = "next_event"
      /\ generated = [s \in Side |-> [p \in Price |-> 0]]
      /\ levels = [s \in Side |-> [i \in Cpp!Slot |-> Cpp!Unused]]
      /\ last_result = NoFlow("None")
      /\ state = "IDLE" /\ current_event = NoEvent
      /\ live = [s \in Side |-> [i \in Rtl!Slot |-> Rtl!Unused]] /\ work = live
      /\ event_error = "None" /\ order_flow_delta = 0 /\ trade_flow_delta = 0
  BY DEF Init, Cpp!Init, Rtl!Reset, Cpp!Side, Rtl!Side, Side, Cpp!NoFlow, NoFlow,
         Rtl!NoEvent, NoEvent
<1>2. match_found = FALSE /\ insert_found = FALSE /\ operation_changes_book = FALSE
  BY DEF Init, Rtl!Reset
<1>3. BookDepth \in Nat /\ MaxPrice \in Nat /\ MaxQuantity \in Nat
  BY BookAssumption
<1>4. /\ Cpp!Unused = [price_ticks |-> 0, quantity |-> 0] /\ Rtl!Unused = Cpp!Unused
      /\ Cpp!Unused \in Level /\ NoEvent \in Event
  BY <1>3 DEF Cpp!Unused, Rtl!Unused, Level, Quantity, NoEvent, Event, EventType, Side
<1>5. TypeOK
  <2>1. match_found \in BOOLEAN /\ insert_found \in BOOLEAN /\ operation_changes_book \in BOOLEAN
    BY <1>2
  <2>2. live \in RegisterBook /\ levels \in [Side -> [Cpp!Slot -> Level]]
    BY <1>1, <1>4 DEF RegisterBook
  <2> QED
    BY <1>1, <1>4, <2>1, <2>2 DEF TypeOK
<1>6. levels = Mirror(live)
  <2>1. \A i \in Cpp!Slot : i - 1 \in Rtl!Slot
    BY <1>3 DEF Cpp!Slot, Rtl!Slot
  <2>2. \A s \in Side : [i \in Cpp!Slot |-> live[s][i - 1]] = [i \in Cpp!Slot |-> Cpp!Unused]
    BY <1>1, <1>4, <2>1
  <2> QED
    BY <1>1, <2>2 DEF Mirror
<1>7. \A s \in Side : \A i \in Cpp!Slot : levels[s][i].quantity = 0 /\ levels[s][i].price_ticks = 0
  BY <1>1, <1>4
<1>8. BookOK(levels)
  BY <1>1, <1>4, <1>7 DEF BookOK, SideOK, Spaced
<1>9. BenchInv
  BY <1>1, <1>6, <1>8 DEF BenchInv
<1>10. RtlInv
  BY <1>1, <1>6 DEF RtlInv, Settled, flows_match, NoFlow
<1>11. SourceInv
  BY <1>1, <1>7 DEF SourceInv, InBand, NoFlow
<1>12. GeneratedInv
  BY <1>1, <1>3, <1>7 DEF GeneratedInv, Tallies, NoFlow, Quantity
<1> QED
  BY <1>5, <1>9, <1>10, <1>11, <1>12 DEF Inv

(* ... and every step keeps it. *)
LEMMA InvStep ==
  Inv /\ GeneratedInv /\ [Next]_vars => Inv' /\ GeneratedInv'
<1> SUFFICES ASSUME Inv, GeneratedInv, [Next]_vars PROVE Inv' /\ GeneratedInv'
  OBVIOUS
<1>1. CASE DrawBench
  BY <1>1, DrawBenchStep
<1>2. CASE DrawGenerator
  BY <1>2, DrawGeneratorStep
<1>3. CASE DrawAny
  BY <1>3, DrawAnyStep
<1>4. CASE Tick
  BY <1>4, TickStep
<1>5. CASE Compare
  <2>1. state = "IDLE"
    BY <1>5 DEF Compare, Inv, BenchInv
  <2>2. /\ bench_pc' = IF compare THEN "next_event" ELSE "failed"
        /\ UNCHANGED <<source, generated, cppVars, state, current_event, live, work, match_found,
                       insert_found, operation_changes_book, event_error, order_flow_delta,
                       trade_flow_delta>>
    BY <1>5 DEF Compare, rtlVars
  <2> QED
    BY <2>1, <2>2, CompareFails, QuietStep
<1>6. CASE IdleTick
  <2>1. state = "IDLE" /\ bench_pc' = "next_event"
    BY <1>6 DEF IdleTick, Rtl!StayIdle, Rtl!in_ready
  <2>2. UNCHANGED <<source, generated, cppVars, state, current_event, live, work, match_found,
                    insert_found, operation_changes_book, event_error, order_flow_delta,
                    trade_flow_delta>>
    BY <1>6 DEF IdleTick, Rtl!StayIdle, Rtl!search, Rtl!report
  <2> QED
    BY <2>1, <2>2, QuietStep
<1>7. CASE GoOn
  <2>1. state = "IDLE" /\ bench_pc' = "next_event"
    BY <1>7 DEF GoOn, Inv, BenchInv
  <2>2. UNCHANGED <<source, generated, cppVars, state, current_event, live, work, match_found,
                    insert_found, operation_changes_book, event_error, order_flow_delta,
                    trade_flow_delta>>
    BY <1>7 DEF GoOn, rtlVars
  <2> QED
    BY <2>1, <2>2, QuietStep
<1>8. CASE UNCHANGED vars
  <2>1. UNCHANGED <<source, generated, bench_pc, levels, last_result, state, current_event, live,
                    work, scan_index, match_index, insert_index, shift_index, match_found,
                    insert_found, operation_changes_book, event_error, order_flow_delta,
                    trade_flow_delta, latency>>
    BY <1>8 DEF vars, cppVars, rtlVars
  <2>2. TypeOK' /\ BenchInv' /\ SourceInv' /\ GeneratedInv'
    BY <2>1 DEF Inv, TypeOK, BenchInv, SourceInv, GeneratedInv, InBand, Tallies, Holds
  <2>3. RtlInv'
    BY <2>1 DEF Inv, RtlInv, AtValidate, AtSearch, AtApply, AtShiftRight, AtRemove,
         AtCheckCross, AtCommit, Settled, Untouched, NoReport, FlowReport, Found, Scanned,
         flows_match
  <2> QED
    BY <2>2, <2>3 DEF Inv
<1> QED
  BY <1>1, <1>2, <1>3, <1>4, <1>5, <1>6, <1>7, <1>8 DEF Next

-----------------------------------------------------------------------------
(* The theorems. *)

(* Both books keep the form the other proofs rest on, whatever the events:  *)
(* used slots first, strictly ordered, in range, and the RTL's registers    *)
(* hold in each state what the C++ book's answer needs.                     *)
THEOREM BooksInvariant == Spec => [](Inv /\ GeneratedInv)
<1>1. Init => Inv /\ GeneratedInv
  BY InvInitial
<1>2. Inv /\ GeneratedInv /\ [Next]_vars => Inv' /\ GeneratedInv'
  BY InvStep
<1> QED
  BY <1>1, <1>2, PTL DEF Spec

(* compare() and the cycle limit of the bench fail on a crossing event      *)
(* only, and neither the bench nor the generator draws one.                 *)
THEOREM ReplayNeverDisagrees == Spec => []ReplayAgrees
<1>1. Inv => ReplayAgrees
  <2> SUFFICES ASSUME Inv, bench_pc = "failed"
               PROVE  source = "any" /\ last_result.error = "CrossedBook"
                      /\ event_error = "CrossedBook" /\ levels_match
    BY DEF ReplayAgrees
  <2>1. state = "IDLE" /\ event_error = "CrossedBook"
    BY DEF Inv, BenchInv
  <2>2. last_result.error = "CrossedBook"
    BY <2>1 DEF Inv, RtlInv, Settled
  <2>3. source = "any"
    BY <2>2 DEF Inv, SourceInv
  <2> QED
    BY <2>1, <2>2, <2>3, CompareFails
<1> QED
  BY <1>1, BooksInvariant, PTL

(* The book accepts every event of a generated file, of whatever length:    *)
(* nothing the generator's maps hold is ever dropped from the book.         *)
THEOREM GeneratedFilesAccepted == Spec => []GeneratedStreamAccepted
<1>1. Inv /\ GeneratedInv => GeneratedStreamAccepted
  <2> SUFFICES ASSUME Inv, GeneratedInv, source = "generator"
               PROVE  /\ last_result.error = "None"
                      /\ \A s \in Side : \A p \in Price :
                           (generated[s][p] > 0) <=> (p \in choose_level(s))
    BY DEF GeneratedStreamAccepted
  <2>1. last_result.error = "None" /\ \A s \in Side : Tallies(generated[s], levels[s])
    BY DEF GeneratedInv
  <2>2. ASSUME NEW s \in Side, NEW p \in Price, generated[s][p] > 0
        PROVE  p \in choose_level(s)
    BY <2>1, <2>2 DEF Tallies, Holds, choose_level
  <2>3. ASSUME NEW s \in Side, NEW p \in Price, p \in choose_level(s)
        PROVE  generated[s][p] > 0
    <3>1. PICK i \in Cpp!Slot : levels[s][i].quantity # 0 /\ levels[s][i].price_ticks = p
      BY <2>3 DEF choose_level
    <3>2. generated[s][p] = levels[s][i].quantity
      BY <2>1, <3>1 DEF Tallies
    <3>3. levels[s][i].quantity \in Quantity
      BY DEF Inv, TypeOK, Level
    <3> QED
      BY <3>1, <3>2, <3>3, BookAssumption DEF Quantity
  <2> QED
    BY <2>1, <2>2, <2>3
<1> QED
  BY <1>1, BooksInvariant, PTL

(* The microprice of whatever book is reached is the nearest tick to the    *)
(* weighted mean and between the best prices, if the sum fits its width.    *)
THEOREM MicropriceNearest == Spec => []MicropriceIsNearest
<1>1. Inv => MicropriceIsNearest
  <2> SUFFICES ASSUME Inv PROVE MicropriceIsNearest
    OBVIOUS
  <2>1. 1 \in Cpp!Slot /\ Level \subseteq [price_ticks : Nat, quantity : Nat]
    BY BookAssumption DEF Cpp!Slot, Level, Quantity
  <2>2. levels["Bid"][1] \in Level /\ levels["Ask"][1] \in Level
    BY <2>1 DEF Inv, TypeOK, Side
  <2> DEFINE bid == levels["Bid"][1]
             ask == levels["Ask"][1]
  <2>3. /\ bid \in [price_ticks : Nat, quantity : Nat]
        /\ ask \in [price_ticks : Nat, quantity : Nat]
    BY <2>1, <2>2
  <2> HIDE DEF bid, ask
  <2>4. bid.quantity > 0 /\ ask.quantity > 0 /\ Representable(weighted_price(bid, ask)) =>
          LET micro == microprice_ticks(bid, ask)
              total == bid.quantity + ask.quantity
          IN /\ \/ bid.price_ticks <= micro /\ micro <= ask.price_ticks
                \/ ask.price_ticks <= micro /\ micro <= bid.price_ticks
             /\ 2 * magnitude(micro * total - weighted_price(bid, ask)) <= total
    BY <2>3, NearestMicroprice
  <2> QED
    BY <2>4 DEF MicropriceIsNearest, bid, ask
<1> QED
  BY <1>1, BooksInvariant, PTL
=============================================================================
