--------------------------- MODULE OrderBook_proofs ---------------------------
(***************************************************************************)
(* Proofs about OrderBook.  Operators on the book are described by Facts   *)
(* lemmas (what they return) and Shrinks lemmas (they only take orders out *)
(* of the slots); Enqueue is the one that puts an order in.  The inductive *)
(* invariant BookInv says that resting orders are where they say (Tidy,    *)
(* Fit), and that the order being matched is not resting yet unless it is  *)
(* being moved (TakerInv).  VolumeInv adds that the cached volumes cover    *)
(* what rests and that what is indexed rests; the sums are changed one      *)
(* element at a time, by a least counterexample over the size of the set.   *)
(***************************************************************************)
EXTENDS OrderBook, TLAPS, FiniteSetTheorems, WellFoundedInduction

\* Every nonempty set of naturals has a least element, and a greatest one if
\* it is bounded.
LEMMA MinNat ==
  ASSUME NEW S \in SUBSET Nat, S # {}
  PROVE  Min(S) \in S /\ \A y \in S : Min(S) <= y
<1>1. PICK x \in S : \A y \in S : ~ (<<y, x>> \in OpToRel(<, Nat))
  BY NatLessThanWellFounded, WFMin
<1>2. \A y \in S : ~ (y < x)
  BY <1>1, Zenon DEF OpToRel
<1>3. \A y \in S : x <= y
  BY <1>2
<1>4. QED
  BY <1>3 DEF Min

LEMMA MaxNat ==
  ASSUME NEW N \in Nat, NEW S \in SUBSET (1 .. N), S # {}
  PROVE  Max(S) \in S /\ \A y \in S : Max(S) >= y
<1> DEFINE T == {N - x : x \in S}
<1>1. \A x \in S : x \in Nat /\ N - x \in Nat
  OBVIOUS
<1>2. T \in SUBSET Nat /\ T # {}
  BY <1>1
<1>3. PICK x \in S : N - x = Min(T)
  BY <1>2, MinNat
<1>4. \A y \in S : N - x <= N - y
  BY <1>2, <1>3, MinNat
<1>5. \A y \in S : x >= y
  BY <1>1, <1>4
<1>6. QED
  BY <1>5 DEF Max

LEMMA SlotType ==
  ASSUME NEW trader \in Nat, NEW size \in Nat
  PROVE  determineSlot(trader, size) \in Slots
<1> USE BookAssumption
<1>1. trader % RetailSlots \in 0 .. RetailSlots - 1
  OBVIOUS
<1>2. QED
  BY <1>1 DEF determineSlot, Slots

\* What RemoveFirst does to a sequence without repetitions.
Distinct(q) == \A i, j \in DOMAIN q : q[i] = q[j] => i = j

LEMMA RemoveFirstFacts ==
  ASSUME NEW S, NEW q \in Seq(S), NEW e, Distinct(q)
  PROVE  LET r == RemoveFirst(q, e)
         IN  r \in Seq(S) /\ Distinct(r) /\ Range(r) = Range(q) \ {e}
<1> DEFINE r == RemoveFirst(q, e)
<1>1. CASE \E i \in 1 .. Len(q) : q[i] = e
  <2> DEFINE I == {i \in 1 .. Len(q) : q[i] = e}
  <2>1. I \in SUBSET Nat /\ I # {}
    BY <1>1
  <2>2. Min(I) \in I
    BY <2>1, MinNat
  <2> DEFINE n == Min(I)
  <2>3. r = RemoveAt(q, n)
    BY <1>1, <2>1 DEF RemoveFirst, SelectInSeq
  <2>4. n \in 1 .. Len(q) /\ q[n] = e
    BY <2>2
  <2> HIDE DEF n, I
  <2>5. r = SubSeq(q, 1, n - 1) \o SubSeq(q, n + 1, Len(q))
    BY <2>3 DEF RemoveAt
  <2>6. /\ r \in Seq(S)
        /\ Len(r) = Len(q) - 1
        /\ \A i \in 1 .. Len(r) : r[i] = IF i < n THEN q[i] ELSE q[i + 1]
    <3> DEFINE A == SubSeq(q, 1, n - 1)
               B == SubSeq(q, n + 1, Len(q))
    <3>1. A \in Seq(S) /\ Len(A) = n - 1 /\ \A i \in 1 .. n - 1 : A[i] = q[i]
      BY <2>4
    <3>2. B \in Seq(S) /\ Len(B) = Len(q) - n /\ \A i \in 1 .. Len(q) - n : B[i] = q[n + i]
      BY <2>4
    <3> HIDE DEF A, B, r
    <3>3. r = A \o B
      BY <2>5 DEF A, B
    <3>4. r \in Seq(S) /\ Len(r) = Len(q) - 1
      BY <2>4, <3>1, <3>2, <3>3
    <3>5. ASSUME NEW i \in 1 .. Len(r)
          PROVE  r[i] = IF i < n THEN q[i] ELSE q[i + 1]
      <4>1. CASE i < n
        BY <2>4, <3>1, <3>2, <3>3, <3>4, <4>1
      <4>2. CASE i >= n
        <5>1. i - (n - 1) \in 1 .. Len(q) - n /\ r[i] = B[i - (n - 1)]
          BY <2>4, <3>1, <3>2, <3>3, <3>4, <4>2
        <5>2. QED
          BY <2>4, <3>2, <4>2, <5>1
      <4>3. QED
        BY <2>4, <4>1, <4>2
    <3>6. QED
      BY <3>4, <3>5
  <2> HIDE DEF r
  <2>7. Distinct(r)
    <3> SUFFICES ASSUME NEW i \in 1 .. Len(r), NEW j \in 1 .. Len(r), r[i] = r[j]
                 PROVE  i = j
      BY <2>6 DEF Distinct
    <3> DEFINE From(m) == IF m < n THEN m ELSE m + 1
    <3>1. \A m \in 1 .. Len(r) : From(m) \in 1 .. Len(q) /\ r[m] = q[From(m)]
      BY <2>4, <2>6
    <3>2. From(i) = From(j)
      BY <3>1 DEF Distinct
    <3>3. QED
      BY <2>4, <3>2
  <2>8. Range(r) \subseteq Range(q) \ {e}
    BY <2>4, <2>6 DEF Distinct, Range
  <2>9. ASSUME NEW j \in 1 .. Len(q), q[j] # e
        PROVE  \E i \in 1 .. Len(r) : r[i] = q[j]
    <3>1. CASE j < n
      BY <2>4, <2>6, <3>1
    <3>2. CASE j > n
      <4>1. j - 1 \in 1 .. Len(r) /\ r[j - 1] = q[j]
        BY <2>4, <2>6, <3>2
      <4>2. QED
        BY <4>1
    <3>3. QED
      BY <2>4, <2>9, <3>1, <3>2
  <2>10. Range(q) \ {e} \subseteq Range(r)
    BY <2>6, <2>9 DEF Range
  <2>11. QED
    BY <2>6, <2>7, <2>8, <2>10 DEF r
<1>2. CASE ~ \E i \in 1 .. Len(q) : q[i] = e
  <2>1. r = q
    BY <1>2 DEF RemoveFirst
  <2>2. e \notin Range(q)
    BY <1>2 DEF Range
  <2>3. QED
    BY <2>1, <2>2
<1>3. QED
  BY <1>1, <1>2

-------------------------------------------------------------------------------
(* The operators on the book: that they return books, and what they leave  *)
(* in the slots and levels.                                                *)

LEMMA KeyParts ==
  ASSUME NEW k \in Keys
  PROVE  /\ k[1] \in Sides /\ k[2] \in Prices /\ k[3] \in Slots
         /\ <<k[1], k[2]>> \in Levels
         /\ k = <<k[1], k[2], k[3]>>
BY DEF Keys, Levels

LEMMA FirstType ==
  ASSUME NEW side, NEW prices \in SUBSET Prices
  PROVE  First(side, prices) \in 0 .. MaxPrice
<1> USE BookAssumption
<1>1. CASE prices = {}
  BY <1>1 DEF First
<1>2. CASE prices # {}
  <2>1. Min(prices) \in prices
    BY <1>2, MinNat DEF Prices
  <2>2. Max(prices) \in prices
    BY <1>2, MaxNat DEF Prices
  <2>3. \A x \in prices : x \in 0 .. MaxPrice
    BY DEF Prices
  <2>4. QED
    BY <1>2, <2>1, <2>2, <2>3 DEF First
<1>3. QED
  BY <1>1, <1>2

LEMMA RemainingType ==
  ASSUME NEW o \in Orders
  PROVE  RemainingSize(o) \in Nat /\ (RemainingSize(o) = 0 <=> IsFilled(o))
BY DEF RemainingSize, IsFilled, Orders

LEMMA TraderType ==
  ASSUME NEW o \in Orders
  PROVE  o.trader \in Nat
<1>1. o.trader \in Traders \cup {0}
  BY DEF Orders
<1>2. Traders \cup {0} \subseteq Nat
  BY BookAssumption
<1>3. QED
  BY <1>1, <1>2

LEMMA EnqueueFacts ==
  ASSUME NEW b \in Books, NEW id \in Ids, NEW o \in Orders, o.price \in Prices
  PROVE  LET n == Enqueue(b, id, o)
         IN  /\ Key(o) \in Keys
             /\ n \in Books
             /\ n.levels = b.levels
             /\ n.queue = [b.queue EXCEPT ![Key(o)] = Append(@, id)]
<1>1. Key(o) \in Keys /\ <<o.side, o.price>> \in Levels
  BY DEF Key, Keys, Levels, Orders
<1>2. RemainingSize(o) \in Nat
  BY RemainingType
<1>3. /\ [b.queue EXCEPT ![Key(o)] = Append(@, id)] \in [Keys -> Seq(Ids)]
      /\ [b.volume EXCEPT ![Key(o)] = @ + RemainingSize(o)] \in [Keys -> Nat]
      /\ [b.total EXCEPT ![<<o.side, o.price>>] = @ + RemainingSize(o)] \in [Levels -> Nat]
  BY <1>1, <1>2 DEF Books
<1>4. QED
  BY <1>1, <1>3 DEF Enqueue, Books

LEMMA ReduceFacts ==
  ASSUME NEW b \in Books, NEW k \in Keys, NEW m \in Nat
  PROVE  LET n == Reduce(b, k, m)
         IN  n \in Books /\ n.levels = b.levels /\ n.queue = b.queue
<1>1. /\ [b.volume EXCEPT ![k] = safeSubtract(@, m)] \in [Keys -> Nat]
      /\ [b.total EXCEPT ![<<k[1], k[2]>>] = safeSubtract(@, m)] \in [Levels -> Nat]
  BY KeyParts DEF Books, safeSubtract
<1>2. QED
  BY <1>1 DEF Reduce, Books

LEMMA UnqueueFacts ==
  ASSUME NEW b \in Books, NEW k \in Keys, NEW id, Distinct(b.queue[k])
  PROVE  LET n == Unqueue(b, k, id)
         IN  /\ n \in Books
             /\ n.levels = b.levels
             /\ n.queue = [b.queue EXCEPT ![k] = RemoveFirst(b.queue[k], id)]
<1>1. b.queue[k] \in Seq(Ids)
  BY DEF Books
<1>2. RemoveFirst(b.queue[k], id) \in Seq(Ids)
  BY <1>1, RemoveFirstFacts
<1> DEFINE q == RemoveFirst(b.queue[k], id)
<1> HIDE DEF q
<1>3. /\ [b.queue EXCEPT ![k] = q] \in [Keys -> Seq(Ids)]
      /\ [b.volume EXCEPT ![k] = IF q = <<>> THEN 0 ELSE @] \in [Keys -> Nat]
  BY <1>2 DEF Books, q
<1>4. QED
  BY <1>3 DEF Unqueue, Books, q

LEMMA AddLevelFacts ==
  ASSUME NEW b \in Books, NEW side \in Sides, NEW price \in Prices
  PROVE  LET n == AddLevel(b, side, price)
         IN  /\ n \in Books
             /\ n.levels = [b.levels EXCEPT ![side] = @ \cup {price}]
             /\ n.queue = b.queue
<1>1. [b.levels EXCEPT ![side] = @ \cup {price}] \in [Sides -> SUBSET Prices]
  BY DEF Books
<1>2. QED
  BY <1>1 DEF AddLevel, Books

LEMMA DropLevelFacts ==
  ASSUME NEW b \in Books, NEW side \in Sides, NEW price \in Prices
  PROVE  LET n == DropLevel(b, side, price)
         IN  /\ n \in Books
             /\ n.levels = [b.levels EXCEPT ![side] = @ \ {price}]
             /\ n.queue = [k \in Keys |-> IF <<k[1], k[2]>> = <<side, price>>
                                          THEN <<>> ELSE b.queue[k]]
<1> DEFINE L == [b.levels EXCEPT ![side] = @ \ {price}]
           Q == [k \in Keys |-> IF <<k[1], k[2]>> = <<side, price>> THEN <<>> ELSE b.queue[k]]
           V == [k \in Keys |-> IF <<k[1], k[2]>> = <<side, price>> THEN 0 ELSE b.volume[k]]
           T == [b.total EXCEPT ![<<side, price>>] = 0]
<1>1. L \in [Sides -> SUBSET Prices] /\ Q \in [Keys -> Seq(Ids)] /\ V \in [Keys -> Nat]
  BY DEF Books
<1>2. T \in [Levels -> Nat]
  BY DEF Books
<1>3. DropLevel(b, side, price) =
        [b EXCEPT !.levels = L, !.queue = Q, !.volume = V, !.total = T]
  BY DEF DropLevel, Books
<1> HIDE DEF L, Q, V, T
<1>4. /\ DropLevel(b, side, price) \in Books
      /\ DropLevel(b, side, price).levels = L
      /\ DropLevel(b, side, price).queue = Q
  BY <1>1, <1>2, <1>3 DEF Books
<1>5. QED
  BY <1>4 DEF L, Q

LEMMA UpdateFacts ==
  ASSUME NEW b \in Books
  PROVE  LET n == updateBestPrices(b)
         IN  n \in Books /\ n.levels = b.levels /\ n.queue = b.queue
<1>1. /\ [s \in Sides |-> First(s, b.cache[s])] \in [Sides -> 0 .. MaxPrice]
      /\ [s \in Sides |-> First(s, b.levels[s])] \in [Sides -> 0 .. MaxPrice]
  BY FirstType DEF Books
<1>2. QED
  BY <1>1 DEF updateBestPrices, Books

LEMMA NewLevelFacts ==
  ASSUME NEW b \in Books, NEW kind, NEW side \in Sides, NEW price \in Prices
  PROVE  LET n == NewLevel(b, kind, side, price)
         IN  /\ n \in Books
             /\ n.levels = [b.levels EXCEPT ![side] = @ \cup {price}]
             /\ n.queue = b.queue
<1> DEFINE a == AddLevel(b, side, price)
<1>1. /\ a \in Books
      /\ a.levels = [b.levels EXCEPT ![side] = @ \cup {price}]
      /\ a.queue = b.queue
  BY AddLevelFacts
<1>2. price \in 0 .. MaxPrice
  BY BookAssumption DEF Prices
<1> HIDE DEF a
<1>3. /\ [a EXCEPT !.dirty = TRUE] \in Books
      /\ [a EXCEPT !.dirty = TRUE].levels = a.levels
      /\ [a EXCEPT !.dirty = TRUE].queue = a.queue
  BY <1>1 DEF Books
<1>4. /\ [a EXCEPT !.best[side] = price] \in Books
      /\ [a EXCEPT !.best[side] = price].levels = a.levels
      /\ [a EXCEPT !.best[side] = price].queue = a.queue
  BY <1>1, <1>2 DEF Books
<1>5. \/ NewLevel(b, kind, side, price) = a
      \/ NewLevel(b, kind, side, price) = [a EXCEPT !.dirty = TRUE]
      \/ NewLevel(b, kind, side, price) = [a EXCEPT !.best[side] = price]
  BY DEF NewLevel, a
<1>6. QED
  BY <1>1, <1>3, <1>4, <1>5

-------------------------------------------------------------------------------
(* What the steps preserve.                                                *)

\* Only levels of the book hold orders, each at most once in a slot.
Tidy(b) ==
  \A k \in Keys : /\ Distinct(b.queue[k])
                  /\ b.queue[k] # <<>> => k[2] \in b.levels[k[1]]

\* Orders rest where they say, indexed unless filled, and are not overfilled.
Fit(b, o, ix, u) ==
  \A k \in Keys : \A id \in Range(b.queue[k]) :
    /\ id \in u
    /\ Key(o[id]) = k
    /\ RemainingSize(o[id]) > 0 => id \in ix
    /\ o[id].filled <= o[id].size

Shrunk(b, n) ==
  /\ n \in Books
  /\ Tidy(n)
  /\ \A k \in Keys : Range(n.queue[k]) \subseteq Range(b.queue[k])

Absent(b, id) == \A k \in Keys : id \notin Range(b.queue[k])

LEMMA RangeOfEmpty ==
  ASSUME NEW S, NEW q \in Seq(S)
  PROVE  q = <<>> <=> Range(q) = {}
BY DEF Range

LEMMA ReduceShrinks ==
  ASSUME NEW b \in Books, Tidy(b), NEW k \in Keys, NEW m \in Nat
  PROVE  Shrunk(b, Reduce(b, k, m))
BY ReduceFacts DEF Shrunk, Tidy

LEMMA UpdateShrinks ==
  ASSUME NEW b \in Books, Tidy(b)
  PROVE  Shrunk(b, updateBestPrices(b))
BY UpdateFacts DEF Shrunk, Tidy

LEMMA AddLevelShrinks ==
  ASSUME NEW b \in Books, Tidy(b), NEW side \in Sides, NEW price \in Prices
  PROVE  /\ Shrunk(b, AddLevel(b, side, price))
         /\ price \in AddLevel(b, side, price).levels[side]
<1> DEFINE n == AddLevel(b, side, price)
<1>1. /\ n \in Books
      /\ n.levels = [b.levels EXCEPT ![side] = @ \cup {price}]
      /\ n.queue = b.queue
  BY AddLevelFacts
<1>2. b.levels \in [Sides -> SUBSET Prices]
  BY DEF Books
<1> HIDE DEF n
<1>3. price \in n.levels[side] /\ \A s \in Sides : b.levels[s] \subseteq n.levels[s]
  BY <1>1, <1>2
<1>4. Shrunk(b, n)
  BY <1>1, <1>3, KeyParts DEF Shrunk, Tidy
<1>5. QED
  BY <1>3, <1>4 DEF n

LEMMA NewLevelShrinks ==
  ASSUME NEW b \in Books, Tidy(b), NEW kind, NEW side \in Sides, NEW price \in Prices
  PROVE  /\ Shrunk(b, NewLevel(b, kind, side, price))
         /\ price \in NewLevel(b, kind, side, price).levels[side]
<1> DEFINE n == NewLevel(b, kind, side, price)
<1>1. /\ n \in Books
      /\ n.levels = [b.levels EXCEPT ![side] = @ \cup {price}]
      /\ n.queue = b.queue
  BY NewLevelFacts
<1>2. b.levels \in [Sides -> SUBSET Prices]
  BY DEF Books
<1> HIDE DEF n
<1>3. price \in n.levels[side] /\ \A s \in Sides : b.levels[s] \subseteq n.levels[s]
  BY <1>1, <1>2
<1>4. Shrunk(b, n)
  BY <1>1, <1>3, KeyParts DEF Shrunk, Tidy
<1>5. QED
  BY <1>3, <1>4 DEF n

LEMMA UnqueueShrinks ==
  ASSUME NEW b \in Books, Tidy(b), NEW k \in Keys, NEW id
  PROVE  Shrunk(b, Unqueue(b, k, id)) /\ id \notin Range(Unqueue(b, k, id).queue[k])
<1> DEFINE n == Unqueue(b, k, id)
           q == RemoveFirst(b.queue[k], id)
<1>1. Distinct(b.queue[k]) /\ b.queue \in [Keys -> Seq(Ids)] /\ b.queue[k] \in Seq(Ids)
  BY DEF Tidy, Books
<1>2. q \in Seq(Ids) /\ Distinct(q) /\ Range(q) = Range(b.queue[k]) \ {id}
  BY <1>1, RemoveFirstFacts
<1>3. n \in Books /\ n.levels = b.levels /\ n.queue = [b.queue EXCEPT ![k] = q]
  BY <1>1, UnqueueFacts
<1> HIDE DEF n, q
<1>4. b.queue[k] = <<>> => q = <<>>
  BY <1>1, <1>2, RangeOfEmpty
<1>5. \A j \in Keys : n.queue[j] = IF j = k THEN q ELSE b.queue[j]
  BY <1>1, <1>3
<1>6. Tidy(n)
  BY <1>2, <1>3, <1>4, <1>5 DEF Tidy
<1>7. QED
  BY <1>2, <1>3, <1>5, <1>6 DEF Shrunk, n

LEMMA DropLevelShrinks ==
  ASSUME NEW b \in Books, Tidy(b), NEW side \in Sides, NEW price \in Prices
  PROVE  Shrunk(b, DropLevel(b, side, price))
<1> DEFINE n == DropLevel(b, side, price)
<1>1. /\ n \in Books
      /\ n.levels = [b.levels EXCEPT ![side] = @ \ {price}]
      /\ n.queue = [k \in Keys |-> IF <<k[1], k[2]>> = <<side, price>>
                                   THEN <<>> ELSE b.queue[k]]
  BY DropLevelFacts
<1> HIDE DEF n
<1>2. ASSUME NEW k \in Keys
      PROVE  /\ Distinct(n.queue[k])
             /\ n.queue[k] # <<>> => k[2] \in n.levels[k[1]]
             /\ Range(n.queue[k]) \subseteq Range(b.queue[k])
  <2>1. CASE <<k[1], k[2]>> = <<side, price>>
    <3>1. n.queue[k] = <<>>
      BY <1>1, <2>1
    <3>2. QED
      BY <3>1 DEF Distinct, Range
  <2>2. CASE <<k[1], k[2]>> # <<side, price>>
    <3>1. n.queue[k] = b.queue[k]
      BY <1>1, <2>2
    <3>2. k[2] \in b.levels[k[1]] => k[2] \in n.levels[k[1]]
      BY <1>1, <2>2, KeyParts DEF Books
    <3>3. QED
      BY <3>1, <3>2 DEF Tidy
  <2>3. QED
    BY <2>1, <2>2
<1>3. QED
  BY <1>1, <1>2 DEF Shrunk, Tidy, n

LEMMA DropIfEmptyShrinks ==
  ASSUME NEW b \in Books, Tidy(b), NEW side \in Sides, NEW price \in Prices
  PROVE  Shrunk(b, DropIfEmpty(b, side, price))
<1> DEFINE d == DropLevel(b, side, price)
<1>1. Shrunk(b, d)
  BY DropLevelShrinks
<1>2. Shrunk(d, updateBestPrices(d))
  BY <1>1, UpdateShrinks DEF Shrunk
<1>3. Shrunk(b, b)
  BY DEF Shrunk
<1> HIDE DEF d
<1>4. DropIfEmpty(b, side, price) = b \/ DropIfEmpty(b, side, price) = updateBestPrices(d)
  BY DEF DropIfEmpty, d
<1>5. QED
  BY <1>1, <1>2, <1>3, <1>4 DEF Shrunk

LEMMA EnqueueTidy ==
  ASSUME NEW b \in Books, Tidy(b), NEW id \in Ids, NEW o \in Orders,
         o.price \in b.levels[o.side], id \notin Range(b.queue[Key(o)])
  PROVE  LET n == Enqueue(b, id, o)
         IN  /\ n \in Books
             /\ Tidy(n)
             /\ \A k \in Keys : Range(n.queue[k]) =
                  IF k = Key(o) THEN Range(b.queue[k]) \cup {id} ELSE Range(b.queue[k])
<1> DEFINE n == Enqueue(b, id, o)
           q == b.queue[Key(o)]
<1>1. o.price \in Prices
  BY DEF Books, Orders
<1>2. /\ Key(o) \in Keys
      /\ n \in Books
      /\ n.levels = b.levels
      /\ n.queue = [b.queue EXCEPT ![Key(o)] = Append(q, id)]
  BY <1>1, EnqueueFacts
<1>3. q \in Seq(Ids) /\ Distinct(q) /\ b.queue \in [Keys -> Seq(Ids)]
  BY <1>2 DEF Books, Tidy
<1> HIDE DEF n, q
<1>4. /\ DOMAIN Append(q, id) = 1 .. Len(q) + 1
      /\ DOMAIN q = 1 .. Len(q)
      /\ \A i \in 1 .. Len(q) : Append(q, id)[i] = q[i]
      /\ Append(q, id)[Len(q) + 1] = id
      /\ Len(q) \in Nat
  BY <1>3
<1>5. \A i \in 1 .. Len(q) : q[i] # id
  BY <1>4 DEF Range, q
<1>6. Range(Append(q, id)) = Range(q) \cup {id}
  BY <1>4 DEF Range
<1>7. Distinct(Append(q, id))
  <2> DEFINE r == Append(q, id)
             N == Len(q)
  <2> HIDE DEF r, N
  <2>1. N \in Nat /\ DOMAIN r = 1 .. N + 1 /\ \A i \in 1 .. N : r[i] = q[i] /\ q[i] # id
    BY <1>4, <1>5 DEF r, N
  <2>2. r[N + 1] = id /\ \A i, j \in 1 .. N : q[i] = q[j] => i = j
    BY <1>3, <1>4 DEF r, N, Distinct
  <2>3. SUFFICES ASSUME NEW i \in 1 .. N + 1, NEW j \in 1 .. N + 1, r[i] = r[j]
                 PROVE  i = j
    BY <2>1 DEF Distinct, r
  <2>4. (i \in 1 .. N \/ i = N + 1) /\ (j \in 1 .. N \/ j = N + 1)
    BY <2>1
  <2>5. QED
    BY <2>1, <2>2, <2>3, <2>4
<1>8. \A k \in Keys : n.queue[k] = IF k = Key(o) THEN Append(q, id) ELSE b.queue[k]
  BY <1>2, <1>3
<1>9. Key(o)[1] = o.side /\ Key(o)[2] = o.price
  BY DEF Key
<1>10. Tidy(n)
  BY <1>2, <1>7, <1>8, <1>9 DEF Tidy
<1>11. QED
  BY <1>2, <1>6, <1>8, <1>10 DEF n, q

LEMMA UpdateAdds ==
  ASSUME NEW b \in Books, Tidy(b), NEW side \in Sides, NEW price \in Prices
  PROVE  LET n == updateBestPrices(AddLevel(b, side, price))
         IN  Shrunk(b, n) /\ price \in n.levels[side]
<1> DEFINE a == AddLevel(b, side, price)
<1>1. Shrunk(b, a) /\ price \in a.levels[side]
  BY AddLevelShrinks
<1>2. Shrunk(a, updateBestPrices(a)) /\ updateBestPrices(a).levels = a.levels
  BY <1>1, UpdateShrinks, UpdateFacts DEF Shrunk
<1> HIDE DEF a
<1>3. Shrunk(b, updateBestPrices(a)) /\ price \in updateBestPrices(a).levels[side]
  BY <1>1, <1>2 DEF Shrunk
<1>4. QED
  BY <1>3 DEF a

-------------------------------------------------------------------------------
(* Orders that leave.                                                      *)

\* An order that is gone from its place is gone from the book.
LEMMA GoneIsAbsent ==
  ASSUME NEW b \in Books, NEW o, NEW ix, NEW u, Fit(b, o, ix, u), NEW n, Shrunk(b, n),
         NEW id, id \notin Range(n.queue[Key(o[id])])
  PROVE  Absent(n, id)
BY DEF Fit, Shrunk, Absent

\* Reduced and unqueued, an order is absent.
LEMMA LeaveShrinks ==
  ASSUME NEW b \in Books, Tidy(b), NEW o, NEW ix, NEW u, Fit(b, o, ix, u),
         NEW id, Key(o[id]) \in Keys, NEW m \in Nat
  PROVE  LET n == Unqueue(Reduce(b, Key(o[id]), m), Key(o[id]), id)
         IN  Shrunk(b, n) /\ Absent(n, id)
<1> DEFINE r == Reduce(b, Key(o[id]), m)
           n == Unqueue(r, Key(o[id]), id)
<1>1. Shrunk(b, r)
  BY ReduceShrinks
<1>2. Shrunk(r, n) /\ id \notin Range(n.queue[Key(o[id])])
  BY <1>1, UnqueueShrinks DEF Shrunk
<1> HIDE DEF r, n
<1>3. Shrunk(b, n)
  BY <1>1, <1>2 DEF Shrunk
<1>4. Absent(n, id)
  BY <1>2, <1>3, GoneIsAbsent
<1>5. QED
  BY <1>3, <1>4 DEF r, n

\* Nothing that was absent comes back.
LEMMA ShrunkTrans ==
  ASSUME NEW b, NEW n, NEW m, Shrunk(b, n), Shrunk(n, m)
  PROVE  Shrunk(b, m) /\ \A id : Absent(n, id) => Absent(m, id)
BY DEF Shrunk, Absent

LEMMA CancelledShrinks ==
  ASSUME TypeOK, Tidy(book), Fit(book, order, index, used),
         NEW id \in Ids, Key(order[id]) \in Keys
  PROVE  Shrunk(book, Cancelled(book, id)) /\ Absent(Cancelled(book, id), id)
<1> DEFINE o == order[id]
           r == IF id \in Range(book.queue[Key(o)]) THEN Reduce(book, Key(o), RemainingSize(o))
                ELSE book
           n == Unqueue(r, Key(o), id)
           d == DropIfEmpty(n, o.side, o.price)
<1>1. book \in Books /\ o \in Orders /\ RemainingSize(o) \in Nat
  BY RemainingType DEF TypeOK
<1>2. o.side \in Sides /\ o.price \in Prices /\ Key(o)[1] = o.side /\ Key(o)[2] = o.price
  BY KeyParts DEF Key
<1>3. Shrunk(book, book)
  BY <1>1 DEF Shrunk
<1>4. Shrunk(book, r)
  BY <1>1, <1>3, ReduceShrinks
<1>5. Shrunk(r, n) /\ id \notin Range(n.queue[Key(o)])
  BY <1>4, UnqueueShrinks DEF Shrunk
<1>6. Shrunk(book, n)
  BY <1>4, <1>5 DEF Shrunk
<1>7. Absent(n, id)
  BY <1>1, <1>5, <1>6, GoneIsAbsent
<1>8. Shrunk(n, d)
  BY <1>2, <1>6, DropIfEmptyShrinks DEF Shrunk
<1>9. Shrunk(book, d) /\ Absent(d, id)
  BY <1>6, <1>7, <1>8, ShrunkTrans
<1>10. CASE o.price \in book.levels[o.side]
  BY <1>9, <1>10 DEF Cancelled
<1>11. CASE o.price \notin book.levels[o.side]
  <2>1. Cancelled(book, id) = book
    BY <1>11 DEF Cancelled
  <2>2. book.queue[Key(o)] = <<>>
    BY <1>2, <1>11 DEF Tidy
  <2>3. id \notin Range(book.queue[Key(o)])
    BY <2>2 DEF Range
  <2>4. Absent(book, id)
    BY <1>1, <1>3, <2>3, GoneIsAbsent
  <2>5. QED
    BY <1>3, <2>1, <2>4
<1>12. QED
  BY <1>10, <1>11

LEMMA DepartedShrinks ==
  ASSUME TypeOK, Tidy(book), Fit(book, order, index, used),
         NEW id \in Ids, Key(order[id]) \in Keys
  PROVE  Shrunk(book, Departed(id)) /\ Absent(Departed(id), id)
<1> DEFINE o == order[id]
           n == Unqueue(Reduce(book, Key(o), RemainingSize(o)), Key(o), id)
<1>1. book \in Books /\ o \in Orders /\ RemainingSize(o) \in Nat
  BY RemainingType DEF TypeOK
<1>2. o.side \in Sides /\ o.price \in Prices
  BY KeyParts DEF Key
<1>3. Shrunk(book, n) /\ Absent(n, id)
  BY <1>1, LeaveShrinks
<1> HIDE DEF n
<1>4. Shrunk(n, DropIfEmpty(n, o.side, o.price))
  BY <1>2, <1>3, DropIfEmptyShrinks DEF Shrunk
<1>5. QED
  BY <1>3, <1>4, ShrunkTrans DEF Departed, n

\* Orders stay fit as others leave and are forgotten.
LEMMA FitForgotten ==
  ASSUME NEW b, NEW o \in [Ids -> Orders], NEW ix, NEW u, Fit(b, o, ix, u),
         NEW n, Shrunk(b, n), NEW id, Absent(n, id)
  PROVE  Fit(n, [o EXCEPT ![id] = NoOrder], ix \ {id}, u)
<1>1. ASSUME NEW k \in Keys, NEW i \in Range(n.queue[k])
      PROVE  i # id /\ i \in Range(b.queue[k]) /\ i \in Ids
  <2>1. n.queue[k] \in Seq(Ids) /\ i \in Range(n.queue[k])
    BY DEF Shrunk, Books
  <2>2. i \in Ids
    BY <2>1 DEF Range
  <2>3. QED
    BY <2>1, <2>2 DEF Absent, Shrunk
<1>2. QED
  BY <1>1 DEF Fit

LEMMA FitShrunk ==
  ASSUME NEW b, NEW o, NEW ix, NEW u, Fit(b, o, ix, u), NEW n, Shrunk(b, n)
  PROVE  Fit(n, o, ix, u)
BY DEF Fit, Shrunk

-------------------------------------------------------------------------------
(* The invariant and its steps.                                            *)

\* Indexed orders have a price a limit order may have.
IndexInv == \A id \in index : id \in used /\ order[id].price \in Prices

\* The order of a call that matches: it is in use, and unless it is being
\* moved it neither rests nor is it indexed yet.
TakerInv ==
  /\ call \in CallStates =>
       /\ call.id \in used
       /\ call.kind # "move" => call.id \notin index /\ Absent(book, call.id)
       /\ call.kind # "market" => order[call.id].price \in Prices
       /\ call.pc = "level" => call.price \in Prices

BookInv ==
  /\ TypeOK
  /\ Tidy(book)
  /\ Fit(book, order, index, used)
  /\ IndexInv
  /\ TakerInv

LEMMA KeyType ==
  ASSUME NEW o \in Orders, o.price \in Prices
  PROVE  Key(o) \in Keys
BY DEF Orders, Key, Keys

LEMMA NoOrderType == NoOrder \in Orders
BY BookAssumption DEF NoOrder, Orders, Sides, Slots

LEMMA IdleTypes ==
  /\ Idle \notin CallStates /\ Between \notin CallStates
  /\ Idle.kind = "none" /\ Between.kind = "between"
BY DEF Idle, Between, CallStates

LEMMA BookInit == Init => BookInv
<1> SUFFICES ASSUME Init PROVE BookInv
  OBVIOUS
<1> USE DEF Init
<1>1. book \in Books
  <2>1. 0 \in 0 .. MaxPrice
    BY BookAssumption
  <2>2. QED
    BY <2>1 DEF Books
<1>2. \A k \in Keys : book.queue[k] = <<>> /\ Range(book.queue[k]) = {}
  BY DEF Range
<1>3. TypeOK
  BY <1>1, NoOrderType, BookAssumption DEF TypeOK
<1>4. Tidy(book) /\ Fit(book, order, index, used)
  BY <1>2 DEF Tidy, Fit, Distinct
<1>5. IndexInv /\ TakerInv
  BY IdleTypes DEF IndexInv, TakerInv
<1>6. QED
  BY <1>3, <1>4, <1>5 DEF BookInv

\* An order that is given out now neither rests nor is it indexed.
LEMMA AcceptInv ==
  ASSUME BookInv, NEW kind \in {"limit", "batch", "market"},
         NEW id, NEW t \in Traders, NEW s \in Sides, NEW p \in 0 .. MaxPrice + 1,
         NEW z \in Sizes, kind # "market" => p \in Prices,
         Accept(kind, id, t, s, p, z), calls' \in 0 .. MaxCalls
  PROVE  BookInv'
<1> DEFINE o == [trader |-> t, price |-> p, size |-> z, filled |-> 0,
                 side |-> s, slot |-> determineSlot(t, z)]
<1>1. /\ id \in Ids /\ id \notin used
      /\ used' = used \cup {id}
      /\ order' = [order EXCEPT ![id] = o]
      /\ call' = Matching(kind, id)
      /\ book' = book /\ index' = index /\ sweep' = sweep
  BY DEF Accept
<1>2. o \in Orders /\ o.price = p
  BY SlotType, BookAssumption DEF Orders
<1>3. call' \in CallStates /\ call'.id = id /\ call'.kind = kind /\ call'.pc = "choose"
  BY <1>1, BookAssumption DEF Matching, CallStates
<1> HIDE DEF o
<1>4. TypeOK'
  BY <1>1, <1>2, <1>3 DEF BookInv, TypeOK
<1>5. Absent(book, id) /\ id \notin index
  BY <1>1 DEF BookInv, Fit, Absent, IndexInv
<1>6. Fit(book, order', index, used')
  <2>1. ASSUME NEW k \in Keys, NEW i \in Range(book.queue[k])
        PROVE  i \in used /\ order'[i] = order[i]
    BY <1>1 DEF BookInv, Fit
  <2>2. QED
    BY <1>1, <2>1 DEF BookInv, Fit
<1>7. IndexInv'
  BY <1>1, <1>5 DEF BookInv, IndexInv
<1>8. TakerInv'
  <2>1. order'[id] = o
    BY <1>1 DEF BookInv, TypeOK
  <2>2. Absent(book', id) /\ id \notin index' /\ id \in used'
    BY <1>1, <1>5
  <2>3. QED
    BY <1>2, <1>3, <2>1, <2>2 DEF TakerInv
<1>9. QED
  BY <1>1, <1>4, <1>6, <1>7, <1>8 DEF BookInv

LEMMA EnterCalls ==
  ASSUME TypeOK, NEW kind, Enter(kind)
  PROVE  calls' \in 0 .. MaxCalls /\ call = Idle
BY BookAssumption DEF Enter, TypeOK

LEMMA AddLimitOrderInv == ASSUME BookInv, AddLimitOrder PROVE BookInv'
<1>1. calls' \in 0 .. MaxCalls
  BY EnterCalls DEF AddLimitOrder, BookInv
<1>2. Prices \subseteq 0 .. MaxPrice + 1
  BY BookAssumption DEF Prices
<1>3. QED
  BY <1>1, <1>2, AcceptInv DEF AddLimitOrder

LEMMA BatchInv ==
  ASSUME BookInv, AddLimitOrderBatch \/ BatchNext \/ BatchEnd
  PROVE  BookInv'
<1>1. CASE AddLimitOrderBatch
  BY <1>1, EnterCalls, IdleTypes
  DEF AddLimitOrderBatch, BookInv, TypeOK, IndexInv, TakerInv
<1>2. CASE BatchNext
  <2>1. calls' \in 0 .. MaxCalls
    BY <1>2 DEF BatchNext, BookInv, TypeOK
  <2>2. Prices \subseteq 0 .. MaxPrice + 1
    BY BookAssumption DEF Prices
  <2>3. QED
    BY <1>2, <2>1, <2>2, AcceptInv DEF BatchNext
<1>3. CASE BatchEnd
  <2>1. Shrunk(book, book')
    BY <1>3, UpdateShrinks DEF BatchEnd, BookInv, TypeOK
  <2>2. TypeOK'
    BY <1>3, <2>1 DEF BatchEnd, BookInv, TypeOK, Shrunk
  <2>3. Tidy(book') /\ Fit(book', order, index, used)
    BY <2>1, FitShrunk DEF BookInv, Shrunk
  <2>4. QED
    BY <1>3, <2>2, <2>3, IdleTypes DEF BatchEnd, BookInv, IndexInv, TakerInv
<1>4. QED
  BY <1>1, <1>2, <1>3

LEMMA ExecuteMarketOrderInv == ASSUME BookInv, ExecuteMarketOrder PROVE BookInv'
<1>1. calls' \in 0 .. MaxCalls
  BY EnterCalls DEF ExecuteMarketOrder, BookInv
<1>2. 0 \in 0 .. MaxPrice + 1 /\ MaxPrice + 1 \in 0 .. MaxPrice + 1
  BY BookAssumption
<1>3. QED
  BY <1>1, <1>2, AcceptInv DEF ExecuteMarketOrder

-------------------------------------------------------------------------------
(* The steps of a call that matches.                                       *)

LEMMA Working ==
  ASSUME BookInv, NEW pc, At(pc)
  PROVE  /\ call \in CallStates /\ call.id \in Ids /\ Taker \in Orders
         /\ Taker.side \in Sides /\ Other \in Sides /\ Other # Taker.side
BY IdleTypes DEF BookInv, TypeOK, At, CallStates, Orders, Taker, Other, Opposite, Sides

LEMMA ChooseInv ==
  ASSUME BookInv, ChooseLevel \/ NoLevel
  PROVE  BookInv'
<1>1. At("choose")
  BY DEF ChooseLevel, NoLevel
<1>2. call \in CallStates /\ Other \in Sides /\ call.pc = "choose"
  BY <1>1, Working DEF At
<1>3. CASE ChooseLevel
  <2>1. book.best[Other] \in Prices /\ book.best[Other] \in 0 .. MaxPrice
    BY <1>2, <1>3 DEF ChooseLevel, CanMatch, BookInv, TypeOK, Books, Other, Taker
  <2>2. /\ call' \in CallStates /\ call'.id = call.id /\ call'.kind = call.kind
        /\ call'.price \in Prices
    BY <1>2, <1>3, <2>1 DEF ChooseLevel, CallStates
  <2>3. QED
    BY <1>2, <1>3, <2>2 DEF ChooseLevel, BookInv, TypeOK, IndexInv, TakerInv
<1>4. CASE NoLevel
  <2>1. /\ call' \in CallStates /\ call'.id = call.id /\ call'.kind = call.kind
        /\ call'.pc = "end"
    BY <1>2, <1>4 DEF NoLevel, CallStates
  <2>2. QED
    BY <1>2, <1>4, <2>1 DEF NoLevel, BookInv, TypeOK, IndexInv, TakerInv
<1>5. QED
  BY <1>3, <1>4

LEMMA LevelDoneInv == ASSUME BookInv, LevelDone PROVE BookInv'
<1>1. At("level")
  BY DEF LevelDone
<1>2. call \in CallStates /\ Other \in Sides /\ call.pc = "level" /\ call.price \in Prices
  BY <1>1, Working DEF At, BookInv, TakerInv
<1>3. Shrunk(book, book')
  BY <1>2, DropIfEmptyShrinks DEF LevelDone, BookInv, TypeOK
<1>4. Absent(book, call.id) => Absent(book', call.id)
  BY <1>3 DEF Shrunk, Absent
<1>5. /\ call' \in CallStates /\ call'.id = call.id /\ call'.kind = call.kind
      /\ call'.pc # "level"
  BY <1>2 DEF LevelDone, CallStates
<1>6. TypeOK'
  BY <1>3, <1>5 DEF LevelDone, BookInv, TypeOK, Shrunk
<1>7. Tidy(book') /\ Fit(book', order, index, used)
  BY <1>3, FitShrunk DEF BookInv, Shrunk
<1>8. IndexInv'
  BY DEF LevelDone, BookInv, IndexInv
<1>9. TakerInv'
  BY <1>2, <1>4, <1>5 DEF LevelDone, BookInv, TakerInv
<1>10. QED
  BY <1>6, <1>7, <1>8, <1>9 DEF BookInv, LevelDone

LEMMA MatchMakerInv == ASSUME BookInv, MatchMaker PROVE BookInv'
<1> DEFINE k     == Min(Stocked)
           key   == <<Other, call.price, k>>
           id    == Head(book.queue[key])
           n     == Min({RemainingSize(Taker), RemainingSize(order[id])})
           maker == [order[id] EXCEPT !.filled = @ + n]
           taker == [Taker EXCEPT !.filled = @ + n]
           b     == Reduce(book, key, n)
<1>1. At("level")
  BY DEF MatchMaker
<1>2. /\ call \in CallStates /\ call.pc = "level" /\ call.price \in Prices
      /\ call.id \in Ids /\ Taker \in Orders
      /\ Other \in Sides /\ Other # Taker.side
  BY <1>1, Working DEF At, BookInv, TakerInv
<1>3. k \in Slots /\ book.queue[key] # <<>>
  <2>1. Stocked # {} /\ Stocked \subseteq Slots
    BY DEF MatchMaker, Stocked
  <2>2. Slots \subseteq Nat
    BY BookAssumption DEF Slots
  <2>3. k \in Stocked
    BY <2>1, <2>2, MinNat
  <2>4. QED
    BY <2>3 DEF Stocked
<1>4. key \in Keys /\ key[1] = Other
  BY <1>2, <1>3 DEF Keys
<1>5. id \in Ids /\ id \in Range(book.queue[key])
  <2> DEFINE q == book.queue[key]
  <2>1. q \in Seq(Ids) /\ q # <<>>
    BY <1>3, <1>4 DEF BookInv, TypeOK, Books
  <2> HIDE DEF q
  <2>2. Head(q) = q[1] /\ 1 \in DOMAIN q /\ q[1] \in Ids
    BY <2>1
  <2>3. Head(q) \in Range(q)
    BY <2>2 DEF Range
  <2>4. QED
    BY <2>2, <2>3 DEF q
<1>6. order[id] \in Orders /\ Key(order[id]) = key /\ order[id].filled <= order[id].size
  BY <1>4, <1>5 DEF BookInv, TypeOK, Fit
<1>7. id # call.id
  BY <1>2, <1>4, <1>6 DEF Key, Taker
<1>8. /\ n \in Nat /\ n <= RemainingSize(Taker) /\ n <= RemainingSize(order[id])
      /\ RemainingSize(Taker) \in Nat /\ RemainingSize(order[id]) \in Nat
  <2> DEFINE S == {RemainingSize(Taker), RemainingSize(order[id])}
  <2>1. RemainingSize(Taker) \in Nat /\ RemainingSize(order[id]) \in Nat
    BY <1>2, <1>6, RemainingType
  <2>2. S \in SUBSET Nat /\ S # {}
    BY <2>1
  <2>3. Min(S) \in S /\ \A y \in S : Min(S) <= y
    BY <2>2, MinNat
  <2>4. QED
    BY <2>1, <2>3
<1> HIDE DEF k, key, n
<1>9. Shrunk(book, b)
  BY <1>4, <1>8, ReduceShrinks DEF BookInv, TypeOK
<1>10. /\ maker \in Orders /\ Key(maker) = key /\ maker.price = order[id].price
       /\ maker.filled <= maker.size
       /\ RemainingSize(maker) > 0 => RemainingSize(order[id]) > 0
  BY SMTT(30), <1>6, <1>8 DEF Orders, Key, RemainingSize
<1>11. /\ taker \in Orders /\ Key(taker) = Key(Taker) /\ taker.price = Taker.price
       /\ Taker.filled <= Taker.size => taker.filled <= taker.size
       /\ RemainingSize(taker) > 0 => RemainingSize(Taker) > 0
  BY <1>2, <1>8 DEF Orders, Key, RemainingSize
<1> HIDE DEF id, maker, taker, b
<1>12. /\ call' = [call EXCEPT !.matched = TRUE]
       /\ used' = used /\ sweep' = sweep /\ calls' = calls
  BY DEF MatchMaker
<1> DEFINE o1 == [order EXCEPT ![call.id] = taker]
<1>13. \/ /\ book' = Unqueue(b, key, id)
          /\ order' = [o1 EXCEPT ![id] = NoOrder]
          /\ index' = index \ {id}
       \/ /\ book' = b
          /\ order' = [o1 EXCEPT ![id] = maker]
          /\ index' = index
  BY DEF MatchMaker, k, key, id, n, maker, taker, b
<1>14. /\ call' \in CallStates /\ call'.id = call.id /\ call'.kind = call.kind
       /\ call'.price = call.price
  BY <1>2, <1>12 DEF CallStates
<1>15. /\ o1 \in [Ids -> Orders] /\ o1[id] = order[id] /\ o1[call.id] = taker
       /\ \A i \in Ids : o1[i].price = order[i].price
  BY <1>2, <1>5, <1>7, <1>11 DEF BookInv, TypeOK, Taker
<1>16. Fit(book, o1, index, used)
  <2>1. ASSUME NEW j \in Keys, NEW i \in Range(book.queue[j]), i # call.id
        PROVE  o1[i] = order[i]
    <3>1. book.queue[j] \in Seq(Ids)
      BY DEF BookInv, TypeOK, Books
    <3>2. i \in Ids
      BY <3>1 DEF Range
    <3>3. QED
      BY <2>1, <3>2
  <2>2. QED
    BY <1>11, <1>15, <2>1 DEF BookInv, Fit, Taker
<1> HIDE DEF o1
<1>17. /\ Shrunk(book, book')
       /\ Fit(book', order', index', used)
       /\ order' \in [Ids -> Orders]
       /\ index' \subseteq index
       /\ \A i \in index' : order'[i].price = order[i].price
       /\ order'[call.id].price = Taker.price
  <2>1. CASE /\ book' = Unqueue(b, key, id)
             /\ order' = [o1 EXCEPT ![id] = NoOrder]
             /\ index' = index \ {id}
    <3>1. Key(o1[id]) = key /\ book \in Books /\ Tidy(book)
      BY <1>6, <1>15 DEF BookInv, TypeOK
    <3>2. Shrunk(book, book') /\ Absent(book', id)
      BY <1>4, <1>8, <1>16, <2>1, <3>1, LeaveShrinks DEF b
    <3>3. Fit(book', order', index', used)
      BY <1>15, <1>16, <2>1, <3>2, FitForgotten
    <3>4. order' \in [Ids -> Orders] /\ \A i \in Ids : i # id => order'[i] = o1[i]
      BY <1>15, <2>1, NoOrderType
    <3>5. QED
      BY <1>2, <1>7, <1>11, <1>15, <2>1, <3>2, <3>3, <3>4 DEF BookInv, TypeOK
  <2>2. CASE /\ book' = b
             /\ order' = [o1 EXCEPT ![id] = maker]
             /\ index' = index
    <3>1. order' \in [Ids -> Orders] /\ order'[id] = maker
          /\ \A i : i # id /\ i \in Ids => order'[i] = o1[i]
      BY <1>5, <1>10, <1>15, <2>2
    <3>2. ASSUME NEW j \in Keys, NEW i \in Range(book.queue[j])
          PROVE  /\ Key(order'[i]) = Key(o1[i])
                 /\ RemainingSize(order'[i]) > 0 => RemainingSize(o1[i]) > 0
                 /\ order'[i].filled <= order'[i].size
      <4>1. book.queue[j] \in Seq(Ids)
        BY DEF BookInv, TypeOK, Books
      <4>2. i \in Ids
        BY <4>1 DEF Range
      <4>3. CASE i = id
        BY <1>6, <1>10, <1>15, <3>1, <4>3
      <4>4. CASE i # id
        BY <1>16, <3>1, <4>2, <4>4 DEF Fit
      <4>5. QED
        BY <4>3, <4>4
    <3>3. Fit(book', order', index', used)
      BY <1>9, <1>16, <2>2, <3>2 DEF Fit, Shrunk
    <3>4. QED
      BY <1>2, <1>7, <1>9, <1>10, <1>11, <1>15, <2>2, <3>1, <3>3 DEF BookInv, TypeOK
  <2>3. QED
    BY <1>13, <2>1, <2>2
<1>18. TypeOK'
  BY <1>12, <1>14, <1>17 DEF BookInv, TypeOK, Shrunk
<1>19. IndexInv'
  BY <1>12, <1>17 DEF BookInv, IndexInv
<1>20. TakerInv'
  <2>1. Absent(book, call.id) => Absent(book', call.id)
    BY <1>17 DEF Shrunk, Absent
  <2>2. QED
    BY <1>2, <1>12, <1>14, <1>17, <2>1 DEF BookInv, TakerInv, Taker
<1>21. QED
  BY <1>12, <1>17, <1>18, <1>19, <1>20 DEF BookInv, Shrunk

LEMMA RestInv == ASSUME BookInv, Rest PROVE BookInv'
<1> DEFINE b == IF Taker.price \in book.levels[Taker.side] THEN book
                ELSE NewLevel(book, call.kind, Taker.side, Taker.price)
<1>1. /\ call \in CallStates /\ call.id \in Ids /\ Taker \in Orders /\ Taker.side \in Sides
      /\ call.kind \in {"limit", "batch"}
  BY Working DEF Rest
<1>2. Taker.price \in Prices /\ Absent(book, call.id) /\ call.id \in used
  BY <1>1 DEF BookInv, TakerInv, Taker
<1>3. book \in Books /\ Tidy(book) /\ Shrunk(book, book)
  BY DEF BookInv, TypeOK, Shrunk
<1>4. Shrunk(book, b) /\ Taker.price \in b.levels[Taker.side]
  BY <1>1, <1>2, <1>3, NewLevelShrinks
<1>5. /\ book' = Enqueue(b, call.id, Taker) /\ index' = index \cup {call.id}
      /\ call' \in {Idle, Between}
      /\ order' = order /\ used' = used /\ sweep' = sweep /\ calls' = calls
      /\ ~IsFilled(Taker)
  BY DEF Rest, After
<1> HIDE DEF b
<1>6. Key(Taker) \in Keys /\ b \in Books /\ Tidy(b) /\ Absent(b, call.id)
  BY <1>1, <1>2, <1>4, KeyType DEF Shrunk, Absent
<1>7. /\ book' \in Books /\ Tidy(book')
      /\ \A k \in Keys : Range(book'.queue[k]) =
           IF k = Key(Taker) THEN Range(b.queue[k]) \cup {call.id} ELSE Range(b.queue[k])
  <2>1. call.id \notin Range(b.queue[Key(Taker)])
    BY <1>6 DEF Absent
  <2> DEFINE id == call.id
             o == Taker
             n == Enqueue(b, id, o)
  <2>2. id \in Ids /\ o \in Orders /\ o.price \in b.levels[o.side] /\ id \notin Range(b.queue[Key(o)])
    BY <1>1, <1>4, <2>1
  <2> HIDE DEF id, o
  <2>3. /\ n \in Books /\ Tidy(n)
        /\ \A k \in Keys : Range(n.queue[k]) =
             IF k = Key(o) THEN Range(b.queue[k]) \cup {id} ELSE Range(b.queue[k])
    BY <1>6, <2>2, EnqueueTidy
  <2>4. QED
    BY <1>5, <2>3 DEF id, o
<1>8. TypeOK'
  BY <1>1, <1>5, <1>7 DEF BookInv, TypeOK
<1>9. Fit(book', order, index', used)
  <2>1. Taker.filled <= Taker.size
    BY <1>1, <1>5 DEF IsFilled, Orders
  <2>2. Fit(b, order, index, used)
    BY <1>4, FitShrunk DEF BookInv
  <2>3. QED
    BY <1>2, <1>5, <1>7, <2>1, <2>2 DEF Fit, Taker
<1>10. IndexInv'
  BY <1>2, <1>5 DEF BookInv, IndexInv, Taker
<1>11. TakerInv'
  BY <1>5, IdleTypes DEF TakerInv
<1>12. QED
  BY <1>5, <1>7, <1>8, <1>9, <1>10, <1>11 DEF BookInv

LEMMA ForgetInv == ASSUME BookInv, Forget PROVE BookInv'
<1>1. /\ call \in CallStates /\ call.id \in Ids /\ call.kind # "move"
  BY Working DEF Forget
<1>2. /\ order' = [order EXCEPT ![call.id] = NoOrder]
      /\ call' \in {Idle, Between}
      /\ book' = book /\ used' = used /\ index' = index /\ sweep' = sweep /\ calls' = calls
  BY DEF Forget, After
<1>3. Absent(book, call.id) /\ call.id \notin index /\ Shrunk(book, book)
  BY <1>1 DEF BookInv, TypeOK, TakerInv, Shrunk
<1>4. TypeOK'
  BY <1>1, <1>2, NoOrderType DEF BookInv, TypeOK
<1>5. Fit(book, order', index, used)
  <2>1. index \ {call.id} = index
    BY <1>3
  <2>2. Fit(book, [order EXCEPT ![call.id] = NoOrder], index \ {call.id}, used)
    <3>1. order \in [Ids -> Orders] /\ Fit(book, order, index, used)
      BY DEF BookInv, TypeOK
    <3>2. QED
      BY <1>3, <3>1, FitForgotten
  <2>3. QED
    BY <1>2, <2>1, <2>2
<1>6. IndexInv' /\ TakerInv'
  <2>1. \A i \in index : order'[i] = order[i]
    BY <1>2, <1>3 DEF BookInv, TypeOK
  <2>2. QED
    BY <1>2, <2>1, IdleTypes DEF BookInv, IndexInv, TakerInv
<1>7. QED
  BY <1>2, <1>4, <1>5, <1>6 DEF BookInv

LEMMA MovedInv == ASSUME BookInv, Moved PROVE BookInv'
<1>1. Taker \in Orders
  BY Working DEF Moved
<1>2. /\ index' = IF IsFilled(Taker) THEN index \ {call.id} ELSE index
      /\ call' = Idle
      /\ book' = book /\ order' = order /\ used' = used /\ sweep' = sweep /\ calls' = calls
  BY DEF Moved
<1>3. IsFilled(Taker) => ~ RemainingSize(Taker) > 0
  BY <1>1, RemainingType
<1>4. Fit(book, order, index', used)
  BY <1>2, <1>3 DEF BookInv, Fit, Taker
<1>5. TypeOK' /\ IndexInv' /\ TakerInv'
  BY <1>2, IdleTypes DEF BookInv, TypeOK, IndexInv, TakerInv
<1>6. QED
  BY <1>2, <1>4, <1>5 DEF BookInv

-------------------------------------------------------------------------------
(* Cancelling and modifying.                                               *)

LEMMA IndexedKey ==
  ASSUME BookInv, NEW id \in index
  PROVE  id \in Ids /\ order[id] \in Orders /\ Key(order[id]) \in Keys
BY KeyType DEF BookInv, TypeOK, IndexInv

\* An order leaves the book, the index and the pool's users.
LEMMA ReleaseInv ==
  ASSUME BookInv, call = Idle, NEW id \in index, Release(id),
         Shrunk(book, book'), Absent(book', id),
         used' = used, call' = call, sweep' \subseteq Ids, calls' \in 0 .. MaxCalls
  PROVE  BookInv'
<1>1. order' = [order EXCEPT ![id] = NoOrder] /\ index' = index \ {id}
  BY DEF Release
<1>2. TypeOK'
  BY <1>1, NoOrderType DEF BookInv, TypeOK, Shrunk
<1>3. Fit(book', order', index', used)
  <2>1. order \in [Ids -> Orders] /\ Fit(book, order, index, used)
    BY DEF BookInv, TypeOK
  <2>2. Fit(book', [order EXCEPT ![id] = NoOrder], index \ {id}, used)
    BY <2>1, FitForgotten
  <2>3. QED
    BY <1>1, <2>2
<1>4. IndexInv'
  <2>1. \A i \in index' : order'[i] = order[i]
    BY <1>1 DEF BookInv, TypeOK
  <2>2. QED
    BY <1>1, <2>1 DEF BookInv, IndexInv
<1>5. TakerInv'
  BY IdleTypes DEF TakerInv
<1>6. QED
  BY <1>2, <1>3, <1>4, <1>5 DEF BookInv, Shrunk

LEMMA CancelOrderInv == ASSUME BookInv, CancelOrder PROVE BookInv'
<1>1. PICK id \in index : Release(id) /\ book' = Cancelled(book, id)
  BY DEF CancelOrder
<1>2. Shrunk(book, book') /\ Absent(book', id)
  BY <1>1, IndexedKey, CancelledShrinks DEF BookInv
<1>3. /\ call = Idle /\ calls' \in 0 .. MaxCalls
      /\ used' = used /\ call' = call /\ sweep' \subseteq Ids
  BY EnterCalls DEF CancelOrder, BookInv, TypeOK
<1>4. QED
  BY <1>1, <1>2, <1>3, ReleaseInv

LEMMA SweepInv ==
  ASSUME BookInv, CancelAllByTrader \/ SweepNext
  PROVE  BookInv'
<1>1. CASE CancelAllByTrader
  <2>1. sweep' \subseteq Ids
    BY <1>1 DEF CancelAllByTrader, BookInv, TypeOK
  <2>2. calls' \in 0 .. MaxCalls
    BY <1>1, EnterCalls DEF CancelAllByTrader, BookInv
  <2>3. UNCHANGED <<book, order, used, index, call>>
    BY <1>1 DEF CancelAllByTrader
  <2>4. QED
    BY <2>1, <2>2, <2>3 DEF BookInv, TypeOK, IndexInv, TakerInv
<1>2. CASE SweepNext
  <2>1. PICK id \in sweep :
          /\ sweep' = sweep \ {id}
          /\ IF id \in index THEN Release(id) /\ book' = Cancelled(book, id)
             ELSE UNCHANGED <<index, order, book>>
    BY <1>2 DEF SweepNext
  <2>2. /\ call = Idle /\ used' = used /\ call' = call /\ calls' = calls
        /\ calls' \in 0 .. MaxCalls /\ sweep' \subseteq Ids
    BY <1>2, <2>1 DEF SweepNext, BookInv, TypeOK
  <2>3. CASE id \in index
    <3>1. Shrunk(book, book') /\ Absent(book', id)
      BY <2>1, <2>3, IndexedKey, CancelledShrinks DEF BookInv
    <3>2. QED
      BY <2>1, <2>2, <2>3, <3>1, ReleaseInv
  <2>4. CASE id \notin index
    BY <2>1, <2>2, <2>4 DEF BookInv, TypeOK, IndexInv, TakerInv
  <2>5. QED
    BY <2>3, <2>4
<1>3. QED
  BY <1>1, <1>2

LEMMA AwayInv ==
  ASSUME BookInv, ResizeAway \/ MoveAway
  PROVE  BookInv'
<1>1. /\ call = Idle /\ calls' \in 0 .. MaxCalls
      /\ used' = used /\ call' = call /\ sweep' \subseteq Ids
  BY EnterCalls DEF ResizeAway, MoveAway, BookInv, TypeOK
<1>2. CASE ResizeAway
  <2>1. PICK id \in index :
          LET o == order[id]
              b == Unqueue(Reduce(book, Key(o), RemainingSize(o)), Key(o), id)
          IN  /\ book' = IF b.total[<<o.side, o.price>>] = 0
                         THEN DropLevel(b, o.side, o.price) ELSE b
              /\ Release(id)
    BY <1>2 DEF ResizeAway
  <2> DEFINE o == order[id]
             b == Unqueue(Reduce(book, Key(o), RemainingSize(o)), Key(o), id)
  <2>2. Release(id) /\ (book' = b \/ book' = DropLevel(b, o.side, o.price))
    BY <2>1
  <2>3. /\ RemainingSize(o) \in Nat /\ Key(o) \in Keys
        /\ o.side \in Sides /\ o.price \in Prices
    BY IndexedKey, RemainingType, KeyParts DEF Key
  <2>4. Shrunk(book, b) /\ Absent(b, id)
    BY <2>3, LeaveShrinks DEF BookInv, TypeOK
  <2> HIDE DEF b
  <2>5. Shrunk(b, DropLevel(b, o.side, o.price))
    BY <2>3, <2>4, DropLevelShrinks DEF Shrunk
  <2>6. Shrunk(book, book') /\ Absent(book', id)
    BY <2>2, <2>4, <2>5, ShrunkTrans
  <2>7. QED
    BY <1>1, <2>2, <2>6, ReleaseInv
<1>3. CASE MoveAway
  <2>1. PICK id \in index : book' = Departed(id) /\ Release(id)
    BY <1>3 DEF MoveAway
  <2>2. Shrunk(book, book') /\ Absent(book', id)
    BY <2>1, IndexedKey, DepartedShrinks DEF BookInv
  <2>3. QED
    BY <1>1, <2>1, <2>2, ReleaseInv
<1>4. QED
  BY <1>2, <1>3

\* An indexed order changes and rests where it now says.
LEMMA ChangedFit ==
  ASSUME BookInv, NEW id \in index, NEW new \in Orders, new.price \in Prices,
         new.filled <= new.size,
         order' = [order EXCEPT ![id] = new], index' = index, used' = used,
         NEW b, \A k \in Keys : b.queue[k] \in Seq(Ids),
         \A k \in Keys : Range(b.queue[k]) \subseteq
           IF k = Key(new) THEN Range(book.queue[k]) \cup {id} ELSE Range(book.queue[k]) \ {id}
  PROVE  /\ order' \in [Ids -> Orders]
         /\ Fit(b, order', index', used')
         /\ IndexInv'
         /\ order'[id] = new
<1>1. /\ order' \in [Ids -> Orders] /\ order'[id] = new
      /\ \A i \in Ids : i # id => order'[i] = order[i]
  BY IndexedKey DEF BookInv, TypeOK
<1>2. Fit(b, order', index', used')
  <2>1. SUFFICES ASSUME NEW k \in Keys, NEW i \in Range(b.queue[k])
                 PROVE  /\ i \in used
                        /\ Key(order'[i]) = k
                        /\ RemainingSize(order'[i]) > 0 => i \in index
                        /\ order'[i].filled <= order'[i].size
    BY DEF Fit
  <2>2. i \in Ids
    <3>1. b.queue[k] \in Seq(Ids)
      OBVIOUS
    <3>2. QED
      BY <3>1 DEF Range
  <2>3. CASE i = id
    BY <1>1, <2>3 DEF BookInv, IndexInv
  <2>4. CASE i # id
    BY <1>1, <2>2, <2>4 DEF BookInv, Fit
  <2>5. QED
    BY <2>3, <2>4
<1>3. IndexInv'
  BY <1>1 DEF BookInv, TypeOK, IndexInv
<1>4. QED
  BY <1>1, <1>2, <1>3

LEMMA RemainingFits ==
  ASSUME NEW o \in Orders, RemainingSize(o) # 0
  PROVE  o.filled <= o.size
BY DEF RemainingSize, Orders

LEMMA ResizeKeepInv == ASSUME BookInv, ResizeKeep PROVE BookInv'
<1>1. PICK id \in index, z \in Sizes :
        LET o   == order[id]
            new == [o EXCEPT !.size = z, !.slot = determineSlot(o.trader, z)]
        IN  /\ RemainingSize(new) # 0
            /\ o.price \in book.levels[o.side]
            /\ book' = Resized(Reduce(book, Key(o), RemainingSize(o)), id, o, new)
            /\ order' = [order EXCEPT ![id] = new]
  BY DEF ResizeKeep
<1> DEFINE o   == order[id]
           new == [o EXCEPT !.size = z, !.slot = determineSlot(o.trader, z)]
           r   == Reduce(book, Key(o), RemainingSize(o))
           m   == RemainingSize(new)
<1>2. /\ call = Idle /\ calls' \in 0 .. MaxCalls
      /\ used' = used /\ index' = index /\ call' = call /\ sweep' = sweep
  BY EnterCalls DEF ResizeKeep, BookInv
<1>3. /\ id \in Ids /\ o \in Orders /\ Key(o) \in Keys /\ o.price \in Prices
      /\ Key(o)[1] = o.side /\ Key(o)[2] = o.price
  BY IndexedKey, KeyParts DEF Key
<1>4. /\ new \in Orders /\ new.price = o.price /\ new.side = o.side
      /\ new.slot = o.slot => Key(new) = Key(o)
  <2>1. o.trader \in Nat /\ z \in Nat
    BY <1>3, TraderType, BookAssumption
  <2>2. determineSlot(o.trader, z) \in Slots
    BY <2>1, SlotType
  <2>3. QED
    BY <1>3, <2>1, <2>2 DEF Orders, Key
<1>5. m \in Nat /\ m # 0 /\ new.filled <= new.size
  BY <1>1, <1>4, RemainingType, RemainingFits
<1>6. /\ r \in Books /\ Tidy(r) /\ r.queue = book.queue /\ r.levels = book.levels
  <2>1. RemainingSize(o) \in Nat /\ book \in Books /\ Tidy(book)
    BY <1>3, RemainingType DEF BookInv, TypeOK
  <2>2. r \in Books /\ r.queue = book.queue /\ r.levels = book.levels
    BY <1>3, <2>1, ReduceFacts
  <2>3. QED
    BY <2>1, <2>2 DEF Tidy
<1>7. o.price \in r.levels[o.side] /\ book' = Resized(r, id, o, new)
  BY <1>1, <1>6
<1>8. order' = [order EXCEPT ![id] = new]
  BY <1>1
<1> HIDE DEF new, r, m
<1>9. \A k \in Keys : k # Key(o) => id \notin Range(book.queue[k])
  BY DEF BookInv, Fit
<1>10. /\ book' \in Books
       /\ Tidy(book')
       /\ \A k \in Keys : Range(book'.queue[k]) \subseteq
            IF k = Key(new) THEN Range(book.queue[k]) \cup {id} ELSE Range(book.queue[k]) \ {id}
  <2>1. CASE new.slot = o.slot
    <3>1. book' = [r EXCEPT !.volume[Key(o)] = @ + m, !.total[<<o.side, o.price>>] = @ + m]
      BY <1>7, <2>1 DEF Resized, m
    <3>2. <<o.side, o.price>> \in Levels
      BY <1>3, KeyParts
    <3>3. /\ [r.volume EXCEPT ![Key(o)] = @ + m] \in [Keys -> Nat]
          /\ [r.total EXCEPT ![<<o.side, o.price>>] = @ + m] \in [Levels -> Nat]
      BY <1>3, <1>5, <1>6, <3>2 DEF Books
    <3>4. book' \in Books /\ book'.queue = r.queue /\ book'.levels = r.levels
      BY <1>6, <3>1, <3>3 DEF Books
    <3>5. QED
      BY <1>4, <1>6, <1>9, <2>1, <3>4 DEF Tidy
  <2>2. CASE new.slot # o.slot
    <3> DEFINE q == Unqueue(r, Key(o), id)
    <3>1. Shrunk(r, q) /\ id \notin Range(q.queue[Key(o)])
      BY <1>3, <1>6, UnqueueShrinks
    <3>2. q.levels = r.levels
      BY <1>3, <1>6, UnqueueFacts DEF Tidy
    <3>3. book' = Enqueue(q, id, new)
      BY <1>7, <2>2 DEF Resized
    <3> HIDE DEF q
    <3>4. q \in Books /\ Tidy(q) /\ Absent(q, id)
      BY <1>6, <1>9, <3>1 DEF Shrunk, Absent
    <3>5. Key(new) \in Keys
      BY <1>3, <1>4, KeyType
    <3>6. /\ book' \in Books /\ Tidy(book')
          /\ \A k \in Keys : Range(book'.queue[k]) =
               IF k = Key(new) THEN Range(q.queue[k]) \cup {id} ELSE Range(q.queue[k])
      <4>1. new.price \in q.levels[new.side] /\ id \notin Range(q.queue[Key(new)])
        BY <1>4, <1>7, <3>2, <3>4, <3>5 DEF Absent
      <4> DEFINE n == Enqueue(q, id, new)
      <4>2. /\ n \in Books /\ Tidy(n)
            /\ \A k \in Keys : Range(n.queue[k]) =
                 IF k = Key(new) THEN Range(q.queue[k]) \cup {id} ELSE Range(q.queue[k])
        BY <1>3, <1>4, <3>4, <4>1, EnqueueTidy
      <4> HIDE DEF n
      <4>3. book' = n
        BY <3>3 DEF n
      <4>4. QED
        BY <4>2, <4>3
    <3>7. \A k \in Keys : Range(q.queue[k]) \subseteq Range(book.queue[k]) \ {id}
      BY <1>6, <3>1, <3>4 DEF Shrunk, Absent
    <3>8. QED
      BY <3>6, <3>7
  <2>3. QED
    BY <2>1, <2>2
<1>11. /\ order' \in [Ids -> Orders]
       /\ Fit(book', order', index', used')
       /\ IndexInv'
  <2>1. \A k \in Keys : book'.queue[k] \in Seq(Ids)
    BY <1>10 DEF Books
  <2>2. new.price \in Prices
    BY <1>3, <1>4
  <2>3. QED
    BY <1>2, <1>4, <1>5, <1>8, <1>10, <2>1, <2>2, ChangedFit
<1>12. TypeOK'
  BY <1>2, <1>10, <1>11 DEF BookInv, TypeOK
<1>13. TakerInv'
  BY <1>2, IdleTypes DEF TakerInv
<1>14. QED
  BY <1>10, <1>11, <1>12, <1>13 DEF BookInv

LEMMA MoveRestInv == ASSUME BookInv, MoveRest PROVE BookInv'
<1>1. PICK id \in index, p \in Prices, z \in Sizes :
        LET o   == order[id]
            new == [o EXCEPT !.price = p, !.size = z, !.slot = determineSlot(o.trader, z)]
            b   == IF p \in Departed(id).levels[o.side] THEN Departed(id)
                   ELSE updateBestPrices(AddLevel(Departed(id), o.side, p))
        IN  /\ RemainingSize(new) # 0
            /\ book' = Enqueue(b, id, new)
            /\ order' = [order EXCEPT ![id] = new]
            /\ call' = Matching("move", id)
  BY DEF MoveRest
<1> DEFINE o   == order[id]
           new == [o EXCEPT !.price = p, !.size = z, !.slot = determineSlot(o.trader, z)]
           d   == Departed(id)
           b   == IF p \in d.levels[o.side] THEN d
                  ELSE updateBestPrices(AddLevel(d, o.side, p))
<1>2. /\ call = Idle /\ calls' \in 0 .. MaxCalls
      /\ used' = used /\ index' = index /\ sweep' = sweep
  BY EnterCalls DEF MoveRest, BookInv
<1>3. /\ id \in Ids /\ o \in Orders /\ Key(o) \in Keys /\ o.side \in Sides
  BY IndexedKey, KeyParts DEF Key
<1>4. /\ new \in Orders /\ new.price = p /\ new.side = o.side
  <2>1. o.trader \in Nat /\ z \in Nat
    BY <1>3, TraderType, BookAssumption
  <2>2. determineSlot(o.trader, z) \in Slots /\ p \in 0 .. MaxPrice + 1
    BY <2>1, SlotType, BookAssumption DEF Prices
  <2>3. QED
    BY <1>3, <2>1, <2>2 DEF Orders
<1>5. RemainingSize(new) # 0 /\ new.filled <= new.size
  BY <1>1, <1>4, RemainingFits
<1>6. Shrunk(book, d) /\ Absent(d, id)
  BY <1>3, DepartedShrinks DEF BookInv
<1>7. Shrunk(book, b) /\ Absent(b, id) /\ p \in b.levels[o.side]
  <2>1. CASE p \in d.levels[o.side]
    BY <1>6, <2>1
  <2>2. CASE p \notin d.levels[o.side]
    <3> DEFINE u == updateBestPrices(AddLevel(d, o.side, p))
    <3>1. d \in Books /\ Tidy(d)
      BY <1>6 DEF Shrunk
    <3> HIDE DEF d
    <3>2. Shrunk(d, u) /\ p \in u.levels[o.side]
      BY <1>3, <3>1, UpdateAdds
    <3>3. b = u
      BY <2>2
    <3> HIDE DEF b, u
    <3>4. QED
      BY <1>6, <3>2, <3>3, ShrunkTrans
  <2>3. QED
    BY <2>1, <2>2
<1>8. /\ book' = Enqueue(b, id, new)
      /\ order' = [order EXCEPT ![id] = new]
      /\ call' = Matching("move", id)
  BY <1>1
<1> HIDE DEF new, b, d
<1>9. /\ book' \in Books /\ Tidy(book')
      /\ \A k \in Keys : Range(book'.queue[k]) =
           IF k = Key(new) THEN Range(b.queue[k]) \cup {id} ELSE Range(b.queue[k])
  <2>1. Key(new) \in Keys
    BY <1>4, KeyType
  <2>2. /\ b \in Books /\ Tidy(b)
        /\ new.price \in b.levels[new.side] /\ id \notin Range(b.queue[Key(new)])
    BY <1>4, <1>7, <2>1 DEF Shrunk, Absent
  <2> DEFINE n == Enqueue(b, id, new)
  <2>3. /\ n \in Books /\ Tidy(n)
        /\ \A k \in Keys : Range(n.queue[k]) =
             IF k = Key(new) THEN Range(b.queue[k]) \cup {id} ELSE Range(b.queue[k])
    BY <1>3, <1>4, <2>2, EnqueueTidy
  <2> HIDE DEF n
  <2>4. book' = n
    BY <1>8 DEF n
  <2>5. QED
    BY <2>3, <2>4
<1>10. /\ order' \in [Ids -> Orders]
       /\ Fit(book', order', index', used')
       /\ IndexInv'
       /\ order'[id] = new
  <2>1. \A k \in Keys : book'.queue[k] \in Seq(Ids)
    BY <1>9 DEF Books
  <2>2. \A k \in Keys : Range(b.queue[k]) \subseteq Range(book.queue[k]) \ {id}
    BY <1>7 DEF Shrunk, Absent
  <2>3. \A k \in Keys : Range(book'.queue[k]) \subseteq
          IF k = Key(new) THEN Range(book.queue[k]) \cup {id} ELSE Range(book.queue[k]) \ {id}
    BY <1>9, <2>2
  <2>4. new.price \in Prices
    BY <1>4
  <2>5. QED
    BY <1>2, <1>4, <1>5, <1>8, <2>1, <2>3, <2>4, ChangedFit
<1>11. call' \in CallStates /\ call'.id = id /\ call'.kind = "move" /\ call'.pc = "choose"
  BY <1>3, <1>8, BookAssumption DEF Matching, CallStates
<1>12. TypeOK'
  BY <1>2, <1>9, <1>10, <1>11 DEF BookInv, TypeOK
<1>13. TakerInv'
  BY <1>2, <1>4, <1>10, <1>11 DEF TakerInv, BookInv, IndexInv
<1>14. QED
  BY <1>9, <1>10, <1>12, <1>13 DEF BookInv

-------------------------------------------------------------------------------
(* The theorems.                                                           *)

LEMMA BookStep == ASSUME BookInv, [Next]_vars PROVE BookInv'
<1>1. CASE AddLimitOrder
  BY <1>1, AddLimitOrderInv
<1>2. CASE AddLimitOrderBatch \/ BatchNext \/ BatchEnd
  BY <1>2, BatchInv
<1>3. CASE ExecuteMarketOrder
  BY <1>3, ExecuteMarketOrderInv
<1>4. CASE ChooseLevel \/ NoLevel
  BY <1>4, ChooseInv
<1>5. CASE MatchMaker
  BY <1>5, MatchMakerInv
<1>6. CASE LevelDone
  BY <1>6, LevelDoneInv
<1>7. CASE Rest
  BY <1>7, RestInv
<1>8. CASE Forget
  BY <1>8, ForgetInv
<1>9. CASE Moved
  BY <1>9, MovedInv
<1>10. CASE CancelOrder
  BY <1>10, CancelOrderInv
<1>11. CASE CancelAllByTrader \/ SweepNext
  BY <1>11, SweepInv
<1>12. CASE ResizeAway \/ MoveAway
  BY <1>12, AwayInv
<1>13. CASE ResizeKeep
  BY <1>13, ResizeKeepInv
<1>14. CASE MoveRest
  BY <1>14, MoveRestInv
<1>15. CASE UNCHANGED vars
  BY <1>15 DEF vars, BookInv, TypeOK, IndexInv, TakerInv
<1>16. QED
  BY <1>1, <1>2, <1>3, <1>4, <1>5, <1>6, <1>7, <1>8, <1>9, <1>10, <1>11, <1>12,
     <1>13, <1>14, <1>15
  DEF Next, Work

\* The inductive invariant holds in every state of every behaviour.
THEOREM BookInvariant == Spec => []BookInv
<1>1. Init => BookInv
  BY BookInit
<1>2. BookInv /\ [Next]_vars => BookInv'
  BY BookStep
<1>3. QED
  BY <1>1, <1>2, PTL DEF Spec

\* Prices, slots and volumes stay in range, and no volume or size wraps below
\* zero, whatever calls are made (safeSubtract, RemainingSize).
THEOREM BookTypeCorrect == Spec => []TypeOK
<1>1. BookInv => TypeOK
  BY DEF BookInv
<1>2. QED
  BY <1>1, BookInvariant, PTL

\* An order rests at most once, at the price, side and slot it carries, which
\* is where CancelOrder and ModifyOrder look for it.
THEOREM RestsInPlace == Spec => []RestInPlace
<1>1. BookInv => RestInPlace
  <2>1. \A k \in Keys : \A i \in DOMAIN book.queue[k] :
          book.queue[k][i] \in Range(book.queue[k])
    BY DEF Range
  <2>2. QED
    BY <2>1 DEF BookInv, Tidy, Fit, Distinct, RestInPlace
<1>2. QED
  BY <1>1, BookInvariant, PTL

\* What rests and can still trade is in OrderIndex, and no order is filled
\* beyond its size, over all calls of the matching engine.
THEOREM LiveOrdersIndexed == Spec => []LiveIndexed
<1>1. BookInv => LiveIndexed
  <2>1. \A k \in Keys : \A i \in DOMAIN book.queue[k] :
          book.queue[k][i] \in Range(book.queue[k])
    BY DEF Range
  <2>2. QED
    BY <2>1 DEF BookInv, Fit, LiveIndexed
<1>2. QED
  BY <1>1, BookInvariant, PTL

-------------------------------------------------------------------------------
(* Sums.  The library's induction theorems are about an operator; for a set *)
(* of naturals the least element of its complement will do.                *)

LEMMA NatInduct ==
  ASSUME NEW T, 0 \in T, \A n \in Nat : n \in T => n + 1 \in T
  PROVE  \A n \in Nat : n \in T
<1> DEFINE C == {n \in Nat : n \notin T}
<1>1. C \in SUBSET Nat
  OBVIOUS
<1>2. ASSUME C # {} PROVE FALSE
  <2>1. PICK m : m = Min(C)
    OBVIOUS
  <2>2. m \in C /\ \A y \in C : m <= y
    BY <1>1, <1>2, <2>1, MinNat
  <2>3. m \in Nat /\ m \notin T /\ m # 0
    BY <2>2
  <2>4. m - 1 \in Nat /\ m - 1 \notin C
    BY <2>2, <2>3
  <2>5. m - 1 \in T
    BY <2>4
  <2>6. (m - 1) + 1 \in T
    BY <2>4, <2>5
  <2>7. QED
    BY <2>3, <2>6
<1>3. QED
  BY <1>2

\* SumFunction adds up over ever smaller sets: f is the sum over each subset.
Pick(s) == CHOOSE x \in s : TRUE
IsIter(f, w, S) == f = [s \in SUBSET S |-> IF s = {} THEN 0 ELSE w[Pick(s)] + f[s \ {Pick(s)}]]

TakesAny(f, w, S) == \A s \in SUBSET S : \A x \in s : f[s] = w[x] + f[s \ {x}]

LEMMA SumIs ==
  ASSUME NEW w
  PROVE SumFunction(w) = (CHOOSE f : IsIter(f, w, DOMAIN w))[DOMAIN w]
BY DEF SumFunction, SumFunctionOnSet, FoldFunctionOnSet, MapThenFoldSet, IsIter, Pick

LEMMA PickFacts ==
  ASSUME NEW S, IsFiniteSet(S), NEW s \in SUBSET S, s # {}
  PROVE  /\ Pick(s) \in s /\ s \ {Pick(s)} \in SUBSET S
         /\ \A x \in s : /\ IsFiniteSet(s) /\ Cardinality(s) \in Nat
                         /\ Cardinality(s \ {x}) = Cardinality(s) - 1
                         /\ Cardinality(s \ {x}) \in Nat
<1>1. Pick(s) \in s
  BY DEF Pick
<1>2. IsFiniteSet(s) /\ Cardinality(s) \in Nat
  BY FS_Subset, FS_CardinalityType
<1>3. \A x \in s : IsFiniteSet(s \ {x}) /\ Cardinality(s \ {x}) = Cardinality(s) - 1
  BY <1>2, FS_RemoveElement
<1>4. \A x \in s : Cardinality(s \ {x}) \in Nat
  BY <1>3, FS_CardinalityType
<1>5. QED
  BY <1>1, <1>2, <1>3, <1>4

LEMMA IterExists ==
  ASSUME NEW S, IsFiniteSet(S), NEW w \in [S -> Nat]
  PROVE  \E f \in [SUBSET S -> Nat] : IsIter(f, w, S)
<1> DEFINE Sub(n) == {s \in SUBSET S : Cardinality(s) <= n}
           Sums(f, n) == \A s \in Sub(n) :
                            f[s] = IF s = {} THEN 0 ELSE w[Pick(s)] + f[s \ {Pick(s)}]
           T == {n \in Nat : \E f \in [Sub(n) -> Nat] : Sums(f, n)}
<1>1. \A s \in SUBSET S : IsFiniteSet(s) /\ Cardinality(s) \in Nat
                          /\ (Cardinality(s) = 0 <=> s = {})
  BY FS_Subset, FS_CardinalityType, FS_EmptySet
<1>2. \A n \in Nat : \A s \in Sub(n + 1) : s # {} =>
          Pick(s) \in S /\ s \ {Pick(s)} \in Sub(n)
  <2> TAKE n \in Nat
  <2> TAKE s \in Sub(n + 1)
  <2> HAVE s # {}
  <2>1. Pick(s) \in s /\ s \ {Pick(s)} \in SUBSET S
        /\ Cardinality(s \ {Pick(s)}) = Cardinality(s) - 1
        /\ Cardinality(s) \in Nat
    BY PickFacts
  <2>2. QED
    BY <2>1
<1>3. 0 \in T
  <2>1. PICK f : f = [s \in Sub(0) |-> 0]
    OBVIOUS
  <2>2. \A s \in Sub(0) : s = {}
    BY <1>1
  <2>3. f \in [Sub(0) -> Nat] /\ Sums(f, 0)
    BY <2>1, <2>2
  <2>4. QED
    BY <2>3
<1>4. ASSUME NEW n \in Nat, n \in T PROVE n + 1 \in T
  <2>1. PICK f \in [Sub(n) -> Nat] : Sums(f, n)
    BY <1>4
  <2>2. PICK g : g = [s \in Sub(n + 1) |-> IF s = {} THEN 0 ELSE w[Pick(s)] + f[s \ {Pick(s)}]]
    OBVIOUS
  <2>3. \A s \in Sub(n + 1) : s # {} => w[Pick(s)] \in Nat /\ f[s \ {Pick(s)}] \in Nat
    BY <1>2
  <2>4. g \in [Sub(n + 1) -> Nat]
    BY <2>2, <2>3
  <2>5. \A r \in Sub(n) : r \in Sub(n + 1) /\ g[r] = f[r]
    <3> TAKE r \in Sub(n)
    <3>1. r \in Sub(n + 1)
      BY <1>1
    <3>2. f[r] = IF r = {} THEN 0 ELSE w[Pick(r)] + f[r \ {Pick(r)}]
      BY <2>1
    <3>3. QED
      BY <2>2, <3>1, <3>2
  <2>6. Sums(g, n + 1)
    <3> SUFFICES ASSUME NEW s \in Sub(n + 1)
                 PROVE  g[s] = IF s = {} THEN 0 ELSE w[Pick(s)] + g[s \ {Pick(s)}]
      OBVIOUS
    <3>1. CASE s = {}
      BY <2>2, <3>1
    <3>2. CASE s # {}
      <4>1. g[s] = w[Pick(s)] + f[s \ {Pick(s)}]
        BY <2>2, <3>2
      <4>2. s \ {Pick(s)} \in Sub(n)
        BY <1>2, <3>2
      <4>3. g[s \ {Pick(s)}] = f[s \ {Pick(s)}]
        BY <2>5, <4>2
      <4>4. QED
        BY <3>2, <4>1, <4>3
    <3>3. QED
      BY <3>1, <3>2
  <2>7. \E h \in [Sub(n + 1) -> Nat] : Sums(h, n + 1)
    <3> HIDE DEF Sums
    <3>1. QED
      BY <2>4, <2>6
  <2>8. n + 1 \in Nat
    OBVIOUS
  <2> HIDE DEF Sums, Sub
  <2>9. QED
    BY <2>7, <2>8
<1>5. Cardinality(S) \in Nat /\ \A s \in SUBSET S : Cardinality(s) <= Cardinality(S)
  BY FS_Subset, FS_CardinalityType
<1>6. Cardinality(S) \in T
  <2> HIDE DEF T
  <2>1. \A n \in Nat : n \in T
    BY <1>3, <1>4, NatInduct
  <2>2. QED
    BY <1>5, <2>1
<1>7. Sub(Cardinality(S)) = SUBSET S
  BY <1>5
<1>8. PICK f \in [SUBSET S -> Nat] : Sums(f, Cardinality(S))
  BY <1>6, <1>7
<1>9. \A s \in SUBSET S : f[s] = IF s = {} THEN 0 ELSE w[Pick(s)] + f[s \ {Pick(s)}]
  BY <1>7, <1>8
<1>10. IsIter(f, w, S)
  BY <1>9 DEF IsIter
<1>11. QED
  BY <1>10

\* What such a function says of a subset depends on the summands there alone.
LEMMA IterUnique ==
  ASSUME NEW S, IsFiniteSet(S), NEW w, NEW f, IsIter(f, w, S),
         NEW R \in SUBSET S, NEW v, NEW g, IsIter(g, v, R), \A x \in R : v[x] = w[x]
  PROVE  \A s \in SUBSET R : g[s] = f[s]
<1> DEFINE T == {n \in Nat : \A s \in SUBSET R : Cardinality(s) = n => g[s] = f[s]}
<1>1. /\ \A s \in SUBSET S : f[s] = IF s = {} THEN 0 ELSE w[Pick(s)] + f[s \ {Pick(s)}]
      /\ \A s \in SUBSET R : g[s] = IF s = {} THEN 0 ELSE v[Pick(s)] + g[s \ {Pick(s)}]
  BY DEF IsIter
<1>2. \A s \in SUBSET R : IsFiniteSet(s) /\ Cardinality(s) \in Nat
                          /\ (Cardinality(s) = 0 <=> s = {})
  BY FS_Subset, FS_CardinalityType, FS_EmptySet
<1>3. 0 \in T
  <2>1. ASSUME NEW s \in SUBSET R, Cardinality(s) = 0 PROVE g[s] = f[s]
    <3>1. s = {}
      BY <1>2, <2>1
    <3>2. QED
      BY <1>1, <3>1
  <2>2. QED
    BY <2>1
<1>4. ASSUME NEW n \in Nat, n \in T PROVE n + 1 \in T
  <2>1. ASSUME NEW s \in SUBSET R, Cardinality(s) = n + 1 PROVE g[s] = f[s]
    <3>1. s # {} /\ s \in SUBSET S
      BY <1>2, <2>1
    <3>2. /\ Pick(s) \in s /\ Cardinality(s \ {Pick(s)}) = Cardinality(s) - 1
      BY <3>1, PickFacts
    <3>3. s \ {Pick(s)} \in SUBSET R /\ Cardinality(s \ {Pick(s)}) = n
      BY <2>1, <3>2
    <3>4. g[s \ {Pick(s)}] = f[s \ {Pick(s)}]
      BY <1>4, <3>3
    <3>5. v[Pick(s)] = w[Pick(s)]
      BY <3>2
    <3>6. g[s] = v[Pick(s)] + g[s \ {Pick(s)}] /\ f[s] = w[Pick(s)] + f[s \ {Pick(s)}]
      BY <1>1, <3>1
    <3>7. QED
      BY <3>4, <3>5, <3>6
  <2>2. QED
    BY <2>1
<1>5. \A n \in Nat : n \in T
  <2> HIDE DEF T
  <2>1. QED
    BY <1>3, <1>4, NatInduct
<1>6. QED
  BY <1>2, <1>5

\* Any element may be taken out first.
LEMMA IterAny ==
  ASSUME NEW S, IsFiniteSet(S), NEW w \in [S -> Nat],
         NEW f \in [SUBSET S -> Nat], IsIter(f, w, S)
  PROVE  TakesAny(f, w, S)
<1> DEFINE T == {n \in Nat : \A s \in SUBSET S : Cardinality(s) = n =>
                                \A x \in s : f[s] = w[x] + f[s \ {x}]}
<1>1. \A s \in SUBSET S : f[s] = IF s = {} THEN 0 ELSE w[Pick(s)] + f[s \ {Pick(s)}]
  BY DEF IsIter
<1>2. \A s \in SUBSET S : IsFiniteSet(s) /\ Cardinality(s) \in Nat
                          /\ (Cardinality(s) = 0 <=> s = {})
  BY FS_Subset, FS_CardinalityType, FS_EmptySet
<1>3. 0 \in T
  BY <1>2
<1>4. ASSUME NEW n \in Nat, n \in T PROVE n + 1 \in T
  <2>1. ASSUME NEW s \in SUBSET S, Cardinality(s) = n + 1, NEW x \in s
        PROVE  f[s] = w[x] + f[s \ {x}]
    <3>1. PICK c : c = Pick(s)
      OBVIOUS
    <3>2. /\ c \in s /\ f[s] = w[c] + f[s \ {c}]
          /\ \A y \in s : Cardinality(s \ {y}) = n
      BY <1>1, <2>1, <3>1, PickFacts
    <3>3. CASE x = c
      BY <3>2, <3>3
    <3>4. CASE x # c
      <4>1. s \ {c} \in SUBSET S /\ s \ {x} \in SUBSET S /\ x \in s \ {c} /\ c \in s \ {x}
        BY <3>2, <3>4
      <4>2. f[s \ {c}] = w[x] + f[(s \ {c}) \ {x}]
        BY <1>4, <3>2, <4>1
      <4>3. f[s \ {x}] = w[c] + f[(s \ {x}) \ {c}]
        BY <1>4, <3>2, <4>1
      <4>4. (s \ {c}) \ {x} = (s \ {x}) \ {c} /\ (s \ {x}) \ {c} \in SUBSET S
        OBVIOUS
      <4>5. PICK r \in SUBSET S : r = (s \ {c}) \ {x} /\ r = (s \ {x}) \ {c}
        BY <4>4
      <4>6. f[r] \in Nat /\ w[c] \in Nat /\ w[x] \in Nat
        BY <3>2
      <4>7. f[s] = w[c] + (w[x] + f[r]) /\ f[s \ {x}] = w[c] + f[r]
        BY <3>2, <4>2, <4>3, <4>5
      <4>8. QED
        BY <4>6, <4>7
    <3>5. QED
      BY <3>3, <3>4
  <2>2. QED
    BY <2>1
<1>5. \A n \in Nat : n \in T
  <2> HIDE DEF T
  <2>1. QED
    BY <1>3, <1>4, NatInduct
<1>6. QED
  BY <1>2, <1>5 DEF TakesAny

LEMMA SumIter ==
  ASSUME NEW S, IsFiniteSet(S), NEW w \in [S -> Nat]
  PROVE  \E f \in [SUBSET S -> Nat] : IsIter(f, w, S) /\ SumFunction(w) = f[S]
<1>1. PICK f \in [SUBSET S -> Nat] : IsIter(f, w, S)
  BY IterExists
<1>2. PICK g : g = CHOOSE h : IsIter(h, w, S)
  OBVIOUS
<1>3. IsIter(g, w, S)
  BY <1>1, <1>2
<1>4. DOMAIN w = S
  OBVIOUS
<1>5. SumFunction(w) = g[S]
  BY <1>2, <1>4, SumIs
<1>6. \A s \in SUBSET S : g[s] = f[s]
  BY <1>1, <1>3, IterUnique
<1>7. QED
  BY <1>1, <1>5, <1>6

\* The sum over a finite set: nothing for the empty set, and any summand apart.
LEMMA SumSplit ==
  ASSUME NEW S, IsFiniteSet(S), NEW w \in [S -> Nat]
  PROVE  /\ SumFunction(w) \in Nat
         /\ S = {} => SumFunction(w) = 0
         /\ \A x \in S : SumFunction(w) = w[x] + SumFunction([y \in S \ {x} |-> w[y]])
<1>1. PICK f \in [SUBSET S -> Nat] : IsIter(f, w, S) /\ SumFunction(w) = f[S]
  BY SumIter
<1>1a. IsIter(f, w, S)
  BY <1>1
<1>1b. TakesAny(f, w, S)
  BY <1>1a, IterAny
<1>2. S = {} => f[S] = 0
  BY <1>1 DEF IsIter
<1>3. ASSUME NEW x \in S
      PROVE  SumFunction(w) = w[x] + SumFunction([y \in S \ {x} |-> w[y]])
  <2>1. PICK R, v : R = S \ {x} /\ v = [y \in R |-> w[y]]
    OBVIOUS
  <2>2. R \in SUBSET S /\ IsFiniteSet(R) /\ v \in [R -> Nat] /\ \A y \in R : v[y] = w[y]
    BY <2>1, FS_Subset
  <2>3. PICK g \in [SUBSET R -> Nat] : IsIter(g, v, R) /\ SumFunction(v) = g[R]
    BY <2>2, SumIter
  <2>4. \A s \in SUBSET R : g[s] = f[s]
    BY <1>1, <2>2, <2>3, IterUnique
  <2>4b. S \in SUBSET S
    OBVIOUS
  <2>5. f[S] = w[x] + f[S \ {x}]
    BY <1>1b, <2>4b DEF TakesAny
  <2>6. g[R] = f[R]
    BY <2>4
  <2>7. SumFunction(w) = w[x] + SumFunction(v)
    BY <1>1, <2>1, <2>3, <2>5, <2>6
  <2>8. v = [y \in S \ {x} |-> w[y]]
    BY <2>1
  <2>9. QED
    BY <2>7, <2>8
<1>4. QED
  BY <1>1, <1>2, <1>3

\* A summand is no more than the sum, and a sum changes as its summand does.
LEMMA SumBound ==
  ASSUME NEW S, IsFiniteSet(S), NEW w \in [S -> Nat], NEW x \in S
  PROVE  w[x] <= SumFunction(w)
<1>1. PICK R, v : R = S \ {x} /\ v = [y \in R |-> w[y]]
  OBVIOUS
<1>2. IsFiniteSet(R) /\ v \in [R -> Nat]
  BY <1>1, FS_Subset
<1>3. SumFunction(v) \in Nat
  BY <1>2, SumSplit
<1>4. SumFunction(w) = w[x] + SumFunction(v)
  BY <1>1, SumSplit
<1>5. QED
  BY <1>3, <1>4

LEMMA SumChange ==
  ASSUME NEW S, IsFiniteSet(S), NEW w \in [S -> Nat], NEW x \in S,
         NEW w2 \in [S -> Nat], \A y \in S : y # x => w2[y] = w[y]
  PROVE  SumFunction(w2) + w[x] = SumFunction(w) + w2[x]
<1>1. PICK R, v : R = S \ {x} /\ v = [y \in R |-> w[y]]
  OBVIOUS
<1>2. IsFiniteSet(R) /\ v \in [R -> Nat]
  BY <1>1, FS_Subset
<1>3. SumFunction(v) \in Nat
  BY <1>2, SumSplit
<1>4. v = [y \in R |-> w2[y]]
  BY <1>1
<1>5. SumFunction(w) = w[x] + SumFunction(v)
  BY <1>1, SumSplit
<1>6. SumFunction(w2) = w2[x] + SumFunction(v)
  BY <1>1, <1>4, SumSplit
<1>7. w[x] \in Nat /\ w2[x] \in Nat
  OBVIOUS
<1>8. QED
  BY <1>3, <1>5, <1>6, <1>7

LEMMA SumAdd ==
  ASSUME NEW S, IsFiniteSet(S), NEW w \in [S -> Nat], NEW x, x \notin S,
         NEW w2 \in [S \cup {x} -> Nat], \A y \in S : w2[y] = w[y]
  PROVE  SumFunction(w2) = SumFunction(w) + w2[x]
<1>1. PICK R : R = S \cup {x}
  OBVIOUS
<1>2. IsFiniteSet(R) /\ x \in R /\ w2 \in [R -> Nat]
  BY <1>1, FS_AddElement
<1>3. SumFunction(w2) = w2[x] + SumFunction([y \in R \ {x} |-> w2[y]])
  BY <1>2, SumSplit
<1>4. [y \in R \ {x} |-> w2[y]] = w
  BY <1>1
<1>5. SumFunction(w) \in Nat /\ w2[x] \in Nat
  BY <1>2, SumSplit
<1>6. QED
  BY <1>3, <1>4, <1>5

LEMMA SumZeros ==
  ASSUME NEW S, IsFiniteSet(S), NEW w \in [S -> Nat], \A x \in S : w[x] = 0
  PROVE  SumFunction(w) = 0
<1>1. PICK f \in [SUBSET S -> Nat] : IsIter(f, w, S) /\ SumFunction(w) = f[S]
  BY SumIter
<1>2. PICK g : g = [s \in SUBSET S |-> 0]
  OBVIOUS
<1>3. IsIter(g, w, S)
  <2>1. ASSUME NEW s \in SUBSET S
        PROVE  g[s] = IF s = {} THEN 0 ELSE w[Pick(s)] + g[s \ {Pick(s)}]
    <3>1. CASE s = {}
      BY <1>2, <3>1
    <3>2. CASE s # {}
      <4>1. Pick(s) \in S /\ s \ {Pick(s)} \in SUBSET S
        BY <3>2, PickFacts
      <4>2. w[Pick(s)] = 0 /\ g[s \ {Pick(s)}] = 0 /\ g[s] = 0
        BY <1>2, <4>1
      <4>3. QED
        BY <3>2, <4>2
    <3>3. QED
      BY <3>1, <3>2
  <2>2. QED
    BY <1>2, <2>1 DEF IsIter
<1>4. \A s \in SUBSET S : g[s] = f[s]
  BY <1>1, <1>3, IterUnique
<1>5. QED
  BY <1>1, <1>2, <1>4

-------------------------------------------------------------------------------
(* What rests and what the volumes say.  The volumes never fall short of   *)
(* what rests, and while no order can change its price they are exact; a   *)
(* level without volume therefore holds nothing that can still trade, so   *)
(* dropping it leaves the indexed orders in the book.                      *)

Exact == "move" \notin Calls

\* A volume suits what it stands for.
Suits(v, n) == v >= n /\ (Exact => v = n)

RestIn(o, S) == SumFunction([id \in S |-> RemainingSize(o[id])])
Within(b, l) == SumFunction([k \in Slots |-> b.volume[<<l[1], l[2], k>>]])

Volumes(b, o) ==
  /\ \A k \in Keys : Suits(b.volume[k], RestIn(o, Range(b.queue[k])))
  /\ \A l \in Levels : Suits(b.total[l], Within(b, l))

LEMMA RangeFinite ==
  ASSUME NEW q \in Seq(Ids)
  PROVE  Range(q) \in SUBSET Ids /\ IsFiniteSet(Range(q))
<1>1. Range(q) \in SUBSET Ids
  BY DEF Range
<1>2. Len(q) \in Nat /\ DOMAIN q = 1 .. Len(q) /\ \A i \in 1 .. Len(q) : q[i] \in Range(q)
  BY DEF Range
<1>3. q \in Seq(Range(q))
  BY <1>2
<1>4. \A x \in Range(q) : \E i \in 1 .. Len(q) : q[i] = x
  BY <1>2 DEF Range
<1>5. QED
  BY <1>1, <1>3, <1>4 DEF IsFiniteSet

LEMMA RestType ==
  ASSUME NEW o \in [Ids -> Orders], NEW S \in SUBSET Ids, IsFiniteSet(S)
  PROVE  /\ RestIn(o, S) \in Nat
         /\ S = {} => RestIn(o, S) = 0
         /\ \A id \in S : RemainingSize(o[id]) \in Nat /\ RemainingSize(o[id]) <= RestIn(o, S)
<1>1. PICK w : w = [id \in S |-> RemainingSize(o[id])]
  OBVIOUS
<1>2. \A id \in S : RemainingSize(o[id]) \in Nat
  BY RemainingType
<1>3. w \in [S -> Nat]
  BY <1>1, <1>2
<1>4. SumFunction(w) \in Nat /\ (S = {} => SumFunction(w) = 0)
  BY <1>3, SumSplit
<1>5. \A id \in S : w[id] <= SumFunction(w)
  BY <1>3, SumBound
<1>6. RestIn(o, S) = SumFunction(w)
  BY <1>1 DEF RestIn
<1>7. QED
  BY <1>1, <1>2, <1>4, <1>5, <1>6

LEMMA RestSame ==
  ASSUME NEW o, NEW o2, NEW S, \A id \in S : RemainingSize(o2[id]) = RemainingSize(o[id])
  PROVE  RestIn(o2, S) = RestIn(o, S)
<1>1. [id \in S |-> RemainingSize(o2[id])] = [id \in S |-> RemainingSize(o[id])]
  OBVIOUS
<1>2. QED
  BY <1>1 DEF RestIn

\* One order changes; one comes; one goes.
LEMMA RestChange ==
  ASSUME NEW o \in [Ids -> Orders], NEW o2 \in [Ids -> Orders],
         NEW S \in SUBSET Ids, IsFiniteSet(S), NEW x \in S,
         \A id \in S : id # x => o2[id] = o[id]
  PROVE  RestIn(o2, S) + RemainingSize(o[x]) = RestIn(o, S) + RemainingSize(o2[x])
<1>1. PICK w : w = [id \in S |-> RemainingSize(o[id])]
  OBVIOUS
<1>2. PICK v : v = [id \in S |-> RemainingSize(o2[id])]
  OBVIOUS
<1>3. \A id \in S : RemainingSize(o[id]) \in Nat /\ RemainingSize(o2[id]) \in Nat
  BY RemainingType
<1>4. w \in [S -> Nat] /\ v \in [S -> Nat] /\ \A id \in S : id # x => v[id] = w[id]
  BY <1>1, <1>2, <1>3
<1>5. SumFunction(v) + w[x] = SumFunction(w) + v[x]
  BY <1>4, SumChange
<1>6. RestIn(o, S) = SumFunction(w) /\ RestIn(o2, S) = SumFunction(v)
  BY <1>1, <1>2 DEF RestIn
<1>7. w[x] = RemainingSize(o[x]) /\ v[x] = RemainingSize(o2[x])
  BY <1>1, <1>2
<1>8. QED
  BY <1>5, <1>6, <1>7

LEMMA RestAdd ==
  ASSUME NEW o \in [Ids -> Orders], NEW S \in SUBSET Ids, IsFiniteSet(S),
         NEW x \in Ids, x \notin S
  PROVE  RestIn(o, S \cup {x}) = RestIn(o, S) + RemainingSize(o[x])
<1>1. PICK w : w = [id \in S |-> RemainingSize(o[id])]
  OBVIOUS
<1>2. PICK v : v = [id \in S \cup {x} |-> RemainingSize(o[id])]
  OBVIOUS
<1>3. \A id \in S \cup {x} : RemainingSize(o[id]) \in Nat
  BY RemainingType
<1>4. w \in [S -> Nat] /\ v \in [S \cup {x} -> Nat] /\ \A id \in S : v[id] = w[id]
  BY <1>1, <1>2, <1>3
<1>5. SumFunction(v) = SumFunction(w) + v[x]
  BY <1>4, SumAdd
<1>6. RestIn(o, S) = SumFunction(w) /\ RestIn(o, S \cup {x}) = SumFunction(v)
  BY <1>1, <1>2 DEF RestIn
<1>7. QED
  BY <1>2, <1>5, <1>6

LEMMA RestRemove ==
  ASSUME NEW o \in [Ids -> Orders], NEW S \in SUBSET Ids, IsFiniteSet(S), NEW x \in S
  PROVE  RestIn(o, S \ {x}) + RemainingSize(o[x]) = RestIn(o, S)
<1>1. PICK R : R = S \ {x}
  OBVIOUS
<1>2. R \in SUBSET Ids /\ IsFiniteSet(R) /\ x \notin R /\ x \in Ids
  BY <1>1, FS_Subset
<1>3. RestIn(o, R \cup {x}) = RestIn(o, R) + RemainingSize(o[x])
  BY <1>2, RestAdd
<1>4. R \cup {x} = S
  BY <1>1
<1>5. QED
  BY <1>1, <1>3, <1>4

\* Volumes of a level.
LEMMA SlotsFinite == IsFiniteSet(Slots)
<1>1. 0 \in Int /\ 3 + RetailSlots \in Int
  BY BookAssumption
<1>2. QED
  BY <1>1, FS_Interval DEF Slots

LEMMA WithinType ==
  ASSUME NEW b \in Books, NEW l \in Levels
  PROVE  /\ Within(b, l) \in Nat
         /\ \A k \in Slots : /\ <<l[1], l[2], k>> \in Keys
                             /\ b.volume[<<l[1], l[2], k>>] \in Nat
                             /\ b.volume[<<l[1], l[2], k>>] <= Within(b, l)
<1>1. PICK w : w = [k \in Slots |-> b.volume[<<l[1], l[2], k>>]]
  OBVIOUS
<1>2. \A k \in Slots : <<l[1], l[2], k>> \in Keys
  BY DEF Levels, Keys
<1>3. \A k \in Slots : b.volume[<<l[1], l[2], k>>] \in Nat
  BY <1>2 DEF Books
<1>4. w \in [Slots -> Nat]
  BY <1>1, <1>3
<1>5. SumFunction(w) \in Nat
  BY <1>4, SlotsFinite, SumSplit
<1>6. \A k \in Slots : w[k] <= SumFunction(w)
  BY <1>4, SlotsFinite, SumBound
<1>7. Within(b, l) = SumFunction(w)
  BY <1>1 DEF Within
<1>8. QED
  BY <1>1, <1>2, <1>3, <1>5, <1>6, <1>7

LEMMA WithinSame ==
  ASSUME NEW b, NEW n, NEW l \in Levels,
         \A k \in Keys : <<k[1], k[2]>> = l => n.volume[k] = b.volume[k]
  PROVE  Within(n, l) = Within(b, l)
<1>1. \A k \in Slots : n.volume[<<l[1], l[2], k>>] = b.volume[<<l[1], l[2], k>>]
  <2>1. ASSUME NEW k \in Slots
        PROVE  n.volume[<<l[1], l[2], k>>] = b.volume[<<l[1], l[2], k>>]
    <3>1. PICK j : j = <<l[1], l[2], k>>
      OBVIOUS
    <3>2. j \in Keys /\ <<j[1], j[2]>> = l
      BY <3>1 DEF Levels, Keys
    <3>3. n.volume[j] = b.volume[j]
      BY <3>2
    <3>4. QED
      BY <3>1, <3>3
  <2>2. QED
    BY <2>1
<1>2. [k \in Slots |-> n.volume[<<l[1], l[2], k>>]] = [k \in Slots |-> b.volume[<<l[1], l[2], k>>]]
  BY <1>1
<1>3. QED
  BY <1>2 DEF Within

LEMMA WithinChange ==
  ASSUME NEW b \in Books, NEW n \in Books, NEW key \in Keys,
         \A k \in Keys : k # key => n.volume[k] = b.volume[k]
  PROVE  Within(n, <<key[1], key[2]>>) + b.volume[key]
           = Within(b, <<key[1], key[2]>>) + n.volume[key]
<1>1. PICK l \in Levels, x \in Slots : l = <<key[1], key[2]>> /\ x = key[3] /\ key = <<l[1], l[2], x>>
  BY KeyParts
<1>2. PICK w : w = [k \in Slots |-> b.volume[<<l[1], l[2], k>>]]
  OBVIOUS
<1>3. PICK v : v = [k \in Slots |-> n.volume[<<l[1], l[2], k>>]]
  OBVIOUS
<1>4. w \in [Slots -> Nat] /\ v \in [Slots -> Nat]
  BY <1>2, <1>3, WithinType
<1>5. \A k \in Slots : k # x => v[k] = w[k]
  <2>1. ASSUME NEW k \in Slots, k # x PROVE v[k] = w[k]
    <3>1. PICK j : j = <<l[1], l[2], k>>
      OBVIOUS
    <3>2. j \in Keys /\ j # key
      BY <1>1, <2>1, <3>1 DEF Levels, Keys
    <3>3. n.volume[j] = b.volume[j]
      BY <3>2
    <3>4. QED
      BY <1>2, <1>3, <3>1, <3>3
  <2>2. QED
    BY <2>1
<1>6. SumFunction(v) + w[x] = SumFunction(w) + v[x]
  BY <1>4, <1>5, SlotsFinite, SumChange
<1>7. Within(b, l) = SumFunction(w) /\ Within(n, l) = SumFunction(v)
  BY <1>2, <1>3 DEF Within
<1>8. w[x] = b.volume[key] /\ v[x] = n.volume[key]
  BY <1>1, <1>2, <1>3
<1>9. QED
  BY <1>1, <1>6, <1>7, <1>8

LEMMA WithinNothing ==
  ASSUME NEW b, NEW l, \A k \in Slots : b.volume[<<l[1], l[2], k>>] = 0
  PROVE  Within(b, l) = 0
<1>1. PICK w : w = [k \in Slots |-> b.volume[<<l[1], l[2], k>>]]
  OBVIOUS
<1>2. w \in [Slots -> Nat] /\ \A k \in Slots : w[k] = 0
  BY <1>1
<1>3. SumFunction(w) = 0
  BY <1>2, SlotsFinite, SumZeros
<1>4. QED
  BY <1>1, <1>3 DEF Within

-------------------------------------------------------------------------------
(* The volumes under the operators on the book.                            *)

LEMMA QueueFinite ==
  ASSUME NEW b \in Books, NEW k \in Keys
  PROVE  Range(b.queue[k]) \in SUBSET Ids /\ IsFiniteSet(Range(b.queue[k]))
<1>1. b.queue[k] \in Seq(Ids)
  BY DEF Books
<1>2. QED
  BY <1>1, RangeFinite

LEMMA VolumesAre ==
  ASSUME NEW b \in Books, NEW o \in [Ids -> Orders], Volumes(b, o), NEW k \in Keys
  PROVE  /\ <<k[1], k[2]>> \in Levels
         /\ b.volume[k] \in Nat /\ b.total[<<k[1], k[2]>>] \in Nat
         /\ Within(b, <<k[1], k[2]>>) \in Nat
         /\ RestIn(o, Range(b.queue[k])) \in Nat
         /\ RestIn(o, Range(b.queue[k])) <= b.volume[k]
         /\ b.volume[k] <= Within(b, <<k[1], k[2]>>)
         /\ Within(b, <<k[1], k[2]>>) <= b.total[<<k[1], k[2]>>]
         /\ Exact => /\ b.volume[k] = RestIn(o, Range(b.queue[k]))
                     /\ b.total[<<k[1], k[2]>>] = Within(b, <<k[1], k[2]>>)
<1>1. PICK l \in Levels : l = <<k[1], k[2]>> /\ k = <<l[1], l[2], k[3]>> /\ k[3] \in Slots
  BY KeyParts
<1>2. b.volume[k] \in Nat /\ b.total[l] \in Nat
  BY DEF Books
<1>3. Within(b, l) \in Nat /\ b.volume[k] <= Within(b, l)
  BY <1>1, WithinType
<1>4. RestIn(o, Range(b.queue[k])) \in Nat
  BY QueueFinite, RestType
<1>5. Suits(b.volume[k], RestIn(o, Range(b.queue[k]))) /\ Suits(b.total[l], Within(b, l))
  BY DEF Volumes
<1>6. QED
  BY <1>1, <1>2, <1>3, <1>4, <1>5 DEF Suits

\* Books with the same slots and volumes.
Alike(b, n) ==
  n \in Books /\ n.queue = b.queue /\ n.volume = b.volume /\ n.total = b.total

LEMMA AlikeVolumes ==
  ASSUME NEW b, NEW n, Alike(b, n), NEW o, Volumes(b, o)
  PROVE  Volumes(n, o)
<1>1. \A l \in Levels : Within(n, l) = Within(b, l)
  BY WithinSame DEF Alike
<1>2. QED
  BY <1>1 DEF Volumes, Alike

LEMMA UpdateAlike ==
  ASSUME NEW b \in Books
  PROVE  Alike(b, updateBestPrices(b))
<1>1. updateBestPrices(b) \in Books
  BY UpdateFacts
<1>2. QED
  BY <1>1 DEF Alike, updateBestPrices, Books

LEMMA LevelsAlike ==
  ASSUME NEW b \in Books, NEW kind, NEW side \in Sides, NEW price \in Prices
  PROVE  /\ Alike(b, AddLevel(b, side, price))
         /\ Alike(b, NewLevel(b, kind, side, price))
<1>2. Alike(b, AddLevel(b, side, price))
  <2>1. AddLevel(b, side, price) \in Books
    BY AddLevelFacts
  <2>2. QED
    BY <2>1 DEF Alike, AddLevel, Books
<1>3. Alike(b, NewLevel(b, kind, side, price))
  <2>1. NewLevel(b, kind, side, price) \in Books
    BY NewLevelFacts
  <2> DEFINE a == AddLevel(b, side, price)
  <2>2. \/ NewLevel(b, kind, side, price) = a
        \/ NewLevel(b, kind, side, price) = [a EXCEPT !.dirty = TRUE]
        \/ NewLevel(b, kind, side, price) = [a EXCEPT !.best[side] = price]
    BY DEF NewLevel
  <2>3. Alike(b, a)
    BY <1>2
  <2> HIDE DEF a
  <2>4. QED
    BY <2>1, <2>2, <2>3 DEF Alike, Books
<1>4. QED
  BY <1>2, <1>3

\* Out of a slot and its level goes what stops resting there, and in comes
\* what starts to.
LEMMA VolumesMove ==
  ASSUME NEW b \in Books, NEW n \in Books, NEW o \in [Ids -> Orders],
         NEW o2 \in [Ids -> Orders], Volumes(b, o), NEW key \in Keys,
         NEW in \in Nat, NEW out \in Nat,
         \A k \in Keys : k # key => /\ n.volume[k] = b.volume[k]
                                    /\ RestIn(o2, Range(n.queue[k])) = RestIn(o, Range(b.queue[k])),
         \A l \in Levels : l # <<key[1], key[2]>> => n.total[l] = b.total[l],
         n.volume[key] + out = b.volume[key] + in,
         n.total[<<key[1], key[2]>>] + out = b.total[<<key[1], key[2]>>] + in,
         RestIn(o2, Range(n.queue[key])) + out = RestIn(o, Range(b.queue[key])) + in
  PROVE  Volumes(n, o2)
<1>1. ASSUME NEW k \in Keys PROVE Suits(n.volume[k], RestIn(o2, Range(n.queue[k])))
  <2>1. CASE k # key
    BY <2>1 DEF Volumes
  <2>2. CASE k = key
    <3>1. Suits(b.volume[key], RestIn(o, Range(b.queue[key])))
      BY DEF Volumes
    <3>2. b.volume[key] \in Nat /\ n.volume[key] \in Nat
      BY DEF Books
    <3>3. /\ RestIn(o, Range(b.queue[key])) \in Nat
          /\ RestIn(o2, Range(n.queue[key])) \in Nat
      BY QueueFinite, RestType
    <3>4. QED
      BY <2>2, <3>1, <3>2, <3>3 DEF Suits
  <2>3. QED
    BY <2>1, <2>2
<1>2. ASSUME NEW l \in Levels PROVE Suits(n.total[l], Within(n, l))
  <2>1. CASE l # <<key[1], key[2]>>
    <3>1. \A k \in Keys : <<k[1], k[2]>> = l => k # key
      BY <2>1
    <3>2. Within(n, l) = Within(b, l)
      BY <3>1, WithinSame
    <3>3. QED
      BY <2>1, <3>2 DEF Volumes
  <2>2. CASE l = <<key[1], key[2]>>
    <3>1. Suits(b.total[l], Within(b, l))
      BY DEF Volumes
    <3>2. Within(n, l) + b.volume[key] = Within(b, l) + n.volume[key]
      BY <2>2, WithinChange
    <3>3. /\ b.volume[key] \in Nat /\ n.volume[key] \in Nat
          /\ b.total[l] \in Nat /\ n.total[l] \in Nat
      BY DEF Books
    <3>4. Within(n, l) \in Nat /\ Within(b, l) \in Nat
      BY WithinType
    <3>5. n.total[l] + out = b.total[l] + in
      BY <2>2
    <3>6. QED
      BY <3>1, <3>2, <3>3, <3>4, <3>5 DEF Suits
  <2>3. QED
    BY <2>1, <2>2
<1>3. QED
  BY <1>1, <1>2 DEF Volumes

\* An empty slot loses the volume it may still have.
LEMMA VolumesClear ==
  ASSUME NEW b \in Books, NEW n \in Books, NEW o \in [Ids -> Orders], Volumes(b, o),
         NEW key \in Keys, b.queue[key] = <<>>,
         n.queue = b.queue, n.total = b.total, n.volume = [b.volume EXCEPT ![key] = 0]
  PROVE  Volumes(n, o)
<1>1. /\ \A k \in Keys : k # key => n.volume[k] = b.volume[k]
      /\ n.volume[key] = 0
  BY DEF Books
<1>2. RestIn(o, Range(b.queue[key])) = 0
  <2>1. Range(b.queue[key]) = {}
    BY DEF Range
  <2>2. QED
    BY <2>1, QueueFinite, RestType
<1>3. b.volume[key] \in Nat /\ (Exact => b.volume[key] = 0)
  <2>1. /\ b.volume[key] \in Nat
        /\ Exact => b.volume[key] = RestIn(o, Range(b.queue[key]))
    BY VolumesAre
  <2>2. QED
    BY <1>2, <2>1
<1>4. ASSUME NEW k \in Keys PROVE Suits(n.volume[k], RestIn(o, Range(n.queue[k])))
  BY <1>1, <1>2 DEF Suits, Volumes
<1>5. ASSUME NEW l \in Levels PROVE Suits(n.total[l], Within(n, l))
  <2>1. CASE l # <<key[1], key[2]>>
    <3>1. \A k \in Keys : <<k[1], k[2]>> = l => n.volume[k] = b.volume[k]
      BY <1>1, <2>1
    <3>2. Within(n, l) = Within(b, l)
      BY <3>1, WithinSame
    <3>3. QED
      BY <3>2 DEF Volumes
  <2>2. CASE l = <<key[1], key[2]>>
    <3>1. Within(n, l) + b.volume[key] = Within(b, l) + n.volume[key]
      BY <1>1, <2>2, WithinChange
    <3>2. Within(n, l) \in Nat /\ Within(b, l) \in Nat /\ b.total[l] \in Nat
      BY WithinType DEF Books
    <3>3. Suits(b.total[l], Within(b, l))
      BY DEF Volumes
    <3>4. QED
      BY <1>1, <1>3, <3>1, <3>2, <3>3 DEF Suits
  <2>3. QED
    BY <2>1, <2>2
<1>6. QED
  BY <1>4, <1>5 DEF Volumes

LEMMA VolumesDrop ==
  ASSUME NEW b \in Books, NEW o \in [Ids -> Orders], Volumes(b, o),
         NEW side \in Sides, NEW price \in Prices
  PROVE  Volumes(DropLevel(b, side, price), o)
<1>1. PICK n : n = DropLevel(b, side, price)
  OBVIOUS
<1>2. PICK g \in Levels : g = <<side, price>>
  BY DEF Levels
<1>3. /\ n.queue = [k \in Keys |-> IF <<k[1], k[2]>> = g THEN <<>> ELSE b.queue[k]]
      /\ n.volume = [k \in Keys |-> IF <<k[1], k[2]>> = g THEN 0 ELSE b.volume[k]]
      /\ n.total = [b.total EXCEPT ![g] = 0]
  BY <1>1, <1>2 DEF DropLevel, Books
<1>4. ASSUME NEW k \in Keys PROVE Suits(n.volume[k], RestIn(o, Range(n.queue[k])))
  <2>1. CASE <<k[1], k[2]>> = g
    <3>1. n.queue[k] = <<>> /\ n.volume[k] = 0
      BY <1>3, <2>1
    <3>2. Range(n.queue[k]) = {}
      BY <3>1 DEF Range
    <3>3. RestIn(o, {}) = 0
      BY RestType, FS_EmptySet
    <3>4. RestIn(o, Range(n.queue[k])) = 0
      BY <3>2, <3>3
    <3>5. QED
      BY <3>1, <3>4 DEF Suits
  <2>2. CASE <<k[1], k[2]>> # g
    <3>1. n.queue[k] = b.queue[k] /\ n.volume[k] = b.volume[k]
      BY <1>3, <2>2
    <3>2. QED
      BY <3>1 DEF Volumes
  <2>3. QED
    BY <2>1, <2>2
<1>5. ASSUME NEW l \in Levels PROVE Suits(n.total[l], Within(n, l))
  <2>1. CASE l = g
    <3>1. ASSUME NEW k \in Slots PROVE n.volume[<<l[1], l[2], k>>] = 0
      <4>1. PICK j : j = <<l[1], l[2], k>>
        OBVIOUS
      <4>2. j \in Keys /\ <<j[1], j[2]>> = l
        BY <4>1 DEF Levels, Keys
      <4>3. n.volume[j] = 0
        BY <1>3, <2>1, <4>2
      <4>4. QED
        BY <4>1, <4>3
    <3>2. Within(n, l) = 0
      BY <3>1, WithinNothing
    <3>3. n.total[l] = 0
      BY <1>3, <2>1 DEF Books
    <3>4. QED
      BY <3>2, <3>3 DEF Suits
  <2>2. CASE l # g
    <3>1. \A k \in Keys : <<k[1], k[2]>> = l => n.volume[k] = b.volume[k]
      BY <1>3, <2>2
    <3>2. Within(n, l) = Within(b, l)
      BY <3>1, WithinSame
    <3>3. n.total[l] = b.total[l]
      BY <1>3, <2>2 DEF Books
    <3>4. QED
      BY <3>2, <3>3 DEF Volumes
  <2>3. QED
    BY <2>1, <2>2
<1>6. QED
  BY <1>1, <1>4, <1>5 DEF Volumes

-------------------------------------------------------------------------------
(* The volumes as orders come, trade and go.                               *)

\* An order that was nowhere in the book is put into its slot.
LEMMA EnqueueVolumes ==
  ASSUME NEW b \in Books, Tidy(b), NEW o \in [Ids -> Orders], Volumes(b, o),
         NEW id \in Ids, Absent(b, id), NEW new \in Orders, new.price \in b.levels[new.side],
         NEW o2 \in [Ids -> Orders], o2[id] = new, \A i \in Ids : i # id => o2[i] = o[i]
  PROVE  Volumes(Enqueue(b, id, new), o2)
<1>1. PICK n, key, m : n = Enqueue(b, id, new) /\ key = Key(new) /\ m = RemainingSize(new)
  OBVIOUS
<1>2. new.price \in Prices /\ new.side \in Sides
  BY DEF Books, Orders
<1>3. key \in Keys /\ m \in Nat /\ <<key[1], key[2]>> = <<new.side, new.price>>
  BY <1>1, <1>2, KeyType, RemainingType DEF Key
<1>4. /\ n \in Books
      /\ \A k \in Keys : Range(n.queue[k]) =
           IF k = key THEN Range(b.queue[k]) \cup {id} ELSE Range(b.queue[k])
  <2>1. id \notin Range(b.queue[Key(new)])
    BY <1>1, <1>3 DEF Absent
  <2>2. LET e == Enqueue(b, id, new)
        IN  /\ e \in Books
            /\ \A k \in Keys : Range(e.queue[k]) =
                 IF k = Key(new) THEN Range(b.queue[k]) \cup {id} ELSE Range(b.queue[k])
    BY <2>1, EnqueueTidy
  <2>3. QED
    BY <1>1, <2>2
<1>5. PICK l \in Levels : l = <<key[1], key[2]>>
  BY <1>3, KeyParts
<1>6. /\ n.volume = [b.volume EXCEPT ![key] = @ + m]
      /\ n.total = [b.total EXCEPT ![l] = @ + m]
  BY <1>1, <1>3, <1>5 DEF Enqueue, Books
<1>7. /\ \A k \in Keys : k # key => n.volume[k] = b.volume[k]
      /\ \A j \in Levels : j # l => n.total[j] = b.total[j]
      /\ n.volume[key] = b.volume[key] + m
      /\ n.total[l] = b.total[l] + m
      /\ b.volume[key] \in Nat /\ b.total[l] \in Nat
  BY <1>3, <1>6 DEF Books
<1>8. ASSUME NEW k \in Keys
      PROVE  /\ Range(b.queue[k]) \in SUBSET Ids /\ IsFiniteSet(Range(b.queue[k]))
             /\ id \notin Range(b.queue[k])
             /\ RestIn(o2, Range(b.queue[k])) = RestIn(o, Range(b.queue[k]))
  <2>1. Range(b.queue[k]) \in SUBSET Ids /\ IsFiniteSet(Range(b.queue[k]))
    BY QueueFinite
  <2>2. id \notin Range(b.queue[k])
    BY DEF Absent
  <2>3. \A i \in Range(b.queue[k]) : RemainingSize(o2[i]) = RemainingSize(o[i])
    BY <2>1, <2>2
  <2>4. RestIn(o2, Range(b.queue[k])) = RestIn(o, Range(b.queue[k]))
    BY <2>3, RestSame
  <2>5. QED
    BY <2>1, <2>2, <2>4
<1>9. RestIn(o2, Range(b.queue[key]) \cup {id}) = RestIn(o2, Range(b.queue[key])) + m
  BY <1>1, <1>3, <1>8, RestAdd
<1>10. RestIn(o2, Range(n.queue[key])) = RestIn(o, Range(b.queue[key])) + m
  BY <1>3, <1>4, <1>8, <1>9
<1>11. \A k \in Keys : k # key => RestIn(o2, Range(n.queue[k])) = RestIn(o, Range(b.queue[k]))
  BY <1>4, <1>8
<1>12. RestIn(o, Range(b.queue[key])) \in Nat
  BY <1>3, VolumesAre
<1>13. /\ n.volume[key] + 0 = b.volume[key] + m
       /\ n.total[l] + 0 = b.total[l] + m
       /\ RestIn(o2, Range(n.queue[key])) + 0 = RestIn(o, Range(b.queue[key])) + m
  BY <1>3, <1>7, <1>10, <1>12
<1>14. Volumes(n, o2)
  BY <1>3, <1>4, <1>5, <1>7, <1>11, <1>13, VolumesMove
<1>15. QED
  BY <1>1, <1>14

\* Reducing by what the slot holds takes just that from the slot and its level.
LEMMA ReduceVolumes ==
  ASSUME NEW b \in Books, NEW o \in [Ids -> Orders], Volumes(b, o),
         NEW key \in Keys, NEW m \in Nat, m <= RestIn(o, Range(b.queue[key]))
  PROVE  LET n == Reduce(b, key, m)
             l == <<key[1], key[2]>>
         IN  /\ n \in Books /\ n.queue = b.queue /\ n.levels = b.levels /\ l \in Levels
             /\ \A k \in Keys : k # key => n.volume[k] = b.volume[k]
             /\ \A j \in Levels : j # l => n.total[j] = b.total[j]
             /\ n.volume[key] + m = b.volume[key]
             /\ n.total[l] + m = b.total[l]
             /\ n.volume[key] \in Nat /\ n.total[l] \in Nat
             /\ n.volume \in [Keys -> Nat] /\ n.total \in [Levels -> Nat]
<1>1. PICK n : n = Reduce(b, key, m)
  OBVIOUS
<1>2. PICK l \in Levels : l = <<key[1], key[2]>>
  BY KeyParts
<1>3. n \in Books /\ n.queue = b.queue /\ n.levels = b.levels
  BY <1>1, ReduceFacts
<1>4. /\ n.volume = [b.volume EXCEPT ![key] = safeSubtract(@, m)]
      /\ n.total = [b.total EXCEPT ![l] = safeSubtract(@, m)]
  BY <1>1, <1>2 DEF Reduce, Books
<1>5. /\ b.volume[key] \in Nat /\ b.total[l] \in Nat
      /\ m <= b.volume[key] /\ m <= b.total[l]
  <2>1. /\ b.volume[key] \in Nat /\ b.total[l] \in Nat /\ Within(b, l) \in Nat
        /\ RestIn(o, Range(b.queue[key])) \in Nat
        /\ RestIn(o, Range(b.queue[key])) <= b.volume[key]
        /\ b.volume[key] <= Within(b, l)
        /\ Within(b, l) <= b.total[l]
    BY <1>2, VolumesAre
  <2>2. QED
    BY <2>1
<1>6. /\ \A k \in Keys : k # key => n.volume[k] = b.volume[k]
      /\ \A j \in Levels : j # l => n.total[j] = b.total[j]
      /\ n.volume[key] = b.volume[key] - m
      /\ n.total[l] = b.total[l] - m
  BY <1>4, <1>5 DEF Books, safeSubtract
<1>7. /\ n.volume[key] + m = b.volume[key] /\ n.total[l] + m = b.total[l]
      /\ n.volume[key] \in Nat /\ n.total[l] \in Nat
      /\ n.volume \in [Keys -> Nat] /\ n.total \in [Levels -> Nat]
  BY <1>3, <1>5, <1>6 DEF Books
<1>8. QED
  BY <1>1, <1>2, <1>3, <1>6, <1>7

\* An order leaves its slot with all that it has left.
LEMMA LeaveVolumes ==
  ASSUME NEW b \in Books, Tidy(b), NEW o \in [Ids -> Orders], Volumes(b, o),
         NEW key \in Keys, NEW id \in Range(b.queue[key]),
         NEW m, m = RemainingSize(o[id])
  PROVE  Volumes(Unqueue(Reduce(b, key, m), key, id), o)
<1>1. Range(b.queue[key]) \in SUBSET Ids /\ IsFiniteSet(Range(b.queue[key]))
  BY QueueFinite
<1>2. m \in Nat /\ m <= RestIn(o, Range(b.queue[key])) /\ id \in Ids
  BY <1>1, RestType
<1>3. PICK r : r = Reduce(b, key, m)
  OBVIOUS
<1>4. PICK l \in Levels : l = <<key[1], key[2]>>
  BY KeyParts
<1>5. /\ r \in Books /\ r.queue = b.queue
      /\ \A k \in Keys : k # key => r.volume[k] = b.volume[k]
      /\ \A j \in Levels : j # l => r.total[j] = b.total[j]
      /\ r.volume[key] + m = b.volume[key]
      /\ r.total[l] + m = b.total[l]
      /\ r.volume[key] \in Nat /\ r.total[l] \in Nat
  BY <1>2, <1>3, <1>4, ReduceVolumes
<1>6. PICK q : q = RemoveFirst(b.queue[key], id)
  OBVIOUS
<1>7. q \in Seq(Ids) /\ Range(q) = Range(b.queue[key]) \ {id}
  <2>1. b.queue[key] \in Seq(Ids) /\ Distinct(b.queue[key])
    BY DEF Books, Tidy
  <2>2. QED
    BY <1>6, <2>1, RemoveFirstFacts
<1>8. PICK n : n = [r EXCEPT !.queue = [@ EXCEPT ![key] = q]]
  OBVIOUS
<1>9. /\ n \in Books /\ n.volume = r.volume /\ n.total = r.total
      /\ n.queue[key] = q /\ \A k \in Keys : k # key => n.queue[k] = b.queue[k]
  BY <1>5, <1>7, <1>8 DEF Books
<1>10. RestIn(o, Range(b.queue[key]) \ {id}) + m = RestIn(o, Range(b.queue[key]))
  BY <1>1, RestRemove
<1>11. RestIn(o, Range(n.queue[key])) + m = RestIn(o, Range(b.queue[key])) + 0
  <2>1. Range(n.queue[key]) = Range(b.queue[key]) \ {id}
    BY <1>7, <1>9
  <2>2. RestIn(o, Range(b.queue[key])) \in Nat
    BY VolumesAre
  <2>3. QED
    BY <1>10, <2>1, <2>2
<1>12. /\ n.volume[key] + m = b.volume[key] + 0
       /\ n.total[l] + m = b.total[l] + 0
  BY <1>5, <1>9 DEF Books
<1>13. /\ \A k \in Keys : k # key => /\ n.volume[k] = b.volume[k]
                                     /\ RestIn(o, Range(n.queue[k])) = RestIn(o, Range(b.queue[k]))
       /\ \A j \in Levels : j # l => n.total[j] = b.total[j]
  BY <1>5, <1>9
<1>14. 0 \in Nat
  OBVIOUS
<1>15. Volumes(n, o)
  BY <1>2, <1>4, <1>9, <1>11, <1>12, <1>13, <1>14, VolumesMove
<1>16. PICK u : u = Unqueue(r, key, id)
  OBVIOUS
<1>17. /\ u \in Books /\ u.total = n.total /\ u.queue = n.queue
       /\ u.volume = [n.volume EXCEPT ![key] = IF q = <<>> THEN 0 ELSE @]
  <2>1. u \in Books
    <3>1. Distinct(r.queue[key])
      BY <1>5 DEF Tidy
    <3>2. QED
      BY <1>5, <1>16, <3>1, UnqueueFacts
  <2>2. q = RemoveFirst(r.queue[key], id)
    BY <1>5, <1>6
  <2>3. u = [r EXCEPT !.queue[key] = q, !.volume[key] = IF q = <<>> THEN 0 ELSE @]
    BY <1>16, <2>2 DEF Unqueue
  <2>4. QED
    BY <1>5, <1>8, <2>1, <2>3 DEF Books
<1>18. Volumes(u, o)
  <2>1. CASE q = <<>>
    <3>1. u.volume = [n.volume EXCEPT ![key] = 0] /\ n.queue[key] = <<>>
      BY <1>9, <1>17, <2>1
    <3>2. QED
      BY <1>9, <1>15, <1>17, <3>1, VolumesClear
  <2>2. CASE q # <<>>
    <3>1. u.volume = n.volume
      BY <1>9, <1>17, <2>2 DEF Books
    <3>2. Alike(n, u)
      BY <1>17, <3>1 DEF Alike
    <3>3. QED
      BY <1>15, <3>2, AlikeVolumes
  <2>3. QED
    BY <2>1, <2>2
<1>19. QED
  BY <1>3, <1>16, <1>18

\* What is in the slots after an order has left, and after one has come.
LEMMA UnqueueLeaves ==
  ASSUME NEW b \in Books, Tidy(b), NEW key \in Keys, NEW id, NEW m \in Nat,
         NEW n, n = Unqueue(Reduce(b, key, m), key, id)
  PROVE  n.levels = b.levels /\ \A k \in Keys : Range(b.queue[k]) \ {id} \subseteq Range(n.queue[k])
<1>1. PICK r : r = Reduce(b, key, m)
  OBVIOUS
<1>2. r \in Books /\ r.queue = b.queue /\ r.levels = b.levels /\ Distinct(b.queue[key])
  BY <1>1, ReduceFacts DEF Tidy
<1>3. /\ n.queue = [b.queue EXCEPT ![key] = RemoveFirst(b.queue[key], id)]
      /\ n.levels = b.levels
  BY <1>1, <1>2, UnqueueFacts
<1>4. ASSUME NEW k \in Keys PROVE Range(b.queue[k]) \ {id} \subseteq Range(n.queue[k])
  <2>1. CASE k = key
    <3>1. Range(RemoveFirst(b.queue[key], id)) = Range(b.queue[key]) \ {id}
      BY <1>2, RemoveFirstFacts DEF Books
    <3>2. n.queue[key] = RemoveFirst(b.queue[key], id)
      BY <1>3 DEF Books
    <3>3. QED
      BY <2>1, <3>1, <3>2
  <2>2. CASE k # key
    BY <1>3, <2>2
  <2>3. QED
    BY <2>1, <2>2
<1>5. QED
  BY <1>3, <1>4

LEMMA EnqueueLeaves ==
  ASSUME NEW b \in Books, Tidy(b), NEW id \in Ids, Absent(b, id), NEW o \in Orders,
         o.price \in b.levels[o.side], NEW n, n = Enqueue(b, id, o)
  PROVE  /\ n \in Books /\ Key(o) \in Keys
         /\ \A k \in Keys : Range(n.queue[k]) =
              IF k = Key(o) THEN Range(b.queue[k]) \cup {id} ELSE Range(b.queue[k])
<1>1. o.price \in Prices
  BY DEF Books, Orders
<1>2. Key(o) \in Keys
  BY <1>1, KeyType
<1>3. id \notin Range(b.queue[Key(o)])
  BY <1>2 DEF Absent
<1>4. LET e == Enqueue(b, id, o)
      IN  /\ e \in Books
          /\ \A k \in Keys : Range(e.queue[k]) =
               IF k = Key(o) THEN Range(b.queue[k]) \cup {id} ELSE Range(b.queue[k])
  BY <1>3, EnqueueTidy
<1>5. QED
  BY <1>2, <1>4

\* What orders that are not in the book say does not matter.
LEMMA VolumesForget ==
  ASSUME NEW b \in Books, NEW o \in [Ids -> Orders], Volumes(b, o),
         NEW id, Absent(b, id), NEW o2, \A i \in Ids : i # id => o2[i] = o[i]
  PROVE  Volumes(b, o2)
<1>1. ASSUME NEW k \in Keys
      PROVE  RestIn(o2, Range(b.queue[k])) = RestIn(o, Range(b.queue[k]))
  <2>1. Range(b.queue[k]) \in SUBSET Ids /\ id \notin Range(b.queue[k])
    BY QueueFinite DEF Absent
  <2>2. \A i \in Range(b.queue[k]) : RemainingSize(o2[i]) = RemainingSize(o[i])
    BY <2>1
  <2>3. QED
    BY <2>2, RestSame
<1>2. QED
  BY <1>1 DEF Volumes

\* While it trades, an order that is being moved rests with less than the
\* volumes say: they cover it still, but no longer are exact.
LEMMA VolumesTaken ==
  ASSUME NEW b \in Books, NEW o \in [Ids -> Orders], Volumes(b, o),
         NEW id \in Ids, Absent(b, id) \/ ~Exact,
         NEW o2 \in [Ids -> Orders], \A i \in Ids : i # id => o2[i] = o[i],
         RemainingSize(o2[id]) <= RemainingSize(o[id])
  PROVE  Volumes(b, o2)
<1>1. CASE Absent(b, id)
  BY <1>1, VolumesForget
<1>2. CASE ~Exact
  <2>1. ASSUME NEW k \in Keys PROVE Suits(b.volume[k], RestIn(o2, Range(b.queue[k])))
    <3>1. PICK S : S = Range(b.queue[k])
      OBVIOUS
    <3>2. S \in SUBSET Ids /\ IsFiniteSet(S)
      BY <3>1, QueueFinite
    <3>3. RestIn(o, S) \in Nat /\ RestIn(o2, S) \in Nat /\ b.volume[k] \in Nat
      BY <3>2, RestType DEF Books
    <3>4. Suits(b.volume[k], RestIn(o, S))
      BY <3>1 DEF Volumes
    <3>5. CASE id \in S
      <4>1. RestIn(o2, S) + RemainingSize(o[id]) = RestIn(o, S) + RemainingSize(o2[id])
        BY <3>2, <3>5, RestChange
      <4>2. RemainingSize(o[id]) \in Nat /\ RemainingSize(o2[id]) \in Nat
        BY RemainingType
      <4>3. QED
        BY <1>2, <3>1, <3>3, <3>4, <4>1, <4>2 DEF Suits
    <3>6. CASE id \notin S
      <4>1. \A i \in S : RemainingSize(o2[i]) = RemainingSize(o[i])
        BY <3>2, <3>6
      <4>2. RestIn(o2, S) = RestIn(o, S)
        BY <4>1, RestSame
      <4>3. QED
        BY <3>1, <3>4, <4>2
    <3>7. QED
      BY <3>5, <3>6
  <2>2. QED
    BY <2>1 DEF Volumes
<1>3. QED
  BY <1>1, <1>2

\* A maker that is filled in part stays in its slot with less.
LEMMA TradeVolumes ==
  ASSUME NEW b \in Books, NEW o \in [Ids -> Orders], Volumes(b, o),
         NEW key \in Keys, NEW id \in Range(b.queue[key]),
         \A k \in Keys : k # key => id \notin Range(b.queue[k]),
         NEW m \in Nat,
         NEW o2 \in [Ids -> Orders], \A i \in Ids : i # id => o2[i] = o[i],
         RemainingSize(o2[id]) + m = RemainingSize(o[id])
  PROVE  Volumes(Reduce(b, key, m), o2)
<1>1. Range(b.queue[key]) \in SUBSET Ids /\ IsFiniteSet(Range(b.queue[key]))
  BY QueueFinite
<1>2. /\ RestIn(o, Range(b.queue[key])) \in Nat /\ RestIn(o2, Range(b.queue[key])) \in Nat
      /\ RemainingSize(o[id]) \in Nat /\ RemainingSize(o[id]) <= RestIn(o, Range(b.queue[key]))
      /\ RemainingSize(o2[id]) \in Nat
  BY <1>1, RestType
<1>3. m <= RestIn(o, Range(b.queue[key]))
  BY <1>2
<1>4. PICK n : n = Reduce(b, key, m)
  OBVIOUS
<1>5. PICK l \in Levels : l = <<key[1], key[2]>>
  BY KeyParts
<1>6. /\ n \in Books /\ n.queue = b.queue
      /\ \A k \in Keys : k # key => n.volume[k] = b.volume[k]
      /\ \A j \in Levels : j # l => n.total[j] = b.total[j]
      /\ n.volume[key] + m = b.volume[key]
      /\ n.total[l] + m = b.total[l]
      /\ n.volume[key] \in Nat /\ n.total[l] \in Nat
  BY <1>3, <1>4, <1>5, ReduceVolumes
<1>7. RestIn(o2, Range(b.queue[key])) + RemainingSize(o[id])
        = RestIn(o, Range(b.queue[key])) + RemainingSize(o2[id])
  BY <1>1, RestChange
<1>8. RestIn(o2, Range(n.queue[key])) + m = RestIn(o, Range(b.queue[key])) + 0
  BY <1>2, <1>6, <1>7
<1>9. ASSUME NEW k \in Keys, k # key
      PROVE  RestIn(o2, Range(n.queue[k])) = RestIn(o, Range(b.queue[k]))
  <2>1. Range(b.queue[k]) \in SUBSET Ids
    BY QueueFinite
  <2>2. \A i \in Range(b.queue[k]) : RemainingSize(o2[i]) = RemainingSize(o[i])
    BY <1>9, <2>1
  <2>3. RestIn(o2, Range(b.queue[k])) = RestIn(o, Range(b.queue[k]))
    BY <2>2, RestSame
  <2>4. QED
    BY <1>6, <2>3
<1>10. n.volume[key] + m = b.volume[key] + 0 /\ n.total[l] + m = b.total[l] + 0 /\ 0 \in Nat
  BY <1>6
<1>11. Volumes(n, o2)
  BY <1>5, <1>6, <1>8, <1>9, <1>10, VolumesMove
<1>12. QED
  BY <1>4, <1>11

\* An order stays in its slot with another size.
LEMMA ResizeVolumes ==
  ASSUME NEW b \in Books, NEW o \in [Ids -> Orders], Volumes(b, o),
         NEW key \in Keys, NEW id \in Range(b.queue[key]),
         \A k \in Keys : k # key => id \notin Range(b.queue[k]),
         NEW r, r = Reduce(b, key, RemainingSize(o[id])),
         NEW o2 \in [Ids -> Orders], \A i \in Ids : i # id => o2[i] = o[i],
         NEW m, m = RemainingSize(o2[id]),
         NEW n \in Books, n.queue = r.queue,
         \A k \in Keys : n.volume[k] = IF k = key THEN r.volume[k] + m ELSE r.volume[k],
         \A j \in Levels : n.total[j] = IF j = <<key[1], key[2]>> THEN r.total[j] + m
                                        ELSE r.total[j]
  PROVE  Volumes(n, o2)
<1>1. Range(b.queue[key]) \in SUBSET Ids /\ IsFiniteSet(Range(b.queue[key]))
  BY QueueFinite
<1>2. PICK c : c = RemainingSize(o[id])
  OBVIOUS
<1>3. /\ RestIn(o, Range(b.queue[key])) \in Nat /\ RestIn(o2, Range(b.queue[key])) \in Nat
      /\ c \in Nat /\ c <= RestIn(o, Range(b.queue[key]))
      /\ m \in Nat
  BY <1>1, <1>2, RestType
<1>4. PICK l \in Levels : l = <<key[1], key[2]>>
  BY KeyParts
<1>5. /\ r \in Books /\ r.queue = b.queue
      /\ \A k \in Keys : k # key => r.volume[k] = b.volume[k]
      /\ \A j \in Levels : j # l => r.total[j] = b.total[j]
      /\ r.volume[key] + c = b.volume[key]
      /\ r.total[l] + c = b.total[l]
      /\ r.volume[key] \in Nat /\ r.total[l] \in Nat
  BY <1>2, <1>3, <1>4, ReduceVolumes
<1>6. /\ \A k \in Keys : k # key => n.volume[k] = b.volume[k]
      /\ \A j \in Levels : j # l => n.total[j] = b.total[j]
      /\ n.volume[key] = r.volume[key] + m
      /\ n.total[l] = r.total[l] + m
  BY <1>4, <1>5
<1>7. RestIn(o2, Range(b.queue[key])) + c = RestIn(o, Range(b.queue[key])) + m
  BY <1>1, <1>2, RestChange
<1>8. /\ RestIn(o2, Range(n.queue[key])) + c = RestIn(o, Range(b.queue[key])) + m
      /\ n.volume[key] + c = b.volume[key] + m
      /\ n.total[l] + c = b.total[l] + m
  BY <1>3, <1>5, <1>6, <1>7
<1>9. ASSUME NEW k \in Keys, k # key
      PROVE  RestIn(o2, Range(n.queue[k])) = RestIn(o, Range(b.queue[k]))
  <2>1. Range(b.queue[k]) \in SUBSET Ids
    BY QueueFinite
  <2>2. \A i \in Range(b.queue[k]) : RemainingSize(o2[i]) = RemainingSize(o[i])
    BY <1>9, <2>1
  <2>3. RestIn(o2, Range(b.queue[k])) = RestIn(o, Range(b.queue[k]))
    BY <2>2, RestSame
  <2>4. QED
    BY <1>5, <2>3
<1>10. \A k \in Keys : k # key => /\ n.volume[k] = b.volume[k]
                                  /\ RestIn(o2, Range(n.queue[k])) = RestIn(o, Range(b.queue[k]))
  BY <1>6, <1>9
<1>11. m \in Nat /\ c \in Nat
  BY <1>3
<1>12. /\ \A j \in Levels : j # <<key[1], key[2]>> => n.total[j] = b.total[j]
       /\ n.total[<<key[1], key[2]>>] + c = b.total[<<key[1], key[2]>>] + m
  BY <1>4, <1>6, <1>8
<1>13. QED
  BY <1>8, <1>10, <1>11, <1>12, VolumesMove

-------------------------------------------------------------------------------
(* Indexed orders stay in the book.                                        *)

\* Indexed orders rest where they say, and except for those in sk they have
\* something left.
Kept(b, o, ix, sk) ==
  \A id \in ix : /\ id \in Range(b.queue[Key(o[id])])
                 /\ id \notin sk => ~IsFilled(o[id])

\* The order that is being moved rests while it is filled.
Moving == IF call.kind = "move" THEN {call.id} ELSE {}

VolumeInv ==
  /\ BookInv
  /\ Volumes(book, order)
  /\ Kept(book, order, index, Moving)
  /\ call.kind = "move" => ~Exact

\* A level without volume holds no indexed order.
LEMMA KeptDrop ==
  ASSUME NEW b \in Books, NEW o \in [Ids -> Orders], Volumes(b, o),
         NEW ix \in SUBSET Ids, NEW sk, Kept(b, o, ix, sk),
         \A i \in ix : Key(o[i]) \in Keys,
         NEW side \in Sides, NEW price \in Prices, b.total[<<side, price>>] = 0,
         \A i \in ix : i \in sk => o[i].side # side
  PROVE  Kept(DropLevel(b, side, price), o, ix, sk)
<1>1. PICK n : n = DropLevel(b, side, price)
  OBVIOUS
<1>2. n.queue = [k \in Keys |-> IF <<k[1], k[2]>> = <<side, price>> THEN <<>> ELSE b.queue[k]]
  <2> DEFINE d == DropLevel(b, side, price)
  <2>1. /\ d \in Books
        /\ d.levels = [b.levels EXCEPT ![side] = @ \ {price}]
        /\ d.queue = [k \in Keys |-> IF <<k[1], k[2]>> = <<side, price>>
                                     THEN <<>> ELSE b.queue[k]]
    BY DropLevelFacts
  <2> HIDE DEF d
  <2>2. n = d
    BY <1>1 DEF d
  <2>3. QED
    BY <2>1, <2>2
<1>3. ASSUME NEW i \in ix PROVE i \in Range(n.queue[Key(o[i])])
  <2>1. PICK k \in Keys : k = Key(o[i])
    OBVIOUS
  <2>2. k[1] = o[i].side /\ i \in Range(b.queue[k])
    BY <2>1 DEF Key, Kept
  <2>3. CASE <<k[1], k[2]>> = <<side, price>>
    <3>1. PICK S : S = Range(b.queue[k])
      OBVIOUS
    <3>2. S \in SUBSET Ids /\ IsFiniteSet(S) /\ i \in S
      BY <2>2, <3>1, QueueFinite
    <3>3. /\ RemainingSize(o[i]) \in Nat /\ RemainingSize(o[i]) <= RestIn(o, S)
          /\ RestIn(o, S) \in Nat
      BY <3>2, RestType
    <3>4. PICK l \in Levels : l = <<k[1], k[2]>>
      BY KeyParts
    <3>5. /\ b.volume[k] \in Nat /\ Within(b, l) \in Nat /\ b.total[l] \in Nat
          /\ RestIn(o, S) <= b.volume[k] /\ b.volume[k] <= Within(b, l)
          /\ Within(b, l) <= b.total[l]
      BY <3>1, <3>4, VolumesAre
    <3>6. b.total[l] = 0
      BY <2>3, <3>4
    <3>7. RemainingSize(o[i]) = 0
      BY <3>3, <3>5, <3>6
    <3>8. IsFilled(o[i])
      BY <3>2, <3>7, RemainingType
    <3>9. i \in sk
      BY <3>8 DEF Kept
    <3>10. QED
      BY <2>2, <2>3, <3>9
  <2>4. CASE <<k[1], k[2]>> # <<side, price>>
    <3>1. n.queue[k] = b.queue[k]
      BY <1>2, <2>4
    <3>2. QED
      BY <2>1, <2>2, <3>1
  <2>5. QED
    BY <2>3, <2>4
<1>4. QED
  BY <1>1, <1>3 DEF Kept

LEMMA DropKeeps ==
  ASSUME NEW b \in Books, NEW o \in [Ids -> Orders], Volumes(b, o),
         NEW ix \in SUBSET Ids, NEW sk, Kept(b, o, ix, sk),
         \A i \in ix : Key(o[i]) \in Keys,
         NEW side \in Sides, NEW price \in Prices,
         \A i \in ix : i \in sk => o[i].side # side,
         NEW n, n = DropIfEmpty(b, side, price)
                \/ n = IF b.total[<<side, price>>] = 0 THEN DropLevel(b, side, price) ELSE b
  PROVE  Volumes(n, o) /\ Kept(n, o, ix, sk)
<1>1. CASE b.total[<<side, price>>] = 0
  <2>1. PICK d : d = DropLevel(b, side, price)
    OBVIOUS
  <2>2. d \in Books /\ Volumes(d, o) /\ Kept(d, o, ix, sk)
    BY <1>1, <2>1, DropLevelFacts, VolumesDrop, KeptDrop
  <2>3. n = d \/ n = updateBestPrices(d)
    BY <1>1, <2>1 DEF DropIfEmpty
  <2>4. CASE n = d
    BY <2>2, <2>4
  <2>5. CASE n = updateBestPrices(d)
    <3>1. Alike(d, n)
      BY <2>2, <2>5, UpdateAlike
    <3>2. QED
      BY <2>2, <3>1, AlikeVolumes DEF Kept, Alike
  <2>6. QED
    BY <2>3, <2>4, <2>5
<1>2. CASE b.total[<<side, price>>] # 0
  <2>1. n = b
    BY <1>2 DEF DropIfEmpty
  <2>2. QED
    BY <2>1
<1>3. QED
  BY <1>1, <1>2

LEMMA IdleMoving ==
  ASSUME call \in {Idle, Between}
  PROVE  Moving = {} /\ call.kind # "move"
BY IdleTypes DEF Moving

\* What a call finds of an order it takes out of the book.
LEMMA IndexedOrder ==
  ASSUME VolumeInv, call = Idle, NEW id \in index
  PROVE  LET o == order[id]
         IN  /\ id \in Ids /\ o \in Orders /\ Key(o) \in Keys
             /\ id \in Range(book.queue[Key(o)])
             /\ \A k \in Keys : k # Key(o) => id \notin Range(book.queue[k])
             /\ o.side \in Sides /\ o.price \in Prices
             /\ o.price \in book.levels[o.side]
             /\ ~IsFilled(o)
<1>1. id \in Ids /\ order[id] \in Orders /\ Key(order[id]) \in Keys
  BY IndexedKey DEF VolumeInv
<1>2. id \in Range(book.queue[Key(order[id])]) /\ ~IsFilled(order[id])
  BY IdleMoving DEF VolumeInv, Kept
<1>3. \A k \in Keys : k # Key(order[id]) => id \notin Range(book.queue[k])
  BY DEF VolumeInv, BookInv, Fit
<1>4. order[id].side \in Sides /\ order[id].price \in Prices
  BY <1>1, KeyParts DEF Key
<1>5. order[id].price \in book.levels[order[id].side]
  <2>1. book.queue[Key(order[id])] # <<>>
    BY <1>2 DEF Range
  <2>2. QED
    BY <1>1, <2>1 DEF VolumeInv, BookInv, Tidy, Key
<1>6. QED
  BY <1>1, <1>2, <1>3, <1>4, <1>5

LEMMA LeaveKeeps ==
  ASSUME VolumeInv, call = Idle, NEW id \in index
  PROVE  LET o == order[id]
             n == Unqueue(Reduce(book, Key(o), RemainingSize(o)), Key(o), id)
         IN  /\ n \in Books /\ Tidy(n) /\ Absent(n, id)
             /\ Volumes(n, order)
             /\ Kept(n, order, index \ {id}, {})
             /\ o.price \in n.levels[o.side]
<1>1. PICK o, key, m : o = order[id] /\ key = Key(o) /\ m = RemainingSize(o)
  OBVIOUS
<1>2. /\ id \in Ids /\ o \in Orders /\ key \in Keys /\ id \in Range(book.queue[key])
      /\ m \in Nat /\ o.price \in book.levels[o.side]
  BY <1>1, IndexedOrder, RemainingType
<1>3. /\ book \in Books /\ Tidy(book) /\ order \in [Ids -> Orders]
      /\ Fit(book, order, index, used) /\ Volumes(book, order)
  BY DEF VolumeInv, BookInv, TypeOK
<1>4. PICK r, n : r = Reduce(book, key, m) /\ n = Unqueue(r, key, id)
  OBVIOUS
<1>5. n \in Books /\ Tidy(n) /\ Absent(n, id)
  BY <1>1, <1>2, <1>3, <1>4, LeaveShrinks DEF Shrunk
<1>6. Volumes(n, order)
  BY <1>1, <1>2, <1>3, <1>4, LeaveVolumes
<1>7. r \in Books /\ r.queue = book.queue /\ r.levels = book.levels /\ Distinct(book.queue[key])
  BY <1>2, <1>3, <1>4, ReduceFacts DEF Tidy
<1>8. /\ n.queue = [book.queue EXCEPT ![key] = RemoveFirst(book.queue[key], id)]
      /\ n.levels = book.levels
  BY <1>2, <1>4, <1>7, UnqueueFacts
<1>9. ASSUME NEW k \in Keys PROVE Range(book.queue[k]) \ {id} \subseteq Range(n.queue[k])
  <2>1. CASE k = key
    <3>1. Range(RemoveFirst(book.queue[key], id)) = Range(book.queue[key]) \ {id}
      BY <1>2, <1>3, <1>7, RemoveFirstFacts DEF Books
    <3>2. n.queue[key] = RemoveFirst(book.queue[key], id)
      BY <1>2, <1>3, <1>8 DEF Books
    <3>3. QED
      BY <2>1, <3>1, <3>2
  <2>2. CASE k # key
    BY <1>8, <2>2
  <2>3. QED
    BY <2>1, <2>2
<1>10. Kept(n, order, index \ {id}, {})
  <2>1. Kept(book, order, index, {})
    BY IdleMoving DEF VolumeInv
  <2>2. \A i \in index : Key(order[i]) \in Keys
    BY IndexedOrder
  <2>3. PICK left : left = index \ {id}
    OBVIOUS
  <2>4. \A i \in left : order[i] = order[i] /\ Key(order[i]) \in Keys
    BY <2>2, <2>3
  <2>5. Kept(n, order, left, {})
    BY <1>9, <2>1, <2>3, <2>4 DEF Kept
  <2>6. QED
    BY <2>3, <2>5
<1>11. QED
  BY <1>1, <1>2, <1>4, <1>5, <1>6, <1>8, <1>10

\* A departed order has left its slot, and perhaps its level has left the book.
LEMMA DepartKeeps ==
  ASSUME VolumeInv, call = Idle, NEW id \in index
  PROVE  /\ Departed(id) \in Books /\ Tidy(Departed(id)) /\ Absent(Departed(id), id)
         /\ Volumes(Departed(id), order)
         /\ Kept(Departed(id), order, index \ {id}, {})
<1>1. PICK o : o = order[id]
  OBVIOUS
<1>2. PICK n : n = Unqueue(Reduce(book, Key(o), RemainingSize(o)), Key(o), id)
  OBVIOUS
<1>3. /\ n \in Books /\ Volumes(n, order) /\ Kept(n, order, index \ {id}, {})
  BY <1>1, <1>2, LeaveKeeps
<1>4. Departed(id) = DropIfEmpty(n, o.side, o.price)
  BY <1>1, <1>2 DEF Departed
<1>5. /\ o.side \in Sides /\ o.price \in Prices /\ order \in [Ids -> Orders]
      /\ index \ {id} \in SUBSET Ids
      /\ \A i \in index \ {id} : Key(order[i]) \in Keys
  BY <1>1, IndexedOrder DEF VolumeInv, BookInv, TypeOK
<1>6. Volumes(Departed(id), order) /\ Kept(Departed(id), order, index \ {id}, {})
  BY <1>3, <1>4, <1>5, DropKeeps
<1>7. Shrunk(book, Departed(id)) /\ Absent(Departed(id), id)
  BY IndexedKey, DepartedShrinks DEF VolumeInv, BookInv
<1>8. QED
  BY <1>6, <1>7 DEF Shrunk

LEMMA CancelledDeparts ==
  ASSUME VolumeInv, call = Idle, NEW id \in index
  PROVE  Cancelled(book, id) = Departed(id)
BY IndexedOrder DEF Cancelled, Departed

\* The book after an order has left it for good.
LEMMA ReleaseVolumes ==
  ASSUME VolumeInv, call = Idle, call' = Idle, NEW id \in index, Release(id),
         book' \in Books, Absent(book', id), Volumes(book', order),
         Kept(book', order, index \ {id}, {}), BookInv'
  PROVE  VolumeInv'
<1>1. order' = [order EXCEPT ![id] = NoOrder] /\ index' = index \ {id}
  BY DEF Release
<1>2. order \in [Ids -> Orders] /\ index \subseteq Ids
  BY DEF VolumeInv, BookInv, TypeOK
<1>3. \A i \in Ids : i # id => order'[i] = order[i]
  BY <1>1, <1>2
<1>4. PICK b, o2 : b = book' /\ o2 = order'
  OBVIOUS
<1>5. Volumes(b, o2)
  BY <1>2, <1>3, <1>4, VolumesForget
<1>6. Kept(b, o2, index \ {id}, {})
  BY <1>2, <1>3, <1>4 DEF Kept
<1>7. Moving' = {} /\ call'.kind # "move"
  BY IdleTypes DEF Moving
<1>8. Volumes(book', order') /\ Kept(book', order', index', Moving')
  BY <1>1, <1>4, <1>5, <1>6, <1>7
<1>9. Volumes(book, order)'
  BY <1>8
<1>10. QED
  BY <1>7, <1>8, <1>9 DEF VolumeInv

-------------------------------------------------------------------------------
(* The steps.                                                              *)

\* The primed conjuncts put together.
LEMMA VolumeInvNext ==
  ASSUME BookInv', NEW b, NEW o, NEW ix, NEW mv, b = book', o = order', ix = index',
         mv = Moving', Volumes(b, o), Kept(b, o, ix, mv), call'.kind = "move" => ~Exact
  PROVE  VolumeInv'
<1>1. Volumes(book', order') /\ Kept(book', order', index', Moving')
  OBVIOUS
<1>2. Volumes(book, order)' /\ Kept(book, order, index, Moving)'
  BY <1>1
<1>3. QED
  BY <1>2 DEF VolumeInv

LEMMA NotMoving ==
  ASSUME call'.kind # "move"
  PROVE  Moving' = {}
BY DEF Moving

\* An order that the book does not hold is accepted or forgotten.
LEMMA OutsideVolumes ==
  ASSUME VolumeInv, BookInv', book' = book, index' = index, Moving = {},
         call'.kind # "move", NEW id, id \notin index, Absent(book, id),
         \A i \in Ids : i # id => order'[i] = order[i]
  PROVE  VolumeInv'
<1>1. /\ book \in Books /\ order \in [Ids -> Orders] /\ index \subseteq Ids
      /\ Volumes(book, order) /\ Kept(book, order, index, {})
  BY DEF VolumeInv, BookInv, TypeOK
<1>2. PICK b, o2, ix : b = book' /\ o2 = order' /\ ix = index'
  OBVIOUS
<1>3. \A i \in Ids : i # id => o2[i] = order[i]
  BY <1>2
<1>4. Volumes(book, o2)
  BY <1>1, <1>3, VolumesForget
<1>5. Volumes(b, o2)
  BY <1>2, <1>4
<1>6. Kept(b, o2, ix, {})
  BY <1>1, <1>2, <1>3 DEF Kept
<1>7. QED
  BY <1>2, <1>5, <1>6, NotMoving, VolumeInvNext

LEMMA AcceptVolumes ==
  ASSUME VolumeInv, BookInv', call \in {Idle, Between},
         NEW kind \in {"limit", "batch", "market"}, NEW id, NEW t, NEW s, NEW p, NEW z,
         Accept(kind, id, t, s, p, z)
  PROVE  VolumeInv'
<1> DEFINE o == [trader |-> t, price |-> p, size |-> z, filled |-> 0,
                 side |-> s, slot |-> determineSlot(t, z)]
<1>1. /\ id \in Ids /\ id \notin used /\ order' = [order EXCEPT ![id] = o]
      /\ call' = Matching(kind, id) /\ book' = book /\ index' = index
  BY DEF Accept
<1> HIDE DEF o
<1>2. Absent(book, id) /\ id \notin index
  BY <1>1 DEF VolumeInv, BookInv, Fit, Absent, IndexInv
<1>3. \A i \in Ids : i # id => order'[i] = order[i]
  BY <1>1 DEF VolumeInv, BookInv, TypeOK
<1>4. call'.kind # "move"
  BY <1>1 DEF Matching
<1>5. QED
  BY <1>1, <1>2, <1>3, <1>4, IdleMoving, OutsideVolumes

LEMMA NewOrderVolumes ==
  ASSUME VolumeInv, BookInv', AddLimitOrder \/ BatchNext \/ ExecuteMarketOrder
  PROVE  VolumeInv'
<1>1. CASE AddLimitOrder
  BY <1>1, AcceptVolumes DEF AddLimitOrder, Enter
<1>2. CASE BatchNext
  BY <1>2, AcceptVolumes DEF BatchNext
<1>3. CASE ExecuteMarketOrder
  BY <1>3, AcceptVolumes DEF ExecuteMarketOrder, Enter
<1>4. QED
  BY <1>1, <1>2, <1>3

\* Steps that leave the orders, and what the slots hold.
LEMMA StayVolumes ==
  ASSUME VolumeInv, BookInv', Alike(book, book'), order' = order, index' = index,
         Moving' = Moving, call'.kind = "move" => ~Exact
  PROVE  VolumeInv'
<1>1. PICK b : b = book'
  OBVIOUS
<1>2. Volumes(b, order) /\ Kept(b, order, index, Moving)
  BY <1>1, AlikeVolumes DEF VolumeInv, Kept, Alike
<1>3. QED
  BY <1>1, <1>2, VolumeInvNext

LEMMA SameAlike == ASSUME VolumeInv PROVE Alike(book, book)
BY DEF VolumeInv, BookInv, TypeOK, Alike

LEMMA QuietVolumes ==
  ASSUME VolumeInv, BookInv',
         AddLimitOrderBatch \/ BatchEnd \/ CancelAllByTrader \/ ChooseLevel \/ NoLevel
  PROVE  VolumeInv'
<1>1. CASE AddLimitOrderBatch \/ CancelAllByTrader
  <2>1. call = Idle /\ call' \in {Idle, Between} /\ UNCHANGED <<book, order, index>>
    BY <1>1 DEF AddLimitOrderBatch, CancelAllByTrader, Enter
  <2>2. Moving = {} /\ Moving' = {} /\ call'.kind # "move"
    BY <2>1, IdleMoving, IdleTypes DEF Moving
  <2>3. QED
    BY <2>1, <2>2, SameAlike, StayVolumes
<1>2. CASE BatchEnd
  <2>1. call = Between /\ call' = Idle /\ UNCHANGED <<order, index>>
        /\ book' = updateBestPrices(book) /\ book \in Books
    BY <1>2 DEF BatchEnd, VolumeInv, BookInv, TypeOK
  <2>2. Moving = {} /\ Moving' = {} /\ call'.kind # "move"
    BY <2>1, IdleMoving, IdleTypes DEF Moving
  <2>3. Alike(book, book')
    BY <2>1, UpdateAlike
  <2>4. QED
    BY <2>1, <2>2, <2>3, StayVolumes
<1>3. CASE ChooseLevel \/ NoLevel
  <2>1. /\ call \in CallStates /\ UNCHANGED <<book, order, index>>
        /\ \/ call' = [call EXCEPT !.pc = "level", !.price = book.best[Other], !.matched = FALSE]
           \/ call' = [call EXCEPT !.pc = "end"]
    BY <1>3, Working DEF ChooseLevel, NoLevel, VolumeInv
  <2>2. call'.kind = call.kind /\ call'.id = call.id
    BY <2>1 DEF CallStates
  <2>3. Moving' = Moving /\ (call'.kind = "move" => ~Exact)
    BY <2>2 DEF Moving, VolumeInv
  <2>4. QED
    BY <2>1, <2>3, SameAlike, StayVolumes
<1>4. QED
  BY <1>1, <1>2, <1>3

\* The level that is done with is on the other side than the order that matches.
LEMMA LevelDoneVolumes ==
  ASSUME VolumeInv, BookInv', LevelDone
  PROVE  VolumeInv'
<1>1. At("level") /\ BookInv
  BY DEF LevelDone, VolumeInv
<1>2. call \in CallStates /\ Other \in Sides /\ Other # Taker.side /\ call.price \in Prices
  BY <1>1, Working DEF At, BookInv, TakerInv
<1>3. /\ book \in Books /\ order \in [Ids -> Orders] /\ index \in SUBSET Ids
      /\ Volumes(book, order) /\ Kept(book, order, index, Moving)
  BY DEF VolumeInv, BookInv, TypeOK
<1>4. /\ \A i \in index : Key(order[i]) \in Keys
      /\ \A i \in index : i \in Moving => order[i].side # Other
  BY <1>1, <1>2, IndexedKey DEF Moving, Taker
<1>5. PICK n, side : n = DropIfEmpty(book, side, call.price) /\ side = Other /\ n = book'
  BY DEF LevelDone
<1>6. Volumes(n, order) /\ Kept(n, order, index, Moving)
  BY <1>2, <1>3, <1>4, <1>5, DropKeeps
<1>7. call'.kind = call.kind /\ call'.id = call.id /\ order' = order /\ index' = index
  BY <1>2 DEF LevelDone, CallStates
<1>8. Moving' = Moving /\ (call'.kind = "move" => ~Exact)
  BY <1>7 DEF Moving, VolumeInv
<1>9. QED
  BY <1>5, <1>6, <1>7, <1>8, VolumeInvNext

LEMMA MatchMakerVolumes ==
  ASSUME VolumeInv, BookInv', MatchMaker
  PROVE  VolumeInv'
<1> DEFINE slot == Min(Stocked)
           key0 == <<Other, call.price, slot>>
           id0  == Head(book.queue[key0])
           n0   == Min({RemainingSize(Taker), RemainingSize(order[id0])})
           maker0 == [order[id0] EXCEPT !.filled = @ + n0]
           taker0 == [Taker EXCEPT !.filled = @ + n0]
<1>0. BookInv
  BY DEF VolumeInv
<1>1. At("level")
  BY DEF MatchMaker
<1>2. /\ call \in CallStates /\ call.price \in Prices /\ call.id \in Ids /\ Taker \in Orders
      /\ Other \in Sides /\ Other # Taker.side
  BY <1>0, <1>1, Working DEF At, BookInv, TakerInv
<1>3. slot \in Slots /\ book.queue[key0] # <<>>
  <2>1. Stocked # {} /\ Stocked \subseteq Slots
    BY DEF MatchMaker, Stocked
  <2>2. Slots \subseteq Nat
    BY BookAssumption DEF Slots
  <2>3. slot \in Stocked
    BY <2>1, <2>2, MinNat
  <2>4. QED
    BY <2>3 DEF Stocked
<1>4. key0 \in Keys /\ key0[1] = Other
  BY <1>2, <1>3 DEF Keys
<1>5. id0 \in Ids /\ id0 \in Range(book.queue[key0])
  <2> DEFINE q == book.queue[key0]
  <2>1. q \in Seq(Ids) /\ q # <<>>
    BY <1>0, <1>3, <1>4 DEF BookInv, TypeOK, Books
  <2> HIDE DEF q
  <2>2. Head(q) = q[1] /\ 1 \in DOMAIN q /\ q[1] \in Ids
    BY <2>1
  <2>3. Head(q) \in Range(q)
    BY <2>2 DEF Range
  <2>4. QED
    BY <2>2, <2>3 DEF q
<1> HIDE DEF slot, key0, id0, n0, maker0, taker0
<1>6. PICK key, id, n, maker, taker :
        key = key0 /\ id = id0 /\ n = n0 /\ maker = maker0 /\ taker = taker0
  OBVIOUS
<1>7. /\ key \in Keys /\ key[1] = Other
      /\ id \in Ids /\ id \in Range(book.queue[key])
  BY <1>4, <1>5, <1>6
<1>8. /\ order[id] \in Orders /\ Key(order[id]) = key
      /\ \A k \in Keys : k # key => id \notin Range(book.queue[k])
  BY <1>0, <1>7 DEF BookInv, TypeOK, Fit
<1>9. id # call.id
  BY <1>2, <1>7, <1>8 DEF Key, Taker
<1>10. /\ n \in Nat /\ n <= RemainingSize(Taker) /\ n <= RemainingSize(order[id])
       /\ RemainingSize(Taker) \in Nat /\ RemainingSize(order[id]) \in Nat
  <2>1. PICK S : S = {RemainingSize(Taker), RemainingSize(order[id])}
    OBVIOUS
  <2>2. RemainingSize(Taker) \in Nat /\ RemainingSize(order[id]) \in Nat
    BY <1>2, <1>8, RemainingType
  <2>3. S \in SUBSET Nat /\ S # {}
    BY <2>1, <2>2
  <2>4. Min(S) \in S /\ \A y \in S : Min(S) <= y
    BY <2>3, MinNat
  <2>5. n = Min(S)
    BY <1>6, <2>1 DEF n0
  <2>6. QED
    BY <2>1, <2>2, <2>4, <2>5
<1>11. maker = [order[id] EXCEPT !.filled = @ + n] /\ taker = [Taker EXCEPT !.filled = @ + n]
  BY <1>6 DEF maker0, taker0
<1>12. /\ maker \in Orders /\ RemainingSize(maker) + n = RemainingSize(order[id])
       /\ Key(maker) = key /\ (IsFilled(maker) <=> RemainingSize(maker) = 0)
  <2>1. PICK o : o = order[id]
    OBVIOUS
  <2>2. o \in Orders /\ n \in Nat /\ n <= RemainingSize(o) /\ maker = [o EXCEPT !.filled = @ + n]
        /\ Key(o) = key
    BY <1>8, <1>10, <1>11, <2>1
  <2>3. maker \in Orders /\ Key(maker) = key
    BY <2>2 DEF Orders, Key
  <2>4. RemainingSize(maker) + n = RemainingSize(o)
    BY <2>2 DEF Orders, RemainingSize
  <2>5. QED
    BY <2>1, <2>3, <2>4, RemainingType
<1>13. taker \in Orders /\ RemainingSize(taker) <= RemainingSize(Taker) /\ Key(taker) = Key(Taker)
  BY <1>2, <1>10, <1>11 DEF Orders, RemainingSize, Key
<1>14. PICK o1 : o1 = [order EXCEPT ![call.id] = taker]
  OBVIOUS
<1>15. \/ /\ IsFilled(maker)
          /\ book' = Unqueue(Reduce(book, key, n), key, id)
          /\ order' = [o1 EXCEPT ![id] = NoOrder]
          /\ index' = index \ {id}
       \/ /\ ~IsFilled(maker)
          /\ book' = Reduce(book, key, n)
          /\ order' = [o1 EXCEPT ![id] = maker]
          /\ index' = index
  BY <1>6, <1>14 DEF MatchMaker, slot, key0, id0, n0, maker0, taker0
<1>16. /\ book \in Books /\ Tidy(book) /\ order \in [Ids -> Orders] /\ index \subseteq Ids
       /\ Volumes(book, order) /\ Kept(book, order, index, Moving)
       /\ Fit(book, order, index, used)
  BY DEF VolumeInv, BookInv, TypeOK
<1>17. /\ o1 \in [Ids -> Orders] /\ o1[id] = order[id] /\ o1[call.id] = taker
       /\ \A i \in Ids : i # call.id => o1[i] = order[i]
  BY <1>2, <1>9, <1>13, <1>14, <1>16
<1>18. Volumes(book, o1)
  <2>1. Absent(book, call.id) \/ ~Exact
    BY <1>0, <1>2 DEF VolumeInv, BookInv, TakerInv
  <2>2. RemainingSize(o1[call.id]) <= RemainingSize(order[call.id])
    BY <1>13, <1>17 DEF Taker
  <2>3. QED
    BY <1>2, <1>16, <1>17, <2>1, <2>2, VolumesTaken
<1>19. call'.kind = call.kind /\ call'.id = call.id
  BY <1>2 DEF MatchMaker, CallStates
<1>20. Moving' = Moving /\ (call'.kind = "move" => ~Exact)
  BY <1>19 DEF Moving, VolumeInv
<1>21. call.id \in index => call.id \in Moving
  BY <1>0, <1>2 DEF BookInv, TakerInv, Moving
<1>22. \A i \in Ids : Key(o1[i]) = Key(order[i])
  BY <1>13, <1>17 DEF Taker
<1>23. \A i \in index : Key(order[i]) \in Keys
  BY <1>0, IndexedKey
<1>24. Kept(book, o1, index, Moving)
  BY <1>16, <1>17, <1>21, <1>22 DEF Kept
<1>25. CASE IsFilled(maker)
  <2>1. PICK b, o2, ix : /\ b = Unqueue(Reduce(book, key, n), key, id)
                         /\ o2 = [o1 EXCEPT ![id] = NoOrder] /\ ix = index \ {id}
    OBVIOUS
  <2>2. b = book' /\ o2 = order' /\ ix = index'
    BY <1>15, <1>25, <2>1
  <2>3. n = RemainingSize(o1[id])
    BY <1>10, <1>12, <1>17, <1>25
  <2>4. Volumes(b, o1)
    BY <1>7, <1>16, <1>17, <1>18, <2>1, <2>3, LeaveVolumes
  <2>5. b \in Books /\ Absent(b, id)
    <3>1. Fit(book, order, index, used) /\ Key(order[id]) = key
      BY <1>8, <1>16
    <3>2. Shrunk(book, b) /\ Absent(b, id)
      BY <1>7, <1>10, <1>16, <2>1, <3>1, LeaveShrinks
    <3>3. QED
      BY <3>2 DEF Shrunk
  <2>6. \A i \in Ids : i # id => o2[i] = o1[i]
    BY <1>17, <2>1
  <2>7. Volumes(b, o2)
    BY <1>17, <2>4, <2>5, <2>6, VolumesForget
  <2>8. \A k \in Keys : Range(book.queue[k]) \ {id} \subseteq Range(b.queue[k])
    BY <1>7, <1>10, <1>16, <2>1, UnqueueLeaves
  <2>9. Kept(b, o2, ix, Moving)
    BY <1>16, <1>22, <1>23, <1>24, <2>1, <2>6, <2>8 DEF Kept
  <2>10. QED
    BY <1>20, <2>2, <2>7, <2>9, VolumeInvNext
<1>26. CASE ~IsFilled(maker)
  <2>1. PICK b, o2 : b = Reduce(book, key, n) /\ o2 = [o1 EXCEPT ![id] = maker]
    OBVIOUS
  <2>2. b = book' /\ o2 = order' /\ index' = index
    BY <1>15, <1>26, <2>1
  <2>3. o2 \in [Ids -> Orders] /\ o2[id] = maker /\ \A i \in Ids : i # id => o2[i] = o1[i]
    BY <1>7, <1>12, <1>17, <2>1
  <2>4. RemainingSize(o2[id]) + n = RemainingSize(o1[id])
    BY <1>12, <1>17, <2>3
  <2>5. Volumes(b, o2)
    <3>1. /\ id \in Range(book.queue[key]) /\ n \in Nat
          /\ \A k \in Keys : k # key => id \notin Range(book.queue[k])
      BY <1>7, <1>8, <1>10
    <3>2. Volumes(Reduce(book, key, n), o2)
      BY <1>7, <1>16, <1>17, <1>18, <2>3, <2>4, <3>1, TradeVolumes
    <3>3. QED
      BY <2>1, <3>2
  <2>6. b.queue = book.queue
    BY <1>7, <1>10, <1>16, <2>1, ReduceFacts
  <2>7. \A i \in Ids : Key(o2[i]) = Key(o1[i])
    BY <1>8, <1>12, <1>17, <2>3
  <2>8. Kept(b, o2, index, Moving)
    BY <1>16, <1>24, <1>26, <2>3, <2>6, <2>7 DEF Kept
  <2>9. QED
    BY <1>20, <2>2, <2>5, <2>8, VolumeInvNext
<1>27. QED
  BY <1>25, <1>26

LEMMA RestVolumes ==
  ASSUME VolumeInv, BookInv', Rest
  PROVE  VolumeInv'
<1>0. BookInv
  BY DEF VolumeInv
<1>1. /\ call \in CallStates /\ call.id \in Ids /\ Taker \in Orders /\ Taker.side \in Sides
      /\ call.kind \in {"limit", "batch"}
  BY <1>0, Working DEF Rest
<1>2. PICK o, id : o = Taker /\ id = call.id /\ o = order[id]
  BY DEF Taker
<1>3. /\ o \in Orders /\ id \in Ids /\ o.price \in Prices /\ o.side \in Sides
      /\ Absent(book, id) /\ ~IsFilled(o)
  BY <1>0, <1>1, <1>2 DEF BookInv, TakerInv, Taker, Rest
<1>4. PICK b : b = IF o.price \in book.levels[o.side] THEN book
                   ELSE NewLevel(book, call.kind, o.side, o.price)
  OBVIOUS
<1>5. /\ book \in Books /\ Tidy(book) /\ order \in [Ids -> Orders] /\ index \subseteq Ids
      /\ Volumes(book, order) /\ Kept(book, order, index, {})
  BY <1>1 DEF VolumeInv, BookInv, TypeOK, Moving
<1>6. Alike(book, b)
  BY <1>3, <1>4, <1>5, LevelsAlike, SameAlike
<1>7. Tidy(b) /\ o.price \in b.levels[o.side]
  <2>1. CASE o.price \in book.levels[o.side]
    BY <1>4, <1>5, <2>1
  <2>2. CASE o.price \notin book.levels[o.side]
    <3>1. b = NewLevel(book, call.kind, o.side, o.price)
      BY <1>4, <2>2
    <3>2. QED
      BY <1>3, <1>5, <3>1, NewLevelShrinks DEF Shrunk
  <2>3. QED
    BY <2>1, <2>2
<1>8. b \in Books /\ Volumes(b, order) /\ b.queue = book.queue /\ Absent(b, id)
  BY <1>3, <1>5, <1>6, AlikeVolumes DEF Alike, Absent
<1>9. PICK n, ix : n = Enqueue(b, id, o) /\ ix = index \cup {id}
  OBVIOUS
<1>10. Volumes(n, order)
  BY <1>2, <1>3, <1>5, <1>7, <1>8, <1>9, EnqueueVolumes
<1>11. \A k \in Keys : Range(n.queue[k]) =
         IF k = Key(o) THEN Range(b.queue[k]) \cup {id} ELSE Range(b.queue[k])
  <2>1. /\ n \in Books /\ Key(o) \in Keys
        /\ \A k \in Keys : Range(n.queue[k]) =
             IF k = Key(o) THEN Range(b.queue[k]) \cup {id} ELSE Range(b.queue[k])
    BY <1>3, <1>7, <1>8, <1>9, EnqueueLeaves
  <2>2. QED
    BY <2>1
<1>12. Key(o) \in Keys /\ \A i \in index : Key(order[i]) \in Keys
  BY <1>0, <1>3, KeyType, IndexedKey
<1>13. Kept(n, order, ix, {})
  BY <1>2, <1>3, <1>5, <1>8, <1>9, <1>11, <1>12 DEF Kept
<1>14. book' = n /\ index' = ix /\ order' = order /\ call' \in {Idle, Between}
  BY <1>2, <1>4, <1>9 DEF Rest, After
<1>15. Moving' = {} /\ call'.kind # "move"
  BY <1>14, IdleTypes DEF Moving
<1>16. QED
  BY <1>10, <1>13, <1>14, <1>15, VolumeInvNext

LEMMA EndVolumes ==
  ASSUME VolumeInv, BookInv', Forget \/ Moved
  PROVE  VolumeInv'
<1>0. BookInv
  BY DEF VolumeInv
<1>1. CASE Forget
  <2>1. call \in CallStates /\ call.id \in Ids /\ call.kind # "move"
    BY <1>0, <1>1, Working DEF Forget
  <2>2. Absent(book, call.id) /\ call.id \notin index /\ Moving = {}
    BY <1>0, <2>1 DEF BookInv, TakerInv, Moving
  <2>3. /\ book' = book /\ index' = index /\ call' \in {Idle, Between}
        /\ order' = [order EXCEPT ![call.id] = NoOrder]
    BY <1>1 DEF Forget, After
  <2>4. \A i \in Ids : i # call.id => order'[i] = order[i]
    BY <1>0, <2>3 DEF BookInv, TypeOK
  <2>5. call'.kind # "move"
    BY <2>3, IdleTypes
  <2>6. PICK id : id = call.id
    OBVIOUS
  <2>7. QED
    BY <2>2, <2>3, <2>4, <2>5, <2>6, OutsideVolumes
<1>2. CASE Moved
  <2>1. /\ index' = IF IsFilled(Taker) THEN index \ {call.id} ELSE index
        /\ call' = Idle /\ book' = book /\ order' = order /\ call.kind = "move"
    BY <1>2 DEF Moved
  <2>2. Moving' = {} /\ call'.kind # "move" /\ Moving = {call.id}
    BY <2>1, IdleTypes DEF Moving
  <2>3. PICK ix : ix = index'
    OBVIOUS
  <2>4. Volumes(book, order) /\ Kept(book, order, index, {call.id})
    BY <2>2 DEF VolumeInv
  <2>5. Kept(book, order, ix, {})
    BY <2>1, <2>3, <2>4 DEF Kept, Taker
  <2>6. QED
    BY <2>1, <2>2, <2>3, <2>4, <2>5, VolumeInvNext
<1>3. QED
  BY <1>1, <1>2

LEMMA GoneVolumes ==
  ASSUME VolumeInv, BookInv', CancelOrder \/ SweepNext \/ ResizeAway \/ MoveAway
  PROVE  VolumeInv'
<1>0. order \in [Ids -> Orders] /\ book \in Books /\ BookInv'
  BY DEF VolumeInv, BookInv, TypeOK
<1>1. ASSUME NEW id \in index, call = Idle, call' = Idle, Release(id),
             book' = Departed(id) \/ book' = Cancelled(book, id)
      PROVE  VolumeInv'
  <2>1. PICK b : b = book' /\ b = Departed(id)
    BY <1>1, CancelledDeparts
  <2>2. /\ b \in Books /\ Absent(b, id) /\ Volumes(b, order)
        /\ Kept(b, order, index \ {id}, {})
    BY <1>1, <2>1, DepartKeeps
  <2>3. /\ book' \in Books /\ Absent(book', id) /\ Volumes(book', order)
        /\ Kept(book', order, index \ {id}, {})
    BY <2>1, <2>2
  <2>4. QED
    BY <1>1, <2>3, ReleaseVolumes
<1>2. CASE CancelOrder
  BY <1>1, <1>2 DEF CancelOrder, Enter
<1>3. CASE MoveAway
  BY <1>1, <1>3 DEF MoveAway, Enter
<1>4. CASE SweepNext
  <2>1. PICK id \in sweep :
          IF id \in index THEN Release(id) /\ book' = Cancelled(book, id)
          ELSE UNCHANGED <<index, order, book>>
    BY <1>4 DEF SweepNext
  <2>2. call = Idle /\ call' = Idle
    BY <1>4 DEF SweepNext
  <2>3. CASE id \in index
    BY <1>1, <2>1, <2>2, <2>3
  <2>4. CASE id \notin index
    <3>1. UNCHANGED <<index, order, book>> /\ Moving' = Moving /\ call'.kind # "move"
      BY <2>1, <2>2, <2>4, IdleTypes DEF Moving
    <3>2. QED
      BY <3>1, SameAlike, StayVolumes
  <2>5. QED
    BY <2>3, <2>4
<1>5. CASE ResizeAway
  <2>1. PICK id \in index :
          LET o == order[id]
              b == Unqueue(Reduce(book, Key(o), RemainingSize(o)), Key(o), id)
          IN  /\ book' = IF b.total[<<o.side, o.price>>] = 0
                         THEN DropLevel(b, o.side, o.price) ELSE b
              /\ Release(id)
    BY <1>5 DEF ResizeAway
  <2>2. call = Idle /\ call' = Idle
    BY <1>5 DEF ResizeAway, Enter
  <2>3. PICK o : o = order[id]
    OBVIOUS
  <2>4. PICK b : b = Unqueue(Reduce(book, Key(o), RemainingSize(o)), Key(o), id)
    OBVIOUS
  <2>5. /\ b \in Books /\ Tidy(b) /\ Absent(b, id) /\ Volumes(b, order)
        /\ Kept(b, order, index \ {id}, {})
    BY <2>2, <2>3, <2>4, LeaveKeeps
  <2>6. PICK n : n = IF b.total[<<o.side, o.price>>] = 0 THEN DropLevel(b, o.side, o.price) ELSE b
    OBVIOUS
  <2>7. n = book' /\ Release(id)
    BY <2>1, <2>3, <2>4, <2>6
  <2>8. PICK left \in SUBSET Ids : left = index \ {id}
    BY DEF VolumeInv, BookInv, TypeOK
  <2>9. /\ o.side \in Sides /\ o.price \in Prices /\ \A i \in left : Key(order[i]) \in Keys
    BY <2>2, <2>3, <2>8, IndexedOrder
  <2>10. Volumes(n, order) /\ Kept(n, order, left, {})
    BY <1>0, <2>5, <2>6, <2>8, <2>9, DropKeeps
  <2>11. n \in Books /\ Absent(n, id)
    <3>1. Shrunk(b, DropLevel(b, o.side, o.price)) /\ Shrunk(b, b)
      BY <2>5, <2>9, DropLevelShrinks DEF Shrunk
    <3>2. Shrunk(b, n)
      BY <2>6, <3>1
    <3>3. QED
      BY <2>5, <3>2 DEF Shrunk, Absent
  <2>12. /\ book' \in Books /\ Absent(book', id) /\ Volumes(book', order)
         /\ Kept(book', order, index \ {id}, {})
    BY <2>7, <2>8, <2>10, <2>11
  <2>13. QED
    BY <2>2, <2>7, <2>12, ReleaseVolumes
<1>6. QED
  BY <1>2, <1>3, <1>4, <1>5

\* An order that has left comes back with another size or price.
LEMMA ReturnKeeps ==
  ASSUME VolumeInv, call = Idle, NEW id \in index,
         NEW b \in Books, Tidy(b), Absent(b, id), Volumes(b, order),
         Kept(b, order, index \ {id}, {}),
         NEW new \in Orders, new.price \in b.levels[new.side], RemainingSize(new) # 0,
         NEW o2 \in [Ids -> Orders], o2[id] = new, \A i \in Ids : i # id => o2[i] = order[i],
         NEW n, n = Enqueue(b, id, new), NEW sk
  PROVE  Volumes(n, o2) /\ Kept(n, o2, index, sk)
<1>1. /\ order \in [Ids -> Orders] /\ id \in Ids /\ index \subseteq Ids
      /\ \A i \in index : Key(order[i]) \in Keys
  BY IndexedOrder DEF VolumeInv, BookInv, TypeOK
<1>2. PICK o : o = order
  OBVIOUS
<1>3. o \in [Ids -> Orders] /\ Volumes(b, o) /\ \A i \in Ids : i # id => o2[i] = o[i]
  BY <1>1, <1>2
<1>4. Volumes(n, o2)
  <2>1. Volumes(Enqueue(b, id, new), o2)
    BY ONLY <1>1, <1>3, EnqueueVolumes, b \in Books, Tidy(b), Absent(b, id), new \in Orders,
       new.price \in b.levels[new.side], o2 \in [Ids -> Orders], o2[id] = new
  <2>2. QED
    BY <2>1
<1>5. /\ n \in Books /\ Key(new) \in Keys
      /\ \A k \in Keys : Range(n.queue[k]) =
           IF k = Key(new) THEN Range(b.queue[k]) \cup {id} ELSE Range(b.queue[k])
  <2>1. Key(new) \in Keys
    BY KeyType DEF Books, Orders
  <2>2. id \notin Range(b.queue[Key(new)])
    BY <2>1 DEF Absent
  <2>3. LET e == Enqueue(b, id, new)
        IN  /\ e \in Books
            /\ \A k \in Keys : Range(e.queue[k]) =
                 IF k = Key(new) THEN Range(b.queue[k]) \cup {id} ELSE Range(b.queue[k])
    BY <1>1, <2>2, EnqueueTidy
  <2>4. QED
    BY <2>1, <2>3
<1>6. ~IsFilled(new)
  BY RemainingType
<1>7. ASSUME NEW i \in index
      PROVE  i \in Range(n.queue[Key(o2[i])]) /\ ~IsFilled(o2[i])
  <2>1. CASE i = id
    BY <1>5, <1>6, <2>1
  <2>2. CASE i # id
    <3>1. o2[i] = order[i] /\ Key(order[i]) \in Keys /\ i \in index \ {id}
      BY <1>1, <2>2
    <3>2. i \in Range(b.queue[Key(order[i])]) /\ ~IsFilled(order[i])
      BY <3>1 DEF Kept
    <3>3. QED
      BY <1>5, <3>1, <3>2
  <2>3. QED
    BY <2>1, <2>2
<1>8. QED
  BY <1>4, <1>7 DEF Kept

LEMMA ResizeKeepVolumes ==
  ASSUME VolumeInv, BookInv', ResizeKeep
  PROVE  VolumeInv'
<1>1. PICK id \in index, z \in Sizes :
        LET o   == order[id]
            new == [o EXCEPT !.size = z, !.slot = determineSlot(o.trader, z)]
        IN  /\ RemainingSize(new) # 0
            /\ book' = Resized(Reduce(book, Key(o), RemainingSize(o)), id, o, new)
            /\ order' = [order EXCEPT ![id] = new]
  BY DEF ResizeKeep
<1>2. call = Idle /\ call' = Idle /\ index' = index
  BY DEF ResizeKeep, Enter
<1>3. PICK o, key : o = order[id] /\ key = Key(o)
  OBVIOUS
<1>4. PICK new : new = [o EXCEPT !.size = z, !.slot = determineSlot(o.trader, z)]
  OBVIOUS
<1>5. PICK r : r = Reduce(book, key, RemainingSize(o))
  OBVIOUS
<1>6. PICK n, o2 : n = Resized(r, id, o, new) /\ o2 = [order EXCEPT ![id] = new]
  OBVIOUS
<1>7. n = book' /\ o2 = order' /\ RemainingSize(new) # 0
  BY <1>1, <1>3, <1>4, <1>5, <1>6
<1>8. /\ id \in Ids /\ o \in Orders /\ key \in Keys /\ id \in Range(book.queue[key])
      /\ \A k \in Keys : k # key => id \notin Range(book.queue[k])
      /\ o.side \in Sides /\ o.price \in Prices /\ o.price \in book.levels[o.side]
      /\ <<key[1], key[2]>> = <<o.side, o.price>>
  BY <1>2, <1>3, IndexedOrder DEF Key
<1>9. /\ new \in Orders /\ new.price = o.price /\ new.side = o.side
      /\ new.slot = o.slot => Key(new) = key
  <2>1. o.trader \in Nat /\ z \in Nat
    BY <1>8, TraderType, BookAssumption
  <2>2. determineSlot(o.trader, z) \in Slots
    BY <2>1, SlotType
  <2>3. QED
    BY <1>3, <1>4, <1>8, <2>1, <2>2 DEF Orders, Key
<1>10. /\ book \in Books /\ order \in [Ids -> Orders] /\ index \subseteq Ids
       /\ Volumes(book, order) /\ Kept(book, order, index, {})
  BY <1>2, IdleMoving DEF VolumeInv, BookInv, TypeOK
<1>11. o2 \in [Ids -> Orders] /\ o2[id] = new /\ \A i \in Ids : i # id => o2[i] = order[i]
  BY <1>6, <1>8, <1>9, <1>10
<1>12. Volumes(n, o2) /\ Kept(n, o2, index, {})
  <2>1. CASE new.slot # o.slot
    <3>1. PICK b : b = Unqueue(r, key, id)
      OBVIOUS
    <3>2. /\ b \in Books /\ Tidy(b) /\ Absent(b, id) /\ Volumes(b, order)
          /\ Kept(b, order, index \ {id}, {}) /\ o.price \in b.levels[o.side]
      BY <1>2, <1>3, <1>5, <3>1, LeaveKeeps
    <3>3. n = Enqueue(b, id, new)
      BY <1>3, <1>6, <2>1, <3>1 DEF Resized
    <3>5. new.price \in b.levels[new.side]
      BY <1>9, <3>2
    <3>4. QED
      BY <1>2, <1>7, <1>9, <1>11, <3>2, <3>3, <3>5, ReturnKeeps
  <2>2. CASE new.slot = o.slot
    <3>1. PICK m : m = RemainingSize(new)
      OBVIOUS
    <3>2. n = [r EXCEPT !.volume[key] = @ + m, !.total[<<o.side, o.price>>] = @ + m]
      BY <1>3, <1>6, <2>2, <3>1 DEF Resized
    <3>3. m \in Nat /\ RemainingSize(o) \in Nat
      BY <1>8, <1>9, <3>1, RemainingType
    <3>4. r \in Books /\ r.queue = book.queue
      BY <1>5, <1>8, <1>10, <3>3, ReduceFacts
    <3>5. PICK l \in Levels : l = <<key[1], key[2]>> /\ l = <<o.side, o.price>>
      BY <1>8, KeyParts
    <3>6. n = [r EXCEPT !.volume[key] = @ + m, !.total[l] = @ + m]
      BY <3>2, <3>5
    <3>7. /\ n.queue = r.queue /\ n.levels = r.levels /\ n.best = r.best
          /\ n.volume = [r.volume EXCEPT ![key] = @ + m]
          /\ n.total = [r.total EXCEPT ![l] = @ + m]
      BY <3>4, <3>6 DEF Books
    <3>8. /\ \A k \in Keys : n.volume[k] = IF k = key THEN r.volume[k] + m ELSE r.volume[k]
          /\ \A j \in Levels : n.total[j] = IF j = l THEN r.total[j] + m ELSE r.total[j]
      BY <1>8, <3>4, <3>5, <3>7 DEF Books
    <3>9. n \in Books
      BY <1>7 DEF BookInv, TypeOK
    <3>10. /\ r = Reduce(book, key, RemainingSize(order[id]))
           /\ n.queue = r.queue /\ m = RemainingSize(o2[id])
           /\ \A j \in Levels : n.total[j] = IF j = <<key[1], key[2]>> THEN r.total[j] + m
                                             ELSE r.total[j]
      BY <1>3, <1>5, <1>11, <3>1, <3>5, <3>7, <3>8
    <3>11. Volumes(n, o2)
      <4>1. PICK bk, od : bk = book /\ od = order
        OBVIOUS
      <4>2. /\ bk \in Books /\ od \in [Ids -> Orders] /\ Volumes(bk, od)
            /\ id \in Range(bk.queue[key])
            /\ \A k \in Keys : k # key => id \notin Range(bk.queue[k])
            /\ r = Reduce(bk, key, RemainingSize(od[id]))
            /\ \A i \in Ids : i # id => o2[i] = od[i]
        BY <1>8, <1>10, <1>11, <3>10, <4>1
      <4>3. QED
        BY ONLY SMTT(30), <1>8, <1>11, <3>8, <3>9, <3>10, <4>2, ResizeVolumes
    <3>12. n.queue = book.queue /\ Key(new) = key /\ ~IsFilled(new)
      BY <1>7, <1>9, <2>2, <3>4, <3>7, RemainingType
    <3>13. Kept(n, o2, index, {})
      BY <1>3, <1>8, <1>10, <1>11, <3>12 DEF Kept
    <3>14. QED
      BY <3>11, <3>13
  <2>3. QED
    BY <2>1, <2>2
<1>13. Moving' = {} /\ call'.kind # "move"
  BY <1>2, IdleTypes DEF Moving
<1>14. QED
  BY <1>2, <1>7, <1>12, <1>13, VolumeInvNext

LEMMA MoveRestVolumes ==
  ASSUME VolumeInv, BookInv', MoveRest
  PROVE  VolumeInv'
<1>1. PICK id \in index, p \in Prices, z \in Sizes :
        LET o   == order[id]
            new == [o EXCEPT !.price = p, !.size = z, !.slot = determineSlot(o.trader, z)]
            b   == IF p \in Departed(id).levels[o.side] THEN Departed(id)
                   ELSE updateBestPrices(AddLevel(Departed(id), o.side, p))
        IN  /\ RemainingSize(new) # 0
            /\ book' = Enqueue(b, id, new)
            /\ order' = [order EXCEPT ![id] = new]
            /\ call' = Matching("move", id)
  BY DEF MoveRest
<1>2. call = Idle /\ index' = index /\ "move" \in Calls
  BY DEF MoveRest, Enter
<1>3. PICK o, d : o = order[id] /\ d = Departed(id)
  OBVIOUS
<1>4. PICK new : new = [o EXCEPT !.price = p, !.size = z, !.slot = determineSlot(o.trader, z)]
  OBVIOUS
<1>5. PICK b : b = IF p \in d.levels[o.side] THEN d
                   ELSE updateBestPrices(AddLevel(d, o.side, p))
  OBVIOUS
<1>6. PICK n, o2 : n = Enqueue(b, id, new) /\ o2 = [order EXCEPT ![id] = new]
  OBVIOUS
<1>7. n = book' /\ o2 = order' /\ RemainingSize(new) # 0 /\ call' = Matching("move", id)
  BY <1>1, <1>3, <1>4, <1>5, <1>6
<1>8. o \in Orders /\ o.side \in Sides
  BY <1>2, <1>3, IndexedOrder
<1>9. new \in Orders /\ new.price = p /\ new.side = o.side
  <2>1. o.trader \in Nat /\ z \in Nat
    BY <1>8, TraderType, BookAssumption
  <2>2. determineSlot(o.trader, z) \in Slots /\ p \in 0 .. MaxPrice + 1
    BY <2>1, SlotType, BookAssumption DEF Prices
  <2>3. QED
    BY <1>4, <1>8, <2>1, <2>2 DEF Orders
<1>10. /\ d \in Books /\ Tidy(d) /\ Absent(d, id)
       /\ Volumes(d, order) /\ Kept(d, order, index \ {id}, {})
  BY <1>2, <1>3, DepartKeeps
<1>11. /\ Alike(d, b) /\ Tidy(b) /\ p \in b.levels[o.side]
  <2>1. CASE p \in d.levels[o.side]
    BY <1>5, <1>10, <2>1 DEF Alike
  <2>2. CASE p \notin d.levels[o.side]
    <3>1. PICK a : a = AddLevel(d, o.side, p)
      OBVIOUS
    <3>2. b = updateBestPrices(a)
      BY <1>5, <2>2, <3>1
    <3>3. Alike(d, a)
      BY <1>8, <1>10, <3>1, LevelsAlike
    <3>4. Alike(a, b)
      BY <3>2, <3>3, UpdateAlike DEF Alike
    <3>5. Shrunk(d, b) /\ p \in b.levels[o.side]
      BY <1>8, <1>10, <3>1, <3>2, UpdateAdds
    <3>6. QED
      BY <3>3, <3>4, <3>5 DEF Alike, Shrunk
  <2>3. QED
    BY <2>1, <2>2
<1>12. /\ b \in Books /\ Volumes(b, order) /\ Absent(b, id)
       /\ Kept(b, order, index \ {id}, {})
  BY <1>10, <1>11, AlikeVolumes DEF Alike, Absent, Kept
<1>13. PICK mv : mv = Moving'
  OBVIOUS
<1>14. Volumes(n, o2) /\ Kept(n, o2, index, mv)
  <2>1. new.price \in b.levels[new.side]
    BY <1>9, <1>11
  <2>3. o2 \in [Ids -> Orders] /\ o2[id] = new /\ \A i \in Ids : i # id => o2[i] = order[i]
    BY <1>6, <1>9 DEF VolumeInv, BookInv, TypeOK
  <2>2. QED
    BY <1>2, <1>6, <1>7, <1>9, <1>11, <1>12, <2>1, <2>3, ReturnKeeps
<1>15. ~Exact
  BY <1>2 DEF Exact
<1>16. QED
  BY <1>2, <1>7, <1>13, <1>14, <1>15, VolumeInvNext

LEMMA VolumeInit == Init => VolumeInv
<1> SUFFICES ASSUME Init PROVE VolumeInv
  OBVIOUS
<1>1. BookInv
  BY BookInit
<1>2. ASSUME NEW k \in Keys
      PROVE  Suits(book.volume[k], RestIn(order, Range(book.queue[k])))
  <2>1. book.volume[k] = 0 /\ book.queue[k] = <<>>
    BY DEF Init
  <2>2. Range(book.queue[k]) = {}
    BY <2>1 DEF Range
  <2>3. RestIn(order, Range(book.queue[k])) = 0
    BY <1>1, <2>2, QueueFinite, RestType DEF BookInv, TypeOK
  <2>4. QED
    BY <2>1, <2>3 DEF Suits
<1>3. ASSUME NEW l \in Levels PROVE Suits(book.total[l], Within(book, l))
  <2>1. \A k \in Keys : book.volume[k] = 0
    BY DEF Init
  <2>2. \A k \in Slots : <<l[1], l[2], k>> \in Keys
    BY DEF Levels, Keys
  <2>3. Within(book, l) = 0
    BY <2>1, <2>2, WithinNothing
  <2>4. book.total[l] = 0
    BY DEF Init
  <2>5. QED
    BY <2>3, <2>4 DEF Suits
<1>4. Kept(book, order, index, Moving) /\ call.kind # "move"
  BY IdleTypes DEF Init, Kept
<1>5. QED
  BY <1>1, <1>2, <1>3, <1>4 DEF VolumeInv, Volumes

LEMMA VolumeStep == ASSUME VolumeInv, [Next]_vars PROVE VolumeInv'
<1>0. BookInv'
  BY BookStep DEF VolumeInv
<1>1. CASE AddLimitOrder \/ BatchNext \/ ExecuteMarketOrder
  BY <1>0, <1>1, NewOrderVolumes
<1>2. CASE AddLimitOrderBatch \/ BatchEnd \/ CancelAllByTrader \/ ChooseLevel \/ NoLevel
  BY <1>0, <1>2, QuietVolumes
<1>3. CASE MatchMaker
  BY <1>0, <1>3, MatchMakerVolumes
<1>4. CASE LevelDone
  BY <1>0, <1>4, LevelDoneVolumes
<1>5. CASE Rest
  BY <1>0, <1>5, RestVolumes
<1>6. CASE Forget \/ Moved
  BY <1>0, <1>6, EndVolumes
<1>7. CASE CancelOrder \/ SweepNext \/ ResizeAway \/ MoveAway
  BY <1>0, <1>7, GoneVolumes
<1>8. CASE ResizeKeep
  BY <1>0, <1>8, ResizeKeepVolumes
<1>9. CASE MoveRest
  BY <1>0, <1>9, MoveRestVolumes
<1>10. CASE UNCHANGED vars
  <2>1. book' = book /\ order' = order /\ index' = index /\ call' = call
    BY <1>10 DEF vars
  <2>2. Moving' = Moving /\ (call'.kind = "move" => ~Exact)
    BY <2>1 DEF Moving, VolumeInv
  <2>3. QED
    BY <1>0, <2>1, <2>2, SameAlike, StayVolumes
<1>11. QED
  BY <1>1, <1>2, <1>3, <1>4, <1>5, <1>6, <1>7, <1>8, <1>9, <1>10 DEF Next, Work

LEMMA VolumeInvariant == Spec => []VolumeInv
<1>1. Init => VolumeInv
  BY VolumeInit
<1>2. VolumeInv /\ [Next]_vars => VolumeInv'
  BY VolumeStep
<1>3. QED
  BY <1>1, <1>2, PTL DEF Spec

LEMMA VolumesMean ==
  ASSUME VolumeInv
  PROVE  /\ \A k \in Keys : Suits(book.volume[k], Remaining(k))
         /\ \A l \in Levels : Suits(book.total[l], InSlots(l))
BY DEF VolumeInv, Volumes, RestIn, Within, Remaining, InSlots

\* The cached volumes of slots and levels never fall short of the orders that
\* rest there: safeSubtract never meets an underflow, over all calls.
THEOREM VolumesAlwaysCover == Spec => []VolumesCover
<1>1. VolumeInv => VolumesCover
  BY VolumesMean DEF Suits, VolumesCover
<1>2. QED
  BY <1>1, VolumeInvariant, PTL

\* As long as clients move no order to another price, the cached volumes are
\* what rests, so that updateBestPrices drops a level with its last order.
THEOREM VolumesStayExact == ASSUME "move" \notin Calls PROVE Spec => []VolumesExact
<1>1. VolumeInv => VolumesExact
  BY VolumesMean DEF Suits, Exact, VolumesExact
<1>2. QED
  BY <1>1, VolumeInvariant, PTL

\* Between calls whatever OrderIndex lists rests in a level of the book and has
\* something left, so CancelOrder and ModifyOrder find it.
THEOREM IndexedOrdersRest == Spec => []IndexedRest
<1>1. VolumeInv => IndexedRest
  BY IndexedOrder DEF IndexedRest
<1>2. QED
  BY <1>1, VolumeInvariant, PTL

===============================================================================
