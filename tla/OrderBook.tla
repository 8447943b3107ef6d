------------------------------ MODULE OrderBook ------------------------------
(***************************************************************************)
(* The order book and matching engine of verkle-orderbook/main.go.         *)
(*                                                                         *)
(* Every call runs under ob.mu, so calls do not interleave, except         *)
(* CancelAllByTrader, which takes the lock anew for every order.  A call   *)
(* that matches is cut into its loop iterations: call.kind # "none" means  *)
(* that the lock is held.                                                  *)
(*                                                                         *)
(* A level that is not in the book has empty slots and no volume, as       *)
(* levels taken from the pool have.  Trades, statistics and the tree that  *)
(* is hashed from the levels are left out.                                 *)
(***************************************************************************)
EXTENDS Integers, Sequences, FiniteSets, FiniteSetsExt, SequencesExt

CONSTANTS
  Ids,          \* order ids; atomic.AddUint64 never gives one out twice
  Traders,      \* trader ids
  MaxPrice,     \* highest price of a limit order
  Sizes,        \* sizes of orders
  VipBelow,     \* traders below it are VIPs (100)
  SmallBelow,   \* orders below it are small (1000)
  RetailSlots,  \* slots of the other orders (12)
  Calls,        \* the calls clients make
  MaxCalls      \* bound on the number of calls

AllCalls == {"limit", "batch", "market", "cancel", "sweep", "resize", "move"}

ASSUME BookAssumption ==
  /\ Traders \subseteq Nat
  /\ MaxPrice \in Nat
  /\ Sizes \subseteq Nat
  /\ VipBelow \in Nat
  /\ SmallBelow \in Nat
  /\ RetailSlots \in Nat \ {0}
  /\ Calls \subseteq AllCalls
  /\ MaxCalls \in Nat

VARIABLES
  book,   \* levels, slots, volumes, best prices and the cache of prices
  order,  \* the orders the book or a call refers to
  used,   \* ids given out
  index,  \* ob.OrderIndex
  call,   \* the call that holds ob.mu
  sweep,  \* orders CancelAllByTrader still has to cancel
  calls   \* how many calls there were

vars == <<book, order, used, index, call, sweep, calls>>

Sides  == {"BUY", "SELL"}
Prices == 1 .. MaxPrice
Slots  == 0 .. 3 + RetailSlots
Levels == Sides \X Prices
Keys   == Sides \X Prices \X Slots

Opposite(side) == IF side = "BUY" THEN "SELL" ELSE "BUY"

\* An order in the pool: *o = Order{}.
NoOrder == [trader |-> 0, price |-> 0, size |-> 0, filled |-> 0,
            side |-> "BUY", slot |-> 0]

Key(o) == <<o.side, o.price, o.slot>>

RemainingSize(o) == IF o.filled >= o.size THEN 0 ELSE o.size - o.filled
IsFilled(o) == o.filled >= o.size

safeSubtract(from, value) == IF value > from THEN 0 ELSE from - value

determineSlot(trader, size) ==
  IF trader < VipBelow THEN 1
  ELSE IF size < SmallBelow THEN 2
  ELSE 3 + (trader % RetailSlots)

-------------------------------------------------------------------------------
(* What the calls do to the book.                                          *)

\* Mutant of Enqueue: the volumes grow by the whole size.
EnqueueSize(b, id, o) ==
  [b EXCEPT !.queue[Key(o)] = Append(@, id),
            !.volume[Key(o)] = @ + o.size,
            !.total[<<o.side, o.price>>] = @ + o.size]

\* An order is appended to its slot with what remains of it.
Enqueue(b, id, o) ==
  [b EXCEPT !.queue[Key(o)] = Append(@, id),
            !.volume[Key(o)] = @ + RemainingSize(o),
            !.total[<<o.side, o.price>>] = @ + RemainingSize(o)]

\* The volumes of a slot and its level shrink.
Reduce(b, key, n) ==
  [b EXCEPT !.volume[key] = safeSubtract(@, n),
            !.total[<<key[1], key[2]>>] = safeSubtract(@, n)]

\* An order leaves its slot; an empty slot has no volume.
Unqueue(b, key, id) ==
  LET q == RemoveFirst(b.queue[key], id)
  IN  [b EXCEPT !.queue[key] = q, !.volume[key] = IF q = <<>> THEN 0 ELSE @]

AddLevel(b, side, price) == [b EXCEPT !.levels[side] = @ \cup {price}]

\* The level goes back to the pool, with whatever its slots still hold.
DropLevel(b, side, price) ==
  [b EXCEPT
     !.levels[side] = @ \ {price},
     !.queue  = [k \in Keys |-> IF <<k[1], k[2]>> = <<side, price>> THEN <<>> ELSE b.queue[k]],
     !.volume = [k \in Keys |-> IF <<k[1], k[2]>> = <<side, price>> THEN 0 ELSE b.volume[k]],
     !.total[<<side, price>>] = 0]

\* The head of the sorted prices of a side.
First(side, prices) ==
  IF prices = {} THEN 0 ELSE IF side = "BUY" THEN Max(prices) ELSE Min(prices)

\* rebuildBestPrices only if the cache is dirty or one of its sides is empty;
\* otherwise the best prices are those of the cache, as old as it may be.
updateBestPrices(b) ==
  IF ~b.dirty /\ \A s \in Sides : b.cache[s] # {}
  THEN [b EXCEPT !.best = [s \in Sides |-> First(s, b.cache[s])]]
  ELSE [b EXCEPT !.best = [s \in Sides |-> First(s, b.levels[s])],
                 !.cache = b.levels,
                 !.dirty = FALSE]

\* A level whose volume is zero is deleted and the best prices are updated.
DropIfEmpty(b, side, price) ==
  IF b.total[<<side, price>>] = 0 THEN updateBestPrices(DropLevel(b, side, price)) ELSE b

\* A new level of AddLimitOrder may become the best one; AddLimitOrderBatch
\* only marks the cache.
NewLevel(b, kind, side, price) ==
  LET n == AddLevel(b, side, price)
      Better == \/ side = "BUY" /\ price > b.best[side]
                \/ side = "SELL" /\ (b.best[side] = 0 \/ price < b.best[side])
  IN  IF kind = "batch" THEN [n EXCEPT !.dirty = TRUE]
      ELSE IF Better THEN [n EXCEPT !.best[side] = price]
      ELSE n

-------------------------------------------------------------------------------
Idle    == [kind |-> "none"]     \* nobody holds ob.mu
Between == [kind |-> "between"]  \* inside AddLimitOrderBatch, between two orders

Init ==
  /\ book = [levels |-> [s \in Sides |-> {}],
             queue  |-> [k \in Keys |-> <<>>],
             volume |-> [k \in Keys |-> 0],
             total  |-> [l \in Levels |-> 0],
             best   |-> [s \in Sides |-> 0],
             cache  |-> [s \in Sides |-> {}],
             dirty  |-> FALSE]
  /\ order = [id \in Ids |-> NoOrder]
  /\ used = {}
  /\ index = {}
  /\ call = Idle
  /\ sweep = {}
  /\ calls = 0

\* A client makes one of its calls.
Enter(kind) ==
  /\ call = Idle
  /\ kind \in Calls
  /\ calls < MaxCalls
  /\ calls' = calls + 1

Matching(kind, id) ==
  [kind |-> kind, pc |-> "choose", id |-> id, price |-> 0, matched |-> FALSE]

\* A new order is taken from the pool and about to be matched.
Accept(kind, id, trader, side, price, size) ==
  /\ id \in Ids \ used
  /\ used' = used \cup {id}
  /\ order' = [order EXCEPT ![id] =
       [trader |-> trader, price |-> price, size |-> size, filled |-> 0,
        side |-> side, slot |-> determineSlot(trader, size)]]
  /\ call' = Matching(kind, id)
  /\ UNCHANGED <<book, index, sweep>>

AddLimitOrder ==
  /\ Enter("limit")
  /\ \E id \in Ids, t \in Traders, s \in Sides, p \in Prices, z \in Sizes :
       Accept("limit", id, t, s, p, z)

\* The caller's list is chosen as it is read.
AddLimitOrderBatch ==
  /\ Enter("batch")
  /\ call' = Between
  /\ UNCHANGED <<book, order, used, index, sweep>>

BatchNext ==
  /\ call = Between
  /\ \E id \in Ids, t \in Traders, s \in Sides, p \in Prices, z \in Sizes :
       Accept("batch", id, t, s, p, z)
  /\ UNCHANGED calls

BatchEnd ==
  /\ call = Between
  /\ book' = updateBestPrices(book)
  /\ call' = Idle
  /\ UNCHANGED <<order, used, index, sweep, calls>>

\* Matches at any price, if the best price of the other side has a level.
ExecuteMarketOrder ==
  /\ Enter("market")
  /\ \E id \in Ids, t \in Traders, s \in Sides, z \in Sizes :
       /\ book.best[Opposite(s)] \in book.levels[Opposite(s)]
       /\ Accept("market", id, t, s, IF s = "BUY" THEN MaxPrice + 1 ELSE 0, z)

-------------------------------------------------------------------------------
(* tryMatchUnsafe.                                                         *)

Taker == order[call.id]
Other == Opposite(Taker.side)

\* The slots of the level being matched that hold orders.
Stocked == {k \in Slots : book.queue[<<Other, call.price, k>>] # <<>>}

\* The best price suits the taker and has a level.
CanMatch(o, price) ==
  /\ ~IsFilled(o)
  /\ price > 0
  /\ IF o.side = "BUY" THEN price <= o.price ELSE price >= o.price
  /\ price \in book.levels[Opposite(o.side)]

At(pc) == call.kind \in {"limit", "batch", "market", "move"} /\ call.pc = pc

ChooseLevel ==
  /\ At("choose")
  /\ CanMatch(Taker, book.best[Other])
  /\ call' = [call EXCEPT !.pc = "level", !.price = book.best[Other], !.matched = FALSE]
  /\ UNCHANGED <<book, order, used, index, sweep, calls>>

NoLevel ==
  /\ At("choose")
  /\ ~CanMatch(Taker, book.best[Other])
  /\ call' = [call EXCEPT !.pc = "end"]
  /\ UNCHANGED <<book, order, used, index, sweep, calls>>

\* A trade with the first order of the first slot that has any: when the
\* loops go on, the order before was filled and has left.
MatchMaker ==
  /\ At("level")
  /\ ~IsFilled(Taker)
  /\ Stocked # {}
  /\ LET key   == <<Other, call.price, Min(Stocked)>>
         id    == Head(book.queue[key])
         n     == Min({RemainingSize(Taker), RemainingSize(order[id])})
         maker == [order[id] EXCEPT !.filled = @ + n]
         taker == [Taker EXCEPT !.filled = @ + n]
         b     == Reduce(book, key, n)
     IN  IF IsFilled(maker)
         THEN /\ book' = Unqueue(b, key, id)
              /\ order' = [order EXCEPT ![call.id] = taker, ![id] = NoOrder]
              /\ index' = index \ {id}
         ELSE /\ book' = b
              /\ order' = [order EXCEPT ![call.id] = taker, ![id] = maker]
              /\ index' = index
  /\ call' = [call EXCEPT !.matched = TRUE]
  /\ UNCHANGED <<used, sweep, calls>>

\* Mutant of LevelDone: without the guard against an endless loop.
LevelDoneAgain ==
  /\ At("level")
  /\ IsFilled(Taker) \/ Stocked = {}
  /\ book' = DropIfEmpty(book, Other, call.price)
  /\ call' = [call EXCEPT !.pc = "choose"]
  /\ UNCHANGED <<order, used, index, sweep, calls>>

\* The level is done with; if nothing was matched there, so is the matching.
LevelDone ==
  /\ At("level")
  /\ IsFilled(Taker) \/ Stocked = {}
  /\ book' = DropIfEmpty(book, Other, call.price)
  /\ call' = [call EXCEPT !.pc = IF call.matched THEN "choose" ELSE "end"]
  /\ UNCHANGED <<order, used, index, sweep, calls>>

-------------------------------------------------------------------------------
(* What the calls do after matching.                                       *)

After(kind) == IF kind = "batch" THEN Between ELSE Idle

\* What remains of a limit order rests in the book.
Rest ==
  /\ At("end")
  /\ call.kind \in {"limit", "batch"}
  /\ ~IsFilled(Taker)
  /\ LET b == IF Taker.price \in book.levels[Taker.side] THEN book
              ELSE NewLevel(book, call.kind, Taker.side, Taker.price)
     IN  book' = Enqueue(b, call.id, Taker)
  /\ index' = index \cup {call.id}
  /\ call' = After(call.kind)
  /\ UNCHANGED <<order, used, sweep, calls>>

\* The book forgets a filled order, and what remains of a market order.
Forget ==
  /\ At("end")
  /\ \/ call.kind = "market"
     \/ call.kind \in {"limit", "batch"} /\ IsFilled(Taker)
  /\ order' = [order EXCEPT ![call.id] = NoOrder]
  /\ call' = After(call.kind)
  /\ UNCHANGED <<book, used, index, sweep, calls>>

\* Mutant of Moved: the index forgets the order in any case.
MovedOut ==
  /\ At("end")
  /\ call.kind = "move"
  /\ index' = index \ {call.id}
  /\ call' = Idle
  /\ UNCHANGED <<book, order, used, sweep, calls>>

\* An order that was moved is in its slot already and stays there, also when
\* it is filled: then only the index forgets it.
Moved ==
  /\ At("end")
  /\ call.kind = "move"
  /\ index' = IF IsFilled(Taker) THEN index \ {call.id} ELSE index
  /\ call' = Idle
  /\ UNCHANGED <<book, order, used, sweep, calls>>

-------------------------------------------------------------------------------
(* CancelOrder and CancelAllByTrader.                                      *)

\* Mutant of Cancelled: the volumes shrink by the whole size.
CancelledSize(b, id) ==
  LET o == order[id]
      r == IF id \in Range(b.queue[Key(o)]) THEN Reduce(b, Key(o), o.size) ELSE b
  IN  IF o.price \in b.levels[o.side]
      THEN DropIfEmpty(Unqueue(r, Key(o), id), o.side, o.price)
      ELSE b

\* The book without an order, if there is a level for it.
Cancelled(b, id) ==
  LET o == order[id]
      r == IF id \in Range(b.queue[Key(o)]) THEN Reduce(b, Key(o), RemainingSize(o)) ELSE b
  IN  IF o.price \in b.levels[o.side]
      THEN DropIfEmpty(Unqueue(r, Key(o), id), o.side, o.price)
      ELSE b

\* An order goes back to the pool.
Release(id) ==
  /\ index' = index \ {id}
  /\ order' = [order EXCEPT ![id] = NoOrder]

CancelOrder ==
  /\ Enter("cancel")
  /\ \E id \in index : Release(id) /\ book' = Cancelled(book, id)
  /\ UNCHANGED <<used, call, sweep>>

\* The trader's orders are listed under the lock, which is then released.
CancelAllByTrader ==
  /\ Enter("sweep")
  /\ sweep = {}
  /\ \E t \in Traders : sweep' = {id \in index : order[id].trader = t}
  /\ UNCHANGED <<book, order, used, index, call>>

\* One of them is cancelled, if the book still has it.
SweepNext ==
  /\ call = Idle
  /\ \E id \in sweep :
       /\ sweep' = sweep \ {id}
       /\ IF id \in index THEN Release(id) /\ book' = Cancelled(book, id)
          ELSE UNCHANGED <<index, order, book>>
  /\ UNCHANGED <<used, call, calls>>

-------------------------------------------------------------------------------
(* ModifyOrder.                                                            *)

\* Only the size changes, to no more than what is filled already: the order
\* goes, and its level if it is empty, but the best prices stay.
ResizeAway ==
  /\ Enter("resize")
  /\ \E id \in index, z \in Sizes :
       LET o == order[id]
           b == Unqueue(Reduce(book, Key(o), RemainingSize(o)), Key(o), id)
       IN  /\ z # o.size
           /\ RemainingSize([o EXCEPT !.size = z]) = 0
           /\ o.price \in book.levels[o.side]
           /\ book' = IF b.total[<<o.side, o.price>>] = 0
                      THEN DropLevel(b, o.side, o.price) ELSE b
           /\ Release(id)
  /\ UNCHANGED <<used, call, sweep>>

\* Mutant of Resized: the order gets its new slot but stays where it was.
ResizedInPlace(b, id, o, new) ==
  [b EXCEPT !.volume[Key(o)] = @ + RemainingSize(new),
            !.total[<<o.side, o.price>>] = @ + RemainingSize(new)]

\* The order stays in its place, or goes to the end of its new slot.
Resized(b, id, o, new) ==
  IF new.slot = o.slot
  THEN [b EXCEPT !.volume[Key(o)] = @ + RemainingSize(new),
                 !.total[<<o.side, o.price>>] = @ + RemainingSize(new)]
  ELSE Enqueue(Unqueue(b, Key(o), id), id, new)

ResizeKeep ==
  /\ Enter("resize")
  /\ \E id \in index, z \in Sizes :
       LET o   == order[id]
           new == [o EXCEPT !.size = z, !.slot = determineSlot(o.trader, z)]
       IN  /\ z # o.size
           /\ RemainingSize(new) # 0
           /\ o.price \in book.levels[o.side]
           /\ book' = Resized(Reduce(book, Key(o), RemainingSize(o)), id, o, new)
           /\ order' = [order EXCEPT ![id] = new]
  /\ UNCHANGED <<used, index, call, sweep>>

\* The book after an order has left the level it is moved from.
Departed(id) ==
  LET o == order[id]
  IN  DropIfEmpty(Unqueue(Reduce(book, Key(o), RemainingSize(o)), Key(o), id),
                  o.side, o.price)

\* The price of an order changes, and perhaps its size.
CanMove(id, price) ==
  /\ price # order[id].price
  /\ order[id].price \in book.levels[order[id].side]
  /\ id \in Range(book.queue[Key(order[id])])

MoveAway ==
  /\ Enter("move")
  /\ \E id \in index, p \in Prices, z \in Sizes :
       /\ CanMove(id, p)
       /\ RemainingSize([order[id] EXCEPT !.size = z]) = 0
       /\ book' = Departed(id)
       /\ Release(id)
  /\ UNCHANGED <<used, call, sweep>>

\* A new level is made known before it has volume; the order then rests in
\* the book and is matched like a new one.
MoveRest ==
  /\ Enter("move")
  /\ \E id \in index, p \in Prices, z \in Sizes :
       LET o   == order[id]
           new == [o EXCEPT !.price = p, !.size = z, !.slot = determineSlot(o.trader, z)]
           b   == IF p \in Departed(id).levels[o.side] THEN Departed(id)
                  ELSE updateBestPrices(AddLevel(Departed(id), o.side, p))
       IN  /\ CanMove(id, p)
           /\ RemainingSize(new) # 0
           /\ book' = Enqueue(b, id, new)
           /\ order' = [order EXCEPT ![id] = new]
           /\ call' = Matching("move", id)
  /\ UNCHANGED <<used, index, sweep>>

-------------------------------------------------------------------------------
\* The steps of a call that holds the lock.
Work ==
  \/ BatchNext
  \/ BatchEnd
  \/ ChooseLevel
  \/ NoLevel
  \/ MatchMaker
  \/ LevelDone
  \/ Rest
  \/ Forget
  \/ Moved

Next ==
  \/ AddLimitOrder
  \/ AddLimitOrderBatch
  \/ ExecuteMarketOrder
  \/ CancelOrder
  \/ CancelAllByTrader
  \/ SweepNext
  \/ ResizeAway
  \/ ResizeKeep
  \/ MoveAway
  \/ MoveRest
  \/ Work

Spec == Init /\ [][Next]_vars

\* A goroutine that holds the lock runs on; a batch ends with the ids.
FairSpec == Spec /\ WF_vars(Work)

-------------------------------------------------------------------------------
(* Properties.                                                             *)

Orders == [trader : Traders \cup {0}, price : 0 .. MaxPrice + 1, size : Nat,
           filled : Nat, side : Sides, slot : Slots]
Books  == [levels : [Sides -> SUBSET Prices],
           queue  : [Keys -> Seq(Ids)],
           volume : [Keys -> Nat],
           total  : [Levels -> Nat],
           best   : [Sides -> 0 .. MaxPrice],
           cache  : [Sides -> SUBSET Prices],
           dirty  : BOOLEAN]
CallStates == [kind : {"limit", "batch", "market", "move"},
               pc : {"choose", "level", "end"}, id : Ids,
               price : 0 .. MaxPrice, matched : BOOLEAN]

\* Type invariant: prices, slots and volumes stay in range; no volume and no
\* size ever wraps below zero.
TypeOK ==
  /\ book \in Books
  /\ order \in [Ids -> Orders]
  /\ used \subseteq Ids
  /\ index \subseteq Ids
  /\ call \in {Idle, Between} \cup CallStates
  /\ sweep \subseteq Ids
  /\ calls \in 0 .. MaxCalls

\* An order rests at most once, and where its price, side and slot say: the
\* places from which CancelOrder and ModifyOrder will try to take it.
RestInPlace ==
  \A k \in Keys : \A i \in DOMAIN book.queue[k] :
    /\ book.queue[k][i] \in used
    /\ Key(order[book.queue[k][i]]) = k
    /\ \A j \in DOMAIN book.queue[k] : book.queue[k][i] = book.queue[k][j] => i = j

\* Whatever rests and can still trade is in the index, so that its owner can
\* cancel it, and it is never filled beyond the size he last asked for.
LiveIndexed ==
  \A k \in Keys : \A i \in DOMAIN book.queue[k] :
    LET id == book.queue[k][i]
    IN  /\ RemainingSize(order[id]) > 0 => id \in index
        /\ order[id].filled <= order[id].size

\* Between two calls every indexed order rests in the book with something
\* left: no level goes back to the pool while orders rest in it.
IndexedRest ==
  call = Idle =>
    \A id \in index : /\ id \in Range(book.queue[Key(order[id])])
                      /\ order[id].price \in book.levels[order[id].side]
                      /\ ~IsFilled(order[id])

Remaining(key) ==
  SumFunction([id \in Range(book.queue[key]) |-> RemainingSize(order[id])])
InSlots(l) == SumFunction([k \in Slots |-> book.volume[<<l[1], l[2], k>>]])

\* The cached volumes never fall short of what rests, so safeSubtract never
\* has an underflow to prevent.
VolumesCover ==
  /\ \A k \in Keys : book.volume[k] >= Remaining(k)
  /\ \A l \in Levels : book.total[l] >= InSlots(l)

\* Until a resting order changes its price (Moved), the cached volumes are
\* exactly what rests, so a level is deleted when its last order leaves.
VolumesExact ==
  /\ \A k \in Keys : book.volume[k] = Remaining(k)
  /\ \A l \in Levels : book.total[l] = InSlots(l)

\* Every call returns: the matching loop ends whatever the cached prices and
\* volumes say.
CallsReturn == call # Idle ~> call = Idle

===============================================================================
