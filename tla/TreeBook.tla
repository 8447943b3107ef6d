------------------------------- MODULE TreeBook -------------------------------
(***************************************************************************)
(* The order book of verkle-orderbook/main_verkle_only.go: the levels hang *)
(* in a tree over the digits of their price and are never removed; the     *)
(* best level of each side is remembered as a pointer.  main is its only   *)
(* goroutine (HASH_INTERVAL is 0), so a call is one step.                  *)
(*                                                                         *)
(* A level that was not made is one without volume and orders.  The digits *)
(* are those of a big-endian number, so the walk to the right finds the    *)
(* highest price.  Trades, statistics and hashes are left out.             *)
(***************************************************************************)
EXTENDS Integers, Sequences, FiniteSets, FiniteSetsExt, SequencesExt

CONSTANTS
    MaxOrders,    \* bound on the orders
    MaxDeals,     \* bound on the calls
    TopPrice,     \* highest price of a limit order
    TraderIds, OrderSizes,
    VipBelow,     \* traders below it are VIPs (100)
    SmallBelow,   \* orders below it are small (1000)
    RetailSlots   \* slots of the other orders (12)

ASSUME TreeBookAssumption ==
    /\ MaxOrders \in Nat /\ MaxDeals \in Nat /\ TopPrice \in Nat
    /\ TraderIds \subseteq Nat /\ OrderSizes \subseteq Nat \ {0}
    /\ RetailSlots \in Nat \ {0}

VARIABLES
    ob,          \* slots and volumes, the cached best prices, the orders and OrderIndex
    nextOrderID,
    addedOrders, \* the ids main believes it can cancel
    deals        \* how many calls there were

bookVars == <<ob, nextOrderID, addedOrders, deals>>

BookSides == {"BUY", "SELL"}
BookPrices == 1 .. TopPrice
BookSlots == 0 .. 3 + RetailSlots
Places == BookSides \X BookPrices \X BookSlots
LevelSlots(side, price) == {<<side, price, k>> : k \in BookSlots}

Across(side) == IF side = "BUY" THEN "SELL" ELSE "BUY"

\* What putOrderToPool leaves of an order.
Pooled == [trader |-> 0, price |-> 0, size |-> 0, filled |-> 0, side |-> "BUY", slot |-> 0]

PlaceOf(o) == <<o.side, o.price, o.slot>>

IsFilled(o) == o.filled >= o.size
RemainingSize(o) == IF IsFilled(o) THEN 0 ELSE o.size - o.filled
safeSubtract(from, value) == IF value > from THEN 0 ELSE from - value

determineSlot(trader, size) ==
    IF trader < VipBelow THEN 1
    ELSE IF size < SmallBelow THEN 2
    ELSE 3 + (trader % RetailSlots)

-----------------------------------------------------------------------------
(* The best prices: 0 is nil *)

WithVolume(b, side) == {p \in BookPrices : b.total[<<side, p>>] > 0}

findBest(b, side) ==
    LET prices == WithVolume(b, side)
    IN  IF prices = {} THEN 0 ELSE IF side = "BUY" THEN Max(prices) ELSE Min(prices)

updateBestPricesCache(b) == [b EXCEPT !.best = [s \in BookSides |-> findBest(b, s)]]

Better(side, p, q) == IF side = "BUY" THEN p > q ELSE p < q

\* Mutant of invalidateBestPricesCache: only the first level is ever cached.
invalidateOnlyNil(b, side, price) ==
    IF b.best[side] = 0 THEN [b EXCEPT !.best[side] = price] ELSE b

\* A level that got an order may be the best one.
invalidateBestPricesCache(b, side, price) ==
    IF b.best[side] = 0 \/ Better(side, price, b.best[side])
    THEN [b EXCEPT !.best[side] = price] ELSE b

-----------------------------------------------------------------------------
(* Slots *)

\* The volumes of a place change by what an order has left.
Grow(b, o) ==
    [b EXCEPT !.volume[PlaceOf(o)] = @ + RemainingSize(o),
              !.total[<<o.side, o.price>>] = @ + RemainingSize(o)]
Shrink(b, o, n) ==
    [b EXCEPT !.volume[PlaceOf(o)] = safeSubtract(@, n),
              !.total[<<o.side, o.price>>] = safeSubtract(@, n)]

PutLast(b, id, o) == [Grow(b, o) EXCEPT !.queue[PlaceOf(o)] = Append(@, id),
                                         !.order[id] = o]

\* An order is taken out; a slot without orders has no volume.
TakeOut(b, id, o) ==
    LET q == RemoveFirst(b.queue[PlaceOf(o)], id)
    IN  [b EXCEPT !.queue[PlaceOf(o)] = q,
                  !.volume[PlaceOf(o)] = IF q = <<>> THEN 0 ELSE @]

\* delete(OrderIndex) and putOrderToPool.
Dropped(b, id) == [b EXCEPT !.index = @ \ {id}, !.order[id] = Pooled]

\* After an order has left the level of an order.
LevelLeft(b, o, wasBest) ==
    IF b.total[<<o.side, o.price>>] = 0 /\ wasBest THEN updateBestPricesCache(b) ELSE b

-----------------------------------------------------------------------------
(* Matching *)

\* A trade with the first order of a place.
Trade(b, id, place) ==
    LET taker == b.order[id]
        maker == b.order[Head(b.queue[place])]
        n     == Min({RemainingSize(taker), RemainingSize(maker)})
        after == [maker EXCEPT !.filled = @ + n]
        c     == [Shrink(b, maker, n) EXCEPT !.order[id].filled = @ + n,
                                             !.order[Head(b.queue[place])] = after]
    IN  IF IsFilled(after)
        THEN Dropped(TakeOut(c, Head(b.queue[place]), maker), Head(b.queue[place]))
        ELSE c

\* The slots of a level in their order, as long as the taker wants more.
RECURSIVE MatchLevel(_, _, _)
MatchLevel(b, id, price) ==
    LET stocked == {place \in LevelSlots(Across(b.order[id].side), price) :
                        b.queue[place] # <<>>}
    IN  IF IsFilled(b.order[id]) \/ stocked = {} THEN b
        ELSE MatchLevel(Trade(b, id, CHOOSE p \in stocked : \A q \in stocked : p[3] <= q[3]),
                        id, price)

\* The cached level of a side is looked up anew if it has no volume.
Fresh(b, side) ==
    IF b.best[side] = 0 \/ b.total[<<side, b.best[side]>>] = 0
    THEN [b EXCEPT !.best[side] = findBest(b, side)] ELSE b

canMatch(o, price) == price # 0 /\ ~Better(o.side, price, o.price)

\* Level after level; one with volume but no orders ends the matching.
RECURSIVE tryMatchUnsafe(_, _)
tryMatchUnsafe(b, id) ==
    LET o     == b.order[id]
        other == Across(o.side)
        c     == Fresh(b, other)
        price == c.best[other]
        d     == MatchLevel(c, id, price)
        e     == IF d.total[<<other, price>>] = 0 THEN updateBestPricesCache(d) ELSE d
    IN  IF IsFilled(o) THEN [b EXCEPT !.index = @ \ {id}]
        ELSE IF canMatch(o, price) /\ \E place \in LevelSlots(other, price) : c.queue[place] # <<>>
        THEN tryMatchUnsafe(e, id)
        ELSE c

-----------------------------------------------------------------------------
(* The calls *)

NewOrderBook ==
    /\ ob = [queue |-> [p \in Places |-> <<>>],
             volume |-> [p \in Places |-> 0],
             total |-> [l \in BookSides \X BookPrices |-> 0],
             best |-> [s \in BookSides |-> 0],
             order |-> [id \in 1 .. MaxOrders |-> Pooled],
             index |-> {}]
    /\ nextOrderID = 0 /\ addedOrders = {} /\ deals = 0

Deal == deals < MaxDeals /\ deals' = deals + 1

\* The next id, and the book after its order was matched.
Matched(trader, side, price, size) ==
    LET o == [trader |-> trader, price |-> price, size |-> size, filled |-> 0,
              side |-> side, slot |-> determineSlot(trader, size)]
    IN  tryMatchUnsafe([ob EXCEPT !.order[nextOrderID + 1] = o], nextOrderID + 1)

NextOrder == nextOrderID < MaxOrders /\ nextOrderID' = nextOrderID + 1

\* What is left of the order rests at the end of its slot.
AddLimitOrder ==
    /\ Deal /\ NextOrder
    /\ \E t \in TraderIds, s \in BookSides, p \in BookPrices, z \in OrderSizes :
         LET b == Matched(t, s, p, z)
             o == b.order[nextOrderID']
         IN  ob' = IF IsFilled(o) THEN [b EXCEPT !.order[nextOrderID'] = Pooled]
                   ELSE invalidateBestPricesCache(
                            [PutLast(b, nextOrderID', o) EXCEPT !.index = @ \cup {nextOrderID'}],
                            s, p)
    /\ addedOrders' = addedOrders \cup {nextOrderID'}

\* Nothing of the order stays.
ExecuteMarketOrder ==
    /\ Deal /\ NextOrder
    /\ \E t \in TraderIds, s \in BookSides, z \in OrderSizes :
         ob' = [Matched(t, s, IF s = "BUY" THEN TopPrice + 1 ELSE 0, z)
                    EXCEPT !.order[nextOrderID'] = Pooled]
    /\ UNCHANGED addedOrders

\* The side is read after the order went to the pool, so it is always BUY:
\* the cached ask goes on pointing to a level that is empty.
CancelOrder ==
    /\ Deal
    /\ \E id \in addedOrders :
         LET o == ob.order[id]
             b == Dropped(TakeOut(Shrink(ob, o, RemainingSize(o)), id, o), id)
         IN  IF id \in ob.index
             THEN /\ ob' = LevelLeft(b, o, b.best[Pooled.side] = o.price)
                  /\ addedOrders' = addedOrders \ {id}
             ELSE UNCHANGED <<ob, addedOrders>>
    /\ UNCHANGED nextOrderID

WasBest(o) == ob.best[o.side] = o.price

\* The order goes, keeps its place, or goes to the end of its new slot.
Resized(id, o, z) ==
    LET new == [o EXCEPT !.size = z]
        to  == [new EXCEPT !.slot = determineSlot(o.trader, z)]
        b   == Shrink(ob, o, RemainingSize(o))
    IN  IF RemainingSize(new) = 0
        THEN Dropped(LevelLeft(TakeOut(b, id, o), o, WasBest(o)), id)
        ELSE IF to.slot # o.slot THEN PutLast(TakeOut(b, id, o), id, to)
        ELSE [Grow(b, new) EXCEPT !.order[id] = new]

\* The order goes to the end of its slot at the new price and is matched from
\* there: what is filled now stays in the volumes, and the order in its slot.
Moved(id, o, p, z) ==
    LET b   == LevelLeft(TakeOut(Shrink(ob, o, RemainingSize(o)), id, o), o, WasBest(o))
        new == [o EXCEPT !.price = p, !.size = z, !.slot = determineSlot(o.trader, z)]
    IN  IF RemainingSize(new) = 0 THEN Dropped(b, id)
        ELSE tryMatchUnsafe(invalidateBestPricesCache(PutLast(b, id, new), o.side, p), id)

ModifyOrder ==
    /\ Deal
    /\ \E id \in addedOrders \cap ob.index, p \in BookPrices, z \in OrderSizes :
         LET o == ob.order[id]
         IN  /\ ob' = IF p # o.price THEN Moved(id, o, p, z)
                      ELSE IF z # o.size THEN Resized(id, o, z)
                      ELSE ob
    /\ UNCHANGED <<nextOrderID, addedOrders>>

BookNext == AddLimitOrder \/ ExecuteMarketOrder \/ CancelOrder \/ ModifyOrder

-----------------------------------------------------------------------------
(* Properties *)

Rests(id) == {place \in Places : id \in Range(ob.queue[place])}
Left(side, price) ==
    MapThenSumSet(LAMBDA id : RemainingSize(ob.order[id]),
                  UNION {Range(ob.queue[place]) : place \in LevelSlots(side, price)})

\* No level with volume is better than the cached one, although cancelling
\* the best ask leaves the cache at an empty level.
BestLeads ==
    \A s \in BookSides : \A p \in WithVolume(ob, s) :
        ob.best[s] # 0 /\ ~Better(s, p, ob.best[s])

\* What can still trade rests once, where its fields say, and is indexed for
\* main to cancel; volumes never fall short of it.
Cancellable ==
    /\ \A id \in DOMAIN ob.order :
         RemainingSize(ob.order[id]) > 0 => /\ Rests(id) = {PlaceOf(ob.order[id])}
                                            /\ id \in ob.index \cap addedOrders
    /\ \A id \in ob.index : RemainingSize(ob.order[id]) > 0
    /\ \A s \in BookSides, p \in BookPrices : ob.total[<<s, p>>] >= Left(s, p)

Stale(side, price) == ob.total[<<side, price>>] > Left(side, price)

\* A bid stands at or above an ask only behind volume that is not there,
\* which the matching of a moved order leaves.
Uncrossed ==
    \A bid \in {p \in BookPrices : Left("BUY", p) > 0},
       ask \in {p \in BookPrices : Left("SELL", p) > 0} :
         bid >= ask => \/ \E p \in 1 .. bid : Stale("SELL", p)
                       \/ \E p \in ask .. TopPrice : Stale("BUY", p)

\* Whatever main adds, cancels, moves and resizes, the tree of levels, the
\* cached best prices and the index of orders agree, and the sides do not
\* cross but behind volume that a moved order left.
TreeBookSound == BestLeads /\ Cancellable /\ Uncrossed
===============================================================================
