------------------------------ MODULE MarketMirror ------------------------------
(***************************************************************************)
(* The two market makers of tx-header that mirror the order book of another *)
(* exchange: main turns each message of the feed into transactions, in      *)
(* version 2 a goroutine adds empty transactions, and a signal makes a      *)
(* third cancel all orders, write the transactions to a file and exit.      *)
(*                                                                          *)
(* Prices are counted in tenths of a tick and sizes in tenths of the least  *)
(* size, the distances the code compares with.  A price stands for all the  *)
(* floating point numbers that are printed like it.                         *)
(***************************************************************************)
EXTENDS Integers, Sequences, FiniteSets, SequencesExt, FiniteSetsExt, Functions, TLC

CONSTANTS
    Markets,        \* symbols; version 1 has one
    mirrorDepth,    \* levels that are mirrored, by version (10, 11)
    ordersPerLevel, \* orders a large level is split into
    SplitFrom,      \* a level worth this much is large; in version 1, of this size
    Messages,       \* messages: a market and its new bids and asks, <<>> if not sent
    MaxMessages, MaxNoops  \* bounds

VARIABLES
    version,
    OB,             \* the bids and asks of each market
    managed,        \* ManagedOrders of each market, by key
    mirrorNonce,
    allTxs,         \* the orders they leave when carried out in order, and their nonces
    quote,          \* main
    idler,          \* runNoopGenerator: the nonce it has taken, or 0
    stopper,        \* the goroutine that waits for a signal
    file,           \* what saveAllTxs wrote
    ended,          \* how the program ended, if it did
    created,        \* how many orders main has made; the last one's id
    midway          \* history: did main work on while the signal was handled?

mirrorVars == <<version, OB, managed, mirrorNonce, allTxs, quote, idler, stopper, file,
                ended, created, midway>>

Nothing == [m \in {} |-> 0]
Reading  == [pc |-> "read", market |-> "none", todo |-> <<>>, keys |-> {}, taken |-> 0,
            ids |-> {}, messages |-> 0]

MirrorInit ==
    /\ version \in {1, 2}
    /\ OB = [m \in Markets |-> [bids |-> <<>>, asks |-> <<>>]]
    /\ managed = [m \in Markets |-> Nothing]
    /\ mirrorNonce = 0 /\ created = 0
    /\ allTxs = [live |-> Nothing, nonces |-> {}, last |-> 0, twice |-> FALSE, mixed |-> FALSE]
    /\ quote = Reading /\ idler = [taken |-> 0, count |-> 0]
    /\ stopper = [pc |-> "signal", left |-> Markets, ids |-> {}, taken |-> 0]
    /\ file = Nothing /\ ended = "no" /\ midway = FALSE

-----------------------------------------------------------------------------
(* What main wants: createOrAmendOrders for each level, best price first.   *)

Dist(a, b) == IF a > b THEN a - b ELSE b - a

Large(level) == IF version = 2 THEN level.price * level.qty > SplitFrom
                               ELSE level.qty >= SplitFrom

\* The i-th part of a level lies i tenths of a tick above or below its price.
Part(side, n, level, parts, i) ==
    LET price == IF i % 2 = 0 THEN level.price + i ELSE level.price - i
    IN  [key |-> IF version = 2 THEN <<side, n, i>>
                 ELSE <<side, price, IF parts > 1 THEN i ELSE -1>>,
         side |-> side, price |-> price, qty |-> level.qty \div parts]

Parts(side, n, level) ==
    LET parts == IF Large(level) THEN ordersPerLevel ELSE 1
    IN  IF level.qty \div parts = 0 THEN <<>>
        ELSE [i \in 1 .. parts |-> Part(side, n, level, parts, i - 1)]

Side(side, levels) ==
    LET sorted == SortSeq(levels, LAMBDA k, l : IF side = "buy" THEN k.price > l.price
                                                               ELSE k.price < l.price)
        top == SubSeq(sorted, 1, Min({mirrorDepth[version], Len(sorted)}))
    IN  FlattenSeq([n \in 1 .. Len(top) |-> Parts(side, n, top[n])])

Wanted(b) == Side("buy", b.bids) \o Side("sell", b.asks)

-----------------------------------------------------------------------------
(* main.                                                                    *)

Handling == stopper.pc # "signal"

\* A side that is sent replaces the one there was, whether the message is a
\* snapshot or a delta.
updateOrderBook(msg) ==
    /\ quote.pc = "read" /\ quote.messages < MaxMessages
    /\ LET b == [bids |-> IF msg.bids = <<>> THEN OB[msg.market].bids ELSE msg.bids,
                 asks |-> IF msg.asks = <<>> THEN OB[msg.market].asks ELSE msg.asks]
       IN  /\ OB' = [OB EXCEPT ![msg.market] = b]
           /\ quote' = [quote EXCEPT !.pc = "order", !.market = msg.market, !.todo = Wanted(b),
                            !.keys = {o.key : o \in Range(Wanted(b))}, !.messages = @ + 1]
    /\ midway' = (midway \/ Handling)
    /\ UNCHANGED <<version, managed, mirrorNonce, allTxs, idler, stopper, file, ended, created>>

\* createHeader counts with an atomic in version 2; in version 1 main and the
\* handler may get the same number.
NextNonces(other) == {mirrorNonce + 1} \cup
                     (IF version = 1 /\ other THEN {mirrorNonce} \ {0} ELSE {})

Mine == managed[quote.market]
Want == Head(quote.todo)
Same(placed) == Dist(placed.price, Want.price) <= 1 /\ Dist(placed.qty, Want.qty) <= 1

\* Version 2 leaves an order alone that hardly differs.
KeepOrder ==
    /\ quote.pc = "order" /\ quote.todo # <<>> /\ version = 2
    /\ Want.key \in DOMAIN Mine /\ Same(Mine[Want.key])
    /\ quote' = [quote EXCEPT !.todo = Tail(@)]
    /\ UNCHANGED <<version, OB, managed, mirrorNonce, allTxs, idler, stopper, file, ended,
                   created, midway>>

\* The market's lock is held from here to the append.
StartOrder ==
    /\ quote.pc = "order" /\ quote.todo # <<>>
    /\ version = 2 /\ Want.key \in DOMAIN Mine => ~Same(Mine[Want.key])
    /\ \E n \in NextNonces(Handling) :
           mirrorNonce' = n /\ quote' = [quote EXCEPT !.pc = "append", !.taken = n]
    /\ UNCHANGED <<version, OB, managed, allTxs, idler, stopper, file, ended, created, midway>>

\* Version 1 changes the map without a lock: the runtime may notice that the
\* handler iterates over it.
MayCrash == version = 1 /\ stopper.pc = "cancel"
Crashes(or) == IF MayCrash THEN ended' \in {or, "fatal"} ELSE ended' = or

\* Transaction n puts orders in place or cancels some, both by id.  A nonce that
\* comes twice is noted, and one out of order that is not runNoopGenerator's.
appendTx(n, put, cancelled, own) ==
    allTxs' = [live   |-> put @@ Restrict(allTxs.live, DOMAIN allTxs.live \ cancelled),
               nonces |-> allTxs.nonces \cup {n},
               last   |-> IF own THEN n ELSE allTxs.last,
               twice  |-> allTxs.twice \/ n \in allTxs.nonces,
               mixed  |-> allTxs.mixed \/ (own /\ n <= allTxs.last)]

createNewOrder ==
    /\ quote.pc = "append" /\ Want.key \notin DOMAIN Mine
    /\ LET placed == [id |-> created + 1, price |-> Want.price, qty |-> Want.qty,
                     side |-> Want.side]
       IN  /\ appendTx(quote.taken, placed.id :> placed, {}, TRUE)
           /\ managed' = [managed EXCEPT ![quote.market] = (Want.key :> placed) @@ @]
    /\ created' = created + 1 /\ Crashes(ended)
    /\ quote' = [quote EXCEPT !.pc = "order", !.todo = Tail(@)]
    /\ UNCHANGED <<version, OB, mirrorNonce, idler, stopper, file, midway>>

\* The fields that hardly differ are neither sent nor remembered.
amendOrder ==
    /\ quote.pc = "append" /\ Want.key \in DOMAIN Mine
    /\ LET old == Mine[Want.key]
           new == [old EXCEPT
                     !.price = IF version = 1 \/ Dist(@, Want.price) > 1 THEN Want.price ELSE @,
                     !.qty   = IF version = 1 \/ Dist(@, Want.qty) > 1 THEN Want.qty ELSE @]
       IN  /\ appendTx(quote.taken, old.id :> new, {}, TRUE)
           /\ managed' = [managed EXCEPT ![quote.market][Want.key] = new]
    /\ quote' = [quote EXCEPT !.pc = "order", !.todo = Tail(@)]
    /\ UNCHANGED <<version, OB, mirrorNonce, idler, stopper, file, ended, created, midway>>

\* A cancellation that leaves the parts of a level that is no longer split.
OutdatedLevels == {k \in DOMAIN Mine : ~\E l \in quote.keys : l[1] = k[1] /\ l[2] = k[2]}

\* In version 2 an order without a level; in version 1 every order: the keys of
\* the levels begin with buy and sell, those they are looked up with do not.
Outdated == IF version = 2 THEN DOMAIN Mine \ quote.keys ELSE DOMAIN Mine

\* Version 2 cancels them in one transaction, the lock released; version 1
\* cancels them one by one and keeps each in the map until then.
cancelOutdatedOrders ==
    /\ quote.pc = "order" /\ quote.todo = <<>>
    /\ IF Outdated = {} THEN quote' = [quote EXCEPT !.pc = "log"] /\ UNCHANGED managed
       ELSE IF version = 2
       THEN /\ quote' = [quote EXCEPT !.pc = "batch", !.ids = {Mine[k].id : k \in Outdated}]
            /\ managed' = [managed EXCEPT ![quote.market] = Restrict(@, DOMAIN @ \ Outdated)]
       ELSE /\ \E k \in Outdated : quote' = [quote EXCEPT !.pc = "batch", !.ids = {Mine[k].id}]
            /\ UNCHANGED managed
    /\ UNCHANGED <<version, OB, mirrorNonce, allTxs, idler, stopper, file, ended, created, midway>>

CancelHeader ==
    /\ quote.pc = "batch"
    /\ \E n \in NextNonces(Handling) :
           mirrorNonce' = n /\ quote' = [quote EXCEPT !.pc = "cancel", !.taken = n]
    /\ UNCHANGED <<version, OB, managed, allTxs, idler, stopper, file, ended, created, midway>>

cancelOrdersBatch ==
    /\ quote.pc = "cancel"
    /\ appendTx(quote.taken, Nothing, quote.ids, TRUE)
    /\ IF version = 2
       THEN /\ quote' = [quote EXCEPT !.pc = "log"] /\ UNCHANGED <<managed, ended>>
       ELSE /\ quote' = [quote EXCEPT !.pc = "order"]
            /\ managed' = [managed EXCEPT ![quote.market] =
                   Restrict(@, {k \in DOMAIN @ : @[k].id \notin quote.ids})]
            /\ Crashes(ended)
    /\ UNCHANGED <<version, OB, mirrorNonce, idler, stopper, file, created, midway>>

\* Version 1 logs the best bid and ask if there is either.
logMarketStatus ==
    /\ quote.pc = "log"
    /\ LET b == OB[quote.market]
       IN  ended' = IF version = 1 /\ (b.bids = <<>>) # (b.asks = <<>>) THEN "panic" ELSE ended
    /\ quote' = [Reading EXCEPT !.messages = quote.messages]
    /\ UNCHANGED <<version, OB, managed, mirrorNonce, allTxs, idler, stopper, file, created, midway>>

\* main returns when the connection breaks; nothing is cancelled or saved.
ReadFails ==
    /\ quote.pc = "read"
    /\ ended' = "returned"
    /\ UNCHANGED <<version, OB, managed, mirrorNonce, allTxs, quote, idler, stopper, file,
                   created, midway>>

-----------------------------------------------------------------------------
(* The other goroutines.                                                    *)

NoopHeader ==
    /\ version = 2 /\ idler.taken = 0 /\ idler.count < MaxNoops
    /\ mirrorNonce' = mirrorNonce + 1
    /\ idler' = [taken |-> mirrorNonce', count |-> idler.count + 1]
    /\ UNCHANGED <<version, OB, managed, allTxs, quote, stopper, file, ended, created, midway>>

generateMetaNoop ==
    /\ idler.taken # 0
    /\ appendTx(idler.taken, Nothing, {}, FALSE)
    /\ idler' = [idler EXCEPT !.taken = 0]
    /\ UNCHANGED <<version, OB, managed, mirrorNonce, quote, stopper, file, ended, created, midway>>

Signal ==
    /\ stopper.pc = "signal"
    /\ stopper' = [stopper EXCEPT !.pc = "market"]
    /\ midway' = (midway \/ quote.pc # "read")
    /\ UNCHANGED <<version, OB, managed, mirrorNonce, allTxs, quote, idler, file, ended, created>>

Locked(m) == version = 2 /\ quote.pc = "append" /\ quote.market = m

\* cancelAllOrdersGlobal, market by market; version 1 leaves its map as it is.
CollectAll(m) ==
    /\ stopper.pc = "market" /\ m \in stopper.left /\ ~Locked(m)
    /\ stopper' = [stopper EXCEPT !.left = @ \ {m}, !.ids = {o.id : o \in Range(managed[m])},
                       !.pc = IF DOMAIN managed[m] = {} THEN "market" ELSE "cancel"]
    /\ managed' = IF version = 2 THEN [managed EXCEPT ![m] = Nothing] ELSE managed
    /\ UNCHANGED <<version, OB, mirrorNonce, allTxs, quote, idler, file, ended, created, midway>>

StopHeader ==
    /\ stopper.pc = "cancel" /\ stopper.taken = 0
    /\ \E n \in NextNonces(quote.pc # "read") :
           mirrorNonce' = n /\ stopper' = [stopper EXCEPT !.taken = n]
    /\ UNCHANGED <<version, OB, managed, allTxs, quote, idler, file, ended, created, midway>>

\* Version 2 cancels in a batch, version 1 one order at a time.
CancelAll ==
    /\ stopper.pc = "cancel" /\ stopper.taken # 0
    /\ \E ids \in IF version = 2 THEN {stopper.ids} ELSE {{i} : i \in stopper.ids} :
           /\ appendTx(stopper.taken, Nothing, ids, TRUE)
           /\ stopper' = [stopper EXCEPT !.ids = @ \ ids, !.taken = 0,
                              !.pc = IF stopper.ids = ids THEN "market" ELSE "cancel"]
    /\ UNCHANGED <<version, OB, managed, mirrorNonce, quote, idler, file, ended, created, midway>>

saveAllTxs ==
    /\ stopper.pc = "market" /\ stopper.left = {}
    /\ file' = allTxs.live
    /\ stopper' = [stopper EXCEPT !.pc = "exit"]
    /\ UNCHANGED <<version, OB, managed, mirrorNonce, allTxs, quote, idler, ended, created, midway>>

Exit ==
    /\ stopper.pc = "exit"
    /\ ended' = "exited"
    /\ UNCHANGED <<version, OB, managed, mirrorNonce, allTxs, quote, idler, stopper, file,
                   created, midway>>

MirrorNext ==
    /\ ended = "no"
    /\ \/ \E msg \in Messages : updateOrderBook(msg)
       \/ KeepOrder \/ StartOrder \/ createNewOrder \/ amendOrder \/ cancelOutdatedOrders
       \/ CancelHeader \/ cancelOrdersBatch \/ logMarketStatus \/ ReadFails
       \/ NoopHeader \/ generateMetaNoop
       \/ Signal \/ (\E m \in Markets : CollectAll(m)) \/ StopHeader \/ CancelAll
       \/ saveAllTxs \/ Exit

MirrorSpec == MirrorInit /\ [][MirrorNext]_mirrorVars

-----------------------------------------------------------------------------
(* Properties.                                                              *)

AllManaged == UNION {Range(managed[m]) : m \in Markets}

\* The book is mirrored: an order for each part of each level, within a tenth.
Mirrored(m) ==
    LET wanted == Wanted(OB[m])
    IN  /\ DOMAIN managed[m] = {o.key : o \in Range(wanted)}
        /\ \A o \in Range(wanted) : Dist(managed[m][o.key].price, o.price) <= 1
                                    /\ Dist(managed[m][o.key].qty, o.qty) <= 1

\* Between two messages the transactions made so far leave just the orders that
\* the maker thinks it has, in version 2 one for each part of each level, though
\* keys move from level to level, levels are split and joined and fields are
\* left out; no nonce is used twice and main's own are in order.  When the program
\* exits, the file it wrote leaves no order, unless main worked on meanwhile.
MirrorKept ==
    /\ ended = "no" /\ quote.pc = "read" /\ ~Handling =>
          /\ Range(allTxs.live) = AllManaged
          /\ version = 2 => \A m \in Markets : Mirrored(m)
          /\ ~allTxs.mixed
    /\ version = 2 => ~allTxs.twice
    /\ ended = "exited" /\ ~midway => file = Nothing
=============================================================================
