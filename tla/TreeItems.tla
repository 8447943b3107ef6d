------------------------------ MODULE TreeItems ------------------------------
(***************************************************************************)
(* The data side of one Merkle tree of mt-manager/merkletree: the map of   *)
(* items, the counter, the sharded LRU cache and the top-N caches that     *)
(* tree.go keeps beside the nodes (MerkleTree), and the write buffer       *)
(* (write_buffer.go) in front of it with its background flusher.           *)
(*                                                                         *)
(* Each of these is atomic by itself, and nothing holds them together: a   *)
(* call is a list of operations, done one after another while the          *)
(* operations of other calls come in between.  What a call does to the     *)
(* nodes is in MerkleTree.                                                 *)
(***************************************************************************)
EXTENDS Integers, Sequences, FiniteSets, SequencesExt, FiniteSetsExt

CONSTANTS
    Ids, Versions,      \* items are versions of an id
    Users, Flusher,     \* the goroutines that call, and autoFlusher
    Shards, CacheSizes, \* Config.CacheShards as a number, cache sizes of shards
    TopN,               \* Config.TopN
    BufferSize,         \* the buffer size at which an insert flushes
    Budgets,            \* bounds: the calls of each kind, how many at once, and
                        \* the ids they are about
    None

ASSUME ItemsAssumption ==
    /\ Ids \subseteq Nat /\ Versions \subseteq Nat \ {0} /\ Shards \in Nat \ {0}
    /\ CacheSizes \subseteq Nat \ {0} /\ CacheSizes # {}
    /\ TopN \in Nat /\ BufferSize \in Nat \ {0}
    /\ Flusher \notin Users
    /\ Budgets \subseteq [insert: Nat, batch: Nat, delete: Nat, get: Nat,
                          clear: Nat, resize: Nat, buffer: Nat, close: Nat,
                          crowd: Nat, ids: SUBSET Ids]

VARIABLES
    items,            \* Tree.items
    itemCount,        \* Tree.itemCount
    cache, cacheSize, \* the shards, most recently used first, and their capacity
    topMin, topMax,   \* Tree.topMinCache.items, Tree.topMaxCache.items
    buffer,           \* WriteBuffer.buffer
    closed,           \* stopChan is closed
    stopped,          \* autoFlusher has returned
    todo,             \* the operations each goroutine has still to do
    budget,           \* the calls that are left
    given, landed,    \* history: items put into the buffer, and out of it
                      \* into the map
    late,             \* history: items given after the flusher's last flush
    met,              \* history: ids two calls on which overlapped
    removed,          \* history: ids that were removed
    again             \* history: stores over an item since the last clear

tree == <<items, itemCount, cache, cacheSize, topMin, topMax>>
wb == <<buffer, closed, stopped, given, late>>
history == <<landed, met, removed, again>>
vars == <<tree, wb, todo, budget, history>>

-----------------------------------------------------------------------------

Item == [id: Ids, ver: Versions]
Actors == Users \cup {Flusher}
Shard(id) == id % Shards
Present == {id \in Ids : items[id] # None}

\* An operation: what is done, to which ids, with which item, how many.
Op(op, ids, item, n) == [op |-> op, ids |-> ids, item |-> item, n |-> n]
On(op, item) == Op(op, {item.id}, item, 0)
Count(ids, n) == Op("count", ids, None, n)

Busy(a) == UNION {o.ids : o \in ToSet(todo[a])}
BusyIds == UNION {Busy(a) : a \in Actors}
Quiet == \A a \in Actors : todo[a] = <<>>

\* Goroutine a is now to do ops: whose calls does it meet?
Begin(a, ops) ==
    LET ids == UNION {o.ids : o \in ToSet(ops)}
    IN  /\ todo' = [todo EXCEPT ![a] = ops]
        /\ met' = met \cup (ids \cap UNION {Busy(b) : b \in Actors \ {a}})

Init ==
    /\ items = [id \in Ids |-> None]
    /\ itemCount = 0
    /\ cache = [s \in 0 .. Shards - 1 |-> <<>>]
    /\ cacheSize \in CacheSizes
    /\ topMin = <<>> /\ topMax = <<>>
    /\ buffer = <<>> /\ closed = FALSE /\ stopped = FALSE
    /\ todo = [a \in Actors |-> <<>>]
    /\ budget \in Budgets
    /\ given = <<>> /\ late = {} /\ landed = {} /\ met = {} /\ removed = {} /\ again = 0

-----------------------------------------------------------------------------
(* The calls of the tree, as lists of operations *)

InsertOps(item) ==
    <<On("store", item), Count({item.id}, 1), On("put", item),
      On("min", item), On("max", item)>>

\* Mutant of BatchOps: the counter goes up by one for the whole batch.
BatchOpsCountOne(its) ==
    FlattenSeq([i \in 1 .. Len(its) |->
        <<On("store", its[i]), On("put", its[i]),
          On("min", its[i]), On("max", its[i])>>]) \o <<Count({i.id : i \in ToSet(its)}, 1)>>

\* Mutant of BatchOps: from the last item to the first.
BatchOpsReversed(its) ==
    FlattenSeq([i \in 1 .. Len(its) |->
        <<On("store", Reverse(its)[i]), On("put", Reverse(its)[i]),
          On("min", Reverse(its)[i]), On("max", Reverse(its)[i])>>])
        \o <<Count({i.id : i \in ToSet(its)}, Len(its))>>

\* InsertBatch stores item by item and counts at the end.
BatchOps(its) ==
    FlattenSeq([i \in 1 .. Len(its) |->
        <<On("store", its[i]), On("put", its[i]),
          On("min", its[i]), On("max", its[i])>>]) \o <<Count({i.id : i \in ToSet(its)}, Len(its))>>

DeleteOps(id) == <<Op("find", {id}, None, 0)>>

\* DeleteBatch counts what it found at the end.
DeleteBatchOps(ids) ==
    [i \in 1 .. Len(ids) |-> Op("find", {ids[i]}, None, 1)] \o <<Count(ToSet(ids), 0)>>

GetOps(id) == <<Op("get", {id}, None, 0)>>

ClearOps ==
    <<Op("clearItems", Ids, None, 0), Op("zero", Ids, None, 0),
      Op("clearCache", Ids, None, 0), Op("clearTop", Ids, None, 0)>>

Start(u, kind, ops) ==
    /\ u \in Users
    /\ todo[u] = <<>>
    /\ Cardinality({v \in Users : todo[v] # <<>>}) < budget.crowd
    /\ budget[kind] > 0
    /\ budget' = [budget EXCEPT ![kind] = @ - 1]
    /\ Begin(u, ops)
    /\ UNCHANGED <<tree, wb, landed, removed, again>>

Insert(u, item) == Start(u, "insert", InsertOps(item))
InsertBatch(u, its) == Start(u, "batch", BatchOps(its))
Delete(u, id) == Start(u, "delete", DeleteOps(id))
DeleteBatch(u, ids) == Start(u, "delete", DeleteBatchOps(ids))
Get(u, id) == Start(u, "get", GetOps(id))
Clear(u) == Start(u, "clear", ClearOps)

-----------------------------------------------------------------------------
(* The operations *)

Doing(a, op) == todo[a] # <<>> /\ Head(todo[a]).op = op
Done(a) == todo' = [todo EXCEPT ![a] = Tail(@)]

\* Operation op, which changes parts of the tree only.
TreeOp(a, op) ==
    /\ Doing(a, op)
    /\ Done(a)
    /\ UNCHANGED <<wb, budget, met>>

Store(a) ==
    LET item == Head(todo[a]).item
    IN  /\ TreeOp(a, "store")
        /\ items' = [items EXCEPT ![item.id] = item]
        /\ again' = IF items[item.id] = None THEN again ELSE again + 1
        /\ landed' = landed \cup {item}
        /\ UNCHANGED <<itemCount, cache, cacheSize, topMin, topMax, removed>>

AddCount(a) ==
    /\ TreeOp(a, "count")
    /\ itemCount' = itemCount + Head(todo[a]).n
    /\ UNCHANGED <<items, cache, cacheSize, topMin, topMax, landed, removed, again>>

Without(s, id) == SelectSeq(s, LAMBDA i : i.id # id)

\* lruCache.put: to the head, and one out at the tail of a full shard.
AtHead(shard, item) ==
    LET front == <<item>> \o Without(shard, item.id)
    IN  IF Len(front) > cacheSize THEN Front(front) ELSE front

Put(a) ==
    LET item == Head(todo[a]).item
    IN  /\ TreeOp(a, "put")
        /\ cache' = [cache EXCEPT ![Shard(item.id)] = AtHead(@, item)]
        /\ UNCHANGED <<items, itemCount, cacheSize, topMin, topMax, landed,
                       removed, again>>

Uncache(a) ==
    LET item == Head(todo[a]).item
    IN  /\ TreeOp(a, "uncache")
        /\ cache' = [cache EXCEPT ![Shard(item.id)] = Without(@, item.id)]
        /\ UNCHANGED <<items, itemCount, cacheSize, topMin, topMax, landed,
                       removed, again>>

Before(asc, i, j) == IF asc THEN i.id < j.id ELSE i.id > j.id
InOrder(asc, top) == SortSeq(top, LAMBDA i, j : Before(asc, i, j))

\* Mutant of TryInsert: a full cache gives up its first item for a better one.
TryInsertFirst(top, item, asc) ==
    IF TopN = 0 THEN top
    ELSE IF Len(top) < TopN THEN InOrder(asc, Append(top, item))
    ELSE IF Before(asc, item, Last(top)) THEN InOrder(asc, Append(Tail(top), item))
    ELSE top

\* TryInsert: a full cache takes an item better than its last, for the last.
TryInsert(top, item, asc) ==
    IF TopN = 0 THEN top
    ELSE IF Len(top) < TopN THEN InOrder(asc, Append(top, item))
    ELSE IF Before(asc, item, Last(top)) THEN InOrder(asc, Append(Front(top), item))
    ELSE top

\* Remove: the first entry with the id; nobody takes its place.
RemoveFrom(top, id) ==
    IF \E i \in 1 .. Len(top) : top[i].id = id
    THEN RemoveAt(top, SelectInSeq(top, LAMBDA i : i.id = id))
    ELSE top

OfferMin(a) ==
    /\ TreeOp(a, "min")
    /\ topMin' = TryInsert(topMin, Head(todo[a]).item, TRUE)
    /\ UNCHANGED <<items, itemCount, cache, cacheSize, topMax, landed, removed, again>>

OfferMax(a) ==
    /\ TreeOp(a, "max")
    /\ topMax' = TryInsert(topMax, Head(todo[a]).item, FALSE)
    /\ UNCHANGED <<items, itemCount, cache, cacheSize, topMin, landed, removed, again>>

DropMin(a) ==
    /\ TreeOp(a, "unmin")
    /\ topMin' = RemoveFrom(topMin, Head(todo[a]).item.id)
    /\ UNCHANGED <<items, itemCount, cache, cacheSize, topMax, landed, removed, again>>

DropMax(a) ==
    /\ TreeOp(a, "unmax")
    /\ topMax' = RemoveFrom(topMax, Head(todo[a]).item.id)
    /\ UNCHANGED <<items, itemCount, cache, cacheSize, topMin, landed, removed, again>>

Unstore(a) ==
    LET id == Head(todo[a]).item.id
    IN  /\ TreeOp(a, "unstore")
        /\ items' = [items EXCEPT ![id] = None]
        /\ removed' = removed \cup {id}
        /\ UNCHANGED <<itemCount, cache, cacheSize, topMin, topMax, landed, again>>

\* Delete and DeleteBatch look the item up; by the time they remove it, it may
\* be gone, or another one.
Find(a) ==
    LET o == Head(todo[a])
        item == items[CHOOSE id \in o.ids : TRUE]
        rest == Tail(todo[a])
        gone == <<On("uncache", item), On("unmin", item), On("unmax", item)>>
    IN  /\ Doing(a, "find")
        /\ todo' = [todo EXCEPT ![a] =
                IF item = None THEN rest
                ELSE IF o.n = 0 THEN <<On("unstore", item), Count(o.ids, -1)>> \o gone
                ELSE <<On("unstore", item)>> \o gone \o Front(rest)
                        \o <<[Last(rest) EXCEPT !.n = @ - 1]>>]
        /\ UNCHANGED <<tree, wb, budget, history>>

\* Get: a hit changes nothing, but that every 100th call puts the item it got
\* into the cache again; a miss goes to the map.
TryGet(a) ==
    LET id == CHOOSE i \in Head(todo[a]).ids : TRUE
        hit == SelectSeq(cache[Shard(id)], LAMBDA i : i.id = id)
    IN  /\ Doing(a, "get")
        /\ \/ hit # <<>> /\ Done(a)
           \/ /\ hit # <<>>
              /\ todo' = [todo EXCEPT ![a] = <<On("put", hit[1])>>]
           \/ /\ hit = <<>>
              /\ todo' = [todo EXCEPT ![a] = <<Op("load", {id}, None, 0)>>]
        /\ UNCHANGED <<tree, wb, budget, history>>

Load(a) ==
    LET item == items[CHOOSE id \in Head(todo[a]).ids : TRUE]
    IN  /\ Doing(a, "load")
        /\ todo' = [todo EXCEPT ![a] =
                        IF item = None THEN <<>> ELSE <<On("put", item)>>]
        /\ UNCHANGED <<tree, wb, budget, history>>

ClearItems(a) ==
    /\ TreeOp(a, "clearItems")
    /\ items' = [id \in Ids |-> None]
    /\ removed' = removed \cup Present
    /\ again' = 0
    /\ UNCHANGED <<itemCount, cache, cacheSize, topMin, topMax, landed>>

ZeroCount(a) ==
    /\ TreeOp(a, "zero")
    /\ itemCount' = 0
    /\ UNCHANGED <<items, cache, cacheSize, topMin, topMax, landed, removed, again>>

ClearCache(a) ==
    /\ TreeOp(a, "clearCache")
    /\ cache' = [s \in DOMAIN cache |-> <<>>]
    /\ UNCHANGED <<items, itemCount, cacheSize, topMin, topMax, landed, removed, again>>

ClearTop(a) ==
    /\ TreeOp(a, "clearTop")
    /\ topMin' = <<>> /\ topMax' = <<>>
    /\ UNCHANGED <<items, itemCount, cache, cacheSize, landed, removed, again>>

Resize(size) ==
    /\ budget.resize > 0
    /\ budget' = [budget EXCEPT !.resize = @ - 1]
    /\ size # cacheSize
    /\ cacheSize' = size
    /\ cache' = [s \in DOMAIN cache |->
                    SubSeq(cache[s], 1, Min({size, Len(cache[s])}))]
    /\ UNCHANGED <<items, itemCount, topMin, topMax, wb, todo, history>>

-----------------------------------------------------------------------------
(* WriteBuffer *)

FlushOp == Op("flush", {}, None, 0)

\* (The items given for an id are numbered, to tell them apart.)
BufferInsert(u, item) ==
    /\ todo[u] = <<>>
    /\ budget.buffer > 0
    /\ budget' = [budget EXCEPT !.buffer = @ - 1]
    /\ item.ver = 1 + Len(SelectSeq(given, LAMBDA i : i.id = item.id))
    /\ buffer' = Append(buffer, item)
    /\ given' = Append(given, item)
    /\ late' = IF stopped /\ ~Doing(Flusher, "flush") THEN late \cup {item} ELSE late
    /\ todo' = [todo EXCEPT ![u] =
                    IF Len(buffer') >= BufferSize THEN <<FlushOp>> ELSE <<>>]
    /\ UNCHANGED <<tree, closed, stopped, history>>

\* The buffer is taken under its lock, and inserted without.
Flush(a) ==
    /\ Doing(a, "flush")
    /\ IF buffer = <<>> THEN Done(a) /\ UNCHANGED met
       ELSE Begin(a, BatchOps(buffer) \o Tail(todo[a]))
    /\ buffer' = <<>>
    /\ UNCHANGED <<tree, closed, stopped, given, late, budget, landed, removed, again>>

\* The ticker, and at last the closed stopChan, wake the flusher; a tick that
\* finds the buffer empty changes nothing.
Tick ==
    /\ todo[Flusher] = <<>>
    /\ ~stopped
    /\ buffer # <<>>
    /\ todo' = [todo EXCEPT ![Flusher] = <<FlushOp>>]
    /\ UNCHANGED <<tree, wb, budget, history>>

Close ==
    /\ budget.close > 0
    /\ budget' = [budget EXCEPT !.close = @ - 1]
    /\ ~closed
    /\ closed' = TRUE
    /\ UNCHANGED <<tree, buffer, stopped, given, late, todo, history>>

\* Mutant of FinalFlush: the flusher returns at once.
FinalFlushNone ==
    /\ todo[Flusher] = <<>>
    /\ closed /\ ~stopped
    /\ stopped' = TRUE
    /\ UNCHANGED <<tree, buffer, closed, given, late, todo, budget, history>>

FinalFlush ==
    /\ todo[Flusher] = <<>>
    /\ closed /\ ~stopped
    /\ stopped' = TRUE
    /\ todo' = [todo EXCEPT ![Flusher] = <<FlushOp>>]
    /\ UNCHANGED <<tree, buffer, closed, given, late, budget, history>>

-----------------------------------------------------------------------------

Step(a) ==
    \/ Store(a) \/ AddCount(a) \/ Put(a) \/ Uncache(a)
    \/ OfferMin(a) \/ OfferMax(a) \/ DropMin(a) \/ DropMax(a)
    \/ Unstore(a) \/ Find(a) \/ TryGet(a) \/ Load(a)
    \/ ClearItems(a) \/ ZeroCount(a) \/ ClearCache(a) \/ ClearTop(a)
    \/ Flush(a)

Given == {item \in Item : item.id \in budget.ids}

Call(u) ==
    \/ \E item \in Given : Insert(u, item) \/ BufferInsert(u, item)
    \/ \E i, j \in Given : InsertBatch(u, <<i, j>>)
    \/ \E id \in budget.ids : Delete(u, id) \/ Get(u, id)
    \/ \E i, j \in budget.ids : i # j /\ DeleteBatch(u, <<i, j>>)
    \/ Clear(u)

Next ==
    \/ \E u \in Users : Call(u)
    \/ \E a \in Actors : Step(a)
    \/ \E size \in CacheSizes : Resize(size)
    \/ Tick \/ Close \/ FinalFlush

\* A started call goes on, the ticker ticks, and a closed channel is noticed:
\* select does not choose the ticker for ever.
Fairness ==
    /\ \A a \in Actors : WF_vars(Step(a))
    /\ WF_vars(Tick)
    /\ SF_vars(FinalFlush)

Spec == Init /\ [][Next]_vars /\ Fairness

-----------------------------------------------------------------------------
(* Properties *)

\* No shard of the cache grows above its capacity or has an id twice, and what
\* Get finds in it is what is in the map, unless two calls on the id overlapped:
\* a Get that missed may cache an item deleted since.
CacheFresh ==
    \A s \in DOMAIN cache :
        /\ Len(cache[s]) <= cacheSize
        /\ \A i, j \in 1 .. Len(cache[s]) : cache[s][i].id = cache[s][j].id => i = j
        /\ \A i \in ToSet(cache[s]) : i.id \notin met \cup BusyIds => items[i.id] = i

First(n, asc) ==
    LET sorted == InOrder(asc, SetToSeq({items[id] : id \in Present}))
    IN  SubSeq(sorted, 1, Min({n, Len(sorted)}))

\* As long as no two calls on an id overlap (two deletes that both find it count
\* it down twice): the top-N caches are the first and the last items of the tree,
\* in order, if nothing was overwritten or removed (a removed entry is not
\* replaced, an overwritten one is there twice); with removals, what they have is
\* in the tree; and Size() is exact but that it counts each overwriting store too.
TopAndCountExact ==
    met = {} /\ Quiet =>
        /\ again = 0 /\ removed = {} => topMin = First(TopN, TRUE) /\ topMax = First(TopN, FALSE)
        /\ again = 0 => ToSet(topMin) \cup ToSet(topMax) \subseteq {items[id] : id \in Present}
        /\ itemCount = Cardinality(Present) + again

\* The caches and the counter, changed beside the map without a common lock,
\* say what the map says, as far as each can.
CachesInStep == CacheFresh /\ TopAndCountExact

\* Nothing given to the write buffer is lost between the buffer, the batches
\* on their way and the map; and an id whose calls never overlapped has the
\* item that was given last.
BufferLossless ==
    /\ \A i \in ToSet(given) :
        \/ i \in ToSet(buffer) \cup landed
        \/ \E a \in Actors : On("store", i) \in ToSet(todo[a])
    /\ \A id \in Ids \ (met \cup removed \cup BusyIds) :
        LET mine == SelectSeq(given, LAMBDA i : i.id = id)
        IN  /\ mine # <<>> /\ id \notin {i.id : i \in ToSet(buffer)}
            /\ landed \subseteq ToSet(given)
            => items[id] = Last(mine)

\* Whatever is given before the flusher's last flush gets into the tree, though
\* nobody fills the buffer up, and closed or not.
BufferDrains == []<>(ToSet(given) \subseteq landed \cup late)
=============================================================================
