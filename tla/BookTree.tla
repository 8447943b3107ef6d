-------------------------------- MODULE BookTree --------------------------------
(***************************************************************************)
(* The tree of hashes over the order book of verkle-orderbook/main.go.      *)
(* hashWorker rebuilds it every HASH_INTERVAL, and so do the calls that     *)
(* print and export.  Only PrintStats takes the lock for writing; the       *)
(* others change Root and LastRootHash while they share it for reading, so  *)
(* their steps interleave.                                                  *)
(*                                                                          *)
(* OrderBook has the calls that trade; here one is any change of a level,   *)
(* under the lock.  The slots of a level change with it and are left out; a *)
(* hash is what was hashed, kept in two halves, since no lock guards it.    *)
(* Statistics, trades and the layout of the files are left out.             *)
(***************************************************************************)
EXTENDS Integers, Sequences, FiniteSets, SequencesExt, FiniteSetsExt

CONSTANTS
  Width,          \* VERKLE_WIDTH (16)
  TopLimit,       \* levels in a compact print or export (10)
  PriceRange,     \* prices of each side
  FirstLevels,    \* the levels the trading starts with
  MaxChanges, MaxBuilds  \* bounds on the changes of levels and on the rebuilds

ASSUME BookTreeAssumption ==
  /\ Width \in Nat \ {0} /\ TopLimit \in Nat
  /\ PriceRange \in [{"BUY", "SELL"} -> SUBSET Nat]
  /\ MaxChanges \in Nat /\ MaxBuilds \in Nat

VARIABLES
  levelsOf,      \* BuyLevels and SellLevels
  made,          \* the root nodes in use
  RootNode,      \* Root: the one that was stored last, or 0
  LastRootHash,  \* its two halves
  hashRequest,   \* is a request in the channel?
  stopChan,      \* is it closed?
  worker,        \* how far each of the two is with a rebuild
  crashed,       \* was a child read that was stored by half?
  changes, builds,
  shown,         \* history: what was just printed or exported
  drifted        \* history: did PrintTreeStructure count what was filled?

treeVars == <<levelsOf, made, RootNode, LastRootHash, hashRequest, stopChan, worker, crashed,
              changes, builds, shown, drifted>>

-----------------------------------------------------------------------------
(* Levels.                                                                  *)

TreeSides == {"BUY", "SELL"}
Workers   == {"hashWorker", "main"}

PriceLevel(price, volume, orders) == [price |-> price, volume |-> volume, orders |-> orders]

Unfilled(orders) == FoldSeq(LAMBDA o, sum : sum + o.size - o.filled, 0, orders)
FullSize(orders) == FoldSeq(LAMBDA o, sum : sum + o.size, 0, orders)

LevelsAt(side, price) == {l \in levelsOf[side] : l.price = price}

\* The orders a call may leave at a price: none, one, or one that is filled in part.
OrdersAt == {<<>>, <<[size |-> 2, filled |-> 0]>>, <<[size |-> 2, filled |-> 1]>>}

\* The buyers' highest price first, the sellers' lowest.
Sorted(side, levels) ==
  SetToSortSeq(levels, LAMBDA l, m : IF side = "BUY" THEN l.price > m.price
                                                     ELSE l.price < m.price)

WithVolume(levels) == {l \in levels : l.volume > 0}
FirstOf(seq, n)    == SubSeq(seq, 1, Min({n, Len(seq)}))
Priced(seq)        == [i \in DOMAIN seq |-> <<seq[i].price, seq[i].volume>>]

-----------------------------------------------------------------------------
(* The tree.                                                                *)

\* Mutant of GroupSize: rounded down.
GroupSizeDown(n) == n \div Width

\* The levels in a group, rounded up.
GroupSize(n) == (n + Width - 1) \div Width

\* A node has room for Width children; what is beyond is in no group.
Groups(seq) ==
  LET size == GroupSize(Len(seq))
      used == {g \in 0 .. Width - 1 : g * size < Len(seq)}
  IN  [g \in {i + 1 : i \in used} |->
         FirstOf(SubSeq(seq, (g - 1) * size + 1, Min({g * size, Len(seq)})), Width)]

SideNode(groups) == [isNode |-> TRUE, groups |-> groups]

\* A side without levels has no node, one with empty levels only has one.
NoSide == [isNode |-> FALSE, groups |-> <<>>]
buildSideTree(side) ==
  LET seq == Priced(Sorted(side, WithVolume(levelsOf[side])))
  IN  SideNode(IF Len(seq) <= Width THEN <<seq>> ELSE Groups(seq))

NoChildren == [s \in TreeSides |-> NoSide]

\* A hash is the children hashed; nothing was hashed yet.
NoHash == [s \in TreeSides |-> [isNode |-> FALSE, groups |-> <<<<>>>>]]
NewNode == [children |-> NoChildren, hash |-> <<NoHash, NoHash>>, hashed |-> {}]

Leaves(sideNode) == FlattenSeq(sideNode.groups)

-----------------------------------------------------------------------------
(* A rebuild, and the calls that end in one.                                *)

\* What PrintTreeStructure prints; ExportTreeToTextFile writes "full" too.
Prints  == {"compact", "full"}
Exports == {"full", "json", "json compact", "sides"}

\* "alone": history, did no other rebuild run beside this one so far?
NoRebuild == [at |-> "idle", call |-> "hash", node |-> 0, hash |-> NoHash, alone |-> TRUE]

\* Two rebuilds and RootNode: one node more is free.
NodeIds == 1 .. 4
FreeId == CHOOSE id \in NodeIds : id # RootNode /\ \A w \in Workers : worker[w].node # id

Beside(w) == CHOOSE v \in Workers : v # w

\* The lock can be had for writing.
Unlocked == ~crashed /\ \A w \in Workers : worker[w].at = "idle"

NewBook ==
  /\ levelsOf \in FirstLevels
  /\ made = [id \in NodeIds |-> NewNode] /\ RootNode = 0
  /\ LastRootHash = <<NoHash, NoHash>>
  /\ hashRequest = FALSE /\ stopChan = FALSE
  /\ worker = [w \in Workers |-> NoRebuild] /\ crashed = FALSE
  /\ changes = 0 /\ builds = 0
  /\ shown = <<>> /\ drifted = FALSE

\* What a call that trades leaves of one level; what PrintTreeStructure once
\* added to its volume stays.
ChangeLevel(side, price) ==
  /\ Unlocked /\ ~stopChan /\ changes < MaxChanges
  /\ \E orders \in OrdersAt :
       LET old   == LevelsAt(side, price)
           drift == SumSet({l.volume - Unfilled(l.orders) : l \in old})
       IN  levelsOf' = [levelsOf EXCEPT ![side] =
                          (@ \ old) \cup {PriceLevel(price, Unfilled(orders) + drift, orders)}]
  /\ changes' = changes + 1
  /\ shown' = <<>>
  /\ UNCHANGED <<made, RootNode, LastRootHash, hashRequest, stopChan, worker, crashed, builds,
                 drifted>>

CleanupEmptyLevels ==
  /\ Unlocked /\ ~stopChan
  /\ levelsOf' = [s \in TreeSides |-> WithVolume(levelsOf[s])]
  /\ shown' = <<>>
  /\ UNCHANGED <<made, RootNode, LastRootHash, hashRequest, stopChan, worker, crashed, changes,
                 builds, drifted>>

\* periodicHasher: a request that finds one waiting is dropped.
Tick ==
  /\ ~crashed /\ ~stopChan
  /\ hashRequest' = TRUE
  /\ shown' = <<>>
  /\ UNCHANGED <<levelsOf, made, RootNode, LastRootHash, stopChan, worker, crashed, changes,
                 builds, drifted>>

Stop ==
  /\ ~crashed /\ worker["main"].at = "idle" /\ ~stopChan
  /\ stopChan' = TRUE
  /\ shown' = <<>>
  /\ UNCHANGED <<levelsOf, made, RootNode, LastRootHash, hashRequest, worker, crashed, changes,
                 builds, drifted>>

\* What was filled of an order counts again.
validateAndFixLevelConsistency(level) ==
  PriceLevel(level.price, FullSize(level.orders), level.orders)

\* Its first half; the second shares the lock.
PrintTreeStructure(call) ==
  /\ Unlocked /\ ~stopChan /\ builds < MaxBuilds
  /\ levelsOf' = [s \in TreeSides |->
                    {validateAndFixLevelConsistency(l) : l \in levelsOf[s]}]
  /\ drifted' = (drifted \/ levelsOf' # levelsOf)
  /\ worker' = [worker EXCEPT !["main"].at = "fixed", !["main"].call = call]
  /\ shown' = <<>>
  /\ UNCHANGED <<made, RootNode, LastRootHash, hashRequest, stopChan, crashed, changes, builds>>

\* rebuildTree starts, the lock is shared.
StartRebuild(w, call) ==
  /\ ~crashed /\ builds < MaxBuilds
  /\ made' = [made EXCEPT ![FreeId] = NewNode]
  /\ RootNode' = FreeId
  /\ LET free == worker[Beside(w)].at \in {"idle", "fixed"}
     IN  worker' = [worker EXCEPT
                      ![w] = [NoRebuild EXCEPT !.at = "set BUY", !.call = call, !.alone = free],
                      ![Beside(w)].alone = @ /\ free]
  /\ shown' = <<>>
  /\ builds' = builds + 1
  /\ UNCHANGED <<levelsOf, LastRootHash, stopChan, crashed, changes, drifted>>

hashWorker ==
  /\ hashRequest /\ worker["hashWorker"].at = "idle"
  /\ StartRebuild("hashWorker", "hash")
  /\ hashRequest' = FALSE

SharedCall(call) ==
  /\ \/ worker["main"].at = "idle" /\ call \in Exports /\ ~stopChan
     \/ worker["main"].at = "fixed" /\ call = worker["main"].call
  /\ StartRebuild("main", call)
  /\ UNCHANGED hashRequest

\* The side's tree goes into what is the root now, be it of another rebuild.
SetChild(w, side, next) ==
  /\ ~crashed /\ worker[w].at = "set " \o side
  /\ made' = IF levelsOf[side] = {} THEN made
             ELSE [made EXCEPT ![RootNode].children[side] = buildSideTree(side),
                               ![RootNode].hashed = @ \ {side}]
  /\ worker' = [worker EXCEPT ![w].at = next]
  /\ shown' = <<>>
  /\ UNCHANGED <<levelsOf, RootNode, LastRootHash, hashRequest, stopChan, crashed, changes,
                 builds, drifted>>

\* hashNode of what was the root when it began; GetSideHashes looks each time.
HashChild(w, side, next) ==
  LET root == IF side = "BUY" \/ worker[w].call = "sides" THEN RootNode ELSE worker[w].node
  IN  /\ ~crashed /\ worker[w].at = "hash " \o side
      /\ made' = [made EXCEPT ![root].hashed = @ \cup {side}]
      /\ worker' = [worker EXCEPT ![w].at = next, ![w].node = root,
                                  ![w].hash[side] = made[root].children[side]]
      /\ shown' = <<>>
  /\ UNCHANGED <<levelsOf, RootNode, LastRootHash, hashRequest, stopChan, crashed, changes,
                 builds, drifted>>

\* A child is two words; one who reads the first before the second is stored
\* follows a nil pointer.
ReadHalfStored(w, side) ==
  /\ ~crashed /\ worker[w].at = "hash " \o side /\ worker[Beside(w)].at = "set " \o side
  /\ side = "SELL" => worker[w].node = RootNode \/ worker[w].call = "sides"
  /\ made[RootNode].children[side] = NoSide /\ levelsOf[side] # {}
  /\ crashed' = TRUE
  /\ shown' = <<>>
  /\ UNCHANGED <<levelsOf, made, RootNode, LastRootHash, hashRequest, stopChan, worker,
                 changes, builds, drifted>>

\* The hash goes into the node and into LastRootHash; GetSideHashes stores none.
StoreHalf(w, half, next) ==
  /\ ~crashed /\ worker[w].at = "store " \o half
  /\ LET i == IF half = "1" THEN 1 ELSE 2
     IN  IF worker[w].call = "sides" THEN UNCHANGED <<made, LastRootHash>>
         ELSE /\ made' = [made EXCEPT ![worker[w].node].hash[i] = worker[w].hash]
              /\ LastRootHash' = [LastRootHash EXCEPT ![i] = worker[w].hash]
  /\ worker' = [worker EXCEPT ![w].at = next]
  /\ shown' = <<>>
  /\ UNCHANGED <<levelsOf, RootNode, hashRequest, stopChan, crashed, changes, builds, drifted>>

-----------------------------------------------------------------------------
(* What is shown.                                                           *)

View(root, hashed, listed) ==
  [root |-> root, hashed |-> hashed, listed |-> listed, alone |-> worker["main"].alone]

TopOf(side, levels) == FirstOf(Priced(Sorted(side, levels)), TopLimit)

printTopLevels(side) ==
  IF made[RootNode].children[side] = NoSide THEN <<>> ELSE TopOf(side, WithVolume(levelsOf[side]))
printTreeCompact ==
  View(made[RootNode].hash, made[RootNode].hashed, [s \in TreeSides |-> printTopLevels(s)])

\* All of the tree; the summary counts what this lists.
printNodeRecursiveFull(side) == Leaves(made[RootNode].children[side])
printTreeFull ==
  View(made[RootNode].hash, made[RootNode].hashed, [s \in TreeSides |-> printNodeRecursiveFull(s)])

\* The exports show LastRootHash, the compact one also empty levels.
serializeVerkleNode(side) == Leaves(made[RootNode].children[side])
ExportToJSON ==
  View(LastRootHash, made[RootNode].hashed, [s \in TreeSides |-> serializeVerkleNode(s)])
ExportToJSONCompact ==
  View(LastRootHash, TreeSides, [s \in TreeSides |-> TopOf(s, levelsOf[s])])

GetSideHashes ==
  View(<<worker["main"].hash, worker["main"].hash>>, TreeSides, [s \in TreeSides |-> <<>>])

Show(call) ==
  CASE call = "compact"      -> printTreeCompact
    [] call = "full"         -> printTreeFull
    [] call = "json"         -> ExportToJSON
    [] call = "json compact" -> ExportToJSONCompact
    [] call = "sides"        -> GetSideHashes

\* The lock is given back.
EndRebuild(w) ==
  /\ ~crashed /\ worker[w].at = "stored"
  /\ shown' = IF w = "main" THEN <<Show(worker[w].call)>> ELSE shown
  /\ worker' = [worker EXCEPT ![w] = NoRebuild]
  /\ made' = [id \in NodeIds |-> IF id \in {RootNode, worker[Beside(w)].node} THEN made[id]
                                 ELSE NewNode]
  /\ UNCHANGED <<levelsOf, RootNode, LastRootHash, hashRequest, stopChan, crashed, changes,
                 builds, drifted>>

\* All of it under the lock for writing.
PrintStats ==
  LET children == [s \in TreeSides |-> IF levelsOf[s] = {} THEN NoSide ELSE buildSideTree(s)]
      node     == [children |-> children, hash |-> <<children, children>>, hashed |-> TreeSides]
  IN  /\ Unlocked /\ ~stopChan /\ builds < MaxBuilds
      /\ builds' = builds + 1
      /\ made' = [made EXCEPT ![FreeId] = node] /\ RootNode' = FreeId
      /\ LastRootHash' = node.hash
      /\ shown' = <<View(node.hash, TreeSides, [s \in TreeSides |-> <<>>])>>
      /\ UNCHANGED <<levelsOf, hashRequest, stopChan, worker, crashed, changes, drifted>>

Rebuild(w) ==
  \/ SetChild(w, "BUY", "set SELL")
  \/ SetChild(w, "SELL", "hash BUY")
  \/ HashChild(w, "BUY", "hash SELL")
  \/ HashChild(w, "SELL", "store 1")
  \/ StoreHalf(w, "1", "store 2")
  \/ StoreHalf(w, "2", "stored")
  \/ \E side \in TreeSides : ReadHalfStored(w, side)
  \/ EndRebuild(w)

BookTreeNext ==
  \/ \E side \in TreeSides : \E price \in PriceRange[side] : ChangeLevel(side, price)
  \/ CleanupEmptyLevels \/ Tick \/ Stop \/ PrintStats
  \/ \E call \in Prints : PrintTreeStructure(call)
  \/ hashWorker
  \/ \E call \in Prints \cup Exports : SharedCall(call)
  \/ \E w \in Workers : Rebuild(w)

-----------------------------------------------------------------------------
(* Properties.                                                              *)

\* What can be traded at each price, best first.
Tradable(side) ==
  LET left(l) == [price |-> l.price, volume |-> Unfilled(l.orders)]
  IN  Priced(Sorted(side, {left(l) : l \in {k \in levelsOf[side] : Unfilled(k.orders) > 0}}))

\* Width groups of Width levels are hashed; of more levels only some.
Covers(side, hash) ==
  /\ (hash = NoSide) <=> (levelsOf[side] = {})
  /\ IF Len(Tradable(side)) <= Width * Width THEN Leaves(hash) = Tradable(side)
     ELSE ToSet(Leaves(hash)) \subseteq ToSet(Tradable(side))

(***************************************************************************)
(* The root hash commits to the book: as long as its rebuilder holds the    *)
(* lock, it covers exactly what can be traded, price by price, best first;  *)
(* beside another rebuild a side may be missing, but never be wrong.  What  *)
(* is shown by a call that was alone fits together: its hash is of one      *)
(* tree whose sides were all hashed, and the levels listed with a volume    *)
(* are the first of those the hash covers.  Both only until                 *)
(* PrintTreeStructure counted what was filled.                              *)
(***************************************************************************)
BookTreeSound ==
  /\ \A w \in Workers : worker[w].at = "stored" /\ worker[w].call # "sides" /\ ~drifted =>
       /\ worker[w].alone => LastRootHash[1] = LastRootHash[2]
       /\ \A i \in {1, 2}, s \in TreeSides :
            Covers(s, LastRootHash[i][s])
              \/ (~worker[w].alone /\ LastRootHash[i][s] = NoSide)
  /\ \A i \in DOMAIN shown : shown[i].alone =>
       /\ shown[i].root[1] = shown[i].root[2] /\ shown[i].hashed = TreeSides
       /\ \A s \in TreeSides :
            LET covered == Leaves(shown[i].root[1][s])
                listed  == SelectSeq(shown[i].listed[s], LAMBDA l : l[2] > 0)
            IN  Len(covered) < Width * Width => IsPrefix(listed, covered)
=============================================================================
