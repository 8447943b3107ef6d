---------------------------- MODULE SparseMerkleTree ----------------------------
(***************************************************************************)
(* The sparse Merkle tree of smt-v3/smt.go over the store of               *)
(* smt-v3/store_pebble.go.  A key is a sequence of KeySize digits and an   *)
(* internal node has one child per digit (256 in the code); a subtree with *)
(* one key is its leaf, stored at the depth where it is alone.             *)
(*                                                                         *)
(* Nodes are stored under their hash, which is taken to be injective: a    *)
(* hash is the node itself and a root is the whole tree below it.  Whether *)
(* a node can be read is another matter: it may be in the database, in the *)
(* batch that is open or in the cache.  The batch is not an indexed one,   *)
(* so a read of it fails and PebbleStore.Get goes on to the database: what *)
(* is in the open batch can only be read while the cache holds it.         *)
(* MemoryStore is the store that never opens a batch.                      *)
(*                                                                         *)
(* s.lock makes every call of the tree one step.                           *)
(***************************************************************************)
EXTENDS Integers, Sequences, FiniteSets, Functions, TLC

CONSTANTS
  Digits,             \* the values of one byte of a key
  KeySize,            \* digits in a key (32)
  Keys,               \* the keys in use
  Values,
  Nil,                \* the value that deletes
  Tags,               \* names of saved roots
  Cached,             \* is there a cache (cacheSize > 0)?
  ParallelThreshold,  \* a larger batch updates the children concurrently (2048)
  MaxWrites,          \* bound on the calls of Set and Update
  MaxStops            \* bound on the number of restarts

ASSUME TreeAssumption ==
  /\ IsFiniteSet(Digits) /\ Digits \subseteq Nat
  /\ KeySize \in Nat \ {0}
  /\ Keys \subseteq [1 .. KeySize -> Digits]
  /\ Nil \notin Values
  /\ Cached \in BOOLEAN
  /\ ParallelThreshold \in Nat
  /\ MaxWrites \in Nat
  /\ MaxStops \in Nat

VARIABLES
  root,            \* s.root
  pendingUpdates,  \* s.pendingUpdates
  db,              \* the nodes in the database
  batch,           \* the nodes in the open batch, or NoBatch
  cache,           \* the nodes the cache holds that are not in the database
  tags,            \* roots in the database by tag
  writes, stops,   \* how many writes and restarts there were
  tear,            \* history: "open" when a root was saved in the open batch,
                   \* "torn" once such a batch was lost
  blind            \* history: did an update miss a leaf it could not read?

vars == <<root, pendingUpdates, db, batch, cache, tags, writes, stops, tear, blind>>

NoBatch == [open |-> FALSE, nodes |-> {}]

\* Nodes: EmptyHash, leaves, and internal nodes with their children that are
\* not empty.
EmptyHash == [key |-> <<>>, value |-> Nil, children |-> <<>>]

LeafNode(k, v)       == [key |-> k, value |-> v, children |-> <<>>]
InternalNode(childs) == [key |-> <<>>, value |-> Nil, children |-> childs]

IsLeaf(node) == node.key # <<>>
Child(node, d) ==
  IF d \in DOMAIN node.children THEN node.children[d] ELSE EmptyHash

\* The nodes of the tree below a root.
RECURSIVE Nodes(_)
Nodes(node) ==
  IF node = EmptyHash THEN {}
  ELSE {node} \cup UNION {Nodes(node.children[d]) : d \in DOMAIN node.children}

\* s.get, when every node on the way can be read.
RECURSIVE Lookup(_, _, _)
Lookup(node, k, depth) ==
  IF node = EmptyHash THEN Nil
  ELSE IF IsLeaf(node) THEN IF node.key = k THEN node.value ELSE Nil
  ELSE Lookup(Child(node, k[depth + 1]), k, depth + 1)

Contents(node) == [k \in Keys |-> Lookup(node, k, 0)]

-----------------------------------------------------------------------------
(* updateBatchParallel.  It returns the new root of the subtree, the nodes  *)
(* it stored, whether it succeeded and whether it took a leaf that it could *)
(* not read for an internal node.  Reads is what the call can read.         *)

Updated(node, made) == [node |-> node, made |-> made, ok |-> TRUE, blind |-> FALSE]
Stored(node)        == Updated(node, {node})
Failed              == [node |-> EmptyHash, made |-> {}, ok |-> FALSE, blind |-> FALSE]

\* A batch of one key in an empty place, or at the end of the key.
StoreLeaf(updates) ==
  LET k == CHOOSE key \in DOMAIN updates : TRUE
  IN  IF updates[k] = Nil THEN Updated(EmptyHash, {}) ELSE Stored(LeafNode(k, updates[k]))

\* Mutant of WithNeighbour: the leaf that was there is forgotten.
WithNeighbourLost(node, updates) == updates

\* A leaf that stands where the batch goes is redistributed with it.
WithNeighbour(node, updates) ==
  IF IsLeaf(node) THEN updates @@ (node.key :> node.value) ELSE updates

Bucket(updates, depth, d) ==
  Restrict(updates, {k \in DOMAIN updates : k[depth + 1] = d})

\* Mutant of Collapsed: a single leaf stays below its parent.
CollapsedNever(children, Reads) ==
  IF children = <<>> THEN Updated(EmptyHash, {}) ELSE Stored(InternalNode(children))

\* Collapse and storeInternal: a single child that is read and is a leaf
\* takes the place of its parent.
Collapsed(children, Reads) ==
  LET alone == {children[d] : d \in DOMAIN children}
      lone  == Cardinality(DOMAIN children) = 1 /\ \A child \in alone : IsLeaf(child)
  IN  IF children = <<>> THEN Updated(EmptyHash, {})
      ELSE IF lone /\ alone \subseteq Reads
           THEN Updated(CHOOSE child \in alone : TRUE, {})
           ELSE [Stored(InternalNode(children)) EXCEPT !.blind = lone]

\* The results of the children together.  Of a sequential update nothing is
\* stored after the first child that fails.
Join(results, parallel) ==
  LET failed == {d \in DOMAIN results : ~results[d].ok}
      done   == {d \in DOMAIN results : parallel \/ \A f \in failed : d <= f}
  IN  [Failed EXCEPT !.ok    = (failed = {}),
                     !.made  = UNION {results[d].made : d \in done},
                     !.blind = \E d \in done : results[d].blind]

RECURSIVE UpdateBatch(_, _, _, _)
UpdateBatch(node, updates, depth, Reads) ==
  LET all      == WithNeighbour(node, updates)
      touched  == {k[depth + 1] : k \in DOMAIN all}
      results  == [d \in touched |->
                     UpdateBatch(Child(node, d), Bucket(all, depth, d), depth + 1, Reads)]
      below    == Join(results, Cardinality(DOMAIN all) > ParallelThreshold)
      NewChild(d) == IF d \in touched THEN results[d].node ELSE Child(node, d)
      children == [d \in {c \in Digits : NewChild(c) # EmptyHash} |-> NewChild(d)]
      here     == Collapsed(children, Reads)
  IN  IF depth >= KeySize \/ (node = EmptyHash /\ Cardinality(DOMAIN updates) = 1)
      THEN StoreLeaf(updates)
      ELSE IF node # EmptyHash /\ node \notin Reads THEN Failed
      ELSE IF ~below.ok THEN below
      ELSE [here EXCEPT !.made = @ \cup below.made, !.blind = @ \/ below.blind]

-----------------------------------------------------------------------------
(* The calls.                                                               *)

NoUpdates == [k \in {} |-> Nil]

Init ==
  /\ root = EmptyHash /\ pendingUpdates = NoUpdates
  /\ db = {} /\ batch = NoBatch /\ cache = {}
  /\ tags = [t \in {} |-> EmptyHash]
  /\ writes = 0 /\ stops = 0 /\ tear = "no" /\ blind = FALSE

CountWrite == writes < MaxWrites /\ writes' = writes + 1

Set(k, v) ==
  /\ CountWrite
  /\ pendingUpdates' = (k :> v) @@ pendingUpdates
  /\ UNCHANGED <<root, db, batch, cache, tags, stops, tear, blind>>

\* The leaves an update may store.
NewLeaves(updates) ==
  {LeafNode(k, updates[k]) : k \in {key \in DOMAIN updates : updates[key] # Nil}}

\* What one call can read: the database, what it stores there, and of an open
\* batch what the cache did not evict.  Evictions are put off to the call that
\* would read the node.
CanRead(updates) ==
  LET asked == (cache \cap Nodes(root)) \cup NewLeaves(updates)
  IN  IF ~batch.open THEN {db \cup NewLeaves(updates)}
      ELSE IF ~Cached THEN {db}
      ELSE {db \cup (cache \ asked) \cup held : held \in SUBSET asked}

\* storeLeaf and storeInternal: into the open batch and the cache, or into the
\* database.
Write(made, Reads) ==
  IF batch.open
  THEN /\ batch' = [batch EXCEPT !.nodes = @ \cup made]
       /\ cache' = IF ~Cached THEN {} ELSE
                     {n \in (cache \cup made) \ db : n \in Reads \/ (n \in made /\ ~IsLeaf(n))}
       /\ UNCHANGED db
  ELSE /\ db' = db \cup made
       /\ UNCHANGED <<batch, cache>>

\* After an error the root is the old one; what was stored remains.
Apply(updates, r, Reads) ==
  /\ Write(r.made, Reads)
  /\ root'  = IF r.ok THEN r.node ELSE root
  /\ blind' = (blind \/ (r.ok /\ r.blind))
  /\ UNCHANGED <<tags, stops, tear>>

Commit ==
  /\ pendingUpdates # NoUpdates
  /\ \E Reads \in CanRead(pendingUpdates) :
       LET r == UpdateBatch(root, pendingUpdates, 0, Reads)
       IN  /\ Apply(pendingUpdates, r, Reads)
           /\ pendingUpdates' = IF r.ok THEN NoUpdates ELSE pendingUpdates
  /\ UNCHANGED writes

\* Does not look at pendingUpdates.
Update(k, v) ==
  /\ CountWrite
  /\ \E Reads \in CanRead(k :> v) :
       Apply(k :> v, UpdateBatch(root, k :> v, 0, Reads), Reads)
  /\ UNCHANGED pendingUpdates

LoadRoot(t) ==
  /\ t \in DOMAIN tags
  /\ root' = tags[t]
  /\ UNCHANGED <<pendingUpdates, db, batch, cache, tags, writes, stops, tear, blind>>

\* Synchronous, whether a batch is open or not.
SaveRoot(t) ==
  /\ tags' = (t :> root) @@ tags
  /\ tear' = IF batch.open /\ tear = "no" THEN "open" ELSE tear
  /\ UNCHANGED <<root, pendingUpdates, db, batch, cache, writes, stops, blind>>

StartBatch ==
  /\ ~batch.open
  /\ batch' = [open |-> TRUE, nodes |-> {}]
  /\ UNCHANGED <<root, pendingUpdates, db, cache, tags, writes, stops, tear, blind>>

FinishBatch ==
  /\ batch.open
  /\ db' = db \cup batch.nodes
  /\ batch' = NoBatch
  /\ cache' = {}
  /\ tear' = IF tear = "open" THEN "no" ELSE tear
  /\ UNCHANGED <<root, pendingUpdates, tags, writes, stops, blind>>

\* A crash, or Close, which discards the open batch; then a new process.
Restart ==
  /\ stops < MaxStops
  /\ stops' = stops + 1
  /\ root' = EmptyHash /\ pendingUpdates' = NoUpdates
  /\ batch' = NoBatch /\ cache' = {}
  /\ tear' = IF tear = "open" THEN "torn" ELSE tear
  /\ UNCHANGED <<db, tags, writes, blind>>

Next ==
  \/ Commit \/ StartBatch \/ FinishBatch \/ Restart
  \/ \E k \in Keys, v \in Values \cup {Nil} : Set(k, v) \/ Update(k, v)
  \/ \E t \in Tags : SaveRoot(t) \/ LoadRoot(t)

Spec == Init /\ [][Next]_vars

-----------------------------------------------------------------------------
(* Properties.                                                              *)

Roots == {root} \cup {tags[t] : t \in DOMAIN tags}

\* The one tree of a map: a leaf where a key is alone, else the children.
RECURSIVE Canonical(_, _, _)
Canonical(map, keys, depth) ==
  IF keys = {} THEN EmptyHash
  ELSE IF Cardinality(keys) = 1
       THEN LeafNode(CHOOSE k \in keys : TRUE, map[CHOOSE k \in keys : TRUE])
  ELSE InternalNode([d \in {k[depth + 1] : k \in keys} |->
                       Canonical(map, {k \in keys : k[depth + 1] = d}, depth + 1)])

\* Two trees with the same contents have the same root, whatever the order of
\* writes, deletions and commits that led to them, unless an update in an open
\* batch could not read a leaf it had to pull up.
RootCanonical ==
  ~blind => \A r \in Roots :
              LET map == Contents(r)
              IN  r = Canonical(map, {k \in Keys : map[k] # Nil}, 0)

\* Every node below the root and below each saved root is in the database or
\* in the batch that is open, after failed commits and restarts too, unless a
\* batch was lost after a root had been saved in it.
NothingDangles ==
  tear # "torn" => \A r \in Roots : Nodes(r) \subseteq db \cup batch.nodes

\* Roots are functions of the contents, and whoever has a root can read all
\* below it.
RootsHold == RootCanonical /\ NothingDangles

\* The tree, its batches, its cache and its errors implement a map: roots
\* stand for their contents, and a failed commit changes neither the contents
\* nor what is pending.
Map == INSTANCE AuthenticatedMap
         WITH map <- Contents(root), pending <- pendingUpdates,
              kept <- [t \in DOMAIN tags |-> Contents(tags[t])]
ImplementsMap == Map!Spec
=============================================================================
