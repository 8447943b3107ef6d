----------------------------- MODULE MerkleTree -----------------------------
(***************************************************************************)
(* The hash side of one Merkle tree of mt-manager/merkletree (tree.go):    *)
(* the nodes with their dirty flags, the cached root, and the goroutines   *)
(* that insert, delete, clear and compute the root at the same time.       *)
(* Range queries (range.go) read the same nodes.                           *)
(*                                                                         *)
(* A step is what happens under one node lock, or one access to an atomic; *)
(* "node.dirty.Store(true); t.dirtyNodes.Add(1)" is one step, and so is    *)
(* looking an id up and removing it (TreeItems takes that apart).  Hashes  *)
(* are injective: the hash of a leaf is its value, that of an inner node   *)
(* stands for the hashes it was made of, a function from the paths of the  *)
(* leaves below it to theirs.  The children of a node are visited in any   *)
(* order, as the parallel branches do.  Batches under 30 items walk the    *)
(* tree without the node locks: they are the same walk, and overlapping    *)
(* them with other calls is a data race left out.                          *)
(***************************************************************************)
EXTENDS Integers, Sequences, FiniteSets, SequencesExt

CONSTANTS
    Base, KeyLen,        \* a key is an id written with KeyLen digits (8 bytes)
    MaxDepth,            \* Config.MaxDepth
    Ids, Versions,       \* items are versions of an id
    Updaters, Computers, \* goroutines that change the tree, or compute its root
    MaxAttempts,         \* the limit of 16 attempts in ComputeRoot
    WideRange,           \* the 1000 ids from which RangeQueryAuto goes parallel
    Budgets,             \* bounds: updates, clears and computations, how
                         \* many calls at once, and the items of one call
    None, Deleted        \* the zero hash or value, and DeletedNodeHash

Item == [id: Ids, ver: Versions]

ASSUME TreeAssumption ==
    /\ Base \in Nat \ {0, 1} /\ KeyLen \in Nat /\ MaxDepth \in 1 .. KeyLen
    /\ Ids \subseteq 0 .. Base^KeyLen - 1
    /\ MaxAttempts \in Nat \ {0} /\ WideRange \in Nat
    /\ Budgets \subseteq [update: Nat, clear: Nat, compute: Nat, crowd: Nat,
                          batch: Nat \ {0}]
    /\ None # Deleted /\ {None, Deleted} \cap Item = {}

VARIABLES
    items,          \* Tree.items: what is in the tree
    nodes,          \* the nodes that were allocated, by their path
    epoch,          \* how often Clear replaced Tree.root
    dirtyNodes, cachedRoot, rootCacheValid,
    treeLock,       \* the holder of Tree.mu, or None
    upd, comp,      \* what the goroutines are doing
    budget,         \* the calls that are left
    raced,          \* history: leaves an update of which met a computation
    clashed         \* history: leaves two updates of which met

vars == <<items, nodes, epoch, dirtyNodes, cachedRoot, rootCacheValid,
          treeLock, upd, comp, budget, raced, clashed>>

-----------------------------------------------------------------------------
(* Keys and nodes *)

EncodeKey(id) == [i \in 1 .. KeyLen |-> (id \div Base^(KeyLen - i)) % Base]

\* The way insertNode takes: the first digits of the key, and its last.
Path(id) ==
    LET key == EncodeKey(id)
    IN  [d \in 1 .. MaxDepth |-> key[IF d < MaxDepth THEN d ELSE KeyLen]]

Paths == {Path(id) : id \in Ids}

\* No hash of a tree is the zero hash.
ASSUME HashAssumption ==
    \A S \in SUBSET Paths : None \notin [S -> Item \cup {None, Deleted}]

\* A node is named by the epoch of its root and the path to it.
Root == <<epoch>>
IsLeaf(n) == Len(n) = MaxDepth + 1
LeafParent(n) == Len(n) >= MaxDepth
Leaf(p) == Root \o p

NewNode == [value |-> None, hash |-> None, dirty |-> FALSE]
NewLeaf(item) == [NewNode EXCEPT !.value = item, !.dirty = TRUE]

Keys(n) == {Last(m) : m \in {x \in DOMAIN nodes : Len(x) = Len(n) + 1
                                                /\ Front(x) = n}}

\* What a leaf stands for, whatever hash is stored with it.
Content(p) ==
    IF Leaf(p) \notin DOMAIN nodes THEN None
    ELSE IF nodes[Leaf(p)].value = None THEN Deleted
    ELSE nodes[Leaf(p)].value

\* What a hash says of a leaf.
InRoot(h, p) == IF h # None /\ p \in DOMAIN h THEN h[p] ELSE None

NoLeaves == [p \in {} |-> None]

\* The leaves a node n with hash h adds to the hash of its parent, and the
\* leaves of two nodes together.
Leaves(n, h) == IF h = None THEN NoLeaves
                ELSE IF IsLeaf(n) THEN [p \in {Tail(n)} |-> h] ELSE h
Join(g, h) == [p \in DOMAIN g \cup DOMAIN h |-> IF p \in DOMAIN h THEN h[p] ELSE g[p]]

WithNode(n, nd) == [m \in DOMAIN nodes \cup {n} |-> IF m = n THEN nd ELSE nodes[m]]

-----------------------------------------------------------------------------
(* Who is at work *)

\* drop are the ids a delete has still to take out of items, todo the items
\* whose nodes are still to be changed, done the leaves that were changed.
Resting == [pc |-> "idle", kind |-> "insert", drop |-> <<>>, todo |-> <<>>,
            node |-> <<>>, marks |-> <<>>, done |-> {}, alone |-> TRUE]
Waiting == [pc |-> "idle", frames |-> <<>>, hash |-> None, leaf |-> <<>>, value |-> None,
            tries |-> 0, seen |-> 0, final |-> FALSE]

Updating == {u \in Updaters : upd[u].pc # "idle"}
Computing == {c \in Computers : comp[c].pc # "idle"}

PathsOf(its) == {Path(i.id) : i \in ToSet(its)}

\* The leaves a call is about.
Touched(u) ==
    IF upd[u].pc = "idle" THEN {}
    ELSE IF upd[u].kind = "clear" THEN Paths
    ELSE {Path(id) : id \in ToSet(upd[u].drop)}
            \cup PathsOf(upd[u].todo) \cup upd[u].done

TouchedBy(us) == UNION {Touched(u) : u \in us}

Init ==
    /\ items = [id \in Ids |-> None]
    /\ nodes = [n \in {<<0>>} |-> NewNode]
    /\ epoch = 0
    /\ dirtyNodes = 0
    /\ cachedRoot = None
    /\ rootCacheValid = FALSE
    /\ treeLock = None
    /\ upd = [u \in Updaters |-> Resting]
    /\ comp = [c \in Computers |-> Waiting]
    /\ budget \in Budgets
    /\ raced = {}
    /\ clashed = {}

-----------------------------------------------------------------------------
(* Insert, InsertBatch, Delete, DeleteBatch *)

\* A call about the leaves ps starts: whom does it meet?
Meet(u, ps) ==
    /\ raced' = raced \cup (IF Computing = {} THEN {} ELSE ps)
    /\ clashed' = clashed \cup (ps \cap TouchedBy(Updaters \ {u}))

StartUpdate(u) ==
    /\ upd[u].pc = "idle"
    /\ budget.update > 0
    /\ Cardinality(Updating \cup Computing) < budget.crowd
    /\ budget' = [budget EXCEPT !.update = @ - 1]

\* The items are stored first, then the nodes are changed one after another.
Insert(u, its) ==
    /\ StartUpdate(u)
    /\ items' = [id \in Ids |->
                    LET mine == {k \in DOMAIN its : its[k].id = id}
                    IN  IF mine = {} THEN items[id] ELSE its[Max(mine)]]
    /\ upd' = [upd EXCEPT ![u] = [Resting EXCEPT
            !.pc = "walk", !.todo = its, !.node = Root, !.alone = Computing = {}]]
    /\ Meet(u, PathsOf(its))
    /\ UNCHANGED <<nodes, epoch, dirtyNodes, cachedRoot, rootCacheValid,
                   treeLock, comp>>

Delete(u, ids, kind) ==
    /\ StartUpdate(u)
    /\ upd' = [upd EXCEPT ![u] = [Resting EXCEPT
            !.pc = "unlink", !.kind = kind, !.drop = ids, !.alone = Computing = {}]]
    /\ Meet(u, {Path(id) : id \in ToSet(ids)})
    /\ UNCHANGED <<items, nodes, epoch, dirtyNodes, cachedRoot, rootCacheValid,
                   treeLock, comp>>

Unlink(u) ==
    /\ upd[u].pc = "unlink"
    /\ upd[u].drop # <<>>
    /\ LET id == Head(upd[u].drop)
       IN  /\ items' = [items EXCEPT ![id] = None]
           /\ upd' = [upd EXCEPT
                ![u].drop = Tail(@),
                ![u].todo = IF items[id] = None THEN @ ELSE Append(@, items[id])]
    /\ UNCHANGED <<nodes, epoch, dirtyNodes, cachedRoot, rootCacheValid,
                   treeLock, comp, budget, raced, clashed>>

\* With nothing found the call returns.  A batch waits for Tree.mu.
StartRemoval(u) ==
    /\ upd[u].pc = "unlink"
    /\ upd[u].drop = <<>>
    /\ \/ /\ upd[u].todo = <<>>
          /\ upd' = [upd EXCEPT ![u] = Resting]
          /\ UNCHANGED treeLock
       \/ /\ upd[u].todo # <<>>
          /\ upd[u].kind = "deleteBatch" => treeLock = None
          /\ treeLock' = IF upd[u].kind = "deleteBatch" THEN u ELSE treeLock
          /\ upd' = [upd EXCEPT ![u].pc = "walk", ![u].node = Root]
    /\ UNCHANGED <<items, nodes, epoch, dirtyNodes, cachedRoot, rootCacheValid,
                   comp, budget, raced, clashed>>

\* Mutant of MarkDirty: the change is counted, the flag forgotten.
MarkDirtyLost(ns, n) ==
    /\ nodes' = ns
    /\ dirtyNodes' = dirtyNodes + 1

\* node.dirty.Store(true), and what was done to the node before it.
MarkDirty(ns, n) ==
    /\ nodes' = [ns EXCEPT ![n].dirty = TRUE]
    /\ dirtyNodes' = dirtyNodes + 1

\* The state of a call r whose last change is done, or has one mark less to
\* set: innermost first, then the next item, and at the end the cached root.
Unwind(r) ==
    IF r.marks # <<>> THEN [r EXCEPT !.pc = "mark"]
    ELSE [r EXCEPT !.todo = Tail(@), !.done = @ \cup {Path(Head(r.todo).id)},
                   !.node = Root,
                   !.pc = IF Len(r.todo) = 1 THEN "invalidate" ELSE "walk"]

\* A batch that has nothing left to do unlocks Tree.mu.
UnlockAtEnd(u) ==
    treeLock' = IF treeLock = u /\ upd'[u].pc = "invalidate" THEN None ELSE treeLock

\* Under the lock of one node: is there a child for the next digit?
Walk(u) ==
    LET r == upd[u]
        n == r.node
        child == Append(n, Path(Head(r.todo).id)[Len(n)])
    IN  /\ r.pc = "walk"
        /\ \/ /\ child \in DOMAIN nodes
              /\ upd' = [upd EXCEPT ![u] = [r EXCEPT
                    !.node = child, !.marks = Append(@, n),
                    !.pc = IF LeafParent(n) THEN "leaf" ELSE "walk"]]
              /\ UNCHANGED <<nodes, dirtyNodes>>
           \/ /\ child \notin DOMAIN nodes
              /\ r.kind = "insert"
              /\ MarkDirty(WithNode(child, IF LeafParent(n) THEN NewLeaf(Head(r.todo))
                                                            ELSE NewNode), n)
              /\ upd' = [upd EXCEPT ![u] = IF LeafParent(n) THEN Unwind(r)
                                           ELSE [r EXCEPT !.node = child]]
           \/ /\ child \notin DOMAIN nodes
              /\ r.kind # "insert"
              /\ upd' = [upd EXCEPT ![u] = Unwind(r)]
              /\ UNCHANGED <<nodes, dirtyNodes>>
        /\ UnlockAtEnd(u)
        /\ UNCHANGED <<items, epoch, cachedRoot, rootCacheValid, comp, budget,
                       raced, clashed>>

\* Mutant of Removed: the value stays.
RemovedKept(leaf) == [leaf EXCEPT !.hash = Deleted, !.dirty = FALSE]

Removed(leaf) == [leaf EXCEPT !.value = None, !.hash = Deleted, !.dirty = FALSE]

\* Under the lock of the leaf.
SetLeaf(u) ==
    LET r == upd[u]
    IN  /\ r.pc = "leaf"
        /\ nodes' = [nodes EXCEPT ![r.node] =
                IF r.kind = "insert"
                THEN [@ EXCEPT !.value = Head(r.todo), !.dirty = TRUE]
                ELSE Removed(@)]
        /\ upd' = [upd EXCEPT ![u].pc = "mark"]
        /\ UNCHANGED <<items, epoch, dirtyNodes, cachedRoot, rootCacheValid,
                       treeLock, comp, budget, raced, clashed>>

Mark(u) ==
    /\ upd[u].pc = "mark"
    /\ MarkDirty(nodes, Last(upd[u].marks))
    /\ upd' = [upd EXCEPT ![u] = Unwind([upd[u] EXCEPT !.marks = Front(@)])]
    /\ UnlockAtEnd(u)
    /\ UNCHANGED <<items, epoch, cachedRoot, rootCacheValid, comp, budget,
                   raced, clashed>>

\* The last access of a call; a call that met no computation, and whose marks
\* a later computation will see, makes up for earlier races on its leaves.
Invalidate(u) ==
    /\ upd[u].pc = "invalidate"
    /\ rootCacheValid' = FALSE
    /\ raced' = IF upd[u].alone THEN raced \ upd[u].done ELSE raced
    /\ upd' = [upd EXCEPT ![u] = Resting]
    /\ UNCHANGED <<items, nodes, epoch, dirtyNodes, cachedRoot, treeLock, comp,
                   budget, clashed>>

-----------------------------------------------------------------------------
(* Clear *)

Clear(u) ==
    /\ upd[u].pc = "idle"
    /\ budget.clear > 0
    /\ budget' = [budget EXCEPT !.clear = @ - 1]
    /\ treeLock = None
    /\ treeLock' = u
    /\ items' = [id \in Ids |-> None]
    /\ epoch' = epoch + 1
    /\ nodes' = WithNode(<<epoch + 1>>, NewNode)
    /\ upd' = [upd EXCEPT ![u] = [Resting EXCEPT
            !.pc = "clearing", !.kind = "clear", !.alone = Computing = {}]]
    /\ Meet(u, Paths)
    /\ UNCHANGED <<dirtyNodes, cachedRoot, rootCacheValid, comp>>

ClearEnd(u) ==
    /\ upd[u].pc = "clearing"
    /\ rootCacheValid' = FALSE
    /\ dirtyNodes' = 0
    /\ treeLock' = None
    /\ raced' = IF upd[u].alone THEN {} ELSE raced
    /\ upd' = [upd EXCEPT ![u] = Resting]
    /\ UNCHANGED <<items, nodes, epoch, cachedRoot, comp, budget, clashed>>

-----------------------------------------------------------------------------
(* ComputeRoot.  A frame is a call of computeNodeHash on an inner node: the *)
(* keys it copied and has still to visit, and the hashes it got.            *)

\* With a valid cached root the call returns it and changes nothing.
ComputeRoot(c) ==
    /\ comp[c].pc = "idle"
    /\ budget.compute > 0
    /\ Cardinality(Updating \cup Computing) < budget.crowd
    /\ ~rootCacheValid
    /\ budget' = [budget EXCEPT !.compute = @ - 1]
    /\ comp' = [comp EXCEPT ![c].pc = "visit"]
    /\ raced' = raced \cup TouchedBy(Updating)
    /\ upd' = [u \in Updaters |-> [upd[u] EXCEPT !.alone = @ /\ u \notin Updating]]
    /\ UNCHANGED <<items, nodes, epoch, dirtyNodes, cachedRoot, rootCacheValid,
                   treeLock, clashed>>

\* A frame that has the answer h for its child n.
Answered(f, n, h) ==
    [f EXCEPT !.left = @ \ {Last(n)}, !.got = Join(@, Leaves(n, h))]

\* The state of computation r when the call for node n returns the hash h.
Return(r, n, h) ==
    IF r.frames # <<>>
    THEN [r EXCEPT !.pc = "visit", !.leaf = <<>>,
            !.frames[Len(r.frames)] = Answered(@, n, h)]
    ELSE [r EXCEPT !.pc = CASE r.final -> "store"
                            [] ~r.final /\ r.tries < MaxAttempts -> "load"
                            [] OTHER -> "lock",
                   !.leaf = <<>>, !.hash = h]

ToVisit(c) ==
    IF comp[c].frames = <<>> THEN {Root}
    ELSE {Append(Last(comp[c].frames).node, k) : k \in Last(comp[c].frames).left}

\* Under the read lock of a node.
Visit(c, n) ==
    LET r == comp[c]
        nd == nodes[n]
        hashed == ~nd.dirty /\ nd.hash # None
    IN  /\ r.pc = "visit"
        /\ comp' = [comp EXCEPT ![c] =
            CASE hashed -> Return(r, n, nd.hash)
              [] ~hashed /\ IsLeaf(n) ->
                    [r EXCEPT !.pc = "leaf", !.leaf = n, !.value = nd.value]
              [] ~hashed /\ ~IsLeaf(n) /\ Keys(n) = {} -> Return(r, n, None)
              [] OTHER -> [r EXCEPT !.frames = Append(@,
                    [node |-> n, left |-> Keys(n), got |-> NoLeaves])]]
        /\ UNCHANGED <<items, nodes, epoch, dirtyNodes, cachedRoot,
                       rootCacheValid, treeLock, upd, budget, raced, clashed>>

Hashed(n, h) == nodes' = [nodes EXCEPT ![n].hash = h, ![n].dirty = FALSE]

\* The value read before is hashed and stored, whatever the leaf is by now.
StoreLeafHash(c) ==
    LET r == comp[c]
    IN  /\ r.pc = "leaf"
        /\ Hashed(r.leaf, r.value)
        /\ comp' = [comp EXCEPT ![c] =
                        Return([r EXCEPT !.value = None], r.leaf, r.value)]
        /\ UNCHANGED <<items, epoch, dirtyNodes, cachedRoot, rootCacheValid,
                       treeLock, upd, budget, raced, clashed>>

StoreNodeHash(c) ==
    LET r == comp[c]
        f == Last(r.frames)
    IN  /\ r.pc = "visit"
        /\ r.frames # <<>>
        /\ f.left = {}
        /\ Hashed(f.node, f.got)
        /\ comp' = [comp EXCEPT ![c] =
                        Return([r EXCEPT !.frames = Front(@)], f.node, f.got)]
        /\ UNCHANGED <<items, epoch, dirtyNodes, cachedRoot, rootCacheValid,
                       treeLock, upd, budget, raced, clashed>>

\* The changes counted so far are read only after the hashing.
LoadDirty(c) ==
    /\ comp[c].pc = "load"
    /\ comp' = [comp EXCEPT ![c].seen = dirtyNodes, ![c].pc = "store"]
    /\ UNCHANGED <<items, nodes, epoch, dirtyNodes, cachedRoot, rootCacheValid,
                   treeLock, upd, budget, raced, clashed>>

StoreRoot(c) ==
    /\ comp[c].pc = "store"
    /\ cachedRoot' = comp[c].hash
    /\ comp' = [comp EXCEPT ![c].pc = "valid"]
    /\ UNCHANGED <<items, nodes, epoch, dirtyNodes, rootCacheValid, treeLock,
                   upd, budget, raced, clashed>>

StoreValid(c) ==
    /\ comp[c].pc = "valid"
    /\ rootCacheValid' = TRUE
    /\ comp' = [comp EXCEPT ![c].pc = IF comp[c].final THEN "zero" ELSE "cas"]
    /\ UNCHANGED <<items, nodes, epoch, dirtyNodes, cachedRoot, treeLock, upd,
                   budget, raced, clashed>>

\* CompareAndSwap: done, or another round.
CompareAndSwap(c) ==
    /\ comp[c].pc = "cas"
    /\ \/ /\ dirtyNodes = comp[c].seen
          /\ dirtyNodes' = 0
          /\ comp' = [comp EXCEPT ![c] = Waiting]
       \/ /\ dirtyNodes # comp[c].seen
          /\ comp' = [comp EXCEPT ![c].tries = @ + 1, ![c].pc = "visit"]
          /\ UNCHANGED dirtyNodes
    /\ UNCHANGED <<items, nodes, epoch, cachedRoot, rootCacheValid, treeLock,
                   upd, budget, raced, clashed>>

\* After the last attempt, once more under Tree.mu.
Fallback(c) ==
    /\ comp[c].pc = "lock"
    /\ treeLock = None
    /\ treeLock' = c
    /\ comp' = [comp EXCEPT ![c].final = TRUE, ![c].pc = "visit"]
    /\ UNCHANGED <<items, nodes, epoch, dirtyNodes, cachedRoot, rootCacheValid,
                   upd, budget, raced, clashed>>

FallbackEnd(c) ==
    /\ comp[c].pc = "zero"
    /\ dirtyNodes' = 0
    /\ treeLock' = None
    /\ comp' = [comp EXCEPT ![c] = Waiting]
    /\ UNCHANGED <<items, nodes, epoch, cachedRoot, rootCacheValid, upd, budget,
                   raced, clashed>>

-----------------------------------------------------------------------------

(* Range queries.  They read under the node locks and change nothing: what  *)
(* one answers if no other call meets it.                                   *)

\* A range: its bounds, and whether they belong to it.
Ranges == [from: Ids, to: Ids, withFrom: BOOLEAN, withTo: BOOLEAN]

\* compareKeys(a, b) < 0 for keys of one length: the first difference decides.
Less(a, b) ==
    \E i \in 1 .. KeyLen : a[i] < b[i] /\ \A j \in 1 .. i - 1 : a[j] = b[j]

InRange(key, r) ==
    /\ Less(EncodeKey(r.from), key) \/ (r.withFrom /\ key = EncodeKey(r.from))
    /\ Less(key, EncodeKey(r.to)) \/ (r.withTo /\ key = EncodeKey(r.to))

\* rangeQueryNode passes over a leaf with the hash of a deleted node.
Visible(p) == Leaf(p) \in DOMAIN nodes /\ nodes[Leaf(p)].hash # Deleted

\* What rangeQueryNode collects below node n.
Collected(n, r) ==
    {item \in {nodes[Leaf(p)].value : p \in {q \in Paths : IsPrefix(n, Leaf(q))
                                                         /\ Visible(q)}} :
        InRange(EncodeKey(item.id), r)}

InIdOrder(its) == SetToSortSeq(its, LAMBDA a, b : a.id < b.id)

RangeQuery(r) == InIdOrder(Collected(Root, r))

\* A goroutine or a worker for every branch of the root; their answers arrive
\* in any order and are sorted.
RangeQueryParallel(r) ==
    InIdOrder(UNION {Collected(Append(Root, k), r) : k \in Keys(Root)})

\* The difference is one of unsigned numbers.
RangeQueryAuto(r) ==
    IF (r.to - r.from) % Base^KeyLen > WideRange THEN RangeQueryParallel(r)
    ELSE RangeQuery(r)

-----------------------------------------------------------------------------

Batches == UNION {[1 .. n -> Item] : n \in 1 .. budget.batch}
IdLists == UNION {{s \in [1 .. n -> Ids] : IsInjective(s)} : n \in 1 .. budget.batch}

UpdateCalls(u) ==
    \/ \E its \in Batches : Insert(u, its)
    \/ \E id \in Ids : Delete(u, <<id>>, "delete")
    \/ \E ids \in IdLists : Delete(u, ids, "deleteBatch")
    \/ Clear(u)

UpdateSteps(u) ==
    Unlink(u) \/ StartRemoval(u) \/ Walk(u) \/ SetLeaf(u) \/ Mark(u)
        \/ Invalidate(u) \/ ClearEnd(u)

ComputeSteps(c) ==
    \/ \E n \in ToVisit(c) : Visit(c, n)
    \/ StoreLeafHash(c) \/ StoreNodeHash(c) \/ LoadDirty(c) \/ StoreRoot(c)
    \/ StoreValid(c) \/ CompareAndSwap(c) \/ Fallback(c) \/ FallbackEnd(c)

Next ==
    \/ \E u \in Updaters : UpdateCalls(u) \/ UpdateSteps(u)
    \/ \E c \in Computers : ComputeRoot(c) \/ ComputeSteps(c)

Spec == Init /\ [][Next]_vars

-----------------------------------------------------------------------------
(* Properties *)

\* A root the tree calls valid may be stale (ComputeRoot declares it valid
\* after hashing, whatever was changed since, and clears dirty flags set in
\* between), but only in leaves whose last update overlapped a computation:
\* an update that met none is in every valid root from then on.
RootCurrent ==
    rootCacheValid =>
        \A p \in Paths \ (raced \cup TouchedBy(Updaters)) :
            InRoot(cachedRoot, p) = Content(p)

OwnLeaf(id) == \A j \in Ids : Path(j) = Path(id) => j = id
Settled(id) == OwnLeaf(id) /\ Path(id) \notin clashed \cup TouchedBy(Updaters)

\* A deleted leaf that was filled again and not hashed since.
Refilled(id) ==
    LET n == Leaf(Path(id))
    IN  items[id] # None /\ nodes[n].hash = Deleted /\ nodes[n].dirty

LeavesFollowItems ==
    \A id \in Ids : Settled(id) =>
        LET p == Path(id)
            there == items[id] # None
        IN  /\ IF there THEN Content(p) = items[id] ELSE Content(p) \in {None, Deleted}
            /\ p \in raced \/ Refilled(id) \/ (Visible(p) <=> there)

Within(id, r) ==
    /\ r.from < id \/ (r.withFrom /\ r.from = id)
    /\ id < r.to \/ (r.withTo /\ id = r.to)

QueriesFollowItems ==
    (/\ Updating \cup Computing = {}
     /\ \A id \in Ids : Settled(id) /\ Path(id) \notin raced /\ ~Refilled(id)) =>
        \A r \in Ranges :
            LET wanted == InIdOrder({items[id] : id \in
                            {i \in Ids : items[i] # None /\ Within(i, r)}})
            IN  RangeQuery(r) = wanted /\ RangeQueryAuto(r) = wanted

\* The items and the nodes are changed apart from each other, yet an id whose
\* updates never overlapped has in its leaf what the map of items has; a range
\* query finds it there exactly when it is in the map (a deleted leaf has no
\* value to dereference), if no update of the leaf overlapped a computation and
\* the leaf is not a deleted one filled again and not hashed since; and when
\* all ids are of this kind, every range query, sequential or parallel, answers
\* with the items of the map in its range in the order of their ids.
NodesFollowItems == LeavesFollowItems /\ QueriesFollowItems

=============================================================================
