---------------------------------- MODULE Trie ----------------------------------
(***************************************************************************)
(* The trie of smt-v2: a binary tree over the bits of a key, a subtree with *)
(* one key is a shortcut.  The nodes of BatchHeight levels are stored as    *)
(* one batch under the hash of the node on top.  Batches wait in            *)
(* updatedNodes for Commit, the upper ones are kept in liveCache too, and   *)
(* the roots of past tries are remembered for Revert.                       *)
(*                                                                          *)
(* A hash is the tree below it, and a batch in a map is its hash: batches   *)
(* are changed in place only where the old hash leaves the maps.  The two   *)
(* sides of an update write to different places, so they are updated one    *)
(* after the other.  Calls are single steps, by the lock; Revert, which     *)
(* holds it for reading only, too.  Values have the length of a hash.       *)
(* After an update that failed, or got its keys out of order, the model     *)
(* stops.  Keys are hashes: no two differ in the last bit only, so nothing   *)
(* stands at the lowest level.                                              *)
(***************************************************************************)
EXTENDS Integers, Sequences, FiniteSets, SequencesExt

CONSTANTS
  TrieHeight,        \* bits of a key (256), a multiple of BatchHeight
  BatchHeight,       \* levels of a batch (4)
  CacheHeightLimit,  \* the lowest level liveCache has
  maxPastTries,
  TrieKeys,          \* the keys in use, sequences of bits
  DefaultLeaf,       \* the value that deletes
  KeyValues,         \* what updates are called with: sequences sorted by key
  MaxUpdates, MaxTrieCalls  \* bounds on the updates and the other calls

ASSUME TrieAssumption ==
  /\ BatchHeight \in Nat \ {0} /\ TrieHeight \in Nat \ {0}
  /\ TrieHeight % BatchHeight = 0
  /\ TrieKeys \subseteq [1 .. TrieHeight -> {0, 1}]
  /\ \A k, l \in TrieKeys : (\A i \in 1 .. TrieHeight - 1 : k[i] = l[i]) => k = l
  /\ maxPastTries \in Nat \ {0}
  /\ MaxUpdates \in Nat /\ MaxTrieCalls \in Nat

VARIABLES
  Root, prevRoot, pastTries,
  atomicUpdate,
  updatedNodes, liveCache, Store,  \* the batches in each
  updates, trieCalls,              \* how many there were
  content,  \* history: what is in the trie, by what the calls say
  spoilt,   \* history: did an update fail, or get its keys out of order?
  dropped   \* history: batches of past tries that later calls gave up

batchVars == <<updatedNodes, liveCache, Store>>
trieVars == <<Root, prevRoot, pastTries, atomicUpdate, batchVars, updates, trieCalls,
              content, spoilt, dropped>>

-----------------------------------------------------------------------------
(* Nodes.                                                                   *)

NoNode == [kind |-> "none"]

leaf(k, v, height) == [kind |-> "shortcut", key |-> k, value |-> v, at |-> height]
inner(l, r)        == [kind |-> "inner", left |-> l, right |-> r]

IsShortcut(node) == node.kind = "shortcut"
Left(node)  == IF node.kind = "inner" THEN node.left ELSE NoNode
Right(node) == IF node.kind = "inner" THEN node.right ELSE NoNode
OnTop(height) == height % BatchHeight = 0

bitIsSet(k, i) == k[i + 1] = 1

\* The batches of a trie, by the node on top of each.
RECURSIVE Batches(_, _)
Batches(node, height) ==
  IF node = NoNode THEN {}
  ELSE (IF OnTop(height) THEN {node} ELSE {})
       \cup Batches(Left(node), height - 1) \cup Batches(Right(node), height - 1)

RECURSIVE getKeys(_)
getKeys(node) ==
  IF IsShortcut(node) THEN {<<node.key, node.value>>}
  ELSE IF node = NoNode THEN {} ELSE getKeys(node.left) \cup getKeys(node.right)

\* The trie that holds a set of keys and values.
RECURSIVE TrieOf(_, _)
TrieOf(kvs, height) ==
  LET side(b) == {kv \in kvs : bitIsSet(kv[1], TrieHeight - height) = b}
  IN  IF kvs = {} THEN NoNode
      ELSE IF Cardinality(kvs) = 1
           THEN LET kv == CHOOSE x \in kvs : TRUE IN leaf(kv[1], kv[2], height)
           ELSE inner(TrieOf(side(FALSE), height - 1), TrieOf(side(TRUE), height - 1))

-----------------------------------------------------------------------------
(* The maps of batches.  db holds updatedNodes, liveCache and atomicUpdate. *)

Available == liveCache \cup updatedNodes \cup Store
loadBatch(db, node) == node = NoNode \/ node \in db.live \cup db.updated \cup Store

deleteOldNode(db, node, height, movingUp) ==
  [db EXCEPT !.updated = IF ~db.atomic \/ movingUp THEN @ \ {node} ELSE @,
             !.live = IF height >= CacheHeightLimit THEN @ \ {node} ELSE @]

\* Mutant of storeNode: what is cached is not recorded for Commit.
storeNodeOnce(db, node, old, height) ==
  IF node = old /\ height < TrieHeight THEN db
  ELSE deleteOldNode([db EXCEPT !.updated = IF height >= CacheHeightLimit THEN @
                                            ELSE @ \cup {node},
                                !.live = IF height >= CacheHeightLimit
                                         THEN @ \cup {node} ELSE @],
                     old, height, FALSE)

\* The root is kept without its flag, so at the top a node always differs from
\* the old one, and is deleted as the old one if it is the same.
storeNode(db, node, old, height) ==
  IF node = old /\ height < TrieHeight THEN db
  ELSE deleteOldNode([db EXCEPT !.updated = @ \cup {node},
                                !.live = IF height >= CacheHeightLimit
                                         THEN @ \cup {node} ELSE @],
                     old, height, FALSE)

mresult(db, node, deleted) ==
  [db |-> db, node |-> node, deleted |-> deleted, err |-> FALSE, sorted |-> TRUE]
Unavailable(db) == [mresult(db, NoNode, FALSE) EXCEPT !.err = TRUE]

\* A new node: it is stored when it is on top of a batch.
Made(db, node, old, height, deleted) ==
  mresult(IF OnTop(height) THEN storeNode(db, node, old, height) ELSE db, node, deleted)

-----------------------------------------------------------------------------
(* update.                                                                  *)

Less(k, l) == \E i \in 1 .. TrieHeight : k[i] < l[i] /\ \A j \in 1 .. i - 1 : k[j] = l[j]
KV(k, v)   == [key |-> k, value |-> v]
InOrder(kvs) == \A i \in 1 .. Len(kvs) - 1 : Less(kvs[i].key, kvs[i + 1].key)

\* From position i on; higher: a lower key was passed.
RECURSIVE AddBetween(_, _, _, _, _)
AddBetween(kvs, this, i, higher, new) ==
  IF i > Len(kvs) THEN new
  ELSE IF kvs[i].key = this.key
       THEN IF kvs[i].value # DefaultLeaf THEN kvs
            ELSE AddBetween(kvs, this, i + 1, higher, new \o RemoveAt(kvs, i))
  ELSE IF higher /\ Less(this.key, kvs[i].key) THEN new \o InsertAt(kvs, i, this)
  ELSE AddBetween(kvs, this, i + 1, higher \/ Less(kvs[i].key, this.key), new)

\* The shortcut joins the keys it is in the way of, or one of them replaces
\* it.  When one deletes it that stands between two others, the keys are there
\* twice afterwards, and so is what was to be deleted.
maybeAddShortcutToKV(kvs, shortcut) ==
  LET this == KV(shortcut.key, shortcut.value)
  IN  IF Less(this.key, Head(kvs).key) THEN <<this>> \o kvs
      ELSE IF Less(Last(kvs).key, this.key) THEN Append(kvs, this)
      ELSE AddBetween(kvs, this, 1, FALSE, <<>>)

\* How many keys go to the left.
splitKeys(kvs, height) ==
  LET set == {i \in DOMAIN kvs : bitIsSet(kvs[i].key, height)}
  IN  IF set = {} THEN Len(kvs) ELSE (CHOOSE i \in set : \A j \in set : i <= j) - 1

moveUpShortcut(db, shortcut, root, height) ==
  LET node == leaf(shortcut.key, shortcut.value, height)
  IN  IF OnTop(height - 1) /\ ~loadBatch(db, shortcut) THEN Unavailable(db)
      ELSE IF OnTop(height) THEN Made(db, node, root, height, TRUE)
      ELSE mresult(IF OnTop(height - 1) THEN deleteOldNode(db, shortcut, height, TRUE)
                   ELSE db, node, TRUE)

\* The parent of two updated sides: a shortcut that is alone moves up.
Parent(db, l, r, root, height, deleted) ==
  IF deleted /\ l = NoNode /\ r = NoNode
  THEN mresult(IF OnTop(height) THEN deleteOldNode(db, root, height, TRUE) ELSE db,
               NoNode, TRUE)
  ELSE IF deleted /\ l = NoNode /\ IsShortcut(r) THEN moveUpShortcut(db, r, root, height)
  ELSE IF deleted /\ r = NoNode /\ IsShortcut(l) THEN moveUpShortcut(db, l, root, height)
  ELSE Made(db, inner(l, r), root, height, FALSE)

RECURSIVE update(_, _, _, _)
update(db, root, given, height) ==
  LET kvs   == IF IsShortcut(root) THEN maybeAddShortcutToKV(given, root) ELSE given
      freed == IF IsShortcut(root) /\ OnTop(height) THEN deleteOldNode(db, root, height, FALSE)
               ELSE db
      n     == splitKeys(kvs, TrieHeight - height)
      side(d, node, some) == IF some = <<>> THEN mresult(d, node, FALSE)
                             ELSE update(d, node, some, height - 1)
      left  == side(freed, Left(root), SubSeq(kvs, 1, n))
      right == side(left.db, Right(root), SubSeq(kvs, n + 1, Len(kvs)))
      whole == IF left.err \/ right.err THEN Unavailable(right.db)
               ELSE Parent(right.db, left.node, right.node, root, height,
                           left.deleted \/ right.deleted)
  IN  IF OnTop(height) /\ ~loadBatch(db, root) THEN Unavailable(db)
      ELSE IF kvs = <<>> THEN mresult(freed, NoNode, TRUE)
      ELSE IF Len(kvs) = 1 /\ root.kind # "inner"
      THEN IF Head(kvs).value = DefaultLeaf THEN mresult(freed, NoNode, TRUE)
           ELSE Made(freed, leaf(Head(kvs).key, Head(kvs).value, height), root, height, FALSE)
      ELSE IF ~InOrder(kvs) THEN [mresult(freed, root, FALSE) EXCEPT !.sorted = FALSE]
      ELSE [whole EXCEPT !.sorted = left.sorted /\ right.sorted]

-----------------------------------------------------------------------------
(* The calls.                                                               *)

NewTrie ==
  /\ Root = NoNode /\ prevRoot = NoNode /\ pastTries = <<>>
  /\ atomicUpdate = FALSE
  /\ updatedNodes = {} /\ liveCache = {} /\ Store = {}
  /\ updates = 0 /\ trieCalls = 0
  /\ content = {} /\ spoilt = FALSE /\ dropped = {}

\* At most maxPastTries, the oldest go.
updatePastTries(past, root) ==
  IF Len(past) >= maxPastTries THEN Append(Tail(past), root) ELSE Append(past, root)

Overridden(kvs) ==
  {c \in content : \A i \in DOMAIN kvs : kvs[i].key # c[1]}
  \cup {<<kvs[i].key, kvs[i].value>> : i \in {j \in DOMAIN kvs : kvs[j].value # DefaultLeaf}}

\* Batches an update may take away although the new trie has them: the top one
\* if nothing changes, and those of a shortcut it went through.
Unchanged(kvs, result) ==
  {b \in Batches(Root, TrieHeight) \cap Batches(result.node, TrieHeight) :
      \/ b = Root
      \/ /\ IsShortcut(b)
         /\ \E i \in DOMAIN kvs :
               \A j \in 1 .. TrieHeight - b.at : kvs[i].key[j] = b.key[j]}

\* The maps keep what a failed update did to them.
TrieUpdated(atomic, kvs, result) ==
  /\ updates < MaxUpdates /\ ~spoilt
  /\ updates' = updates + 1
  /\ atomicUpdate' = atomic
  /\ updatedNodes' = result.db.updated /\ liveCache' = result.db.live
  /\ Root' = IF result.err THEN Root ELSE result.node
  /\ spoilt' = (result.err \/ ~result.sorted)
  /\ content' = IF result.err THEN content ELSE Overridden(kvs)
  /\ dropped' = dropped
       \cup (((updatedNodes \ updatedNodes') \ Batches(result.node, TrieHeight)) \ Store)
       \cup (IF atomic THEN {} ELSE Unchanged(kvs, result))
  /\ UNCHANGED <<prevRoot, Store, trieCalls>>

Maps(atomic) == [updated |-> updatedNodes, live |-> liveCache, atomic |-> atomic]

TrieUpdate ==
  /\ \E kvs \in KeyValues : TrieUpdated(FALSE, kvs, update(Maps(FALSE), Root, kvs, TrieHeight))
  /\ UNCHANGED pastTries

AtomicUpdate ==
  \E kvs \in KeyValues :
    /\ TrieUpdated(TRUE, kvs, update(Maps(TRUE), Root, kvs, TrieHeight))
    /\ pastTries' = IF spoilt' THEN pastTries ELSE updatePastTries(pastTries, Root')

TrieCall == trieCalls < MaxTrieCalls /\ ~spoilt /\ trieCalls' = trieCalls + 1

\* The past tries have the root already if the last update was atomic, and
\* nobody has read since.
TrieCommit ==
  /\ TrieCall
  /\ pastTries' = IF atomicUpdate THEN pastTries ELSE updatePastTries(pastTries, Root)
  /\ Store' = Store \cup updatedNodes
  /\ updatedNodes' = {}
  /\ prevRoot' = Root
  /\ UNCHANGED <<Root, atomicUpdate, liveCache, updates, content, spoilt, dropped>>

\* Get, GetKeys and the proofs.
TrieRead ==
  /\ atomicUpdate /\ ~spoilt
  /\ atomicUpdate' = FALSE
  /\ UNCHANGED <<Root, prevRoot, pastTries, batchVars, updates, trieCalls, content, spoilt,
                 dropped>>

\* The batches of the upper levels that can be reached in the store.
RECURSIVE loadCache(_, _)
loadCache(node, height) ==
  IF height < CacheHeightLimit \/ node = NoNode THEN {}
  ELSE IF OnTop(height) /\ node \notin Store THEN {}
  ELSE (IF OnTop(height) THEN {node} ELSE {})
       \cup loadCache(Left(node), height - 1) \cup loadCache(Right(node), height - 1)

\* Nothing is missing in the upper levels.
RECURSIVE LoadsAll(_, _)
LoadsAll(node, height) ==
  \/ height < CacheHeightLimit \/ node = NoNode
  \/ /\ OnTop(height) => node \in Store
     /\ LoadsAll(Left(node), height - 1) /\ LoadsAll(Right(node), height - 1)

\* The root is set though a batch may be missing.  Called without the lock.
LoadCache(to) ==
  /\ TrieCall
  /\ liveCache' = loadCache(to, TrieHeight)
  /\ Root' = to
  /\ content' = getKeys(to)
  /\ UNCHANGED <<prevRoot, pastTries, atomicUpdate, updatedNodes, Store, updates, spoilt,
                 dropped>>

\* The past tries end with the last one that has the root.
RECURSIVE Trimmed(_, _)
Trimmed(past, root) ==
  IF past = <<>> \/ Last(past) = root THEN past ELSE Trimmed(Front(past), root)

\* When the cache cannot be loaded, the call ends half way.
Stash(rollbackCache) ==
  /\ TrieCall
  /\ Root' = prevRoot
  /\ content' = getKeys(prevRoot)
  /\ liveCache' = IF rollbackCache THEN loadCache(prevRoot, TrieHeight) ELSE {}
  /\ IF rollbackCache /\ ~LoadsAll(prevRoot, TrieHeight)
     THEN UNCHANGED <<updatedNodes, pastTries, dropped>>
     ELSE /\ updatedNodes' = {}
          /\ pastTries' = Trimmed(pastTries, prevRoot)
          /\ dropped' = dropped \cup
               ((updatedNodes \ Store) \cap
                 UNION {Batches(pastTries'[i], TrieHeight) : i \in 1 .. Len(pastTries') - 1})
  /\ UNCHANGED <<prevRoot, atomicUpdate, Store, updates, spoilt>>

-----------------------------------------------------------------------------
(* Revert.                                                                  *)

\* What is to be deleted, or that a batch was missing.
Found(nodes)     == [nodes |-> nodes, err |-> FALSE]
Joined(r, s)     == [nodes |-> r.nodes \cup s.nodes, err |-> r.err \/ s.err]
Loads(node, height) == OnTop(height) => node = NoNode \/ node \in Available
Reverted(node, height) == Found(IF OnTop(height) THEN {node} ELSE {})

RECURSIVE deleteSubTree(_, _)
deleteSubTree(node, height) ==
  IF node = NoNode THEN Found({})
  ELSE IF ~Loads(node, height) THEN [nodes |-> {}, err |-> TRUE]
  ELSE Joined(Reverted(node, height),
              Joined(deleteSubTree(Left(node), height - 1),
                     deleteSubTree(Right(node), height - 1)))

RECURSIVE maybeDeleteSubTree(_, _, _)
maybeDeleteSubTree(original, node, height) ==
  IF original = node \/ node = NoNode THEN Found({})
  ELSE IF ~Loads(original, height) \/ ~Loads(node, height) THEN [nodes |-> {}, err |-> TRUE]
  ELSE IF IsShortcut(original) /\ ~IsShortcut(node) THEN deleteSubTree(node, height)
  ELSE IF IsShortcut(node) THEN Reverted(node, height)
  ELSE Joined(Reverted(node, height),
              Joined(maybeDeleteSubTree(Left(original), Left(node), height - 1),
                     maybeDeleteSubTree(Right(original), Right(node), height - 1)))

\* The first of the past tries with that root, and what the later ones have
\* that it has not.
Revert(to) ==
  LET at    == {i \in DOMAIN pastTries : pastTries[i] = to}
      first == CHOOSE i \in at : \A j \in at : i <= j
      later == {maybeDeleteSubTree(to, pastTries[i], TrieHeight) :
                  i \in first + 1 .. Len(pastTries)}
      gone  == UNION {r.nodes : r \in later}
  IN  /\ TrieCall
      /\ atomicUpdate' = FALSE
      /\ IF to \notin Available \cup {NoNode} \/ to = Root \/ \E r \in later : r.err
         THEN UNCHANGED <<Root, pastTries, batchVars, content, dropped>>
         ELSE /\ Root' = to
              /\ content' = getKeys(to)
              /\ pastTries' = SubSeq(pastTries, 1, first)
              /\ Store' = (Store \ gone) \cup (IF IsShortcut(to) THEN {to} ELSE {})
              /\ liveCache' = {} /\ updatedNodes' = {}
              /\ dropped' = dropped \cup (gone \ Batches(to, TrieHeight))
                                    \cup (updatedNodes \ Store)
      /\ UNCHANGED <<prevRoot, updates, spoilt>>

TrieNext ==
  \/ TrieUpdate \/ AtomicUpdate \/ TrieCommit \/ TrieRead
  \/ \E b \in BOOLEAN : Stash(b)
  \/ \E to \in Range(pastTries) : Revert(to) \/ LoadCache(to)

-----------------------------------------------------------------------------
(* Proofs.                                                                  *)

\* The audit path, from the bottom, and the leaf that is there.
Path(ap, node) == [ap |-> ap, found |-> node]

RECURSIVE merkleProof(_, _, _)
merkleProof(node, key, height) ==
  IF node = NoNode \/ IsShortcut(node) THEN Path(<<>>, node)
  ELSE LET right == bitIsSet(key, TrieHeight - height)
           below == merkleProof(IF right THEN node.right ELSE node.left, key, height - 1)
       IN  Path(Append(below.ap, IF right THEN node.left ELSE node.right), below.found)

RECURSIVE verifyInclusion(_, _, _, _)
verifyInclusion(ap, i, key, leafHash) ==
  IF i = Len(ap) THEN leafHash
  ELSE LET below == verifyInclusion(ap, i + 1, key, leafHash)
       IN  IF bitIsSet(key, i) THEN inner(ap[Len(ap) - i], below)
           ELSE inner(below, ap[Len(ap) - i])

VerifyInclusion(ap, key, value) ==
  verifyInclusion(ap, 0, key, leaf(key, value, TrieHeight - Len(ap))) = Root

OnPath(length, key, proofKey) ==
  \A b \in 0 .. length - 1 : bitIsSet(key, b) = bitIsSet(proofKey, b)

\* found: the leaf that stands in the key's place, if there is one.
VerifyNonInclusion(ap, key, found) ==
  IF found = NoNode THEN verifyInclusion(ap, 0, key, NoNode) = Root
  ELSE VerifyInclusion(ap, found.key, found.value) /\ OnPath(Len(ap), key, found.key)

\* The same without the empty nodes, and a bitmap of the others.
Compressed(ap) == [bitmap |-> {i \in 0 .. Len(ap) - 1 : ap[i + 1] # NoNode},
                   mp |-> SelectSeq(ap, LAMBDA node : node # NoNode), length |-> Len(ap)]

RECURSIVE verifyInclusionC(_, _, _, _, _)
verifyInclusionC(c, key, leafHash, i, apIndex) ==
  IF i = c.length THEN leafHash
  ELSE LET known   == c.length - i - 1 \in c.bitmap
           below   == verifyInclusionC(c, key, leafHash, i + 1,
                                       IF known THEN apIndex + 1 ELSE apIndex)
           sibling == IF known THEN c.mp[Len(c.mp) - apIndex] ELSE NoNode
       IN  IF bitIsSet(key, i) THEN inner(sibling, below) ELSE inner(below, sibling)

VerifyInclusionC(c, key, value) ==
  verifyInclusionC(c, key, leaf(key, value, TrieHeight - c.length), 0, 0) = Root

VerifyNonInclusionC(c, key, found) ==
  IF found = NoNode THEN verifyInclusionC(c, key, NoNode, 0, 0) = Root
  ELSE VerifyInclusionC(c, found.key, found.value) /\ OnPath(c.length, key, found.key)

-----------------------------------------------------------------------------
(* Properties.                                                              *)

Kept == {Root, prevRoot} \cup Range(pastTries)

\* The root is the one of what the calls have put into the trie, whatever
\* updates, commits, stashes and reverts led there; the batches of the root
\* and of every trie one can go back to are there, but for those dropped in
\* the ways the updates, Stash and Revert name.
TrieKept ==
  /\ Root = TrieOf(content, TrieHeight)
  /\ \A r \in Kept : Batches(r, TrieHeight) \subseteq Available \cup dropped

\* A proof says what is in the trie: it proves a key to be there with its
\* value, or not to be there, in both forms, and never the opposite.
ProofsRight ==
  Root # NoNode =>
    \A key \in TrieKeys :
      LET p == merkleProof(Root, key, TrieHeight)
          c == Compressed(p.ap)
      IN  IF \E v \in {kv[2] : kv \in content} : <<key, v>> \in content
          THEN /\ p.found.key = key /\ <<key, p.found.value>> \in content
               /\ VerifyInclusion(p.ap, key, p.found.value)
               /\ VerifyInclusionC(c, key, p.found.value)
          ELSE /\ IsShortcut(p.found) => p.found.key # key
               /\ VerifyNonInclusion(p.ap, key, p.found)
               /\ VerifyNonInclusionC(c, key, p.found)

TrieSound == ~spoilt => TrieKept /\ ProofsRight
=============================================================================
