-------------------------- MODULE MCSparseMerkleTree --------------------------
(* Keys of two binary digits: two that share the first and one that does    *)
(* not, so that leaves stand at both depths and deletions pull them up.     *)
(* The other trie and the tree over an order book run by themselves; that    *)
(* has more levels on a side than its nodes can hold, or fewer.              *)
EXTENDS SparseMerkleTree, Trie, BookTree

CONSTANT w

MCKeys == {<<0, 0>>, <<0, 1>>, <<1, 0>>}

\* Four keys that part after one, two and three bits.
MCA == <<0, 0, 0, 0>>
MCB == <<0, 0, 1, 0>>
MCC == <<0, 1, 0, 0>>
MCD == <<1, 0, 0, 0>>

MCTrieKeys == {MCA, MCB, MCC, MCD}

OldValue == CHOOSE v \in Values : TRUE

\* Among them a deletion next to an unchanged key, and one between two others.
MCKeyValues ==
  {<<KV(MCA, OldValue)>>, <<KV(MCA, w), KV(MCC, OldValue)>>, <<KV(MCA, DefaultLeaf)>>,
   <<KV(MCB, OldValue)>>, <<KV(MCB, DefaultLeaf), KV(MCD, OldValue)>>,
   <<KV(MCA, OldValue), KV(MCB, DefaultLeaf), KV(MCD, OldValue)>>}

MCPriceRange == [s \in TreeSides |-> IF s = "BUY" THEN {3} ELSE {6}]

MCLevels(prices) == {PriceLevel(p, 2, <<[size |-> 2, filled |-> 0]>>) : p \in prices}
Deep    == [s \in TreeSides |-> IF s = "BUY" THEN MCLevels(1 .. 5) ELSE {}]
Shallow == [s \in TreeSides |-> IF s = "BUY" THEN MCLevels(1 .. 2) ELSE MCLevels({6})]
MCFirstLevels == {Deep, Shallow}

MCInit == Init /\ NewTrie /\ NewBook

\* One of the three runs, from the start of the others.
NoTree   == Init
NoTrie   == NewTrie
NoLevels == NewBook /\ levelsOf = Deep

\* Bounds: a restart takes the place of a write, and of the two other calls of
\* the trie one takes the place of an update.
FewWrites  == writes' + stops' <= MaxWrites
FewUpdates == updates' + trieCalls' <= MaxUpdates + 1

MCNext ==
  \/ Next /\ FewWrites /\ NoTrie /\ NoLevels /\ UNCHANGED <<trieVars, treeVars>>
  \/ NoTree /\ NoLevels /\ TrieNext /\ FewUpdates /\ UNCHANGED <<vars, treeVars>>
  \/ NoTree /\ NoTrie /\ BookTreeNext /\ UNCHANGED <<vars, trieVars>>

MCSpec == MCInit /\ [][MCNext]_<<vars, trieVars, treeVars>>
=============================================================================
