-------------------------- MODULE MerkleTree_proofs --------------------------
(***************************************************************************)
(* Theorems about MerkleTree: a root declared valid is right for every     *)
(* leaf whose last update met no computation.                              *)
(***************************************************************************)
EXTENDS MerkleTree, NaturalsInduction, WellFoundedInduction, TLAPS

-------------------------------------------------------------------------------
(* Paths and the names of nodes.                                           *)

Letters == Nat \cup {Path(id)[d] : id \in Ids, d \in 1 .. MaxDepth}
Names   == {n \in Seq(Letters) : Len(n) \in 1 .. MaxDepth + 1 /\ n[1] \in Nat}

\* Node n is on the way to the leaf of path p, in its tree, or in that of epoch e.
Through(n, p)  == \A i \in 2 .. Len(n) : n[i] = p[i - 1]
On(e, n, p)    == n[1] = e /\ Through(n, p)
LeafAt(e, p)   == <<e>> \o p

\* A tree has at least one level below its root.
LEMMA Depth == MaxDepth \in Nat /\ MaxDepth >= 1
BY TreeAssumption

\* What it takes to be the name of a node.
LEMMA NameType ==
  ASSUME NEW n
  PROVE  n \in Names <=> /\ n \in Seq(Letters) /\ Len(n) \in Nat /\ Len(n) >= 1
                         /\ Len(n) <= MaxDepth + 1 /\ n[1] \in Nat
BY Depth DEF Names

\* A path has a letter for every level.
LEMMA PathType ==
  ASSUME NEW p \in Paths
  PROVE  /\ p \in Seq(Letters) /\ Len(p) = MaxDepth
         /\ \A i \in 1 .. MaxDepth : p[i] \in Letters
<1>1. PICK id \in Ids : p = Path(id)
  BY DEF Paths
<1>2. \A d \in 1 .. MaxDepth : p[d] \in Letters
  BY <1>1 DEF Letters
<1>3. p = [d \in 1 .. MaxDepth |-> p[d]]
  BY <1>1 DEF Path
<1>4. p \in [1 .. MaxDepth -> Letters]
  BY <1>2, <1>3
<1>5. QED
  BY <1>2, <1>4, Depth

\* The name of the leaf of p, and the way to it.
LEMMA LeafName ==
  ASSUME NEW e \in Nat, NEW p \in Paths
  PROVE  /\ LeafAt(e, p) \in Names /\ Len(LeafAt(e, p)) = MaxDepth + 1
         /\ LeafAt(e, p)[1] = e /\ Through(LeafAt(e, p), p)
         /\ IsLeaf(LeafAt(e, p)) /\ Tail(LeafAt(e, p)) = p
<1> DEFINE n == LeafAt(e, p)
<1>1. p \in Seq(Letters) /\ Len(p) = MaxDepth /\ e \in Letters
  BY PathType DEF Letters
<1>2. n \in Seq(Letters) /\ Len(n) = MaxDepth + 1 /\ n[1] = e
  BY <1>1, Depth DEF LeafAt
<1>3. \A i \in 2 .. Len(n) : n[i] = p[i - 1]
  BY <1>1, <1>2, Depth DEF LeafAt
<1>4. Tail(n) \in Seq(Letters) /\ Len(Tail(n)) = MaxDepth
      /\ \A i \in 1 .. MaxDepth : Tail(n)[i] = n[i + 1]
  BY <1>2, Depth
<1>5. \A i \in 1 .. MaxDepth : Tail(n)[i] = p[i]
  BY <1>3, <1>2, <1>4, Depth
<1>6. Tail(n) = p
  BY <1>1, <1>4, <1>5, Depth
<1>7. QED
  BY <1>2, <1>3, <1>6, Depth DEF Names, Through, IsLeaf

\* There is one node of a length on a way.
LEMMA SameNode ==
  ASSUME NEW p \in Paths, NEW n \in Names, NEW m \in Names, n[1] = m[1],
         Through(n, p), Through(m, p)
  PROVE  /\ Len(n) = Len(m) => n = m
         /\ Len(n) <= Len(m) => n = SubSeq(m, 1, Len(n))
<1>1. /\ n \in Seq(Letters) /\ m \in Seq(Letters)
      /\ Len(n) \in Nat /\ Len(m) \in Nat /\ Len(n) >= 1 /\ Len(m) >= 1
  BY Depth DEF Names
<1>2. ASSUME Len(n) <= Len(m)
      PROVE  \A i \in 1 .. Len(n) : n[i] = m[i]
  <2> SUFFICES ASSUME NEW i \in 1 .. Len(n)
               PROVE  n[i] = m[i]
    OBVIOUS
  <2>1. i = 1 \/ (i \in 2 .. Len(n) /\ i \in 2 .. Len(m))
    BY <1>1, <1>2
  <2>2. QED
    BY <2>1 DEF Through
<1>3. ASSUME Len(n) = Len(m)
      PROVE  n = m
  BY <1>1, <1>2, <1>3
<1>4. ASSUME Len(n) <= Len(m)
      PROVE  n = SubSeq(m, 1, Len(n))
  <2>1. SubSeq(m, 1, Len(n)) \in Seq(Letters) /\ Len(SubSeq(m, 1, Len(n))) = Len(n)
        /\ \A i \in 1 .. Len(n) : SubSeq(m, 1, Len(n))[i] = m[i]
    BY <1>1, <1>4
  <2>2. QED
    BY <1>1, <1>2, <1>4, <2>1
<1>5. QED
  BY <1>3, <1>4

\* A leaf on the way to p is the leaf of p.
LEMMA LeafOn ==
  ASSUME NEW p \in Paths, NEW n \in Names, IsLeaf(n), Through(n, p)
  PROVE  n = LeafAt(n[1], p) /\ Tail(n) = p
<1>1. n[1] \in Nat
  BY DEF Names
<1>2. n = LeafAt(n[1], p)
  BY <1>1, LeafName, SameNode DEF IsLeaf
<1>3. QED
  BY <1>1, <1>2, LeafName

\* The name of a child of an inner node.
LEMMA ChildName ==
  ASSUME NEW n \in Names, ~IsLeaf(n), NEW k \in Letters
  PROVE  /\ Append(n, k) \in Names /\ Len(Append(n, k)) = Len(n) + 1
         /\ Append(n, k)[1] = n[1] /\ Last(Append(n, k)) = k
         /\ \A p \in Paths : Through(Append(n, k), p) <=> Through(n, p) /\ p[Len(n)] = k
<1> DEFINE m == Append(n, k)
<1>1. n \in Seq(Letters) /\ Len(n) \in Nat /\ Len(n) >= 1 /\ Len(n) <= MaxDepth /\ n[1] \in Nat
  BY Depth DEF Names, IsLeaf
<1>2. /\ m \in Seq(Letters) /\ Len(m) = Len(n) + 1
      /\ \A i \in 1 .. Len(n) : m[i] = n[i]
      /\ m[Len(n) + 1] = k
  BY <1>1
<1>3. m[1] = n[1]
  BY <1>1, <1>2
<1>4. ASSUME NEW p \in Paths
      PROVE  Through(m, p) <=> Through(n, p) /\ p[Len(n)] = k
  <2> DEFINE L == Len(n)
  <2>1. L \in Nat /\ L >= 1 /\ Len(m) = L + 1
    BY <1>1, <1>2
  <2>2. ASSUME Through(m, p)
        PROVE  Through(n, p) /\ p[L] = k
    <3>1. \A i \in 2 .. L + 1 : m[i] = p[i - 1]
      BY <2>1, <2>2 DEF Through
    <3>2. \A i \in 2 .. L : n[i] = p[i - 1]
      BY <3>1, <2>1, <1>2
    <3>3. m[L + 1] = p[L]
      <4>1. L + 1 \in 2 .. L + 1 /\ L + 1 - 1 = L
        BY <2>1
      <4>2. QED
        BY <4>1, <3>1
    <3>4. QED
      BY <3>2, <3>3, <1>2 DEF Through
  <2>3. ASSUME Through(n, p), p[L] = k
        PROVE  Through(m, p)
    <3>1. SUFFICES ASSUME NEW i \in 2 .. Len(m)
                   PROVE  m[i] = p[i - 1]
      BY DEF Through
    <3>2. CASE i = L + 1
      <4>1. i - 1 = L
        BY <3>2, <2>1
      <4>2. QED
        BY <4>1, <3>2, <2>3, <1>2
    <3>3. CASE i # L + 1
      <4>1. i \in 2 .. L /\ i \in 1 .. L
        BY <3>3, <2>1
      <4>2. QED
        BY <4>1, <2>3, <1>2 DEF Through
    <3>4. QED
      BY <3>2, <3>3
  <2>4. QED
    BY <2>2, <2>3
<1>5. Last(m) = k
  BY <1>2 DEF Last
<1>6. m \in Names
  <2>1. Len(m) \in Nat /\ Len(m) >= 1 /\ Len(m) <= MaxDepth + 1
    BY <1>1, <1>2, Depth
  <2>2. QED
    BY <1>1, <1>2, <1>3, <2>1, NameType
<1>7. QED
  BY <1>2, <1>3, <1>4, <1>5, <1>6

\* A node but a root is the child of the one a step shorter.
LEMMA ParentName ==
  ASSUME NEW m \in Names, Len(m) >= 2
  PROVE  /\ Front(m) \in Names /\ ~IsLeaf(Front(m)) /\ Len(Front(m)) = Len(m) - 1
         /\ Last(m) \in Letters /\ m = Append(Front(m), Last(m))
         /\ Front(m) = SubSeq(m, 1, Len(m) - 1)
<1>1. m \in Seq(Letters) /\ Len(m) \in Nat /\ Len(m) <= MaxDepth + 1 /\ m[1] \in Nat
  BY Depth DEF Names
<1>2. Front(m) = SubSeq(m, 1, Len(m) - 1) /\ Last(m) = m[Len(m)]
  BY DEF Front, Last
<1>3. /\ Front(m) \in Seq(Letters) /\ Len(Front(m)) = Len(m) - 1
      /\ \A i \in 1 .. Len(m) - 1 : Front(m)[i] = m[i]
  BY <1>1, <1>2
<1>4. Last(m) \in Letters
  BY <1>1, <1>2
<1>5. Front(m)[1] = m[1]
  BY <1>1, <1>3
<1>6. m = Append(Front(m), Last(m))
  <2>1. Append(Front(m), Last(m)) \in Seq(Letters) /\ Len(Append(Front(m), Last(m))) = Len(m)
    BY <1>1, <1>3, <1>4
  <2>2. PICK f, k, L : f = Front(m) /\ k = Last(m) /\ L = Len(m)
    OBVIOUS
  <2>3. f \in Seq(Letters) /\ Len(f) = L - 1 /\ k \in Letters /\ L \in Nat /\ L >= 2
        /\ k = m[L] /\ \A i \in 1 .. L - 1 : f[i] = m[i]
    BY <1>1, <1>2, <1>3, <1>4, <2>2
  <2>4. /\ \A i \in 1 .. L - 1 : Append(f, k)[i] = f[i]
        /\ Append(f, k)[L] = k
    BY <2>3
  <2>5. \A i \in 1 .. L : Append(f, k)[i] = m[i]
    BY <2>3, <2>4
  <2>6. QED
    BY <1>1, <2>1, <2>2, <2>5
<1>7. Len(m) - 1 \in Nat /\ Len(m) - 1 >= 1 /\ Len(m) - 1 # MaxDepth + 1
      /\ Len(m) - 1 <= MaxDepth + 1
  BY <1>1, Depth
<1>8. Front(m) \in Names
  BY <1>1, <1>3, <1>5, <1>7, NameType
<1>9. QED
  BY <1>2, <1>3, <1>4, <1>6, <1>7, <1>8 DEF IsLeaf

\* The name of a root.
LEMMA RootName ==
  ASSUME NEW e \in Nat
  PROVE  /\ <<e>> \in Names /\ Len(<<e>>) = 1 /\ ~IsLeaf(<<e>>)
         /\ \A p \in Paths : On(e, <<e>>, p)
<1>1. e \in Letters
  BY DEF Letters
<1>2. QED
  BY <1>1, Depth DEF Names, IsLeaf, On, Through

-------------------------------------------------------------------------------
(* Hashes.                                                                 *)

LeafHash == Item \cup {None, Deleted}
Tables   == UNION {[S -> LeafHash] : S \in SUBSET Paths}
NodeHash == {None} \cup Tables

\* A hash of an inner node maps some paths to hashes of leaves.
LEMMA TableType ==
  ASSUME NEW h
  PROVE  h \in Tables <=> \E S \in SUBSET Paths : h \in [S -> LeafHash]
BY DEF Tables

\* No hash of an inner node is the zero hash.
LEMMA NoneNoTable == None \notin Tables
BY HashAssumption, TableType DEF LeafHash

\* Two such hashes together, and what they say of a path.
LEMMA JoinType ==
  ASSUME NEW g \in Tables, NEW h \in Tables
  PROVE  /\ Join(g, h) \in Tables /\ DOMAIN Join(g, h) = DOMAIN g \cup DOMAIN h
         /\ \A p : InRoot(Join(g, h), p) =
                      IF p \in DOMAIN h THEN h[p] ELSE InRoot(g, p)
<1>1. PICK S \in SUBSET Paths : g \in [S -> LeafHash]
  BY TableType
<1>2. PICK R \in SUBSET Paths : h \in [R -> LeafHash]
  BY TableType
<1>3. Join(g, h) \in [S \cup R -> LeafHash]
  BY <1>1, <1>2 DEF Join
<1>4. Join(g, h) \in Tables /\ g # None /\ h # None /\ Join(g, h) # None
  BY <1>1, <1>2, <1>3, TableType, NoneNoTable
<1>5. \A p \in S \cup R : Join(g, h)[p] = IF p \in DOMAIN h THEN h[p] ELSE g[p]
  BY <1>1, <1>2 DEF Join
<1>6. DOMAIN Join(g, h) = DOMAIN g \cup DOMAIN h
  BY DEF Join
<1>7. QED
  BY <1>1, <1>2, <1>4, <1>5, <1>6 DEF InRoot

\* What a node adds to the hash of its parent.
LEMMA LeavesType ==
  ASSUME NEW n \in Names, NEW h, IsLeaf(n) => Tail(n) \in Paths,
         h \in IF IsLeaf(n) THEN LeafHash ELSE NodeHash
  PROVE  /\ Leaves(n, h) \in Tables
         /\ ~IsLeaf(n) => \A p : InRoot(Leaves(n, h), p) = InRoot(h, p)
         /\ ~IsLeaf(n) /\ h # None => Leaves(n, h) = h
         /\ h = None => DOMAIN Leaves(n, h) = {}
         /\ IsLeaf(n) /\ h # None => /\ DOMAIN Leaves(n, h) = {Tail(n)}
                                     /\ Leaves(n, h)[Tail(n)] = h
<1>1. NoLeaves \in [{} -> LeafHash] /\ DOMAIN NoLeaves = {}
  BY DEF NoLeaves
<1>2. NoLeaves \in Tables
  BY <1>1, TableType
<1>3. CASE h = None
  BY <1>1, <1>2, <1>3 DEF Leaves, InRoot
<1>4. CASE h # None /\ IsLeaf(n)
  <2>1. Leaves(n, h) = [p \in {Tail(n)} |-> h]
    BY <1>4 DEF Leaves
  <2>2. Leaves(n, h) \in [{Tail(n)} -> LeafHash]
    BY <2>1, <1>4
  <2>3. QED
    BY <1>4, <2>1, <2>2, TableType
<1>5. CASE h # None /\ ~IsLeaf(n)
  BY <1>5 DEF Leaves, NodeHash
<1>6. QED
  BY <1>3, <1>4, <1>5

-------------------------------------------------------------------------------
(* The shape of the state.                                                 *)

Node == [value : Item \cup {None}, hash : LeafHash \cup NodeHash, dirty : BOOLEAN]
Call == [pc : {"idle", "unlink", "walk", "leaf", "mark", "invalidate", "clearing"},
         kind : {"insert", "delete", "deleteBatch", "clear"},
         drop : Seq(Ids), todo : Seq(Item), node : Names \cup {<<>>},
         marks : Seq(Names), done : SUBSET Paths, alone : BOOLEAN]
Frame == [node : Names, left : SUBSET Letters, got : Tables]
Computation ==
  [pc : {"idle", "visit", "leaf", "load", "store", "valid", "cas", "lock", "zero"},
   frames : Seq(Frame), hash : NodeHash, leaf : Names \cup {<<>>},
   value : Item \cup {None}, tries : Nat, seen : Nat, final : BOOLEAN]

StateType ==
  /\ items \in [Ids -> Item \cup {None}]
  /\ \A id \in Ids : items[id] # None => items[id].id = id
  /\ epoch \in Nat
  /\ dirtyNodes \in Nat
  /\ cachedRoot \in NodeHash
  /\ rootCacheValid \in BOOLEAN
  /\ upd \in [Updaters -> Call]
  /\ comp \in [Computers -> Computation]
  /\ budget \in [update : Nat, clear : Nat, compute : Nat, crowd : Nat, batch : Nat]

\* A hash below node n is one of leaves below n, which are among the nodes N.
Says(N, n, h) ==
  \A p \in DOMAIN h : p \in Paths /\ Through(n, p) /\ LeafAt(n[1], p) \in N

\* With n all nodes on the way to it are among the nodes N.
Reached(N, n) == \A i \in 1 .. Len(n) : SubSeq(n, 1, i) \in N

\* A node nd of name n among the nodes N, in epoch e.
NodeOk(e, N, n, nd) ==
  /\ n \in Names /\ n[1] <= e
  /\ nd \in Node
  /\ Reached(N, n)
  /\ IsLeaf(n)  => Tail(n) \in Paths /\ nd.hash \in LeafHash
  /\ ~IsLeaf(n) => nd.hash \in NodeHash /\ (nd.hash # None => Says(N, n, nd.hash))

NodesInv ==
  /\ nodes \in [DOMAIN nodes -> Node]
  /\ Root \in DOMAIN nodes
  /\ \A n \in DOMAIN nodes : NodeOk(epoch, DOMAIN nodes, n, nodes[n])

\* The leaf a call is at work on.
At(r) == Path(Head(r.todo).id)

CallOk(N, r) ==
  /\ r.pc \in {"walk", "leaf", "mark"} => r.todo # <<>>
  /\ r.pc = "walk" => r.node \in N /\ ~IsLeaf(r.node) /\ Through(r.node, At(r))
  /\ r.pc = "leaf" => r.node \in N /\ IsLeaf(r.node) /\ Through(r.node, At(r))
  /\ r.pc \in {"leaf", "mark"} => r.marks # <<>>
  /\ \A k \in DOMAIN r.marks : r.marks[k] \in N /\ ~IsLeaf(r.marks[k])
  /\ r.pc = "idle" => r = Resting
  /\ r.pc = "unlink" => r.done = {}
  /\ r.pc # "idle" => (r.pc = "clearing" <=> r.kind = "clear")

CallsInv == \A u \in Updaters : CallOk(DOMAIN nodes, upd[u])

\* Who met no computation is still without one; the leaves of the others were
\* noted when a computation is under way.
MeetInv ==
  /\ \A u \in Updaters : upd[u].pc # "idle" /\ upd[u].alone => Computing = {}
  /\ Computing # {} => TouchedBy(Updaters) \subseteq raced

\* The node or leaf n is one that a computation with the frames fs calls for.
Called(fs, n) ==
  fs # <<>> /\ \E k \in fs[Len(fs)].left : n = Append(fs[Len(fs)].node, k)

FrameOk(N, f) ==
  /\ f.node \in N /\ ~IsLeaf(f.node)
  /\ \A k \in f.left : Append(f.node, k) \in N
  /\ Says(N, f.node, f.got)
  /\ \A p \in DOMAIN f.got : p[Len(f.node)] \notin f.left

FramesOk(N, r) ==
  /\ \A i \in DOMAIN r.frames : FrameOk(N, r.frames[i])
  /\ \A i \in DOMAIN r.frames : i > 1 =>
       \E k \in r.frames[i - 1].left : r.frames[i].node = Append(r.frames[i - 1].node, k)
  /\ r.pc = "leaf" => IsLeaf(r.leaf) /\ Called(r.frames, r.leaf)
  /\ r.pc \notin {"visit", "leaf"} => r.frames = <<>>
  /\ r.pc = "idle" => r = Waiting

FramesInv == \A c \in Computers : FramesOk(DOMAIN nodes, comp[c])

ShapeInv == StateType /\ NodesInv /\ CallsInv /\ MeetInv /\ FramesInv

-------------------------------------------------------------------------------
(* Lemmas about the shape.  All of it stays when nodes are added.          *)

LEMMA SaysGrows ==
  ASSUME NEW N, NEW M, N \subseteq M, NEW n, NEW h, Says(N, n, h)
  PROVE  Says(M, n, h)
BY DEF Says

\* So does what a call relies on.
LEMMA CallGrows ==
  ASSUME NEW N, NEW M, N \subseteq M, NEW r, CallOk(N, r)
  PROVE  CallOk(M, r)
BY DEF CallOk

\* The frames of a computation stay right when nodes are added.
LEMMA FramesGrow ==
  ASSUME NEW N, NEW M, N \subseteq M, NEW r, FramesOk(N, r)
  PROVE  FramesOk(M, r)
<1>1. ASSUME NEW f, FrameOk(N, f)
      PROVE  FrameOk(M, f)
  BY <1>1, SaysGrows DEF FrameOk
<1>2. QED
  BY <1>1 DEF FramesOk

\* A node stays right when nodes are added.
LEMMA NodeGrows ==
  ASSUME NEW N, NEW M, N \subseteq M, NEW e, NEW n, NEW nd, NodeOk(e, N, n, nd)
  PROVE  NodeOk(e, M, n, nd)
BY SaysGrows DEF NodeOk, Reached

\* A goroutine without a call.
LEMMA RestingType == Resting \in Call /\ \A N : CallOk(N, Resting)
<1>1. /\ <<>> \in Seq(Ids) /\ <<>> \in Seq(Item) /\ <<>> \in Seq(Names)
  OBVIOUS
<1>2. Resting \in Call
  BY <1>1 DEF Resting, Call
<1>3. ASSUME NEW N
      PROVE  CallOk(N, Resting)
  BY DEF CallOk, Resting
<1>4. QED
  BY <1>2, <1>3

\* A goroutine without a computation.
LEMMA WaitingType == Waiting \in Computation /\ \A N : FramesOk(N, Waiting)
<1>1. <<>> \in Seq(Frame) /\ None \in NodeHash
  BY DEF NodeHash
<1>2. Waiting \in Computation
  BY <1>1 DEF Waiting, Computation
<1>3. ASSUME NEW N
      PROVE  FramesOk(N, Waiting)
  BY DEF FramesOk, Waiting
<1>4. QED
  BY <1>2, <1>3

\* The keys of a node are the last steps to its children.
LEMMA KeysAre ==
  ASSUME NodesInv, NEW n \in Names, ~IsLeaf(n)
  PROVE  /\ Keys(n) \subseteq Letters
         /\ \A k \in Letters : k \in Keys(n) <=> Append(n, k) \in DOMAIN nodes
<1>1. n \in Seq(Letters) /\ Len(n) \in Nat /\ Len(n) >= 1
  BY Depth DEF Names
<1>2. ASSUME NEW k \in Keys(n)
      PROVE  k \in Letters /\ Append(n, k) \in DOMAIN nodes
  <2>1. PICK m \in DOMAIN nodes : Len(m) = Len(n) + 1 /\ Front(m) = n /\ k = Last(m)
    BY <1>2 DEF Keys
  <2>2. m \in Names /\ Len(m) >= 2
    BY <2>1, <1>1 DEF NodesInv, NodeOk
  <2>3. QED
    BY <2>1, <2>2, ParentName
<1>3. ASSUME NEW k \in Letters, Append(n, k) \in DOMAIN nodes
      PROVE  k \in Keys(n)
  <2> DEFINE m == Append(n, k)
  <2>1. m \in Names /\ Len(m) = Len(n) + 1 /\ Last(m) = k /\ Len(m) >= 2
    BY ChildName, <1>1
  <2>1a. m \in Seq(Letters) /\ \A i \in 1 .. Len(n) : m[i] = n[i]
    BY <1>1
  <2> HIDE DEF m
  <2>2. Front(m) = n
    <3>1. Front(m) = SubSeq(m, 1, Len(n)) /\ Front(m) \in Names /\ Len(Front(m)) = Len(n)
      <4>1. Front(m) = SubSeq(m, 1, Len(m) - 1) /\ Front(m) \in Names
            /\ Len(Front(m)) = Len(m) - 1
        BY <2>1, ParentName
      <4>2. Len(m) - 1 = Len(n)
        BY <2>1, <1>1
      <4>3. QED
        BY <4>1, <4>2
    <3>1a. Front(m) \in Seq(Letters)
      BY <3>1, NameType
    <3>2. \A i \in 1 .. Len(n) : Front(m)[i] = n[i]
      BY <3>1, <2>1, <2>1a, <1>1
    <3>3. QED
      BY <3>1, <3>1a, <3>2, <1>1
  <2>3. m \in DOMAIN nodes
    BY <1>3 DEF m
  <2>4. QED
    BY <2>1, <2>2, <2>3 DEF Keys
<1>4. QED
  BY <1>2, <1>3

\* The nodes on the way to a node of the tree are in the tree.
LEMMA WayIn ==
  ASSUME NodesInv, NEW p \in Paths, NEW n \in Names, NEW m \in DOMAIN nodes,
         n[1] = m[1], Through(n, p), Through(m, p), Len(n) <= Len(m)
  PROVE  n \in DOMAIN nodes
<1>1. m \in Names /\ Len(n) \in 1 .. Len(m)
  BY Depth DEF NodesInv, NodeOk, Names
<1>2. n = SubSeq(m, 1, Len(n))
  BY <1>1, SameNode
<1>3. QED
  BY <1>1, <1>2 DEF NodesInv, NodeOk, Reached

-------------------------------------------------------------------------------
(* The shape is kept by the calls that change the tree.                    *)

\* The leaves call r is about.
TouchedIn(r) ==
  IF r.pc = "idle" THEN {}
  ELSE IF r.kind = "clear" THEN Paths
  ELSE {Path(id) : id \in ToSet(r.drop)} \cup PathsOf(r.todo) \cup r.done

\* The leaves that calls are about.
LEMMA TouchedIs ==
  /\ \A u \in Updaters : Touched(u) = TouchedIn(upd[u])
  /\ TouchedBy(Updaters) = UNION {TouchedIn(upd[u]) : u \in Updaters}
BY DEF Touched, TouchedIn, TouchedBy

\* The same in the next state.
LEMMA TouchedNext ==
  /\ \A u \in Updaters : Touched(u)' = TouchedIn(upd'[u])
  /\ TouchedBy(Updaters)' = UNION {TouchedIn(upd'[u]) : u \in Updaters}
BY DEF Touched, TouchedIn, TouchedBy

\* A call on its way is about the leaf it is on its way to.
LEMMA WorkTouched ==
  ASSUME NEW N, NEW r \in Call, CallOk(N, r), r.pc \in {"walk", "leaf", "mark"}
  PROVE  /\ Head(r.todo) \in Item /\ At(r) \in Paths /\ At(r) \in TouchedIn(r)
         /\ At(r) \in PathsOf(r.todo) /\ r.kind # "clear"
<1>1. r.todo \in Seq(Item) /\ r.todo # <<>>
  BY DEF Call, CallOk
<1>2. Head(r.todo) \in Item /\ Head(r.todo) = r.todo[1] /\ 1 \in DOMAIN r.todo
  BY <1>1
<1>3. Head(r.todo) \in ToSet(r.todo)
  BY <1>2 DEF ToSet
<1>4. At(r) \in Paths /\ At(r) \in PathsOf(r.todo)
  BY <1>2, <1>3 DEF At, Paths, PathsOf, Item
<1>5. QED
  BY <1>2, <1>4 DEF TouchedIn, CallOk

\* What a step of caller u has to keep for the other parts.
LEMMA CallerShape ==
  ASSUME ShapeInv, NEW u \in Updaters, comp' = comp, DOMAIN nodes \subseteq DOMAIN nodes',
         NEW r \in Call, upd' = [upd EXCEPT ![u] = r],
         CallOk(DOMAIN nodes', r),
         r.pc # "idle" /\ r.alone => Computing = {},
         Computing # {} => raced \subseteq raced' /\ TouchedIn(r) \subseteq raced'
  PROVE  upd' \in [Updaters -> Call] /\ CallsInv' /\ MeetInv' /\ FramesInv'
<1>1. upd \in [Updaters -> Call] /\ upd' \in [Updaters -> Call]
      /\ upd'[u] = r /\ \A v \in Updaters : v # u => upd'[v] = upd[v]
  BY DEF ShapeInv, StateType
<1>2. Computing' = Computing
  BY DEF Computing
<1>3. CallsInv'
  BY <1>1, CallGrows DEF ShapeInv, CallsInv
<1>4. FramesInv'
  BY FramesGrow DEF ShapeInv, FramesInv
<1>5. MeetInv'
  <2>1. \A v \in Updaters : upd'[v].pc # "idle" /\ upd'[v].alone => Computing' = {}
    BY <1>1, <1>2 DEF ShapeInv, MeetInv
  <2>2. ASSUME Computing' # {}, NEW v \in Updaters
        PROVE  TouchedIn(upd'[v]) \subseteq raced'
    <3>1. Computing # {} /\ TouchedBy(Updaters) \subseteq raced
      BY <1>2, <2>2 DEF ShapeInv, MeetInv
    <3>2. TouchedIn(upd[v]) \subseteq raced
      BY <3>1, TouchedIs
    <3>3. QED
      BY <3>1, <3>2, <1>1
  <2>3. QED
    BY <2>1, <2>2, TouchedNext DEF MeetInv
<1>6. QED
  BY <1>1, <1>3, <1>4, <1>5

\* The last element of a batch that is about an id.
LEMMA MaxIn ==
  ASSUME NEW n \in Nat, NEW S \in SUBSET (1 .. n), S # {}
  PROVE  Max(S) \in S
<1> DEFINE G == {n - k : k \in S}
<1>1. G \subseteq Nat /\ G # {}
  <2>1. \A k \in S : k \in Nat /\ n - k \in Nat
    OBVIOUS
  <2>2. QED
    BY <2>1
<1>2. PICK g \in G : \A f \in G : g <= f
  <2>1. PICK g \in G : \A f \in G : <<f, g>> \notin OpToRel(<, Nat)
    BY <1>1, NatLessThanWellFounded, WFMin, Zenon
  <2>2. \A f \in G : g <= f
    <3> TAKE f \in G
    <3>1. g \in Nat /\ f \in Nat
      BY <1>1
    <3>2. ~(f < g)
      BY <2>1, <3>1, Zenon DEF OpToRel
    <3>3. QED
      BY <3>1, <3>2
  <2>3. QED
    BY <2>2
<1>3. PICK k \in S : g = n - k
  BY <1>2
<1>4. \A j \in S : k >= j
  <2>1. SUFFICES ASSUME NEW j \in S
                 PROVE  k >= j
    OBVIOUS
  <2>2. n - k <= n - j
    BY <1>2, <1>3
  <2>3. QED
    BY <2>2
<1>5. QED
  BY <1>4 DEF Max

\* Insert keeps the shape.
LEMMA InsertShape ==
  ASSUME ShapeInv, NEW u \in Updaters, NEW its \in Batches, Insert(u, its)
  PROVE  ShapeInv'
<1>1. PICK n \in 1 .. budget.batch : its \in [1 .. n -> Item]
  BY DEF Batches
<1>2. n \in Nat /\ n >= 1 /\ its \in Seq(Item) /\ its # <<>> /\ DOMAIN its = 1 .. n
  BY <1>1 DEF ShapeInv, StateType
<1> DEFINE b == Computing = {}
<1>b. b = TRUE \/ b = FALSE
  OBVIOUS
<1> DEFINE r == [Resting EXCEPT !.pc = "walk", !.todo = its, !.node = Root, !.alone = b]
<1>3. upd' = [upd EXCEPT ![u] = r]
  BY DEF Insert
<1>4. epoch \in Nat /\ Root \in Names /\ ~IsLeaf(Root) /\ Len(Root) = 1
      /\ Root \in DOMAIN nodes
  BY RootName DEF ShapeInv, StateType, Root, NodesInv
<1>5. /\ r.pc = "walk" /\ r.kind = "insert" /\ r.drop = <<>> /\ r.todo = its /\ r.node = Root
      /\ r.marks = <<>> /\ r.done = {} /\ r.alone = b /\ r \in Call
  <2> HIDE DEF b
  <2>1. b \in BOOLEAN
    BY <1>b
  <2>2. r \in Call
    BY <1>2, <1>4, <2>1, RestingType DEF Call
  <2>3. QED
    BY <2>2 DEF Resting
<1>6. UNCHANGED <<nodes, epoch, dirtyNodes, cachedRoot, rootCacheValid, comp>>
  BY DEF Insert
<1>7. CallOk(DOMAIN nodes', r)
  <2> HIDE DEF r
  <2>1. Through(Root, At(r))
    BY <1>4 DEF Through
  <2>2. QED
    BY <1>2, <1>4, <1>5, <1>6, <2>1 DEF CallOk
<1>8. TouchedIn(r) = PathsOf(its)
  BY <1>5 DEF TouchedIn, ToSet
<1>9. Computing # {} => raced \subseteq raced' /\ TouchedIn(r) \subseteq raced'
  BY <1>8 DEF Insert, Meet
<1>10. upd' \in [Updaters -> Call] /\ CallsInv' /\ MeetInv' /\ FramesInv'
  <2>1. DOMAIN nodes \subseteq DOMAIN nodes' /\ comp' = comp
    BY <1>6
  <2> HIDE DEF r
  <2>2. QED
    BY <1>3, <1>5, <1>7, <1>9, <2>1, CallerShape
<1>11. NodesInv'
  BY <1>6 DEF ShapeInv, NodesInv, Root
<1>12. \A id \in Ids : items'[id] \in Item \cup {None} /\ (items'[id] # None => items'[id].id = id)
  <2> SUFFICES ASSUME NEW id \in Ids
               PROVE  items'[id] \in Item \cup {None} /\ (items'[id] # None => items'[id].id = id)
    OBVIOUS
  <2> DEFINE mine == {k \in DOMAIN its : its[k].id = id}
  <2>1. items'[id] = IF mine = {} THEN items[id] ELSE its[Max(mine)]
    BY DEF Insert
  <2>2. CASE mine = {}
    BY <2>1, <2>2 DEF ShapeInv, StateType
  <2>3. CASE mine # {}
    <3>1. mine \in SUBSET (1 .. n)
      BY <1>2
    <3>2. Max(mine) \in mine
      BY <1>2, <2>3, <3>1, MaxIn
    <3>3. QED
      BY <1>1, <2>1, <2>3, <3>2
  <2>4. QED
    BY <2>2, <2>3
<1>13. items' \in [Ids -> Item \cup {None}]
  <2>1. items' = [id \in Ids |-> items'[id]]
    BY DEF Insert
  <2>2. QED
    BY <2>1, <1>12
<1>14. budget' \in [update : Nat, clear : Nat, compute : Nat, crowd : Nat, batch : Nat]
  BY DEF Insert, StartUpdate, ShapeInv, StateType
<1>15. StateType'
  BY <1>6, <1>10, <1>12, <1>13, <1>14 DEF ShapeInv, StateType
<1>16. QED
  BY <1>10, <1>11, <1>15 DEF ShapeInv

\* The nodes are right if nothing of them changes.
LEMMA SameNodes ==
  ASSUME NodesInv, nodes' = nodes, epoch' = epoch
  PROVE  NodesInv'
BY DEF NodesInv, Root

\* Delete keeps the shape.
LEMMA DeleteShape ==
  ASSUME ShapeInv, NEW u \in Updaters, NEW ids \in Seq(Ids),
         NEW kind \in {"delete", "deleteBatch"}, Delete(u, ids, kind)
  PROVE  ShapeInv'
<1> DEFINE b == Computing = {}
<1>b. b = TRUE \/ b = FALSE
  OBVIOUS
<1> DEFINE r == [Resting EXCEPT !.pc = "unlink", !.kind = kind, !.drop = ids, !.alone = b]
<1>1. upd' = [upd EXCEPT ![u] = r]
  BY DEF Delete
<1>2. /\ r.pc = "unlink" /\ r.kind = kind /\ r.drop = ids /\ r.todo = <<>>
      /\ r.marks = <<>> /\ r.done = {} /\ r.alone = b /\ r \in Call
  <2> HIDE DEF b
  <2>1. b \in BOOLEAN
    BY <1>b
  <2>2. r \in Call
    BY <2>1, RestingType DEF Call
  <2>3. QED
    BY <2>2 DEF Resting
<1>3. UNCHANGED <<items, nodes, epoch, dirtyNodes, cachedRoot, rootCacheValid, comp>>
  BY DEF Delete
<1> HIDE DEF r
<1>4. CallOk(DOMAIN nodes', r)
  BY <1>2 DEF CallOk
<1>5. TouchedIn(r) = {Path(id) : id \in ToSet(ids)}
  BY <1>2 DEF TouchedIn, PathsOf, ToSet
<1>6. Computing # {} => raced \subseteq raced' /\ TouchedIn(r) \subseteq raced'
  BY <1>5 DEF Delete, Meet
<1>7. upd' \in [Updaters -> Call] /\ CallsInv' /\ MeetInv' /\ FramesInv'
  <2>1. DOMAIN nodes \subseteq DOMAIN nodes' /\ comp' = comp
    BY <1>3
  <2>2. QED
    BY <1>1, <1>2, <1>4, <1>6, <2>1, CallerShape
<1>8. NodesInv'
  BY <1>3, SameNodes DEF ShapeInv
<1>9. budget' \in [update : Nat, clear : Nat, compute : Nat, crowd : Nat, batch : Nat]
  BY DEF Delete, StartUpdate, ShapeInv, StateType
<1>10. StateType'
  BY <1>3, <1>7, <1>9 DEF ShapeInv, StateType
<1>11. QED
  BY <1>7, <1>8, <1>10 DEF ShapeInv

\* Unlink keeps the shape.
LEMMA UnlinkShape ==
  ASSUME ShapeInv, NEW u \in Updaters, Unlink(u)
  PROVE  ShapeInv'
<1>1. PICK r, id, its : /\ r = upd[u] /\ id = Head(r.drop)
                        /\ its = IF items[id] = None THEN r.todo ELSE Append(r.todo, items[id])
  OBVIOUS
<1>2. r \in Call /\ r.pc = "unlink" /\ r.drop # <<>> /\ r.drop \in Seq(Ids) /\ r.todo \in Seq(Item)
      /\ CallOk(DOMAIN nodes, r)
  BY <1>1 DEF Unlink, ShapeInv, StateType, CallsInv, Call
<1>3. id \in Ids /\ id \in ToSet(r.drop) /\ Tail(r.drop) \in Seq(Ids)
      /\ ToSet(Tail(r.drop)) \subseteq ToSet(r.drop)
  BY <1>1, <1>2 DEF ToSet
<1>4. items[id] \in Item \cup {None} /\ (items[id] # None => items[id].id = id)
  BY <1>3 DEF ShapeInv, StateType
<1>5. its \in Seq(Item)
  BY <1>1, <1>2, <1>4
<1>6. PathsOf(its) \subseteq PathsOf(r.todo) \cup {Path(id)}
  <2>1. CASE items[id] = None
    BY <1>1, <2>1
  <2>2. CASE items[id] # None
    <3>1. its = Append(r.todo, items[id]) /\ items[id].id = id
      BY <1>1, <1>4, <2>2
    <3>2. ToSet(its) \subseteq ToSet(r.todo) \cup {items[id]}
      BY <1>2, <1>4, <2>2, <3>1 DEF ToSet
    <3>3. QED
      BY <3>1, <3>2 DEF PathsOf
  <2>3. QED
    BY <2>1, <2>2
<1> DEFINE q == [r EXCEPT !.drop = Tail(@), !.todo = its]
<1>7. upd' = [upd EXCEPT ![u] = q]
  BY <1>1 DEF Unlink, ShapeInv, StateType
<1>8. /\ q \in Call /\ q.pc = "unlink" /\ q.kind = r.kind /\ q.drop = Tail(r.drop)
      /\ q.todo = its /\ q.marks = r.marks /\ q.done = r.done /\ q.alone = r.alone
  BY <1>2, <1>3, <1>5 DEF Call
<1>9. UNCHANGED <<nodes, epoch, dirtyNodes, cachedRoot, rootCacheValid, comp, budget, raced>>
  BY DEF Unlink
<1> HIDE DEF q
<1>10. CallOk(DOMAIN nodes', q)
  BY <1>2, <1>8, <1>9 DEF CallOk
<1>11. TouchedIn(q) \subseteq TouchedIn(r)
  <2>1. Path(id) \in {Path(i) : i \in ToSet(r.drop)}
    BY <1>3
  <2>2. QED
    BY <1>2, <1>3, <1>6, <1>8, <2>1 DEF TouchedIn
<1>12. Computing # {} => raced \subseteq raced' /\ TouchedIn(q) \subseteq raced'
  BY <1>1, <1>9, <1>11, TouchedIs DEF ShapeInv, MeetInv
<1>13. q.pc # "idle" /\ q.alone => Computing = {}
  BY <1>1, <1>2, <1>8 DEF ShapeInv, MeetInv
<1>14. upd' \in [Updaters -> Call] /\ CallsInv' /\ MeetInv' /\ FramesInv'
  <2>1. DOMAIN nodes \subseteq DOMAIN nodes' /\ comp' = comp
    BY <1>9
  <2>2. QED
    BY <1>7, <1>8, <1>10, <1>12, <1>13, <2>1, CallerShape
<1>15. NodesInv'
  BY <1>9, SameNodes DEF ShapeInv
<1>16. /\ items' \in [Ids -> Item \cup {None}]
       /\ \A i \in Ids : items'[i] # None => items'[i].id = i
  <2>1. items' = [items EXCEPT ![id] = None]
    BY <1>1 DEF Unlink
  <2>2. QED
    BY <2>1, <1>3 DEF ShapeInv, StateType
<1>17. StateType'
  BY <1>9, <1>14, <1>16 DEF ShapeInv, StateType
<1>18. QED
  BY <1>14, <1>15, <1>17 DEF ShapeInv

\* StartRemoval keeps the shape.
LEMMA StartRemovalShape ==
  ASSUME ShapeInv, NEW u \in Updaters, StartRemoval(u)
  PROVE  ShapeInv'
<1>1. PICK r : r = upd[u]
  OBVIOUS
<1>2. r \in Call /\ r.pc = "unlink" /\ CallOk(DOMAIN nodes, r)
  BY <1>1 DEF StartRemoval, ShapeInv, StateType, CallsInv
<1>3. UNCHANGED <<items, nodes, epoch, dirtyNodes, cachedRoot, rootCacheValid, comp, budget, raced>>
  BY DEF StartRemoval
<1>4. epoch \in Nat /\ Root \in Names /\ ~IsLeaf(Root) /\ Len(Root) = 1
      /\ Root \in DOMAIN nodes
  BY RootName DEF ShapeInv, StateType, Root, NodesInv
<1> DEFINE w == [r EXCEPT !.pc = "walk", !.node = Root]
<1>5. \/ upd' = [upd EXCEPT ![u] = Resting]
      \/ r.todo # <<>> /\ upd' = [upd EXCEPT ![u] = w]
  BY <1>1 DEF StartRemoval, ShapeInv, StateType
<1>6. /\ w \in Call /\ w.pc = "walk" /\ w.node = Root /\ w.kind = r.kind /\ w.drop = r.drop
      /\ w.todo = r.todo /\ w.marks = r.marks /\ w.done = r.done /\ w.alone = r.alone
  BY <1>2, <1>4 DEF Call
<1> HIDE DEF w
<1>7. r.todo # <<>> => CallOk(DOMAIN nodes', w)
  <2>1. Through(Root, At(w))
    BY <1>4 DEF Through
  <2>2. QED
    BY <1>2, <1>3, <1>4, <1>6, <2>1 DEF CallOk
<1>8. TouchedIn(w) \subseteq TouchedIn(r)
  BY <1>2, <1>6 DEF TouchedIn
<1>9. Computing # {} => raced \subseteq raced' /\ TouchedIn(r) \subseteq raced'
  BY <1>1, <1>3, TouchedIs DEF ShapeInv, MeetInv
<1>10. r.alone => Computing = {}
  BY <1>1, <1>2 DEF ShapeInv, MeetInv
<1>11. Resting \in Call /\ CallOk(DOMAIN nodes', Resting) /\ Resting.pc = "idle"
       /\ TouchedIn(Resting) = {}
  BY RestingType DEF Resting, TouchedIn
<1>12. upd' \in [Updaters -> Call] /\ CallsInv' /\ MeetInv' /\ FramesInv'
  <2>1. DOMAIN nodes \subseteq DOMAIN nodes' /\ comp' = comp
    BY <1>3
  <2>2. CASE upd' = [upd EXCEPT ![u] = Resting]
    BY <1>9, <1>11, <2>1, <2>2, CallerShape
  <2>3. CASE r.todo # <<>> /\ upd' = [upd EXCEPT ![u] = w]
    BY <1>6, <1>7, <1>8, <1>9, <1>10, <2>1, <2>3, CallerShape
  <2>4. QED
    BY <1>5, <2>2, <2>3
<1>13. NodesInv'
  BY <1>3, SameNodes DEF ShapeInv
<1>14. StateType'
  BY <1>3, <1>12 DEF ShapeInv, StateType
<1>15. QED
  BY <1>12, <1>13, <1>14 DEF ShapeInv

\* The root is there.
LEMMA RootIn ==
  ASSUME ShapeInv
  PROVE  /\ epoch \in Nat /\ Root = <<epoch>> /\ Root \in Names /\ ~IsLeaf(Root)
         /\ Len(Root) = 1 /\ Root \in DOMAIN nodes
BY RootName DEF ShapeInv, StateType, Root, NodesInv

\* What Unwind leaves of a call.
LEMMA UnwindIs ==
  ASSUME ShapeInv, NEW r \in Call, r.todo # <<>>
  PROVE  /\ Unwind(r) \in Call /\ Unwind(r).kind = r.kind /\ Unwind(r).drop = r.drop
         /\ Unwind(r).marks = r.marks /\ Unwind(r).alone = r.alone
         /\ r.marks # <<>> => /\ Unwind(r).pc = "mark" /\ Unwind(r).todo = r.todo
                             /\ Unwind(r).done = r.done /\ Unwind(r).node = r.node
         /\ r.marks = <<>> =>
              /\ Unwind(r).pc \in {"walk", "invalidate"} /\ Unwind(r).todo = Tail(r.todo)
              /\ Unwind(r).pc = "walk" => Len(r.todo) # 1
              /\ Unwind(r).done = r.done \cup {At(r)} /\ Unwind(r).node = Root
<1>1. Tail(r.todo) \in Seq(Item) /\ Head(r.todo) \in Item
  BY DEF Call
<1>2. Path(Head(r.todo).id) \in Paths /\ Path(Head(r.todo).id) = At(r)
  BY <1>1 DEF Paths, Item, At
<1>3. Root \in Names
  BY RootIn
<1>4. CASE r.marks # <<>>
  <2>1. Unwind(r) = [r EXCEPT !.pc = "mark"]
    BY <1>4 DEF Unwind
  <2>2. QED
    BY <2>1, <1>4 DEF Call
<1>5. CASE r.marks = <<>>
  <2>1. PICK pc : pc = IF Len(r.todo) = 1 THEN "invalidate" ELSE "walk"
    OBVIOUS
  <2>2. Unwind(r) = [r EXCEPT !.todo = Tail(@), !.done = @ \cup {At(r)}, !.node = Root, !.pc = pc]
    BY <1>5, <1>2, <2>1 DEF Unwind
  <2>3. r.done \cup {At(r)} \in SUBSET Paths
    BY <1>2 DEF Call
  <2>4. QED
    BY <2>1, <2>2, <2>3, <1>1, <1>3, <1>5 DEF Call
<1>6. QED
  BY <1>4, <1>5

\* Unwind keeps the shape of a call.
LEMMA UnwindShape ==
  ASSUME ShapeInv, NEW N, Root \in N, NEW r \in Call, r.todo # <<>>,
         \A k \in DOMAIN r.marks : r.marks[k] \in N /\ ~IsLeaf(r.marks[k]),
         r.kind # "clear", r.pc # "idle"
  PROVE  /\ CallOk(N, Unwind(r)) /\ TouchedIn(Unwind(r)) \subseteq TouchedIn(r)
         /\ Unwind(r).pc # "idle"
<1>1. PICK q : q = Unwind(r)
  OBVIOUS
<1>2. r.todo \in Seq(Item) /\ Head(r.todo) \in ToSet(r.todo)
      /\ ToSet(Tail(r.todo)) \subseteq ToSet(r.todo)
      /\ (Len(r.todo) # 1 => Tail(r.todo) # <<>>)
  <2>1. PICK t : t = r.todo
    OBVIOUS
  <2>2. t \in Seq(Item) /\ t # <<>>
    BY <2>1 DEF Call
  <2>3. Head(t) = t[1] /\ 1 \in DOMAIN t /\ (Len(t) # 1 => Tail(t) # <<>>)
    <3>0. PICK l, w : l = Len(t) /\ w = Tail(t)
      OBVIOUS
    <3>1. l \in Nat /\ l >= 1 /\ Head(t) = t[1] /\ 1 \in DOMAIN t
      BY <2>2, <3>0
    <3>2. w \in Seq(Item) /\ Len(w) = l - 1
      BY <2>2, <3>0
    <3>3. ASSUME l # 1
          PROVE  w # <<>>
      <4>1. Len(w) >= 1
        BY <3>1, <3>2, <3>3
      <4>2. QED
        BY <3>2, <4>1
    <3>4. QED
      BY <3>0, <3>1, <3>3
  <2>4. \A i \in DOMAIN Tail(t) : i + 1 \in DOMAIN t /\ Tail(t)[i] = t[i + 1]
    BY <2>2
  <2>5. Head(t) \in ToSet(t) /\ ToSet(Tail(t)) \subseteq ToSet(t)
    BY <2>3, <2>4 DEF ToSet
  <2>6. QED
    BY <2>1, <2>2, <2>3, <2>5
<1>3. At(r) \in PathsOf(r.todo) /\ PathsOf(Tail(r.todo)) \subseteq PathsOf(r.todo)
  BY <1>2 DEF At, PathsOf
<1>4. ~IsLeaf(Root) /\ Through(Root, At(q))
  <2>1. Len(Root) = 1 /\ ~IsLeaf(Root)
    BY RootIn
  <2>2. QED
    BY <2>1 DEF Through
<1>5. CASE r.marks # <<>>
  <2>1. q.pc = "mark" /\ q.todo = r.todo /\ q.marks = r.marks /\ q.kind = r.kind
        /\ q.done = r.done /\ q.drop = r.drop
    BY <1>1, <1>5, UnwindIs
  <2>2. CallOk(N, q)
    BY <1>5, <2>1 DEF CallOk
  <2>3. TouchedIn(q) \subseteq TouchedIn(r)
    BY <2>1 DEF TouchedIn
  <2>4. QED
    BY <1>1, <2>1, <2>2, <2>3
<1>6. CASE r.marks = <<>>
  <2>1. /\ q.pc \in {"walk", "invalidate"} /\ q.todo = Tail(r.todo) /\ q.node = Root
        /\ q.pc = "walk" => Len(r.todo) # 1
        /\ q.marks = r.marks /\ q.kind = r.kind /\ q.done = r.done \cup {At(r)} /\ q.drop = r.drop
    BY <1>1, <1>6, UnwindIs
  <2>2. CallOk(N, q)
    BY <1>2, <1>4, <1>6, <2>1 DEF CallOk
  <2>3. TouchedIn(q) \subseteq TouchedIn(r)
    BY <1>3, <2>1 DEF TouchedIn
  <2>4. QED
    BY <1>1, <2>1, <2>2, <2>3
<1>7. QED
  BY <1>5, <1>6

\* The nodes ns with the flag of node n set.
Flagged(ns, n) == [ns EXCEPT ![n].dirty = TRUE]

\* Setting the flag of one node.
LEMMA MarkedNodes ==
  ASSUME NEW D, NEW ns \in [D -> Node], NEW n \in D
  PROVE  /\ Flagged(ns, n) \in [D -> Node] /\ DOMAIN Flagged(ns, n) = D
         /\ Flagged(ns, n)[n].dirty = TRUE
         /\ \A x \in D : Flagged(ns, n)[x].value = ns[x].value
         /\ \A x \in D : Flagged(ns, n)[x].hash = ns[x].hash
         /\ \A x \in D : x # n => Flagged(ns, n)[x] = ns[x]
BY DEF Node, Flagged

\* Adding a node.
LEMMA AddedNode ==
  ASSUME ShapeInv, NEW n, NEW nd \in Node, n \notin DOMAIN nodes
  PROVE  /\ WithNode(n, nd) \in [DOMAIN nodes \cup {n} -> Node]
         /\ WithNode(n, nd)[n] = nd
         /\ \A x \in DOMAIN nodes : WithNode(n, nd)[x] = nodes[x]
BY DEF ShapeInv, NodesInv, WithNode

\* What new nodes are.
LEMMA NewNodes ==
  /\ NewNode \in Node /\ NewNode.hash = None /\ NewNode.value = None
  /\ \A i \in Item : /\ NewLeaf(i) \in Node /\ NewLeaf(i).hash = None
                     /\ NewLeaf(i).value = i /\ NewLeaf(i).dirty = TRUE
<1>1. NewNode \in Node /\ NewNode.hash = None /\ NewNode.value = None
  BY DEF NewNode, Node, LeafHash
<1>2. ASSUME NEW i \in Item
      PROVE  /\ NewLeaf(i) \in Node /\ NewLeaf(i).hash = None
             /\ NewLeaf(i).value = i /\ NewLeaf(i).dirty = TRUE
  BY <1>1 DEF NewLeaf, Node
<1>3. QED
  BY <1>1, <1>2

\* The nodes are as they should be after a step that changes no hash but to
\* one that is all right.
LEMMA NodesFrom ==
  ASSUME ShapeInv, nodes' \in [DOMAIN nodes' -> Node], DOMAIN nodes \subseteq DOMAIN nodes',
         epoch' \in Nat, epoch <= epoch', Root' \in DOMAIN nodes',
         \A n \in DOMAIN nodes : \/ nodes'[n].hash = nodes[n].hash
                                \/ NodeOk(epoch', DOMAIN nodes', n, nodes'[n]),
         \A n \in DOMAIN nodes' \ DOMAIN nodes : NodeOk(epoch', DOMAIN nodes', n, nodes'[n])
  PROVE  NodesInv'
<1>1. SUFFICES ASSUME NEW n \in DOMAIN nodes, nodes'[n].hash = nodes[n].hash
               PROVE  NodeOk(epoch', DOMAIN nodes', n, nodes'[n])
  BY DEF NodesInv
<1>2. NodeOk(epoch, DOMAIN nodes, n, nodes[n]) /\ epoch \in Nat
  BY DEF ShapeInv, NodesInv, StateType
<1>3. NodeOk(epoch, DOMAIN nodes', n, nodes[n])
  BY <1>2, NodeGrows
<1>4. n[1] <= epoch'
  BY <1>2, NameType DEF NodeOk
<1>5. nodes'[n] \in Node
  OBVIOUS
<1>6. QED
  BY <1>1, <1>3, <1>4, <1>5 DEF NodeOk

\* The child a call looks for is on the way to its leaf.
LEMMA ChildWay ==
  ASSUME NEW n \in Names, ~IsLeaf(n), NEW k \in Letters, NEW N,
         Reached(N, n)
  PROVE  Reached(N \cup {Append(n, k)}, Append(n, k))
<1> DEFINE m == Append(n, k)
<1> DEFINE L == Len(n)
<1>1. L = Len(n)
  OBVIOUS
<1>2. n \in Seq(Letters) /\ L \in Nat
  BY <1>1, NameType
<1>3. m \in Seq(Letters) /\ Len(m) = L + 1 /\ \A j \in 1 .. L : m[j] = n[j]
  BY <1>1, <1>2
<1>3a. \A i \in 1 .. L : SubSeq(n, 1, i) \in N
  BY DEF Reached
<1>4. SUFFICES ASSUME NEW i \in 1 .. Len(m)
               PROVE  SubSeq(m, 1, i) \in N \cup {m}
  BY DEF Reached
<1> HIDE DEF L, m
<1>5. i \in Nat /\ SubSeq(m, 1, i) \in Seq(Letters) /\ Len(SubSeq(m, 1, i)) = i
      /\ \A j \in 1 .. i : SubSeq(m, 1, i)[j] = m[j]
  BY <1>2, <1>3
<1>6. CASE i = L + 1
  <2>1. SubSeq(m, 1, i) = m
    BY <1>3, <1>5, <1>6
  <2>2. QED
    BY <2>1
<1>7. CASE i # L + 1
  <2>1. i \in 1 .. L
    BY <1>2, <1>3, <1>5, <1>7
  <2>2. SubSeq(n, 1, i) \in Seq(Letters) /\ Len(SubSeq(n, 1, i)) = i
        /\ \A j \in 1 .. i : SubSeq(n, 1, i)[j] = n[j]
    BY <1>1, <1>2, <2>1
  <2>2a. \A j \in 1 .. i : j \in 1 .. L
    BY <1>2, <2>1
  <2>3. \A j \in 1 .. i : SubSeq(m, 1, i)[j] = SubSeq(n, 1, i)[j]
    BY <1>3, <1>5, <2>2, <2>2a
  <2>4. SubSeq(m, 1, i) = SubSeq(n, 1, i)
    BY <1>5, <2>2, <2>3
  <2>5. QED
    BY <1>3a, <2>1, <2>4
<1>8. QED
  BY <1>6, <1>7

\* Where call r is when it walks: at an inner node n, on its way to p.
Walking(r, n, p, child) ==
  /\ r \in Call /\ CallOk(DOMAIN nodes, r) /\ r.todo # <<>> /\ r.todo \in Seq(Item)
  /\ n = r.node /\ p = At(r) /\ Head(r.todo) \in Item
  /\ p \in Paths /\ p \in TouchedIn(r) /\ r.kind # "clear"
  /\ n \in DOMAIN nodes /\ n \in Names /\ ~IsLeaf(n) /\ Through(n, p)
  /\ Len(n) \in Nat /\ Len(n) >= 1 /\ Len(n) <= MaxDepth
  /\ child \in Names /\ Len(child) = Len(n) + 1 /\ child[1] = n[1] /\ n[1] <= epoch
  /\ Through(child, p) /\ (LeafParent(n) <=> IsLeaf(child))
  /\ Reached(DOMAIN nodes \cup {child}, child)

\* Where a walking call is.
LEMMA WalkAt ==
  ASSUME ShapeInv, NEW u \in Updaters, NEW r, r = upd[u], r.pc = "walk"
  PROVE  Walking(r, r.node, At(r), Append(r.node, At(r)[Len(r.node)]))
<1>0. PICK n, p, child : n = r.node /\ p = At(r) /\ child = Append(n, p[Len(n)])
  OBVIOUS
<1>1. /\ r \in Call /\ CallOk(DOMAIN nodes, r) /\ r.todo # <<>> /\ r.todo \in Seq(Item)
  BY DEF ShapeInv, StateType, CallsInv, CallOk, Call
<1>2. p \in Paths /\ p \in TouchedIn(r) /\ r.kind # "clear" /\ Head(r.todo) \in Item
  BY <1>0, <1>1, WorkTouched
<1>3. n \in DOMAIN nodes /\ ~IsLeaf(n) /\ Through(n, p)
  BY <1>0, <1>1 DEF CallOk
<1>4. n \in Names /\ n[1] <= epoch /\ Reached(DOMAIN nodes, n)
  BY <1>3 DEF ShapeInv, NodesInv, NodeOk
<1>5. Len(n) \in Nat /\ Len(n) >= 1 /\ Len(n) <= MaxDepth
  BY <1>3, <1>4, NameType, Depth DEF IsLeaf
<1>6. p[Len(n)] \in Letters
  BY <1>2, <1>5, PathType, Depth
<1>7. /\ child \in Names /\ Len(child) = Len(n) + 1 /\ child[1] = n[1] /\ Through(child, p)
  BY <1>0, <1>2, <1>3, <1>4, <1>6, ChildName
<1>8. LeafParent(n) <=> IsLeaf(child)
  BY <1>5, <1>7, Depth DEF LeafParent, IsLeaf
<1>9. Reached(DOMAIN nodes \cup {child}, child)
  BY <1>0, <1>3, <1>4, <1>6, ChildWay
<1>10. Walking(r, n, p, child)
  BY <1>0, <1>1, <1>2, <1>3, <1>4, <1>5, <1>7, <1>8, <1>9 DEF Walking
<1>11. QED
  BY <1>0, <1>10

\* The three things a step down can do, with the nodes it makes or marks.
WalkFound(u, r, n, child) ==
  /\ child \in DOMAIN nodes
  /\ upd' = [upd EXCEPT ![u] = [r EXCEPT !.node = child, !.marks = Append(@, n),
                                  !.pc = IF IsLeaf(child) THEN "leaf" ELSE "walk"]]
  /\ UNCHANGED <<nodes, dirtyNodes>>

WalkNew(u, r, n, child) ==
  /\ child \notin DOMAIN nodes
  /\ r.kind = "insert"
  /\ nodes' = [WithNode(child, IF IsLeaf(child) THEN NewLeaf(Head(r.todo)) ELSE NewNode)
                  EXCEPT ![n].dirty = TRUE]
  /\ dirtyNodes' = dirtyNodes + 1
  /\ upd' = [upd EXCEPT ![u] = IF IsLeaf(child) THEN Unwind(r) ELSE [r EXCEPT !.node = child]]

WalkLost(u, r, n, child) ==
  /\ child \notin DOMAIN nodes
  /\ r.kind # "insert"
  /\ upd' = [upd EXCEPT ![u] = Unwind(r)]
  /\ UNCHANGED <<nodes, dirtyNodes>>

\* The three outcomes of Walk: a child, a new child, none.
LEMMA WalkIs ==
  ASSUME ShapeInv, NEW u \in Updaters, Walk(u),
         NEW r, r = upd[u]
  PROVE  \E n, p, child :
           /\ r.pc = "walk" /\ Walking(r, n, p, child)
           /\ UNCHANGED <<items, epoch, cachedRoot, rootCacheValid, comp, budget, raced>>
           /\ WalkFound(u, r, n, child) \/ WalkNew(u, r, n, child) \/ WalkLost(u, r, n, child)
<1>0. PICK n, p, child : n = r.node /\ p = At(r) /\ child = Append(n, p[Len(n)])
  OBVIOUS
<1>1. /\ r.pc = "walk"
      /\ UNCHANGED <<items, epoch, cachedRoot, rootCacheValid, comp, budget, raced>>
  BY DEF Walk
<1>2. Walking(r, n, p, child)
  BY <1>0, <1>1, WalkAt
<1>3. LeafParent(n) <=> IsLeaf(child)
  BY <1>2 DEF Walking
<1>4. WalkFound(u, r, n, child) \/ WalkNew(u, r, n, child) \/ WalkLost(u, r, n, child)
  BY <1>0, <1>1, <1>3 DEF Walk, MarkDirty, WalkFound, WalkNew, WalkLost, At
<1>5. QED
  BY <1>1, <1>2, <1>4

\* Walk keeps the shape.
LEMMA WalkShape ==
  ASSUME ShapeInv, NEW u \in Updaters, Walk(u)
  PROVE  ShapeInv'
<1>1. PICK r : r = upd[u]
  OBVIOUS
<1>2. PICK n, p, child :
        /\ r.pc = "walk" /\ Walking(r, n, p, child)
        /\ UNCHANGED <<items, epoch, cachedRoot, rootCacheValid, comp, budget, raced>>
        /\ WalkFound(u, r, n, child) \/ WalkNew(u, r, n, child) \/ WalkLost(u, r, n, child)
  BY <1>1, WalkIs
<1>3. /\ r \in Call /\ CallOk(DOMAIN nodes, r) /\ r.todo # <<>> /\ r.todo \in Seq(Item)
      /\ Head(r.todo) \in Item /\ n = r.node /\ p = At(r)
      /\ p \in Paths /\ p \in TouchedIn(r) /\ r.kind # "clear"
      /\ n \in DOMAIN nodes /\ n \in Names /\ ~IsLeaf(n) /\ Through(n, p)
      /\ child \in Names /\ child[1] = n[1] /\ n[1] <= epoch
      /\ Through(child, p) /\ Reached(DOMAIN nodes \cup {child}, child)
  BY <1>2 DEF Walking
<1>4. Computing # {} => raced \subseteq raced' /\ TouchedIn(r) \subseteq raced'
  BY <1>1, <1>2, TouchedIs DEF ShapeInv, MeetInv
<1>5. r.alone => Computing = {}
  BY <1>1, <1>2 DEF ShapeInv, MeetInv
<1>6. epoch \in Nat /\ Root \in DOMAIN nodes /\ Root' = Root
  BY <1>2, RootIn DEF Root
<1>7. dirtyNodes \in Nat
  BY DEF ShapeInv, StateType
<1>8. CASE WalkFound(u, r, n, child)
  <2>1. child \in DOMAIN nodes /\ UNCHANGED <<nodes, dirtyNodes>>
    BY <1>8 DEF WalkFound
  <2> DEFINE q == [r EXCEPT !.node = child, !.marks = Append(@, n),
                            !.pc = IF IsLeaf(child) THEN "leaf" ELSE "walk"]
  <2>2. upd' = [upd EXCEPT ![u] = q]
    BY <1>8 DEF WalkFound
  <2>3. r.marks \in Seq(Names) /\ Append(r.marks, n) \in Seq(Names)
    BY <1>3 DEF Call
  <2>4. /\ q \in Call /\ q.pc = (IF IsLeaf(child) THEN "leaf" ELSE "walk")
        /\ q.node = child /\ q.kind = r.kind /\ q.drop = r.drop /\ q.todo = r.todo
        /\ q.marks = Append(r.marks, n) /\ q.done = r.done /\ q.alone = r.alone
    BY <1>3, <2>3 DEF Call
  <2> HIDE DEF q
  <2>5. At(q) = p
    BY <1>3, <2>4 DEF At
  <2>6. \A k \in DOMAIN q.marks : q.marks[k] \in DOMAIN nodes /\ ~IsLeaf(q.marks[k])
    <3>1. \A k \in DOMAIN r.marks : r.marks[k] \in DOMAIN nodes /\ ~IsLeaf(r.marks[k])
      BY <1>3 DEF CallOk
    <3>2. \A k \in DOMAIN q.marks : q.marks[k] = n \/ (k \in DOMAIN r.marks /\ q.marks[k] = r.marks[k])
      BY <2>3, <2>4
    <3>3. QED
      BY <1>3, <3>1, <3>2
  <2>7. q.marks # <<>>
    BY <2>3, <2>4
  <2>8. CallOk(DOMAIN nodes', q)
    BY <1>2, <1>3, <2>1, <2>4, <2>5, <2>6, <2>7 DEF CallOk
  <2>9. TouchedIn(q) \subseteq TouchedIn(r)
    BY <1>2, <2>4 DEF TouchedIn
  <2>10. upd' \in [Updaters -> Call] /\ CallsInv' /\ MeetInv' /\ FramesInv'
    <3>1. DOMAIN nodes \subseteq DOMAIN nodes' /\ comp' = comp
      BY <1>2, <2>1
    <3>2. q.pc # "idle" /\ q.alone => Computing = {}
      BY <1>5, <2>4
    <3>3. Computing # {} => raced \subseteq raced' /\ TouchedIn(q) \subseteq raced'
      BY <1>4, <2>9
    <3>4. QED
      BY <2>2, <2>4, <2>8, <3>1, <3>2, <3>3, CallerShape
  <2>11. NodesInv'
    BY <1>2, <2>1, SameNodes DEF ShapeInv
  <2>12. StateType'
    BY <1>2, <2>1, <2>10 DEF ShapeInv, StateType
  <2>13. QED
    BY <2>10, <2>11, <2>12 DEF ShapeInv
<1>9. CASE WalkLost(u, r, n, child)
  <2>1. UNCHANGED <<nodes, dirtyNodes>> /\ upd' = [upd EXCEPT ![u] = Unwind(r)]
    BY <1>9 DEF WalkLost
  <2>2. \A k \in DOMAIN r.marks : r.marks[k] \in DOMAIN nodes' /\ ~IsLeaf(r.marks[k])
    BY <1>3, <2>1 DEF CallOk
  <2>3. /\ CallOk(DOMAIN nodes', Unwind(r)) /\ TouchedIn(Unwind(r)) \subseteq TouchedIn(r)
        /\ Unwind(r) \in Call /\ Unwind(r).alone = r.alone
    BY <1>2, <1>3, <1>6, <2>1, <2>2, UnwindShape, UnwindIs
  <2>4. upd' \in [Updaters -> Call] /\ CallsInv' /\ MeetInv' /\ FramesInv'
    <3>1. DOMAIN nodes \subseteq DOMAIN nodes' /\ comp' = comp
      BY <1>2, <2>1
    <3>2. QED
      BY <1>4, <1>5, <2>1, <2>3, <3>1, CallerShape
  <2>5. NodesInv'
    BY <1>2, <2>1, SameNodes DEF ShapeInv
  <2>6. StateType'
    BY <1>2, <2>1, <2>4 DEF ShapeInv, StateType
  <2>7. QED
    BY <2>4, <2>5, <2>6 DEF ShapeInv
<1>10. CASE WalkNew(u, r, n, child)
  <2>1. PICK nd : nd = IF IsLeaf(child) THEN NewLeaf(Head(r.todo)) ELSE NewNode
    OBVIOUS
  <2>2. nd \in Node /\ nd.hash = None
    BY <1>3, <2>1, NewNodes
  <2>3. PICK ns : ns = WithNode(child, nd)
    OBVIOUS
  <2>4. child \notin DOMAIN nodes /\ nodes' = [ns EXCEPT ![n].dirty = TRUE]
        /\ dirtyNodes' = dirtyNodes + 1
        /\ upd' = [upd EXCEPT ![u] = IF IsLeaf(child) THEN Unwind(r) ELSE [r EXCEPT !.node = child]]
    BY <1>10, <2>1, <2>3 DEF WalkNew
  <2>5. ns \in [DOMAIN nodes \cup {child} -> Node] /\ ns[child] = nd
        /\ \A x \in DOMAIN nodes : ns[x] = nodes[x]
    <3>1. /\ WithNode(child, nd) \in [DOMAIN nodes \cup {child} -> Node]
          /\ WithNode(child, nd)[child] = nd
          /\ \A x \in DOMAIN nodes : WithNode(child, nd)[x] = nodes[x]
      BY <2>2, <2>4, AddedNode, Zenon
    <3>2. QED
      BY <2>3, <3>1
  <2>6. /\ nodes' \in [DOMAIN nodes \cup {child} -> Node] /\ DOMAIN nodes' = DOMAIN nodes \cup {child}
        /\ \A x \in DOMAIN nodes \cup {child} : nodes'[x].hash = ns[x].hash
    <3>1. PICK D : D = DOMAIN nodes \cup {child}
      OBVIOUS
    <3>2. ns \in [D -> Node] /\ n \in D /\ nodes' = Flagged(ns, n)
      BY <1>3, <2>4, <2>5, <3>1 DEF Flagged
    <3>3. /\ Flagged(ns, n) \in [D -> Node] /\ DOMAIN Flagged(ns, n) = D
          /\ \A x \in D : Flagged(ns, n)[x].hash = ns[x].hash
      BY <3>2, MarkedNodes, ZenonT(60)
    <3>4. QED
      BY <3>1, <3>2, <3>3
  <2>7. NodesInv'
    <3>1. \A x \in DOMAIN nodes : nodes'[x].hash = nodes[x].hash
      BY <2>5, <2>6
    <3>2. NodeOk(epoch', DOMAIN nodes', child, nodes'[child])
      <4>1. nodes'[child] \in Node /\ nodes'[child].hash = None
        BY <2>2, <2>5, <2>6
      <4>2. IsLeaf(child) => Tail(child) \in Paths
        BY <1>3, LeafOn
      <4>3. None \in LeafHash /\ None \in NodeHash
        BY DEF LeafHash, NodeHash
      <4>4. QED
        BY <1>2, <1>3, <2>6, <4>1, <4>2, <4>3 DEF NodeOk
    <3>3. \A x \in DOMAIN nodes' \ DOMAIN nodes : x = child
      BY <2>6
    <3>4. Root' \in DOMAIN nodes' /\ epoch' \in Nat /\ epoch <= epoch'
          /\ nodes' \in [DOMAIN nodes' -> Node] /\ DOMAIN nodes \subseteq DOMAIN nodes'
      BY <1>2, <1>6, <2>6
    <3>5. QED
      BY <3>1, <3>2, <3>3, <3>4, NodesFrom
  <2>8. DOMAIN nodes \subseteq DOMAIN nodes' /\ comp' = comp /\ Root \in DOMAIN nodes'
    BY <1>2, <1>6, <2>6
  <2>9. \A k \in DOMAIN r.marks : r.marks[k] \in DOMAIN nodes' /\ ~IsLeaf(r.marks[k])
    BY <1>3, <2>8 DEF CallOk
  <2>10. upd' \in [Updaters -> Call] /\ CallsInv' /\ MeetInv' /\ FramesInv'
    <3>1. CASE IsLeaf(child)
      <4>1. /\ CallOk(DOMAIN nodes', Unwind(r)) /\ TouchedIn(Unwind(r)) \subseteq TouchedIn(r)
            /\ Unwind(r) \in Call /\ Unwind(r).alone = r.alone
        BY <1>2, <1>3, <2>8, <2>9, UnwindShape, UnwindIs
      <4>2. upd' = [upd EXCEPT ![u] = Unwind(r)]
        BY <2>4, <3>1
      <4>3. QED
        BY <1>4, <1>5, <2>8, <4>1, <4>2, CallerShape
    <3>2. CASE ~IsLeaf(child)
      <4> DEFINE q == [r EXCEPT !.node = child]
      <4>1. upd' = [upd EXCEPT ![u] = q]
        BY <2>4, <3>2
      <4>2. /\ q \in Call /\ q.pc = r.pc
            /\ q.node = child /\ q.kind = r.kind /\ q.drop = r.drop /\ q.todo = r.todo
            /\ q.marks = r.marks /\ q.done = r.done /\ q.alone = r.alone
        BY <1>3 DEF Call
      <4> HIDE DEF q
      <4>3. At(q) = p
        BY <1>3, <4>2 DEF At
      <4>4. CallOk(DOMAIN nodes', q)
        BY <1>2, <1>3, <2>6, <2>9, <3>2, <4>2, <4>3 DEF CallOk
      <4>5. TouchedIn(q) \subseteq TouchedIn(r)
        BY <4>2 DEF TouchedIn
      <4>6. q.pc # "idle" /\ q.alone => Computing = {}
        BY <1>5, <4>2
      <4>7. Computing # {} => raced \subseteq raced' /\ TouchedIn(q) \subseteq raced'
        BY <1>4, <4>5
      <4>8. QED
        BY <2>8, <4>1, <4>2, <4>4, <4>6, <4>7, CallerShape
    <3>3. QED
      BY <3>1, <3>2
  <2>11. StateType'
    BY <1>2, <1>7, <2>4, <2>10 DEF ShapeInv, StateType
  <2>12. QED
    BY <2>7, <2>10, <2>11 DEF ShapeInv
<1>11. QED
  BY <1>2, <1>8, <1>9, <1>10

\* A call at its leaf n, on the way to p, with what it makes of the node.
Leafing(r, n, p, nd) ==
  /\ r \in Call /\ CallOk(DOMAIN nodes, r) /\ r.pc = "leaf"
  /\ n = r.node /\ p = At(r) /\ p \in Paths /\ p \in TouchedIn(r) /\ r.kind # "clear"
  /\ n \in DOMAIN nodes /\ n \in Names /\ IsLeaf(n) /\ Through(n, p)
  /\ Head(r.todo) \in Item /\ nd \in Node
  /\ r.kind = "insert" => nd.value = Head(r.todo) /\ nd.dirty = TRUE /\ nd.hash = nodes[n].hash
  /\ r.kind # "insert" => nd.value = None /\ nd.dirty = FALSE /\ nd.hash = Deleted
  /\ nodes' = [nodes EXCEPT ![n] = nd]

\* What SetLeaf makes of a leaf.
LEMMA SetLeafIs ==
  ASSUME ShapeInv, NEW u \in Updaters, SetLeaf(u), NEW r, r = upd[u]
  PROVE  /\ \E n, p, nd : Leafing(r, n, p, nd)
         /\ upd' = [upd EXCEPT ![u] = [r EXCEPT !.pc = "mark"]]
         /\ UNCHANGED <<items, epoch, dirtyNodes, cachedRoot, rootCacheValid, comp, budget, raced>>
<1>1. r \in Call /\ CallOk(DOMAIN nodes, r) /\ r.pc = "leaf"
  BY DEF SetLeaf, ShapeInv, StateType, CallsInv
<1>2. PICK n, p : n = r.node /\ p = At(r)
  OBVIOUS
<1>3. p \in Paths /\ p \in TouchedIn(r) /\ r.kind # "clear" /\ Head(r.todo) \in Item
  BY <1>1, <1>2, WorkTouched
<1>4. n \in DOMAIN nodes /\ IsLeaf(n) /\ Through(n, p)
  BY <1>1, <1>2 DEF CallOk
<1>5. n \in Names /\ nodes[n] \in Node
  BY <1>4 DEF ShapeInv, NodesInv, NodeOk
<1>6. PICK nd : nd = IF r.kind = "insert" THEN [nodes[n] EXCEPT !.value = Head(r.todo), !.dirty = TRUE]
                     ELSE Removed(nodes[n])
  OBVIOUS
<1>7. nodes' = [nodes EXCEPT ![n] = nd]
  BY <1>2, <1>6 DEF SetLeaf
<1>8. CASE r.kind = "insert"
  <2>1. nd \in Node /\ nd.value = Head(r.todo) /\ nd.dirty = TRUE /\ nd.hash = nodes[n].hash
    BY <1>3, <1>5, <1>6, <1>8 DEF Node
  <2>2. Leafing(r, n, p, nd)
    BY <1>1, <1>2, <1>3, <1>4, <1>5, <1>7, <1>8, <2>1 DEF Leafing
  <2>3. QED
    BY <2>2 DEF SetLeaf
<1>9. CASE r.kind # "insert"
  <2>1. nd \in Node /\ nd.value = None /\ nd.dirty = FALSE /\ nd.hash = Deleted
    BY <1>5, <1>6, <1>9 DEF Node, Removed, LeafHash
  <2>2. Leafing(r, n, p, nd)
    BY <1>1, <1>2, <1>3, <1>4, <1>5, <1>7, <1>9, <2>1 DEF Leafing
  <2>3. QED
    BY <2>2 DEF SetLeaf
<1>10. QED
  BY <1>8, <1>9

\* SetLeaf keeps the shape.
LEMMA SetLeafShape ==
  ASSUME ShapeInv, NEW u \in Updaters, SetLeaf(u)
  PROVE  ShapeInv'
<1>1. PICK r : r = upd[u]
  OBVIOUS
<1>2. /\ \E n, p, nd : Leafing(r, n, p, nd)
      /\ upd' = [upd EXCEPT ![u] = [r EXCEPT !.pc = "mark"]]
      /\ UNCHANGED <<items, epoch, dirtyNodes, cachedRoot, rootCacheValid, comp, budget, raced>>
  BY <1>1, SetLeafIs
<1>3. PICK n, p, nd : Leafing(r, n, p, nd)
  BY <1>2
<1>4. /\ r \in Call /\ CallOk(DOMAIN nodes, r) /\ r.pc = "leaf" /\ r.kind # "clear"
      /\ n \in DOMAIN nodes /\ IsLeaf(n) /\ nd \in Node
      /\ nd.hash = nodes[n].hash \/ nd.hash = Deleted
      /\ nodes' = [nodes EXCEPT ![n] = nd]
  BY <1>3 DEF Leafing
<1>5. /\ nodes \in [DOMAIN nodes -> Node] /\ NodeOk(epoch, DOMAIN nodes, n, nodes[n])
      /\ epoch \in Nat /\ Root \in DOMAIN nodes /\ Root' = Root
  BY <1>2, <1>4, RootIn DEF ShapeInv, NodesInv, Root
<1>6. /\ nodes' \in [DOMAIN nodes -> Node] /\ DOMAIN nodes' = DOMAIN nodes /\ nodes'[n] = nd
      /\ \A x \in DOMAIN nodes : x # n => nodes'[x] = nodes[x]
  BY <1>4, <1>5
<1>7. NodeOk(epoch, DOMAIN nodes, n, nd)
  BY <1>4, <1>5 DEF NodeOk, LeafHash
<1>8. NodesInv'
  <2>1. \A x \in DOMAIN nodes : nodes'[x].hash = nodes[x].hash \/ NodeOk(epoch', DOMAIN nodes', x, nodes'[x])
    BY <1>2, <1>6, <1>7
  <2>2. Root' \in DOMAIN nodes' /\ epoch' \in Nat /\ epoch <= epoch'
        /\ nodes' \in [DOMAIN nodes' -> Node] /\ DOMAIN nodes \subseteq DOMAIN nodes'
        /\ DOMAIN nodes' \ DOMAIN nodes = {}
    BY <1>2, <1>5, <1>6
  <2>3. QED
    BY <2>1, <2>2, NodesFrom
<1> DEFINE q == [r EXCEPT !.pc = "mark"]
<1>9. /\ q \in Call /\ q.pc = "mark" /\ q.kind = r.kind /\ q.drop = r.drop /\ q.todo = r.todo
      /\ q.marks = r.marks /\ q.done = r.done /\ q.alone = r.alone
  BY <1>4 DEF Call
<1>10. upd' = [upd EXCEPT ![u] = q]
  BY <1>2
<1> HIDE DEF q
<1>11. CallOk(DOMAIN nodes', q)
  BY <1>4, <1>6, <1>9 DEF CallOk
<1>12. TouchedIn(q) = TouchedIn(r)
  BY <1>4, <1>9 DEF TouchedIn
<1>13. Computing # {} => raced \subseteq raced' /\ TouchedIn(q) \subseteq raced'
  BY <1>1, <1>2, <1>12, TouchedIs DEF ShapeInv, MeetInv
<1>14. q.pc # "idle" /\ q.alone => Computing = {}
  BY <1>1, <1>4, <1>9 DEF ShapeInv, MeetInv
<1>15. upd' \in [Updaters -> Call] /\ CallsInv' /\ MeetInv' /\ FramesInv'
  <2>1. DOMAIN nodes \subseteq DOMAIN nodes' /\ comp' = comp
    BY <1>2, <1>6
  <2>2. QED
    BY <1>9, <1>10, <1>11, <1>13, <1>14, <2>1, CallerShape
<1>16. StateType'
  BY <1>2, <1>15 DEF ShapeInv, StateType
<1>17. QED
  BY <1>8, <1>15, <1>16 DEF ShapeInv

\* A call about to set a flag, on the way to p: the node m, and the call q
\* that is left of it.
AtMark(r, p, m, q) ==
  /\ r \in Call /\ CallOk(DOMAIN nodes, r) /\ r.pc = "mark" /\ r.todo # <<>>
  /\ p = At(r) /\ p \in Paths /\ p \in TouchedIn(r) /\ r.kind # "clear"
  /\ m \in DOMAIN nodes /\ ~IsLeaf(m)
  /\ q \in Call /\ q.pc = "mark" /\ q.kind = r.kind /\ q.drop = r.drop /\ q.todo = r.todo
  /\ q.done = r.done /\ q.alone = r.alone /\ At(q) = p
  /\ \A k \in DOMAIN q.marks : k \in DOMAIN r.marks /\ q.marks[k] = r.marks[k]
  /\ \A k \in DOMAIN r.marks : k \in DOMAIN q.marks \/ r.marks[k] = m
  /\ nodes' = Flagged(nodes, m)

\* What Mark does: one flag, and one mark less.
LEMMA MarkIs ==
  ASSUME ShapeInv, NEW u \in Updaters, Mark(u), NEW r, r = upd[u]
  PROVE  /\ \E p, m, q : AtMark(r, p, m, q) /\ upd' = [upd EXCEPT ![u] = Unwind(q)]
         /\ dirtyNodes' \in Nat
         /\ UNCHANGED <<items, epoch, cachedRoot, rootCacheValid, comp, budget, raced>>
<1>1. r \in Call /\ CallOk(DOMAIN nodes, r) /\ r.pc = "mark"
  BY DEF Mark, ShapeInv, StateType, CallsInv
<1>2. r.todo # <<>> /\ r.marks # <<>> /\ r.marks \in Seq(Names)
  BY <1>1 DEF CallOk, Call
<1>3. PICK p, m, f : p = At(r) /\ m = Last(r.marks) /\ f = Front(r.marks)
  OBVIOUS
<1>4. p \in Paths /\ p \in TouchedIn(r) /\ r.kind # "clear"
  BY <1>1, <1>3, WorkTouched
<1>5. PICK L : L = Len(r.marks)
  OBVIOUS
<1>6. L \in Nat /\ L >= 1 /\ DOMAIN r.marks = 1 .. L /\ m = r.marks[L] /\ f = SubSeq(r.marks, 1, L - 1)
  BY <1>2, <1>3, <1>5 DEF Last, Front
<1>7. f \in Seq(Names) /\ DOMAIN f = 1 .. L - 1 /\ \A k \in 1 .. L - 1 : f[k] = r.marks[k]
  BY <1>2, <1>5, <1>6
<1>8. m \in DOMAIN nodes /\ ~IsLeaf(m)
  BY <1>1, <1>6 DEF CallOk
<1> DEFINE q == [r EXCEPT !.marks = f]
<1>9. /\ q \in Call /\ q.pc = "mark" /\ q.kind = r.kind /\ q.drop = r.drop /\ q.todo = r.todo
      /\ q.done = r.done /\ q.alone = r.alone /\ q.marks = f
  BY <1>1, <1>7 DEF Call
<1>10. upd' = [upd EXCEPT ![u] = Unwind(q)]
  <2>1. [upd[u] EXCEPT !.marks = Front(@)] = q
    BY <1>1, <1>3
  <2>2. PICK x : x = [upd[u] EXCEPT !.marks = Front(@)]
    OBVIOUS
  <2>3. upd' = [upd EXCEPT ![u] = Unwind(x)]
    BY <2>2 DEF Mark
  <2>4. QED
    BY <2>1, <2>2, <2>3
<1> HIDE DEF q
<1>11. At(q) = p
  BY <1>3, <1>9 DEF At
<1>12. nodes' = Flagged(nodes, m)
  BY <1>3 DEF Mark, MarkDirty, Flagged
<1>13. \A k \in DOMAIN r.marks : k \in DOMAIN f \/ r.marks[k] = m
  BY <1>6, <1>7
<1>14. \A k \in DOMAIN f : k \in DOMAIN r.marks /\ f[k] = r.marks[k]
  BY <1>6, <1>7
<1>15. AtMark(r, p, m, q)
  BY <1>1, <1>2, <1>3, <1>4, <1>8, <1>9, <1>11, <1>12, <1>13, <1>14 DEF AtMark
<1>16. dirtyNodes' \in Nat
  BY DEF Mark, MarkDirty, ShapeInv, StateType
<1>17. QED
  BY <1>10, <1>15, <1>16 DEF Mark

\* Mark keeps the shape.
LEMMA MarkShape ==
  ASSUME ShapeInv, NEW u \in Updaters, Mark(u)
  PROVE  ShapeInv'
<1>1. PICK r : r = upd[u]
  OBVIOUS
<1>2. /\ dirtyNodes' \in Nat
      /\ UNCHANGED <<items, epoch, cachedRoot, rootCacheValid, comp, budget, raced>>
  BY <1>1, MarkIs
<1>3. PICK p, m, q : AtMark(r, p, m, q) /\ upd' = [upd EXCEPT ![u] = Unwind(q)]
  BY <1>1, MarkIs
<1>4. /\ r \in Call /\ CallOk(DOMAIN nodes, r) /\ r.pc = "mark" /\ r.todo # <<>>
      /\ r.kind # "clear" /\ m \in DOMAIN nodes
      /\ q \in Call /\ q.pc = "mark" /\ q.kind = r.kind /\ q.drop = r.drop /\ q.todo = r.todo
      /\ q.done = r.done /\ q.alone = r.alone
      /\ \A k \in DOMAIN q.marks : k \in DOMAIN r.marks /\ q.marks[k] = r.marks[k]
      /\ nodes' = Flagged(nodes, m)
  BY <1>3 DEF AtMark
<1>5. nodes \in [DOMAIN nodes -> Node] /\ epoch \in Nat /\ Root \in DOMAIN nodes /\ Root' = Root
  BY <1>2, RootIn DEF ShapeInv, NodesInv, Root
<1>6. /\ nodes' \in [DOMAIN nodes -> Node] /\ DOMAIN nodes' = DOMAIN nodes
      /\ \A x \in DOMAIN nodes : nodes'[x].hash = nodes[x].hash
  <2>1. PICK D : D = DOMAIN nodes
    OBVIOUS
  <2>2. nodes \in [D -> Node] /\ m \in D
    BY <1>4, <1>5, <2>1
  <2>3. /\ Flagged(nodes, m) \in [D -> Node] /\ DOMAIN Flagged(nodes, m) = D
        /\ \A x \in D : Flagged(nodes, m)[x].hash = nodes[x].hash
    BY <2>2, MarkedNodes, ZenonT(60)
  <2>4. QED
    BY <1>4, <2>1, <2>3
<1>7. NodesInv'
  <2>1. Root' \in DOMAIN nodes' /\ epoch' \in Nat /\ epoch <= epoch'
        /\ nodes' \in [DOMAIN nodes' -> Node] /\ DOMAIN nodes \subseteq DOMAIN nodes'
        /\ DOMAIN nodes' \ DOMAIN nodes = {}
    BY <1>2, <1>5, <1>6
  <2>2. QED
    BY <1>6, <2>1, NodesFrom
<1>8. \A k \in DOMAIN q.marks : q.marks[k] \in DOMAIN nodes' /\ ~IsLeaf(q.marks[k])
  BY <1>4, <1>6 DEF CallOk
<1>9. /\ CallOk(DOMAIN nodes', Unwind(q)) /\ TouchedIn(Unwind(q)) \subseteq TouchedIn(q)
      /\ Unwind(q) \in Call /\ Unwind(q).alone = q.alone
  BY <1>4, <1>5, <1>6, <1>8, UnwindShape, UnwindIs
<1>10. TouchedIn(q) = TouchedIn(r)
  BY <1>4 DEF TouchedIn
<1>11. Computing # {} => raced \subseteq raced' /\ TouchedIn(Unwind(q)) \subseteq raced'
  BY <1>1, <1>2, <1>9, <1>10, TouchedIs DEF ShapeInv, MeetInv
<1>12. q.alone => Computing = {}
  BY <1>1, <1>4 DEF ShapeInv, MeetInv
<1>13. upd' \in [Updaters -> Call] /\ CallsInv' /\ MeetInv' /\ FramesInv'
  <2>1. DOMAIN nodes \subseteq DOMAIN nodes' /\ comp' = comp
    BY <1>2, <1>6
  <2>2. QED
    BY <1>3, <1>9, <1>11, <1>12, <2>1, CallerShape
<1>14. StateType'
  BY <1>2, <1>13 DEF ShapeInv, StateType
<1>15. QED
  BY <1>7, <1>13, <1>14 DEF ShapeInv

\* Invalidate keeps the shape.
LEMMA InvalidateShape ==
  ASSUME ShapeInv, NEW u \in Updaters, Invalidate(u)
  PROVE  ShapeInv'
<1>1. PICK r : r = upd[u]
  OBVIOUS
<1>2. r \in Call /\ r.pc = "invalidate"
  BY <1>1 DEF Invalidate, ShapeInv, StateType
<1>3. /\ UNCHANGED <<items, nodes, epoch, dirtyNodes, cachedRoot, comp, budget>>
      /\ rootCacheValid' = FALSE
      /\ upd' = [upd EXCEPT ![u] = Resting]
  BY DEF Invalidate
<1>4. Computing # {} => raced \subseteq raced'
  BY <1>1, <1>2 DEF Invalidate, ShapeInv, MeetInv
<1>5. Resting \in Call /\ CallOk(DOMAIN nodes', Resting) /\ Resting.pc = "idle"
      /\ TouchedIn(Resting) = {}
  BY RestingType DEF Resting, TouchedIn
<1>6. upd' \in [Updaters -> Call] /\ CallsInv' /\ MeetInv' /\ FramesInv'
  <2>1. DOMAIN nodes \subseteq DOMAIN nodes' /\ comp' = comp
    BY <1>3
  <2>2. QED
    BY <1>3, <1>4, <1>5, <2>1, CallerShape
<1>7. NodesInv'
  BY <1>3, SameNodes DEF ShapeInv
<1>8. StateType'
  BY <1>3, <1>6 DEF ShapeInv, StateType
<1>9. QED
  BY <1>6, <1>7, <1>8 DEF ShapeInv

\* ClearEnd keeps the shape.
LEMMA ClearEndShape ==
  ASSUME ShapeInv, NEW u \in Updaters, ClearEnd(u)
  PROVE  ShapeInv'
<1>1. PICK r : r = upd[u]
  OBVIOUS
<1>2. r \in Call /\ r.pc = "clearing"
  BY <1>1 DEF ClearEnd, ShapeInv, StateType
<1>3. /\ UNCHANGED <<items, nodes, epoch, cachedRoot, comp, budget>>
      /\ rootCacheValid' = FALSE /\ dirtyNodes' = 0
      /\ upd' = [upd EXCEPT ![u] = Resting]
  BY DEF ClearEnd
<1>4. Computing # {} => raced \subseteq raced'
  BY <1>1, <1>2 DEF ClearEnd, ShapeInv, MeetInv
<1>5. Resting \in Call /\ CallOk(DOMAIN nodes', Resting) /\ Resting.pc = "idle"
      /\ TouchedIn(Resting) = {}
  BY RestingType DEF Resting, TouchedIn
<1>6. upd' \in [Updaters -> Call] /\ CallsInv' /\ MeetInv' /\ FramesInv'
  <2>1. DOMAIN nodes \subseteq DOMAIN nodes' /\ comp' = comp
    BY <1>3
  <2>2. QED
    BY <1>3, <1>4, <1>5, <2>1, CallerShape
<1>7. NodesInv'
  BY <1>3, SameNodes DEF ShapeInv
<1>8. StateType'
  BY <1>3, <1>6 DEF ShapeInv, StateType
<1>9. QED
  BY <1>6, <1>7, <1>8 DEF ShapeInv

\* Clear adds the root of the next epoch, and no other node is of that epoch.
LEMMA ClearNodes ==
  ASSUME ShapeInv, epoch' = epoch + 1, nodes' = WithNode(<<epoch + 1>>, NewNode)
  PROVE  /\ <<epoch + 1>> \notin DOMAIN nodes /\ <<epoch + 1>> \in Names
         /\ nodes' \in [DOMAIN nodes \cup {<<epoch + 1>>} -> Node]
         /\ nodes'[<<epoch + 1>>] = NewNode
         /\ \A x \in DOMAIN nodes : nodes'[x] = nodes[x] /\ x[1] # epoch'
<1>1. epoch \in Nat /\ epoch + 1 \in Nat
  BY RootIn
<1>2. <<epoch + 1>> \in Names
  BY <1>1, RootName
<1>3. \A x \in DOMAIN nodes : x[1] \in Nat /\ x[1] <= epoch
  BY NameType DEF ShapeInv, NodesInv, NodeOk
<1>4. <<epoch + 1>> \notin DOMAIN nodes
  <2>1. SUFFICES ASSUME <<epoch + 1>> \in DOMAIN nodes
                 PROVE  FALSE
    OBVIOUS
  <2>2. <<epoch + 1>>[1] <= epoch
    BY <2>1, <1>3
  <2>3. QED
    BY <1>1, <2>2
<1>5. NewNode \in Node
  BY NewNodes
<1>6. PICK n : n = <<epoch + 1>>
  OBVIOUS
<1>6a. n \notin DOMAIN nodes
  BY <1>4, <1>6
<1>7. /\ WithNode(n, NewNode) \in [DOMAIN nodes \cup {n} -> Node]
      /\ WithNode(n, NewNode)[n] = NewNode
      /\ \A x \in DOMAIN nodes : WithNode(n, NewNode)[x] = nodes[x]
  BY <1>5, <1>6a, AddedNode, Zenon
<1>8. \A x \in DOMAIN nodes : x[1] # epoch'
  BY <1>1, <1>3
<1>9. nodes' = WithNode(n, NewNode)
  BY <1>6, Zenon
<1>10. QED
  BY <1>2, <1>4, <1>6, <1>7, <1>8, <1>9

\* Clear keeps the shape.
LEMMA ClearShape ==
  ASSUME ShapeInv, NEW u \in Updaters, Clear(u)
  PROVE  ShapeInv'
<1> DEFINE b == Computing = {}
<1>b. b = TRUE \/ b = FALSE
  OBVIOUS
<1> DEFINE r == [Resting EXCEPT !.pc = "clearing", !.kind = "clear", !.alone = b]
<1>1. upd' = [upd EXCEPT ![u] = r] /\ UNCHANGED <<dirtyNodes, cachedRoot, rootCacheValid, comp>>
      /\ epoch' = epoch + 1 /\ nodes' = WithNode(<<epoch + 1>>, NewNode)
      /\ items' = [id \in Ids |-> None]
  BY DEF Clear
<1>2. /\ r.pc = "clearing" /\ r.kind = "clear" /\ r.todo = <<>>
      /\ r.marks = <<>> /\ r.done = {} /\ r.alone = b /\ r \in Call
  <2> HIDE DEF b
  <2>1. b \in BOOLEAN
    BY <1>b
  <2>2. r \in Call
    BY <2>1, RestingType DEF Call
  <2>3. QED
    BY <2>2 DEF Resting
<1> HIDE DEF r
<1>3. CallOk(DOMAIN nodes', r)
  BY <1>2 DEF CallOk
<1>4. TouchedIn(r) = Paths
  BY <1>2 DEF TouchedIn
<1>5. Computing # {} => raced \subseteq raced' /\ TouchedIn(r) \subseteq raced'
  BY <1>4 DEF Clear, Meet
<1>6. PICK n : n = <<epoch + 1>>
  OBVIOUS
<1>7. /\ n \notin DOMAIN nodes /\ n \in Names
      /\ nodes' \in [DOMAIN nodes \cup {n} -> Node] /\ nodes'[n] = NewNode
      /\ \A x \in DOMAIN nodes : nodes'[x] = nodes[x]
  BY <1>1, <1>6, ClearNodes
<1>8. DOMAIN nodes' = DOMAIN nodes \cup {n}
  BY <1>7
<1>9. upd' \in [Updaters -> Call] /\ CallsInv' /\ MeetInv' /\ FramesInv'
  <2>1. DOMAIN nodes \subseteq DOMAIN nodes' /\ comp' = comp
    BY <1>1, <1>8
  <2>2. QED
    BY <1>1, <1>2, <1>3, <1>5, <2>1, CallerShape
<1>10. epoch \in Nat /\ epoch' \in Nat /\ epoch <= epoch' /\ Root' = n
  BY <1>1, <1>6, RootIn DEF Root
<1>11. NodeOk(epoch', DOMAIN nodes', n, nodes'[n])
  <2>1. Len(n) = 1 /\ n[1] = epoch' /\ ~IsLeaf(n)
    BY <1>1, <1>6, <1>10, RootName
  <2>2. \A i \in 1 .. Len(n) : SubSeq(n, 1, i) = n
    <3>1. SubSeq(n, 1, 1) = n
      <4>1. n \in Seq(Letters) /\ Len(n) = 1
        BY <1>7, <2>1, NameType
      <4>2. SubSeq(n, 1, 1) \in Seq(Letters) /\ Len(SubSeq(n, 1, 1)) = 1 /\ SubSeq(n, 1, 1)[1] = n[1]
        BY <4>1
      <4>3. QED
        BY <4>1, <4>2
    <3>2. QED
      BY <2>1, <3>1
  <2>3. Reached(DOMAIN nodes', n)
    BY <1>8, <2>2 DEF Reached
  <2>4. NewNode \in Node /\ NewNode.hash = None /\ None \in NodeHash
    BY NewNodes DEF NodeHash
  <2>5. QED
    BY <1>7, <1>10, <2>1, <2>3, <2>4 DEF NodeOk
<1>12. NodesInv'
  <2>1. nodes' \in [DOMAIN nodes' -> Node] /\ DOMAIN nodes \subseteq DOMAIN nodes' /\ Root' \in DOMAIN nodes'
    BY <1>7, <1>8, <1>10
  <2>2. /\ \A x \in DOMAIN nodes : nodes'[x].hash = nodes[x].hash
        /\ \A x \in DOMAIN nodes' \ DOMAIN nodes : x = n
    BY <1>7, <1>8
  <2>3. QED
    BY <1>10, <1>11, <2>1, <2>2, NodesFrom
<1>13. budget' \in [update : Nat, clear : Nat, compute : Nat, crowd : Nat, batch : Nat]
  BY DEF Clear, ShapeInv, StateType
<1>14. StateType'
  BY <1>1, <1>9, <1>10, <1>13 DEF ShapeInv, StateType
<1>15. QED
  BY <1>9, <1>12, <1>14 DEF ShapeInv

\* A sequence without its last element.
LEMMA FrontIs ==
  ASSUME NEW S, NEW s \in Seq(S), s # <<>>
  PROVE  /\ Len(s) \in Nat /\ Len(s) >= 1 /\ DOMAIN s = 1 .. Len(s)
         /\ Last(s) = s[Len(s)] /\ Last(s) \in S
         /\ Front(s) \in Seq(S) /\ DOMAIN Front(s) = 1 .. Len(s) - 1
         /\ Len(Front(s)) = Len(s) - 1
         /\ \A i \in 1 .. Len(s) - 1 : Front(s)[i] = s[i]
<1>1. PICK l : l = Len(s)
  OBVIOUS
<1>2. l \in Nat /\ l >= 1 /\ DOMAIN s = 1 .. l /\ Last(s) = s[l] /\ Front(s) = SubSeq(s, 1, l - 1)
  BY <1>1 DEF Last, Front
<1>3. s[l] \in S
  BY <1>1, <1>2
<1>4. SubSeq(s, 1, l - 1) \in Seq(S) /\ Len(SubSeq(s, 1, l - 1)) = l - 1
      /\ \A i \in 1 .. l - 1 : SubSeq(s, 1, l - 1)[i] = s[i]
  BY <1>1, <1>2
<1>5. DOMAIN Front(s) = 1 .. l - 1
  BY <1>2, <1>4
<1>6. QED
  BY <1>1, <1>2, <1>3, <1>4, <1>5

-------------------------------------------------------------------------------
(* The shape is kept by the computations.                                  *)

LEMMA ComputerShape ==
  ASSUME ShapeInv, NEW c \in Computers, comp[c].pc # "idle", UNCHANGED <<upd, raced>>,
         DOMAIN nodes \subseteq DOMAIN nodes',
         NEW r \in Computation, comp' = [comp EXCEPT ![c] = r], FramesOk(DOMAIN nodes', r)
  PROVE  comp' \in [Computers -> Computation] /\ CallsInv' /\ MeetInv' /\ FramesInv'
<1>1. comp \in [Computers -> Computation] /\ comp' \in [Computers -> Computation]
      /\ comp'[c] = r /\ \A d \in Computers : d # c => comp'[d] = comp[d]
  BY DEF ShapeInv, StateType
<1>2. Computing # {}
  BY DEF Computing
<1>3. CallsInv'
  BY CallGrows DEF ShapeInv, CallsInv
<1>4. FramesInv'
  BY <1>1, FramesGrow DEF ShapeInv, FramesInv
<1>5. MeetInv'
  <2>1. ASSUME NEW u \in Updaters, upd'[u].pc # "idle", upd'[u].alone
        PROVE  FALSE
    BY <1>2, <2>1 DEF ShapeInv, MeetInv
  <2>2. TouchedBy(Updaters) \subseteq raced
    BY <1>2 DEF ShapeInv, MeetInv
  <2>3. TouchedBy(Updaters)' \subseteq raced'
    BY <2>2, TouchedIs, TouchedNext
  <2>4. QED
    BY <2>1, <2>3 DEF MeetInv
<1>6. QED
  BY <1>1, <1>3, <1>4, <1>5

\* The hash h is one that node n of the nodes N may have.
HashOk(N, n, h) ==
  /\ n \in Names /\ n \in N
  /\ IsLeaf(n)  => Tail(n) \in Paths /\ h \in LeafHash
  /\ ~IsLeaf(n) => h \in NodeHash /\ (h # None => Says(N, n, h))

\* What a node adds to the hash of its parent is about leaves below it.
LEMMA LeavesSay ==
  ASSUME NEW N, NEW n, NEW h, HashOk(N, n, h)
  PROVE  Leaves(n, h) \in Tables /\ Says(N, n, Leaves(n, h))
<1>1. n \in Names /\ (IsLeaf(n) => Tail(n) \in Paths)
      /\ h \in IF IsLeaf(n) THEN LeafHash ELSE NodeHash
  BY DEF HashOk
<1>2. CASE h = None
  <2>1. Leaves(n, h) \in Tables /\ DOMAIN Leaves(n, h) = {}
    BY <1>1, <1>2, LeavesType
  <2>2. QED
    BY <2>1 DEF Says
<1>3. CASE h # None /\ ~IsLeaf(n)
  <2>1. Leaves(n, h) \in Tables /\ (~IsLeaf(n) /\ h # None => Leaves(n, h) = h)
    BY <1>1, LeavesType
  <2>2. h \in NodeHash /\ Says(N, n, h)
    BY <1>3 DEF HashOk
  <2>3. QED
    BY <1>3, <2>1, <2>2
<1>4. CASE h # None /\ IsLeaf(n)
  <2>1. PICK p : p = Tail(n)
    OBVIOUS
  <2>2. n \in Seq(Letters) /\ Len(n) = MaxDepth + 1 /\ p \in Paths /\ n[1] \in Nat
    BY <1>1, <1>4, <2>1, NameType DEF IsLeaf
  <2>3. Through(n, p)
    <3>1. \A i \in 1 .. MaxDepth : p[i] = n[i + 1]
      BY <2>1, <2>2, Depth
    <3>2. \A i \in 2 .. MaxDepth + 1 : i - 1 \in 1 .. MaxDepth /\ (i - 1) + 1 = i
      BY Depth
    <3>3. QED
      BY <2>2, <3>1, <3>2 DEF Through
  <2>4. n = LeafAt(n[1], p) /\ n \in N
    BY <1>1, <1>4, <2>2, <2>3, LeafOn DEF HashOk
  <2>5. DOMAIN Leaves(n, h) = {p} /\ Leaves(n, h) \in Tables
    BY <1>1, <1>4, <2>1, LeavesType
  <2>6. QED
    BY <2>2, <2>3, <2>4, <2>5 DEF Says
<1>5. QED
  BY <1>2, <1>3, <1>4

\* An answer keeps the shape of a frame.
LEMMA FrameMore ==
  ASSUME NEW N, NEW f \in Frame, FrameOk(N, f), NEW k \in f.left, NEW g \in Frame,
         NEW n, NEW h, n = Append(f.node, k), HashOk(N, n, h),
         g.node = f.node, g.left = f.left \ {k}, g.got = Join(f.got, Leaves(n, h))
  PROVE  FrameOk(N, g)
<1>1. /\ f.node \in Names /\ f.node \in N /\ ~IsLeaf(f.node) /\ k \in Letters /\ f.got \in Tables
      /\ Says(N, f.node, f.got)
  BY DEF FrameOk, Frame
<1>2. n[1] = f.node[1] /\ \A p \in Paths : Through(n, p) <=> Through(f.node, p) /\ p[Len(f.node)] = k
  BY <1>1, ChildName
<1>3. Leaves(n, h) \in Tables /\ Says(N, n, Leaves(n, h))
  BY LeavesSay
<1>4. DOMAIN g.got = DOMAIN f.got \cup DOMAIN Leaves(n, h)
  BY <1>1, <1>3, JoinType
<1>5. Says(N, g.node, g.got)
  BY <1>1, <1>2, <1>3, <1>4 DEF Says
<1>6. ASSUME NEW p \in DOMAIN g.got
      PROVE  p[Len(g.node)] \notin g.left
  <2>1. CASE p \in DOMAIN f.got
    BY <2>1 DEF FrameOk
  <2>2. CASE p \in DOMAIN Leaves(n, h)
    BY <1>2, <1>3, <2>2 DEF Says
  <2>3. QED
    BY <1>4, <1>6, <2>1, <2>2
<1>7. \A j \in g.left : Append(g.node, j) \in N
  BY DEF FrameOk
<1>8. QED
  BY <1>1, <1>5, <1>6, <1>7 DEF FrameOk

\* The frame f takes the place of the last one of r in s.
Replaced(r, s, n, h, f) ==
  /\ f \in Frame
  /\ f.node = r.frames[Len(r.frames)].node
  /\ f.left = r.frames[Len(r.frames)].left \ {Last(n)}
  /\ f.got  = Join(r.frames[Len(r.frames)].got, Leaves(n, h))
  /\ s.frames = [r.frames EXCEPT ![Len(r.frames)] = f]

\* What a call for node n that returns hash h does to computation r.
LEMMA ReturnIs ==
  ASSUME NEW r \in Computation, NEW n \in Names, NEW h, Leaves(n, h) \in Tables,
         r.frames = <<>> => h \in NodeHash
  PROVE  /\ Return(r, n, h) \in Computation /\ Return(r, n, h).leaf = <<>>
         /\ Return(r, n, h).value = r.value /\ Return(r, n, h).final = r.final
         /\ r.frames # <<>> =>
              /\ Return(r, n, h).pc = "visit"
              /\ \E f : Replaced(r, Return(r, n, h), n, h, f)
         /\ r.frames = <<>> =>
              /\ Return(r, n, h).pc \in {"store", "load", "lock"}
              /\ Return(r, n, h).frames = <<>> /\ Return(r, n, h).hash = h
<1>1. <<>> \in Names \cup {<<>>} /\ r.frames \in Seq(Frame)
  BY DEF Computation
<1>2. CASE r.frames # <<>>
  <2>1. PICK L, old : L = Len(r.frames) /\ old = r.frames[L]
    OBVIOUS
  <2>2. L \in Nat /\ L \in DOMAIN r.frames /\ old \in Frame
    BY <1>1, <1>2, <2>1, FrontIs
  <2>3. Join(old.got, Leaves(n, h)) \in Tables
    BY <2>2, JoinType DEF Frame
  <2>4. PICK f : f = Answered(old, n, h)
    OBVIOUS
  <2>5. f \in Frame /\ f.node = old.node /\ f.left = old.left \ {Last(n)}
        /\ f.got = Join(old.got, Leaves(n, h))
    BY <2>2, <2>3, <2>4 DEF Frame, Answered
  <2>6. PICK gs : gs = [r.frames EXCEPT ![Len(r.frames)] = f]
    OBVIOUS
  <2>7. gs \in Seq(Frame)
    BY <1>1, <2>1, <2>2, <2>5, <2>6
  <2>8. Return(r, n, h) = [r EXCEPT !.pc = "visit", !.leaf = <<>>, !.frames = gs]
    BY <1>2, <2>1, <2>4, <2>6 DEF Return, Computation
  <2>9. Return(r, n, h).frames = gs
    BY <2>7, <2>8 DEF Computation
  <2>10. Replaced(r, Return(r, n, h), n, h, f)
    BY <2>1, <2>5, <2>6, <2>9 DEF Replaced
  <2>11. QED
    BY <1>1, <1>2, <2>7, <2>8, <2>10 DEF Computation
<1>3. CASE r.frames = <<>>
  <2>1. PICK pc \in {"store", "load", "lock"} :
           Return(r, n, h) = [r EXCEPT !.pc = pc, !.leaf = <<>>, !.hash = h]
    BY <1>3 DEF Return
  <2>2. QED
    BY <1>1, <1>3, <2>1 DEF Computation
<1>4. QED
  BY <1>2, <1>3

\* Return keeps the shape of a computation.
LEMMA ReturnOk ==
  ASSUME NEW N, NEW r \in Computation, FramesOk(N, r), NEW n, NEW h, HashOk(N, n, h),
         IF r.frames = <<>> THEN ~IsLeaf(n) ELSE Called(r.frames, n)
  PROVE  Return(r, n, h) \in Computation /\ FramesOk(N, Return(r, n, h))
         /\ Return(r, n, h).pc # "idle"
<1>1. Leaves(n, h) \in Tables /\ n \in Names /\ (r.frames = <<>> => h \in NodeHash)
  BY LeavesSay DEF HashOk
<1>2. PICK q : q = Return(r, n, h)
  OBVIOUS
<1>3. CASE r.frames # <<>>
  <2>1. PICK L, fs, old : L = Len(r.frames) /\ fs = r.frames /\ old = fs[L]
    OBVIOUS
  <2>2. L \in Nat /\ L >= 1 /\ DOMAIN fs = 1 .. L /\ L \in DOMAIN fs /\ fs \in Seq(Frame) /\ old \in Frame
    BY <1>3, <2>1, FrontIs DEF Computation
  <2>3. q \in Computation /\ q.pc = "visit"
    BY <1>1, <1>2, <1>3, ReturnIs
  <2>4. PICK f \in Frame : /\ f.node = old.node /\ f.left = old.left \ {Last(n)}
                           /\ f.got = Join(old.got, Leaves(n, h))
                           /\ q.frames = [fs EXCEPT ![L] = f]
    <3>1. PICK f : Replaced(r, q, n, h, f)
      BY <1>1, <1>2, <1>3, ReturnIs
    <3>2. QED
      BY <2>1, <3>1 DEF Replaced
  <2>5. PICK k \in old.left : n = Append(old.node, k)
    BY <1>3, <2>1 DEF Called
  <2>6. FrameOk(N, old)
    BY <2>1, <2>2 DEF FramesOk
  <2>7. Last(n) = k
    BY <2>2, <2>5, <2>6, ChildName DEF FrameOk, Frame
  <2>8. FrameOk(N, f)
    BY <2>2, <2>4, <2>5, <2>6, <2>7, FrameMore
  <2>9. DOMAIN q.frames = 1 .. L /\ q.frames[L] = f
        /\ \A i \in 1 .. L : i # L => q.frames[i] = fs[i]
    BY <2>2, <2>4
  <2>10. \A i \in DOMAIN q.frames : FrameOk(N, q.frames[i])
    BY <2>1, <2>2, <2>8, <2>9 DEF FramesOk
  <2>11. ASSUME NEW i \in DOMAIN q.frames, i > 1
         PROVE  \E j \in q.frames[i - 1].left : q.frames[i].node = Append(q.frames[i - 1].node, j)
    <3>1. i \in 1 .. L /\ i - 1 \in 1 .. L /\ i - 1 # L
      BY <2>2, <2>9, <2>11
    <3>2. q.frames[i - 1] = fs[i - 1] /\ q.frames[i].node = fs[i].node
      BY <2>1, <2>4, <2>9, <3>1
    <3>3. QED
      BY <2>1, <2>2, <2>11, <3>1, <3>2 DEF FramesOk
  <2>12. QED
    BY <1>2, <2>3, <2>10, <2>11 DEF FramesOk
<1>4. CASE r.frames = <<>>
  <2>1. q \in Computation /\ q.pc \in {"store", "load", "lock"} /\ q.frames = <<>>
    BY <1>1, <1>2, <1>4, ReturnIs
  <2>2. QED
    BY <1>2, <2>1 DEF FramesOk
<1>5. QED
  BY <1>3, <1>4

\* A computation r about to visit node n, nd.
Visiting(r, n, nd) ==
  /\ r \in Computation /\ FramesOk(DOMAIN nodes, r) /\ r.pc = "visit"
  /\ n \in DOMAIN nodes /\ n \in Names /\ nd = nodes[n] /\ nd \in Node
  /\ HashOk(DOMAIN nodes, n, nd.hash)
  /\ IF r.frames = <<>> THEN n = Root ELSE Called(r.frames, n)
  /\ IF r.frames = <<>> THEN ~IsLeaf(n) ELSE Called(r.frames, n)

VisitHashed(c, r, n, nd) ==
  /\ ~nd.dirty /\ nd.hash # None
  /\ comp' = [comp EXCEPT ![c] = Return(r, n, nd.hash)]

VisitLeaf(c, r, n, nd) ==
  /\ nd.dirty \/ nd.hash = None
  /\ IsLeaf(n)
  /\ comp' = [comp EXCEPT ![c] = [r EXCEPT !.pc = "leaf", !.leaf = n, !.value = nd.value]]

VisitEmpty(c, r, n, nd) ==
  /\ nd.dirty \/ nd.hash = None
  /\ ~IsLeaf(n) /\ Keys(n) = {}
  /\ comp' = [comp EXCEPT ![c] = Return(r, n, None)]

NewFrame(n) == [node |-> n, left |-> Keys(n), got |-> NoLeaves]

VisitInner(c, r, n, nd) ==
  /\ nd.dirty \/ nd.hash = None
  /\ ~IsLeaf(n) /\ Keys(n) # {}
  /\ comp' = [comp EXCEPT ![c] = [r EXCEPT !.frames = Append(@, NewFrame(n))]]

\* The four outcomes of Visit: a hash, a leaf, no children, a new frame.
LEMMA VisitIs ==
  ASSUME ShapeInv, NEW c \in Computers, NEW n \in ToVisit(c), Visit(c, n),
         NEW r, r = comp[c], NEW nd, nd = nodes[n]
  PROVE  /\ Visiting(r, n, nd)
         /\ \/ VisitHashed(c, r, n, nd) \/ VisitLeaf(c, r, n, nd)
            \/ VisitEmpty(c, r, n, nd) \/ VisitInner(c, r, n, nd)
         /\ UNCHANGED <<items, nodes, epoch, dirtyNodes, cachedRoot,
                       rootCacheValid, treeLock, upd, budget, raced, clashed>>
<1>1. r \in Computation /\ FramesOk(DOMAIN nodes, r) /\ r.pc = "visit"
  BY DEF Visit, ShapeInv, StateType, FramesInv
<1>3. n \in DOMAIN nodes /\ (IF r.frames = <<>> THEN n = Root ELSE Called(r.frames, n))
  <2>1. CASE r.frames = <<>>
    BY <2>1, RootIn DEF ToVisit
  <2>2. CASE r.frames # <<>>
    <3>1. r.frames \in Seq(Frame)
      BY <1>1 DEF Computation
    <3>2. PICK L, f : L = Len(r.frames) /\ f = r.frames[L]
      OBVIOUS
    <3>3. L \in DOMAIN r.frames /\ Last(r.frames) = f
      <4>1. /\ Len(r.frames) \in Nat /\ Len(r.frames) >= 1 /\ DOMAIN r.frames = 1 .. Len(r.frames)
            /\ Last(r.frames) = r.frames[Len(r.frames)]
        BY <2>2, <3>1, FrontIs
      <4>2. QED
        BY <3>2, <4>1
    <3>4. PICK k \in f.left : n = Append(f.node, k)
      BY <2>2, <3>3 DEF ToVisit
    <3>5. FrameOk(DOMAIN nodes, f)
      BY <1>1, <3>2, <3>3 DEF FramesOk
    <3>6. n \in DOMAIN nodes
      BY <3>4, <3>5 DEF FrameOk
    <3>7. QED
      BY <2>2, <3>2, <3>4, <3>6 DEF Called
  <2>3. QED
    BY <2>1, <2>2
<1>4. NodeOk(epoch, DOMAIN nodes, n, nd)
  BY <1>3 DEF ShapeInv, NodesInv
<1>5. n \in Names /\ nd \in Node /\ HashOk(DOMAIN nodes, n, nd.hash)
  BY <1>3, <1>4 DEF NodeOk, HashOk
<1>6. r.frames = <<>> => ~IsLeaf(n)
  BY <1>3, RootIn
<1>7. Visiting(r, n, nd)
  BY <1>1, <1>3, <1>5, <1>6 DEF Visiting
<1>8. nd.dirty \in BOOLEAN
  BY <1>5 DEF Node
<1>9. VisitHashed(c, r, n, nd) \/ VisitLeaf(c, r, n, nd)
            \/ VisitEmpty(c, r, n, nd) \/ VisitInner(c, r, n, nd)
  <2>1. CASE ~nd.dirty /\ nd.hash # None
    BY <2>1 DEF Visit, VisitHashed
  <2>2. CASE ~(~nd.dirty /\ nd.hash # None) /\ IsLeaf(n)
    BY <2>2, <1>8 DEF Visit, VisitLeaf
  <2>3. CASE ~(~nd.dirty /\ nd.hash # None) /\ ~IsLeaf(n) /\ Keys(n) = {}
    BY <2>3, <1>8 DEF Visit, VisitEmpty
  <2>4. CASE ~(~nd.dirty /\ nd.hash # None) /\ ~IsLeaf(n) /\ Keys(n) # {}
    BY <2>4, <1>8 DEF Visit, VisitInner, NewFrame
  <2>5. QED
    BY <2>1, <2>2, <2>3, <2>4
<1>10. QED
  BY <1>7, <1>9 DEF Visit

\* What is left to show when a computation steps to s.
LEMMA ComputedShape ==
  ASSUME ShapeInv, NEW c \in Computers, comp[c].pc # "idle", NEW s \in Computation,
         comp' = [comp EXCEPT ![c] = s], FramesOk(DOMAIN nodes', s),
         UNCHANGED <<items, epoch, upd, budget, raced>>, NodesInv', DOMAIN nodes' = DOMAIN nodes,
         dirtyNodes' \in Nat, cachedRoot' \in NodeHash, rootCacheValid' \in BOOLEAN
  PROVE  ShapeInv'
<1>1. comp' \in [Computers -> Computation] /\ CallsInv' /\ MeetInv' /\ FramesInv'
  BY ComputerShape
<1>2. StateType'
  BY <1>1 DEF ShapeInv, StateType
<1>3. QED
  BY <1>1, <1>2 DEF ShapeInv

\* A new frame keeps the shape of a computation.
LEMMA PushOk ==
  ASSUME ShapeInv, NEW r, NEW n, NEW nd, Visiting(r, n, nd), ~IsLeaf(n),
         NEW s, s = [r EXCEPT !.frames = Append(@, NewFrame(n))]
  PROVE  s \in Computation /\ FramesOk(DOMAIN nodes, s)
<1>1. r \in Computation /\ FramesOk(DOMAIN nodes, r) /\ r.pc = "visit"
      /\ n \in DOMAIN nodes /\ n \in Names /\ r.frames \in Seq(Frame)
      /\ (r.frames # <<>> => Called(r.frames, n))
  BY DEF Visiting, Computation
<1>2. PICK f : f = NewFrame(n)
  OBVIOUS
<1>3. Keys(n) \subseteq Letters /\ \A k \in Letters : k \in Keys(n) <=> Append(n, k) \in DOMAIN nodes
  BY <1>1, KeysAre DEF ShapeInv
<1>4. NoLeaves \in [{} -> LeafHash] /\ DOMAIN NoLeaves = {}
  BY DEF NoLeaves
<1>5. NoLeaves \in Tables
  BY <1>4, TableType
<1>6. f \in Frame /\ f.node = n /\ f.left = Keys(n) /\ f.got = NoLeaves
  BY <1>1, <1>2, <1>3, <1>5 DEF Frame, NewFrame
<1>7. FrameOk(DOMAIN nodes, f)
  BY <1>1, <1>3, <1>4, <1>6 DEF FrameOk, Says
<1>8. PICK fs, gs, L : fs = r.frames /\ gs = Append(fs, f) /\ L = Len(fs)
  OBVIOUS
<1>9. /\ L \in Nat /\ DOMAIN fs = 1 .. L /\ gs \in Seq(Frame) /\ DOMAIN gs = 1 .. L + 1
      /\ gs[L + 1] = f /\ \A i \in 1 .. L : gs[i] = fs[i]
  BY <1>1, <1>6, <1>8
<1>10. s \in Computation /\ s.pc = "visit" /\ s.frames = gs
  BY <1>1, <1>2, <1>8, <1>9 DEF Computation
<1>11. \A i \in DOMAIN gs : FrameOk(DOMAIN nodes, gs[i])
  BY <1>1, <1>7, <1>8, <1>9 DEF FramesOk
<1>12. ASSUME NEW i \in DOMAIN gs, i > 1
       PROVE  \E k \in gs[i - 1].left : gs[i].node = Append(gs[i - 1].node, k)
  <2>1. CASE i = L + 1
    <3>1. L \in 1 .. L /\ i - 1 = L /\ fs # <<>>
      BY <1>9, <1>12, <2>1
    <3>2. PICK k \in fs[L].left : n = Append(fs[L].node, k)
      BY <1>1, <1>8, <3>1 DEF Called
    <3>3. QED
      BY <1>6, <1>9, <2>1, <3>1, <3>2
  <2>2. CASE i # L + 1
    <3>1. i \in 1 .. L /\ i - 1 \in 1 .. L
      BY <1>9, <1>12, <2>2
    <3>2. \E k \in fs[i - 1].left : fs[i].node = Append(fs[i - 1].node, k)
      BY <1>1, <1>8, <1>9, <1>12, <3>1 DEF FramesOk
    <3>3. QED
      BY <1>9, <3>1, <3>2
  <2>3. QED
    BY <2>1, <2>2
<1>13. \A i \in DOMAIN s.frames : FrameOk(DOMAIN nodes, s.frames[i])
  BY <1>10, <1>11
<1>14. \A i \in DOMAIN s.frames : i > 1 =>
         \E k \in s.frames[i - 1].left : s.frames[i].node = Append(s.frames[i - 1].node, k)
  <2>1. PICK ss : ss = s.frames
    OBVIOUS
  <2>2. ss = gs
    BY <1>10, <2>1
  <2>3. \A i \in DOMAIN ss : i > 1 => \E k \in ss[i - 1].left : ss[i].node = Append(ss[i - 1].node, k)
    BY <1>12, <2>2, Zenon
  <2>4. QED
    BY <2>1, <2>3, ZenonT(60)
<1>15. s.pc # "leaf" /\ s.pc # "idle" /\ s.pc \in {"visit", "leaf"}
  BY <1>10
<1>16. QED
  BY <1>10, <1>13, <1>14, <1>15, Zenon DEF FramesOk

\* Visit keeps the shape.
LEMMA VisitShape ==
  ASSUME ShapeInv, NEW c \in Computers, NEW n \in ToVisit(c), Visit(c, n)
  PROVE  ShapeInv'
<1>1. PICK r, nd : r = comp[c] /\ nd = nodes[n]
  OBVIOUS
<1>2. /\ Visiting(r, n, nd)
      /\ \/ VisitHashed(c, r, n, nd) \/ VisitLeaf(c, r, n, nd)
         \/ VisitEmpty(c, r, n, nd) \/ VisitInner(c, r, n, nd)
      /\ UNCHANGED <<items, nodes, epoch, dirtyNodes, cachedRoot,
                     rootCacheValid, treeLock, upd, budget, raced, clashed>>
  BY <1>1, VisitIs
<1>3. /\ r \in Computation /\ FramesOk(DOMAIN nodes, r) /\ r.pc = "visit"
      /\ n \in DOMAIN nodes /\ n \in Names /\ nd \in Node
      /\ HashOk(DOMAIN nodes, n, nd.hash)
      /\ IF r.frames = <<>> THEN ~IsLeaf(n) ELSE Called(r.frames, n)
  BY <1>2 DEF Visiting
<1>4. ASSUME NEW s \in Computation, comp' = [comp EXCEPT ![c] = s], FramesOk(DOMAIN nodes, s)
      PROVE  ShapeInv'
  <2>1. NodesInv' /\ nodes' = nodes
    BY <1>2, SameNodes DEF ShapeInv
  <2>2. dirtyNodes' \in Nat /\ cachedRoot' \in NodeHash /\ rootCacheValid' \in BOOLEAN
    BY <1>2 DEF ShapeInv, StateType
  <2>3. QED
    BY <1>1, <1>2, <1>3, <1>4, <2>1, <2>2, ComputedShape
<1>5. CASE VisitHashed(c, r, n, nd)
  BY <1>3, <1>4, <1>5, ReturnOk DEF VisitHashed
<1>6. CASE VisitLeaf(c, r, n, nd)
  <2>1. PICK s : s = [r EXCEPT !.pc = "leaf", !.leaf = n, !.value = nd.value]
    OBVIOUS
  <2>2. IsLeaf(n) /\ comp' = [comp EXCEPT ![c] = s]
    BY <1>6, <2>1 DEF VisitLeaf
  <2>3. s \in Computation /\ s.pc = "leaf" /\ s.frames = r.frames /\ s.leaf = n
    BY <1>3, <2>1 DEF Computation, Node
  <2>4. FramesOk(DOMAIN nodes, s)
    BY <1>3, <2>2, <2>3 DEF FramesOk, Called
  <2>5. QED
    BY <1>4, <2>2, <2>3, <2>4
<1>7. CASE VisitEmpty(c, r, n, nd)
  <2>1. HashOk(DOMAIN nodes, n, None)
    BY <1>3, <1>7 DEF VisitEmpty, HashOk, NodeHash
  <2>2. QED
    BY <1>3, <1>4, <1>7, <2>1, ReturnOk DEF VisitEmpty
<1>8. CASE VisitInner(c, r, n, nd)
  <2>1. PICK s : s = [r EXCEPT !.frames = Append(@, NewFrame(n))]
    OBVIOUS
  <2>2. ~IsLeaf(n) /\ comp' = [comp EXCEPT ![c] = s]
    BY <1>8, <2>1 DEF VisitInner
  <2>3. s \in Computation /\ FramesOk(DOMAIN nodes, s)
    BY <1>2, <2>1, <2>2, PushOk
  <2>4. QED
    BY <1>4, <2>2, <2>3
<1>9. QED
  BY <1>2, <1>5, <1>6, <1>7, <1>8

\* The node n gets the hash h and loses its flag.
NewHash(n, h) == [nodes[n] EXCEPT !.hash = h, !.dirty = FALSE]

\* Hashed changes the hash and the flag of one node.
LEMMA HashedIs ==
  ASSUME ShapeInv, NEW n, NEW h, HashOk(DOMAIN nodes, n, h), Hashed(n, h),
         UNCHANGED epoch
  PROVE  /\ DOMAIN nodes' = DOMAIN nodes /\ nodes' = [nodes EXCEPT ![n] = NewHash(n, h)]
         /\ NewHash(n, h) \in Node /\ NewHash(n, h).hash = h /\ NewHash(n, h).dirty = FALSE
         /\ NewHash(n, h).value = nodes[n].value
         /\ nodes'[n] = NewHash(n, h) /\ \A x \in DOMAIN nodes : x # n => nodes'[x] = nodes[x]
         /\ NodesInv'
<1>1. PICK nd : nd = NewHash(n, h)
  OBVIOUS
<1>2. n \in DOMAIN nodes /\ NodeOk(epoch, DOMAIN nodes, n, nodes[n]) /\ nodes \in [DOMAIN nodes -> Node]
  BY DEF HashOk, ShapeInv, NodesInv
<1>3. nodes' = [nodes EXCEPT ![n] = nd]
  BY <1>1 DEF Hashed, NewHash
<1>4. h \in LeafHash \cup NodeHash
  BY DEF HashOk
<1>5. nd \in Node /\ nd.hash = h /\ nd.dirty = FALSE /\ nd.value = nodes[n].value
  BY <1>1, <1>2, <1>4 DEF NodeOk, Node, NewHash
<1>6. /\ nodes' \in [DOMAIN nodes -> Node] /\ DOMAIN nodes' = DOMAIN nodes /\ nodes'[n] = nd
      /\ \A x \in DOMAIN nodes : x # n => nodes'[x] = nodes[x]
  BY <1>2, <1>3, <1>5
<1>7. NodeOk(epoch, DOMAIN nodes, n, nd)
  BY <1>2, <1>5 DEF NodeOk, HashOk
<1>8. NodesInv'
  <2>1. epoch \in Nat /\ Root \in DOMAIN nodes /\ Root' = Root
    BY RootIn DEF Root
  <2>2. \A x \in DOMAIN nodes : nodes'[x].hash = nodes[x].hash \/ NodeOk(epoch', DOMAIN nodes', x, nodes'[x])
    BY <1>6, <1>7
  <2>3. Root' \in DOMAIN nodes' /\ epoch' \in Nat /\ epoch <= epoch'
        /\ nodes' \in [DOMAIN nodes' -> Node] /\ DOMAIN nodes \subseteq DOMAIN nodes'
        /\ DOMAIN nodes' \ DOMAIN nodes = {}
    BY <1>6, <2>1
  <2>4. QED
    BY <2>2, <2>3, NodesFrom
<1>9. QED
  BY <1>1, <1>3, <1>5, <1>6, <1>8

\* Computation r is about to store the hash h with node n; q is left of it.
Storing(r, q, n, h) ==
  /\ r \in Computation /\ FramesOk(DOMAIN nodes, r)
  /\ q \in Computation /\ FramesOk(DOMAIN nodes, q) /\ q.pc \in {"visit", "leaf"}
  /\ q.final = r.final /\ q.hash = r.hash /\ q.tries = r.tries
  /\ HashOk(DOMAIN nodes, n, h)
  /\ IF q.frames = <<>> THEN ~IsLeaf(n) ELSE Called(q.frames, n)

\* StoreLeafHash stores the value that was read.
LEMMA StoreLeafIs ==
  ASSUME ShapeInv, NEW c \in Computers, StoreLeafHash(c), NEW r, r = comp[c]
  PROVE  \E q : /\ r.pc = "leaf" /\ IsLeaf(r.leaf) /\ Storing(r, q, r.leaf, r.value)
                /\ q.frames = r.frames
                /\ Hashed(r.leaf, r.value)
                /\ comp' = [comp EXCEPT ![c] = Return(q, r.leaf, r.value)]
<1>1. r \in Computation /\ FramesOk(DOMAIN nodes, r) /\ r.pc = "leaf"
  BY DEF StoreLeafHash, ShapeInv, StateType, FramesInv
<1>2. PICK q : q = [r EXCEPT !.value = None]
  OBVIOUS
<1>3. /\ q \in Computation /\ q.pc = "leaf" /\ q.frames = r.frames /\ q.leaf = r.leaf
      /\ q.final = r.final /\ q.hash = r.hash /\ q.tries = r.tries
  BY <1>1, <1>2 DEF Computation
<1>4. FramesOk(DOMAIN nodes, q)
  BY <1>1, <1>3 DEF FramesOk
<1>5. IsLeaf(r.leaf) /\ Called(r.frames, r.leaf)
  BY <1>1 DEF FramesOk
<1>6. r.leaf \in DOMAIN nodes
  <2>1. PICK L, f : L = Len(r.frames) /\ f = r.frames[L]
    OBVIOUS
  <2>2. r.frames # <<>> /\ \E k \in f.left : r.leaf = Append(f.node, k)
    BY <1>5, <2>1 DEF Called
  <2>3. r.frames \in Seq(Frame)
    BY <1>1 DEF Computation
  <2>4. L \in DOMAIN r.frames
    BY <2>1, <2>2, <2>3, FrontIs
  <2>5. FrameOk(DOMAIN nodes, f)
    BY <1>1, <2>1, <2>4 DEF FramesOk
  <2>6. QED
    BY <2>2, <2>5 DEF FrameOk
<1>7. HashOk(DOMAIN nodes, r.leaf, r.value)
  <2>1. NodeOk(epoch, DOMAIN nodes, r.leaf, nodes[r.leaf])
    BY <1>6 DEF ShapeInv, NodesInv
  <2>2. r.value \in LeafHash
    BY <1>1 DEF Computation, LeafHash
  <2>3. QED
    BY <1>5, <1>6, <2>1, <2>2 DEF NodeOk, HashOk
<1>8. Storing(r, q, r.leaf, r.value)
  BY <1>1, <1>3, <1>4, <1>5, <1>7 DEF Storing, Called
<1>9. QED
  BY <1>1, <1>2, <1>3, <1>5, <1>8 DEF StoreLeafHash

\* Computation r stores the hash of its last frame f.
NodeStored(c, r, q, f) ==
  /\ r.pc = "visit" /\ r.frames # <<>> /\ f = r.frames[Len(r.frames)]
  /\ f \in Frame /\ f.left = {} /\ FrameOk(DOMAIN nodes, f)
  /\ Storing(r, q, f.node, f.got) /\ ~IsLeaf(f.node)
  /\ q.frames = Front(r.frames) /\ q.leaf = r.leaf /\ q.pc = "visit"
  /\ Hashed(f.node, f.got)
  /\ comp' = [comp EXCEPT ![c] = Return(q, f.node, f.got)]

\* StoreNodeHash stores what the last frame has got.
LEMMA StoreNodeIs ==
  ASSUME ShapeInv, NEW c \in Computers, StoreNodeHash(c), NEW r, r = comp[c]
  PROVE  \E q, f : NodeStored(c, r, q, f)
<1>1. r \in Computation /\ FramesOk(DOMAIN nodes, r) /\ r.pc = "visit" /\ r.frames # <<>>
  BY DEF StoreNodeHash, ShapeInv, StateType, FramesInv
<1>2. PICK L, fs, f, gs : L = Len(r.frames) /\ fs = r.frames /\ f = Last(r.frames) /\ gs = Front(r.frames)
  OBVIOUS
<1>3. fs \in Seq(Frame)
  BY <1>1, <1>2 DEF Computation
<1>4. /\ L \in Nat /\ L >= 1 /\ DOMAIN fs = 1 .. L /\ f = fs[L] /\ f \in Frame
      /\ gs \in Seq(Frame) /\ DOMAIN gs = 1 .. L - 1 /\ Len(gs) = L - 1
      /\ \A i \in 1 .. L - 1 : gs[i] = fs[i]
  <2>1. fs # <<>>
    BY <1>1, <1>2
  <2>2. QED
    BY <1>2, <1>3, <2>1, FrontIs
<1>5. FrameOk(DOMAIN nodes, f)
  BY <1>1, <1>2, <1>4 DEF FramesOk
<1>6. PICK q : q = [r EXCEPT !.frames = gs]
  OBVIOUS
<1>7. /\ q \in Computation /\ q.pc = "visit" /\ q.frames = gs /\ q.leaf = r.leaf
      /\ q.final = r.final /\ q.hash = r.hash /\ q.tries = r.tries
  BY <1>1, <1>4, <1>6 DEF Computation
<1>8. FramesOk(DOMAIN nodes, q)
  <2>1. \A i \in DOMAIN gs : i \in DOMAIN fs /\ gs[i] = fs[i]
    BY <1>4
  <2>2. \A i \in DOMAIN q.frames : FrameOk(DOMAIN nodes, q.frames[i])
    BY <1>1, <1>2, <1>7, <2>1 DEF FramesOk
  <2>3. ASSUME NEW i \in DOMAIN q.frames, i > 1
        PROVE  \E k \in q.frames[i - 1].left : q.frames[i].node = Append(q.frames[i - 1].node, k)
    <3>1. i \in DOMAIN gs /\ i - 1 \in DOMAIN gs
      BY <1>4, <1>7, <2>3
    <3>2. \E k \in fs[i - 1].left : fs[i].node = Append(fs[i - 1].node, k)
      BY <1>1, <1>2, <2>1, <2>3, <3>1 DEF FramesOk
    <3>3. QED
      BY <1>7, <2>1, <3>1, <3>2
  <2>4. q.pc # "leaf" /\ q.pc # "idle" /\ q.pc \in {"visit", "leaf"}
    BY <1>7
  <2>5. QED
    BY <2>2, <2>3, <2>4, Zenon DEF FramesOk
<1>9. HashOk(DOMAIN nodes, f.node, f.got) /\ ~IsLeaf(f.node)
  BY <1>4, <1>5 DEF FrameOk, Frame, HashOk, NodeHash
<1>10. ASSUME gs # <<>>
       PROVE  Called(gs, f.node)
  <2>1. Len(gs) >= 1
    BY <1>4, <1>10
  <2>2. L \in DOMAIN fs /\ L > 1 /\ L - 1 \in 1 .. L - 1 /\ Len(gs) = L - 1
    BY <1>4, <2>1
  <2>3. \E k \in fs[L - 1].left : fs[L].node = Append(fs[L - 1].node, k)
    BY <1>1, <1>2, <2>2 DEF FramesOk
  <2>4. gs[Len(gs)] = fs[L - 1]
    BY <1>4, <2>2
  <2>5. QED
    BY <1>4, <1>10, <2>3, <2>4 DEF Called
<1>11. Storing(r, q, f.node, f.got)
  BY <1>1, <1>7, <1>8, <1>9, <1>10 DEF Storing
<1>12. f.left = {} /\ Hashed(f.node, f.got) /\ comp' = [comp EXCEPT ![c] = Return(q, f.node, f.got)]
  BY <1>2, <1>6 DEF StoreNodeHash
<1>13. NodeStored(c, r, q, f)
  BY <1>1, <1>2, <1>4, <1>5, <1>7, <1>9, <1>11, <1>12 DEF NodeStored
<1>14. QED
  BY <1>13

\* A step that stores a hash keeps the shape.
LEMMA StoringShape ==
  ASSUME ShapeInv, NEW c \in Computers, comp[c].pc # "idle", NEW q, NEW n, NEW h,
         Storing(comp[c], q, n, h), Hashed(n, h),
         comp' = [comp EXCEPT ![c] = Return(q, n, h)],
         UNCHANGED <<items, epoch, dirtyNodes, cachedRoot, rootCacheValid, upd, budget, raced>>
  PROVE  ShapeInv'
<1>1. DOMAIN nodes' = DOMAIN nodes /\ NodesInv'
  BY HashedIs DEF Storing
<1>2. Return(q, n, h) \in Computation /\ FramesOk(DOMAIN nodes, Return(q, n, h))
  BY ReturnOk DEF Storing
<1>3. dirtyNodes' \in Nat /\ cachedRoot' \in NodeHash /\ rootCacheValid' \in BOOLEAN
  BY DEF ShapeInv, StateType
<1>4. QED
  BY <1>1, <1>2, <1>3, ComputedShape

\* StoreLeafHash and StoreNodeHash keep the shape.
LEMMA StoreShape ==
  ASSUME ShapeInv, NEW c \in Computers, StoreLeafHash(c) \/ StoreNodeHash(c)
  PROVE  ShapeInv'
<1>1. UNCHANGED <<items, epoch, dirtyNodes, cachedRoot, rootCacheValid, upd, budget, raced>>
      /\ comp[c].pc # "idle"
  BY DEF StoreLeafHash, StoreNodeHash
<1>2. CASE StoreLeafHash(c)
  <2>1. PICK r : r = comp[c]
    OBVIOUS
  <2>2. PICK q : Storing(r, q, r.leaf, r.value) /\ Hashed(r.leaf, r.value)
                 /\ comp' = [comp EXCEPT ![c] = Return(q, r.leaf, r.value)]
    BY <1>2, <2>1, StoreLeafIs
  <2>3. QED
    BY <1>1, <2>1, <2>2, StoringShape
<1>3. CASE StoreNodeHash(c)
  <2>1. PICK r : r = comp[c]
    OBVIOUS
  <2>2. PICK q, f : NodeStored(c, r, q, f)
    BY <1>3, <2>1, StoreNodeIs
  <2>3. QED
    BY <1>1, <2>1, <2>2, StoringShape DEF NodeStored
<1>4. QED
  BY <1>2, <1>3

\* The steps of a computation that is not hashing: it moves on to s.
LEMMA PlainShape ==
  ASSUME ShapeInv, NEW c \in Computers, comp[c].pc \in {"load", "store", "valid", "cas", "lock", "zero"},
         NEW s \in Computation, comp' = [comp EXCEPT ![c] = s],
         s.frames = comp[c].frames, s.pc # "leaf", s.pc # "idle" \/ s = Waiting,
         UNCHANGED <<items, nodes, epoch, upd, budget, raced>>,
         dirtyNodes' \in Nat, cachedRoot' \in NodeHash, rootCacheValid' \in BOOLEAN
  PROVE  ShapeInv'
<1>1. FramesOk(DOMAIN nodes, comp[c]) /\ comp[c].pc \notin {"visit", "leaf"} /\ comp[c].pc # "idle"
  BY DEF ShapeInv, FramesInv
<1>2. s.frames = <<>>
  BY <1>1 DEF FramesOk
<1>3. FramesOk(DOMAIN nodes, s)
  BY <1>2 DEF FramesOk
<1>4. NodesInv' /\ DOMAIN nodes' = DOMAIN nodes
  BY SameNodes DEF ShapeInv
<1>5. QED
  BY <1>1, <1>3, <1>4, ComputedShape

\* The steps after the hashing keep the shape.
LEMMA PlainStepsShape ==
  ASSUME ShapeInv, NEW c \in Computers,
         LoadDirty(c) \/ StoreRoot(c) \/ StoreValid(c) \/ CompareAndSwap(c) \/ Fallback(c) \/ FallbackEnd(c)
  PROVE  ShapeInv'
<1>1. PICK r : r = comp[c]
  OBVIOUS
<1>2. /\ r \in Computation /\ dirtyNodes \in Nat /\ cachedRoot \in NodeHash /\ rootCacheValid \in BOOLEAN
      /\ comp \in [Computers -> Computation] /\ FramesOk(DOMAIN nodes, r)
  BY <1>1 DEF ShapeInv, StateType, FramesInv
<1>3. UNCHANGED <<items, nodes, epoch, upd, budget, raced>>
  BY DEF LoadDirty, StoreRoot, StoreValid, CompareAndSwap, Fallback, FallbackEnd
<1>4. CASE LoadDirty(c)
  <2>1. PICK s : s = [r EXCEPT !.seen = dirtyNodes, !.pc = "store"]
    OBVIOUS
  <2>2. s \in Computation /\ s.pc = "store" /\ s.frames = r.frames
    BY <1>2, <2>1 DEF Computation
  <2>3. r.pc = "load" /\ comp' = [comp EXCEPT ![c] = s] /\ UNCHANGED <<dirtyNodes, cachedRoot, rootCacheValid>>
    BY <1>1, <1>2, <1>4, <2>1 DEF LoadDirty
  <2>4. QED
    BY <1>1, <1>2, <1>3, <2>2, <2>3, PlainShape
<1>5. CASE StoreRoot(c)
  <2>1. PICK s : s = [r EXCEPT !.pc = "valid"]
    OBVIOUS
  <2>2. s \in Computation /\ s.pc = "valid" /\ s.frames = r.frames /\ r.hash \in NodeHash
    BY <1>2, <2>1 DEF Computation
  <2>3. r.pc = "store" /\ comp' = [comp EXCEPT ![c] = s] /\ cachedRoot' = r.hash /\ UNCHANGED <<dirtyNodes, rootCacheValid>>
    BY <1>1, <1>2, <1>5, <2>1 DEF StoreRoot
  <2>4. QED
    BY <1>1, <1>2, <1>3, <2>2, <2>3, PlainShape
<1>6. CASE StoreValid(c)
  <2>1. PICK pc \in {"zero", "cas"} : pc = IF r.final THEN "zero" ELSE "cas"
    OBVIOUS
  <2>2. PICK s : s = [r EXCEPT !.pc = pc]
    OBVIOUS
  <2>3. s \in Computation /\ s.pc = pc /\ s.frames = r.frames
    BY <1>2, <2>1, <2>2 DEF Computation
  <2>4. r.pc = "valid" /\ comp' = [comp EXCEPT ![c] = s] /\ rootCacheValid' = TRUE
        /\ UNCHANGED <<dirtyNodes, cachedRoot>>
    BY <1>1, <1>2, <1>6, <2>1, <2>2 DEF StoreValid
  <2>5. QED
    BY <1>1, <1>2, <1>3, <2>1, <2>3, <2>4, PlainShape
<1>7. CASE CompareAndSwap(c)
  <2>1. r.pc = "cas" /\ UNCHANGED <<cachedRoot, rootCacheValid>> /\ dirtyNodes' \in Nat
    BY <1>1, <1>2, <1>7 DEF CompareAndSwap
  <2>1a. PICK t : t = r.tries + 1
    OBVIOUS
  <2>1b. t \in Nat
    BY <1>2, <2>1a DEF Computation
  <2>2. PICK s : s = [r EXCEPT !.tries = t, !.pc = "visit"]
    OBVIOUS
  <2>3. s \in Computation /\ s.pc = "visit" /\ s.frames = r.frames
    BY <1>2, <2>1b, <2>2 DEF Computation
  <2>4. comp' = [comp EXCEPT ![c] = s] \/ comp' = [comp EXCEPT ![c] = Waiting]
    BY <1>1, <1>2, <1>7, <2>1a, <2>2 DEF CompareAndSwap
  <2>5. Waiting \in Computation /\ Waiting.pc = "idle" /\ Waiting.frames = <<>>
    BY WaitingType DEF Waiting
  <2>6. r.frames = <<>>
    BY <1>2, <2>1 DEF FramesOk
  <2>7. QED
    BY <1>1, <1>2, <1>3, <2>1, <2>3, <2>4, <2>5, <2>6, PlainShape
<1>8. CASE Fallback(c)
  <2>1. PICK s : s = [r EXCEPT !.final = TRUE, !.pc = "visit"]
    OBVIOUS
  <2>2. s \in Computation /\ s.pc = "visit" /\ s.frames = r.frames
    BY <1>2, <2>1 DEF Computation
  <2>3. r.pc = "lock" /\ comp' = [comp EXCEPT ![c] = s] /\ UNCHANGED <<dirtyNodes, cachedRoot, rootCacheValid>>
    BY <1>1, <1>2, <1>8, <2>1 DEF Fallback
  <2>4. QED
    BY <1>1, <1>2, <1>3, <2>2, <2>3, PlainShape
<1>9. CASE FallbackEnd(c)
  <2>1. r.pc = "zero" /\ UNCHANGED <<cachedRoot, rootCacheValid>> /\ dirtyNodes' \in Nat
        /\ comp' = [comp EXCEPT ![c] = Waiting]
    BY <1>1, <1>2, <1>9 DEF FallbackEnd
  <2>2. Waiting \in Computation /\ Waiting.pc = "idle" /\ Waiting.frames = <<>>
    BY WaitingType DEF Waiting
  <2>3. r.frames = <<>>
    BY <1>2, <2>1 DEF FramesOk
  <2>4. QED
    BY <1>1, <1>2, <1>3, <2>1, <2>2, <2>3, PlainShape
<1>10. QED
  BY <1>4, <1>5, <1>6, <1>7, <1>8, <1>9

\* When a computation starts, nothing of the calls changes but who was alone.
LEMMA ComputeRootIs ==
  ASSUME ShapeInv, NEW c \in Computers, ComputeRoot(c)
  PROVE  /\ upd' \in [Updaters -> Call]
         /\ \A u \in Updaters :
              /\ upd[u].pc = "idle" => upd'[u] = Resting
              /\ upd'[u].pc = upd[u].pc /\ upd'[u].kind = upd[u].kind
              /\ upd'[u].drop = upd[u].drop /\ upd'[u].todo = upd[u].todo
              /\ upd'[u].node = upd[u].node /\ upd'[u].marks = upd[u].marks
              /\ upd'[u].done = upd[u].done
              /\ upd[u].pc # "idle" => upd'[u].alone = FALSE
         /\ raced' = raced \cup TouchedBy(Updaters)
         /\ comp[c] = Waiting /\ ~rootCacheValid
         /\ \E s \in Computation : /\ comp' = [comp EXCEPT ![c] = s] /\ s.frames = <<>>
                                   /\ s.pc = "visit" /\ s.leaf = <<>>
         /\ UNCHANGED <<items, nodes, epoch, dirtyNodes, cachedRoot, rootCacheValid>>
<1>1. upd \in [Updaters -> Call]
  BY DEF ShapeInv, StateType
<1>2. ASSUME NEW u \in Updaters
      PROVE  /\ upd'[u] \in Call
             /\ upd[u].pc = "idle" => upd'[u] = Resting
             /\ upd'[u].pc = upd[u].pc /\ upd'[u].kind = upd[u].kind
             /\ upd'[u].drop = upd[u].drop /\ upd'[u].todo = upd[u].todo
             /\ upd'[u].node = upd[u].node /\ upd'[u].marks = upd[u].marks
             /\ upd'[u].done = upd[u].done
             /\ upd[u].pc # "idle" => upd'[u].alone = FALSE
  <2>1. PICK r : r = upd[u]
    OBVIOUS
  <2>2. r \in Call /\ CallOk(DOMAIN nodes, r)
    BY <1>1, <2>1 DEF ShapeInv, CallsInv
  <2> DEFINE b == r.alone /\ u \notin Updating
  <2>3. b = TRUE \/ b = FALSE
    BY <2>2 DEF Call
  <2>4. u \in Updating <=> r.pc # "idle"
    BY <2>1 DEF Updating
  <2>5. r.pc # "idle" => b = FALSE
    BY <2>3, <2>4
  <2>6. r.pc = "idle" => r = Resting /\ r.alone = TRUE
    BY <2>2 DEF CallOk, Resting
  <2>7. r.pc = "idle" => b = TRUE
    BY <2>3, <2>4, <2>6
  <2>8. upd'[u] = [r EXCEPT !.alone = b]
    BY <2>1 DEF ComputeRoot
  <2> HIDE DEF b
  <2>9. /\ upd'[u] \in Call /\ upd'[u].pc = r.pc /\ upd'[u].kind = r.kind
        /\ upd'[u].drop = r.drop /\ upd'[u].todo = r.todo
        /\ upd'[u].node = r.node /\ upd'[u].marks = r.marks
        /\ upd'[u].done = r.done /\ upd'[u].alone = b
    BY <2>2, <2>3, <2>8 DEF Call
  <2>10. ASSUME r.pc = "idle"
         PROVE  upd'[u] = Resting
    <3>1. Resting \in Call /\ r = Resting /\ upd'[u].alone = TRUE /\ Resting.alone = TRUE
      BY <2>6, <2>7, <2>9, <2>10, RestingType
    <3>2. upd'[u] = [Resting EXCEPT !.alone = TRUE]
      BY <2>7, <2>8, <2>10, <3>1
    <3>3. QED
      BY <3>1, <3>2 DEF Call
  <2>11. QED
    BY <2>1, <2>5, <2>9, <2>10
<1>3. upd' \in [Updaters -> Call]
  <2>1. upd' = [u \in Updaters |-> upd'[u]]
    BY DEF ComputeRoot
  <2>2. QED
    BY <1>2, <2>1
<1>4. raced' = raced \cup TouchedBy(Updaters)
  <2>1. \A u \in Updaters : u \notin Updating => Touched(u) = {}
    BY DEF Updating, Touched
  <2>2. TouchedBy(Updating) = TouchedBy(Updaters)
    BY <2>1 DEF TouchedBy, Updating
  <2>3. QED
    BY <2>2 DEF ComputeRoot
<1>5. comp[c] \in Computation /\ comp \in [Computers -> Computation] /\ comp[c] = Waiting
  BY DEF ShapeInv, StateType, FramesInv, FramesOk, ComputeRoot
<1>6. PICK s : s = [comp[c] EXCEPT !.pc = "visit"]
  OBVIOUS
<1>7. comp' = [comp EXCEPT ![c] = s]
  BY <1>6 DEF ComputeRoot
<1>8. s \in Computation /\ s.pc = "visit" /\ s.frames = comp[c].frames /\ s.leaf = comp[c].leaf
  BY <1>5, <1>6 DEF Computation
<1>9. s.frames = <<>> /\ s.leaf = <<>>
  BY <1>5, <1>8 DEF Waiting
<1>10. ~rootCacheValid /\ UNCHANGED <<items, nodes, epoch, dirtyNodes, cachedRoot, rootCacheValid>>
  BY DEF ComputeRoot
<1>11. QED
  BY <1>2, <1>3, <1>4, <1>5, <1>7, <1>8, <1>9, <1>10

\* ComputeRoot keeps the shape.
LEMMA ComputeRootShape ==
  ASSUME ShapeInv, NEW c \in Computers, ComputeRoot(c)
  PROVE  ShapeInv'
<1>1. /\ upd' \in [Updaters -> Call] /\ raced' = raced \cup TouchedBy(Updaters)
      /\ UNCHANGED <<items, nodes, epoch, dirtyNodes, cachedRoot, rootCacheValid>>
  BY ComputeRootIs
<1>2. PICK s \in Computation : comp' = [comp EXCEPT ![c] = s] /\ s.frames = <<>> /\ s.pc = "visit"
  BY ComputeRootIs
<1>3. \A u \in Updaters :
              /\ upd[u].pc = "idle" => upd'[u] = Resting
              /\ upd'[u].pc = upd[u].pc /\ upd'[u].kind = upd[u].kind
              /\ upd'[u].drop = upd[u].drop /\ upd'[u].todo = upd[u].todo
              /\ upd'[u].node = upd[u].node /\ upd'[u].marks = upd[u].marks
              /\ upd'[u].done = upd[u].done
              /\ upd[u].pc # "idle" => upd'[u].alone = FALSE
  BY ComputeRootIs
<1>4. comp' \in [Computers -> Computation] /\ FramesInv'
  <2>1. FramesOk(DOMAIN nodes, s)
    BY <1>2 DEF FramesOk
  <2>2. QED
    BY <1>1, <1>2, <2>1 DEF ShapeInv, StateType, FramesInv
<1>5. CallsInv'
  <2>1. ASSUME NEW u \in Updaters
        PROVE  CallOk(DOMAIN nodes, upd'[u])
    <3>1. PICK r, q : r = upd[u] /\ q = upd'[u]
      OBVIOUS
    <3>2. CallOk(DOMAIN nodes, r)
      BY <3>1 DEF ShapeInv, CallsInv
    <3>3. /\ r.pc = "idle" => q = Resting
          /\ q.pc = r.pc /\ q.kind = r.kind /\ q.todo = r.todo
          /\ q.node = r.node /\ q.marks = r.marks /\ q.done = r.done
      BY <1>3, <3>1
    <3>4. At(q) = At(r)
      BY <3>3 DEF At
    <3>5. CallOk(DOMAIN nodes, q)
      BY <3>2, <3>3, <3>4 DEF CallOk
    <3>6. QED
      BY <3>1, <3>5
  <2>2. QED
    BY <1>1, <2>1 DEF CallsInv
<1>6. MeetInv'
  <2>1. \A u \in Updaters : upd'[u].pc # "idle" => upd'[u].alone = FALSE
    BY <1>3
  <2>2. \A u \in Updaters : TouchedIn(upd'[u]) = TouchedIn(upd[u])
    <3>1. SUFFICES ASSUME NEW u \in Updaters
                   PROVE  TouchedIn(upd'[u]) = TouchedIn(upd[u])
      OBVIOUS
    <3>2. PICK r, q : r = upd[u] /\ q = upd'[u]
      OBVIOUS
    <3>3. q.pc = r.pc /\ q.kind = r.kind /\ q.todo = r.todo /\ q.drop = r.drop /\ q.done = r.done
      BY <1>3, <3>2
    <3>4. TouchedIn(q) = TouchedIn(r)
      BY <3>3 DEF TouchedIn
    <3>5. QED
      BY <3>2, <3>4
  <2>3. TouchedBy(Updaters)' \subseteq raced'
    BY <1>1, <2>2, TouchedIs, TouchedNext
  <2>4. QED
    BY <2>1, <2>3 DEF MeetInv
<1>7. NodesInv'
  BY <1>1, SameNodes DEF ShapeInv
<1>8. budget' \in [update : Nat, clear : Nat, compute : Nat, crowd : Nat, batch : Nat]
  BY DEF ComputeRoot, ShapeInv, StateType
<1>9. StateType'
  BY <1>1, <1>4, <1>8 DEF ShapeInv, StateType
<1>10. QED
  BY <1>4, <1>5, <1>6, <1>7, <1>9 DEF ShapeInv

\* The shape holds at first, and every step keeps it.
LEMMA InitShape == Init => ShapeInv
<1> SUFFICES ASSUME Init
             PROVE  ShapeInv
  OBVIOUS
<1>1. epoch = 0 /\ Root = <<0>> /\ nodes = [n \in {<<0>>} |-> NewNode]
  BY DEF Init, Root
<1>2. NewNode \in Node /\ NewNode.hash = None
  BY NewNodes
<1>3. PICK n : n = <<0>>
  OBVIOUS
<1>4. n \in Names /\ Len(n) = 1 /\ ~IsLeaf(n) /\ n[1] = 0
  BY <1>3, RootName
<1>5. nodes \in [DOMAIN nodes -> Node] /\ DOMAIN nodes = {n} /\ nodes[n] = NewNode
  BY <1>1, <1>2, <1>3
<1>6. Reached(DOMAIN nodes, n)
  <2>1. SubSeq(n, 1, 1) = n
    <3>1. n \in Seq(Letters)
      BY <1>4, NameType
    <3>2. SubSeq(n, 1, 1) \in Seq(Letters) /\ Len(SubSeq(n, 1, 1)) = 1 /\ SubSeq(n, 1, 1)[1] = n[1]
      BY <1>4, <3>1
    <3>3. QED
      BY <1>4, <3>1, <3>2
  <2>2. QED
    BY <1>4, <1>5, <2>1 DEF Reached
<1>7. NodesInv
  <2>1. None \in NodeHash
    BY DEF NodeHash
  <2>2. NodeOk(epoch, DOMAIN nodes, n, nodes[n])
    BY <1>1, <1>2, <1>4, <1>5, <1>6, <2>1 DEF NodeOk
  <2>3. QED
    BY <1>1, <1>3, <1>5, <2>2 DEF NodesInv
<1>8. upd = [u \in Updaters |-> Resting] /\ comp = [c \in Computers |-> Waiting]
  BY DEF Init
<1>9. CallsInv
  BY <1>8, RestingType DEF CallsInv
<1>10. FramesInv
  BY <1>8, WaitingType DEF FramesInv
<1>11. MeetInv
  BY <1>8 DEF MeetInv, Resting, Computing, Waiting
<1>12. StateType
  <2>1. upd \in [Updaters -> Call] /\ comp \in [Computers -> Computation]
    BY <1>8, RestingType, WaitingType
  <2>2. None \in NodeHash
    BY DEF NodeHash
  <2>3. budget \in [update : Nat, clear : Nat, compute : Nat, crowd : Nat, batch : Nat]
    BY TreeAssumption DEF Init
  <2>4. QED
    BY <2>1, <2>2, <2>3 DEF Init, StateType
<1>13. QED
  BY <1>7, <1>9, <1>10, <1>11, <1>12 DEF ShapeInv

\* A step of nobody keeps the shape.
LEMMA StutterShape ==
  ASSUME ShapeInv, UNCHANGED vars
  PROVE  ShapeInv'
<1>1. UNCHANGED <<items, nodes, epoch, dirtyNodes, cachedRoot, rootCacheValid, upd, comp, budget, raced>>
  BY DEF vars
<1>2. NodesInv'
  BY <1>1, SameNodes DEF ShapeInv
<1>3. StateType'
  BY <1>1 DEF ShapeInv, StateType
<1>4. CallsInv' /\ FramesInv'
  BY <1>1 DEF ShapeInv, CallsInv, FramesInv
<1>5. MeetInv'
  <2>1. Computing' = Computing
    BY <1>1 DEF Computing
  <2>2. TouchedBy(Updaters)' = TouchedBy(Updaters)
    BY <1>1, TouchedIs, TouchedNext
  <2>3. QED
    BY <1>1, <2>1, <2>2 DEF ShapeInv, MeetInv
<1>6. QED
  BY <1>2, <1>3, <1>4, <1>5 DEF ShapeInv

\* The calls of Delete keep the shape.
LEMMA DeletesShape ==
  ASSUME ShapeInv, NEW u \in Updaters,
         \/ \E id \in Ids : Delete(u, <<id>>, "delete")
         \/ \E ids \in IdLists : Delete(u, ids, "deleteBatch")
  PROVE  ShapeInv'
<1>1. \A id \in Ids : <<id>> \in Seq(Ids)
  OBVIOUS
<1>2. \A ids \in IdLists : ids \in Seq(Ids)
  BY DEF IdLists, ShapeInv, StateType
<1>3. QED
  BY <1>1, <1>2, DeleteShape

\* Every step keeps the shape.
LEMMA ShapeNext ==
  ASSUME ShapeInv, [Next]_vars
  PROVE  ShapeInv'
<1>1. CASE UNCHANGED vars
  BY <1>1, StutterShape
<1>2. ASSUME NEW u \in Updaters, UpdateCalls(u)
      PROVE  ShapeInv'
  BY <1>2, InsertShape, DeletesShape, ClearShape DEF UpdateCalls
<1>3. ASSUME NEW u \in Updaters, UpdateSteps(u)
      PROVE  ShapeInv'
  BY <1>3, UnlinkShape, StartRemovalShape, WalkShape, SetLeafShape, MarkShape,
     InvalidateShape, ClearEndShape DEF UpdateSteps
<1>4. ASSUME NEW c \in Computers, ComputeRoot(c) \/ ComputeSteps(c)
      PROVE  ShapeInv'
  BY <1>4, ComputeRootShape, VisitShape, StoreShape, PlainStepsShape DEF ComputeSteps
<1>5. QED
  BY <1>1, <1>2, <1>3, <1>4 DEF Next

-------------------------------------------------------------------------------
(* The roots are right.                                                    *)

\* Call r has changed the leaf of p, and has only flags to set any more.
Marking(r, p) == r.pc = "mark" /\ At(r) = p
Changed(r, p) == p \in r.done \/ r.pc = "clearing" \/ Marking(r, p)
Clean(r, p)   == r.alone /\ Changed(r, p)

\* The leaves that a valid root will be right about: no race is noted, or it
\* is about to be forgotten.
Watched(p) == p \notin raced \/ \E u \in Updaters : Clean(upd[u], p)

\* A computation will not pass over node n: it is flagged, or will be.
Pending(r, n) == \E k \in DOMAIN r.marks : r.marks[k] = n
Covered(n, p) ==
  nodes[n].dirty \/ \E u \in Updaters : Marking(upd[u], p) /\ Pending(upd[u], n)

Tells(n, p) == nodes[n].hash = None \/ InRoot(nodes[n].hash, p) = Content(p)

TellInv(p) ==
  \A n \in DOMAIN nodes : On(epoch, n, p) /\ ~IsLeaf(n) => Covered(n, p) \/ Tells(n, p)

LeafInv(p) ==
  Leaf(p) \in DOMAIN nodes =>
    /\ nodes[Leaf(p)].value = None =>
         ~nodes[Leaf(p)].dirty /\ nodes[Leaf(p)].hash = Deleted
    /\ nodes[Leaf(p)].value # None =>
         nodes[Leaf(p)].dirty \/ nodes[Leaf(p)].hash \in {None, nodes[Leaf(p)].value}

\* The nodes above the one where call r is, on the way to p, are covered or
\* will be when it has changed the leaf.
Cover(r, p) ==
  \A n \in DOMAIN nodes : On(epoch, n, p) /\ Len(n) < Len(r.node) =>
    Covered(n, p) \/ Pending(r, n)

CoverInv(r) ==
  r.pc \in {"walk", "leaf"} =>
    /\ Watched(At(r)) /\ On(epoch, r.node, At(r)) => Cover(r, At(r))
    /\ r.alone => Watched(At(r)) \/ (On(epoch, r.node, At(r)) /\ Cover(r, At(r)))

\* Computation r has right what it has of the leaf of p.
FramesRight(r, p) ==
  /\ r.frames # <<>> => r.frames[1].node = Root
  /\ \A i \in DOMAIN r.frames : On(epoch, r.frames[i].node, p) =>
       p[Len(r.frames[i].node)] \in r.frames[i].left \/ InRoot(r.frames[i].got, p) = Content(p)
  /\ r.pc = "leaf" /\ r.leaf = Leaf(p) => r.value = nodes[r.leaf].value /\ r.value # None
  /\ r.pc \in {"load", "store"} => InRoot(r.hash, p) = Content(p)

RootRight(p) ==
  (rootCacheValid \/ \E c \in Computers : comp[c].pc = "valid") =>
    InRoot(cachedRoot, p) = Content(p) \/ \E u \in Updaters : Changed(upd[u], p)

RightInv ==
  /\ \A p \in Paths : Watched(p) => TellInv(p) /\ LeafInv(p)
  /\ \A u \in Updaters : \A r \in Call : upd[u] = r => CoverInv(r)
  /\ \A p \in Paths : p \notin raced => RootRight(p)
  /\ \A p \in Paths : p \notin raced =>
       \A c \in Computers : \A r \in Computation : comp[c] = r => FramesRight(r, p)

\* A node of the tree.
LEMMA NodeIs ==
  ASSUME NodesInv, NEW n \in DOMAIN nodes
  PROVE  /\ n \in Names /\ Len(n) \in Nat /\ Len(n) >= 1 /\ Len(n) <= MaxDepth + 1
         /\ n[1] \in Nat /\ n[1] <= epoch /\ nodes[n] \in Node
         /\ NodeOk(epoch, DOMAIN nodes, n, nodes[n])
         /\ ~IsLeaf(n) <=> Len(n) <= MaxDepth
<1>1. NodeOk(epoch, DOMAIN nodes, n, nodes[n])
  BY DEF NodesInv
<1>2. n \in Names /\ n[1] <= epoch /\ nodes[n] \in Node
  BY <1>1 DEF NodeOk
<1>3. QED
  BY <1>1, <1>2, NameType, Depth DEF IsLeaf

\* The leaf of p is the only leaf on the way to p.
LEMMA LeafIs ==
  ASSUME NodesInv, epoch \in Nat, NEW p \in Paths
  PROVE  /\ Leaf(p) = LeafAt(epoch, p) /\ Leaf(p) \in Names /\ IsLeaf(Leaf(p))
         /\ Len(Leaf(p)) = MaxDepth + 1 /\ Through(Leaf(p), p) /\ Leaf(p)[1] = epoch
         /\ Tail(Leaf(p)) = p
         /\ \A n \in DOMAIN nodes : On(epoch, n, p) /\ IsLeaf(n) => n = Leaf(p)
<1>1. Leaf(p) = LeafAt(epoch, p)
  BY DEF Leaf, Root, LeafAt
<1>2. ASSUME NEW n \in DOMAIN nodes, On(epoch, n, p), IsLeaf(n)
      PROVE  n = Leaf(p)
  <2>1. n \in Names
    BY NodeIs
  <2>2. QED
    BY <1>1, <1>2, <2>1, LeafOn DEF On
<1>3. QED
  BY <1>1, <1>2, LeafName

\* No hash tells of a leaf that is not there.
MissingRight(p) ==
  ShapeInv /\ Leaf(p) \notin DOMAIN nodes => Content(p) = None /\ TellInv(p) /\ LeafInv(p)

\* That is so in every state.
LEMMA Missing == \A q \in Paths : MissingRight(q)
<1> SUFFICES ASSUME NEW p \in Paths, ShapeInv, Leaf(p) \notin DOMAIN nodes
             PROVE  Content(p) = None /\ TellInv(p) /\ LeafInv(p)
  BY DEF MissingRight
<1>1. Content(p) = None
  BY DEF Content
<1>2. NodesInv /\ epoch \in Nat
  BY RootIn DEF ShapeInv
<1>3. ASSUME NEW n \in DOMAIN nodes, On(epoch, n, p), ~IsLeaf(n)
      PROVE  Tells(n, p)
  <2>1. NodeOk(epoch, DOMAIN nodes, n, nodes[n])
    BY <1>2, NodeIs
  <2>2. nodes[n].hash # None => Says(DOMAIN nodes, n, nodes[n].hash)
    BY <1>3, <2>1 DEF NodeOk
  <2>3. nodes[n].hash # None => p \notin DOMAIN nodes[n].hash
    BY <1>2, <1>3, <2>2, LeafIs DEF Says, On
  <2>4. QED
    BY <1>1, <2>3 DEF Tells, InRoot
<1>4. QED
  BY <1>1, <1>3 DEF TellInv, LeafInv

\* The same of the next state.
LEMMA MissingStays == \A q \in Paths : MissingRight(q)'
<1>1. (\A q \in Paths : MissingRight(q))'
  BY Missing, PTL
<1>2. QED
  BY <1>1

\* For one leaf.
LEMMA MissingNext ==
  ASSUME NEW p \in Paths, ShapeInv', Leaf(p)' \notin DOMAIN nodes'
  PROVE  Content(p)' = None /\ TellInv(p)' /\ LeafInv(p)'
BY MissingStays DEF MissingRight

-------------------------------------------------------------------------------
(* The steps of a call, but for Clear.                                     *)

\* A step of u leaves the hashes, and only adds flags and nodes.
Gentle(u) ==
  /\ epoch' = epoch /\ comp' = comp /\ cachedRoot' = cachedRoot
  /\ DOMAIN nodes \subseteq DOMAIN nodes'
  /\ \A v \in Updaters : v # u => upd'[v] = upd[v]
  /\ \A n \in DOMAIN nodes : ~IsLeaf(n) =>
       nodes'[n].hash = nodes[n].hash /\ (nodes[n].dirty => nodes'[n].dirty)
  /\ \A n \in DOMAIN nodes' : n \notin DOMAIN nodes /\ ~IsLeaf(n) => nodes'[n].hash = None
  /\ \A n \in DOMAIN nodes, p \in Paths : ~IsLeaf(n) /\ Marking(upd[u], p) /\ Pending(upd[u], n) =>
       nodes'[n].dirty \/ (Marking(upd'[u], p) /\ Pending(upd'[u], n))

\* A step leaves the leaf of p.
LeafKept(p) ==
  /\ LeafAt(epoch, p) \in DOMAIN nodes' <=> LeafAt(epoch, p) \in DOMAIN nodes
  /\ LeafAt(epoch, p) \in DOMAIN nodes => nodes'[LeafAt(epoch, p)] = nodes[LeafAt(epoch, p)]

\* Gentle steps uncover no node.
LEMMA CoveredStays ==
  ASSUME ShapeInv, NEW u \in Updaters, Gentle(u), NEW n \in DOMAIN nodes, ~IsLeaf(n),
         NEW p \in Paths, Covered(n, p)
  PROVE  Covered(n, p)'
<1>1. CASE nodes[n].dirty
  BY <1>1 DEF Gentle, Covered
<1>2. ASSUME NEW v \in Updaters, Marking(upd[v], p), Pending(upd[v], n)
      PROVE  Covered(n, p)'
  <2>1. CASE v = u
    <3>1. nodes'[n].dirty \/ (Marking(upd'[u], p) /\ Pending(upd'[u], n))
      BY <1>2, <2>1 DEF Gentle
    <3>2. QED
      BY <3>1 DEF Covered, Marking, Pending, At
  <2>2. CASE v # u
    <3>1. upd'[v] = upd[v]
      BY <2>2 DEF Gentle
    <3>2. QED
      BY <1>2, <3>1 DEF Covered, Marking, Pending, At
  <2>3. QED
    BY <2>1, <2>2
<1>3. QED
  BY <1>1, <1>2 DEF Covered

\* The leaf of p is as it was.
LEMMA KeptContent ==
  ASSUME epoch' = epoch, NEW p \in Paths, LeafKept(p)
  PROVE  Content(p)' = Content(p) /\ (LeafInv(p) => LeafInv(p)')
         /\ Leaf(p)' = Leaf(p)
<1>1. Leaf(p) = LeafAt(epoch, p) /\ Leaf(p)' = LeafAt(epoch, p)
  BY DEF Leaf, Root, LeafAt
<1>2. QED
  BY <1>1 DEF Content, LeafInv, LeafKept

\* So is what the nodes on the way to p tell of it.
LEMMA KeptPath ==
  ASSUME ShapeInv, ShapeInv', NEW u \in Updaters, Gentle(u), NEW p \in Paths, LeafKept(p),
         TellInv(p), LeafInv(p)
  PROVE  TellInv(p)' /\ LeafInv(p)'
<1>1. epoch' = epoch
  BY DEF Gentle
<1>2. Content(p)' = Content(p) /\ LeafInv(p)'
  BY <1>1, KeptContent
<1>3. ASSUME NEW n \in DOMAIN nodes', On(epoch, n, p), ~IsLeaf(n)
      PROVE  Covered(n, p)' \/ Tells(n, p)'
  <2>1. CASE n \notin DOMAIN nodes
    BY <1>3, <2>1 DEF Gentle, Tells
  <2>2. CASE n \in DOMAIN nodes
    <3>1. Covered(n, p) \/ Tells(n, p)
      BY <1>3, <2>2 DEF TellInv
    <3>2. nodes'[n].hash = nodes[n].hash
      BY <1>3, <2>2 DEF Gentle
    <3>3. Tells(n, p) => Tells(n, p)'
      BY <1>2, <3>2 DEF Tells
    <3>4. QED
      BY <1>3, <2>2, <3>1, <3>3, CoveredStays
  <2>3. QED
    BY <2>1, <2>2
<1>4. TellInv(p)'
  BY <1>1, <1>3 DEF TellInv
<1>5. QED
  BY <1>2, <1>4

\* Every node above another on the way to p is covered.
Swept(p) ==
  \A m, x \in DOMAIN nodes :
    On(epoch, m, p) /\ On(epoch, x, p) /\ Len(m) < Len(x) => Covered(m, p)

\* Gentle steps keep a call covered.
LEMMA CoverStays ==
  ASSUME ShapeInv, ShapeInv', NEW u \in Updaters, Gentle(u), NEW p \in Paths, NEW r,
         r.node \in DOMAIN nodes, On(epoch, r.node, p), Cover(r, p)
  PROVE  Cover(r, p)'
<1>1. NodesInv /\ NodesInv' /\ epoch' = epoch
  BY DEF ShapeInv, Gentle
<1>2. ASSUME NEW n \in DOMAIN nodes', On(epoch, n, p), Len(n) < Len(r.node)
      PROVE  Covered(n, p)' \/ Pending(r, n)
  <2>1. n \in Names /\ Len(n) \in Nat
    <3>1. NodeOk(epoch', DOMAIN nodes', n, nodes'[n])
      BY <1>1 DEF NodesInv
    <3>2. QED
      BY <3>1, NameType DEF NodeOk
  <2>2. Len(r.node) \in Nat /\ Len(r.node) <= MaxDepth + 1
    BY <1>1, NodeIs
  <2>3. n \in DOMAIN nodes
    BY <1>1, <1>2, <2>1, <2>2, WayIn DEF On
  <2>4. ~IsLeaf(n)
    BY <1>2, <2>1, <2>2, Depth DEF IsLeaf
  <2>5. Covered(n, p) \/ Pending(r, n)
    BY <1>2, <2>3 DEF Cover
  <2>6. QED
    BY <2>3, <2>4, <2>5, CoveredStays
<1>3. QED
  BY <1>1, <1>2 DEF Cover

\* A call v that walks to p is above covered nodes when all of them are.
LEMMA SweptCover ==
  ASSUME NEW p, Swept(p)', NEW r, r.node \in DOMAIN nodes', On(epoch', r.node, p)
  PROVE  Cover(r, p)'
BY DEF Swept, Cover

\* The node a computation is at is one of the tree.
LEMMA CalledIn ==
  ASSUME NEW N, NEW r \in Computation, FramesOk(N, r), NEW n, Called(r.frames, n)
  PROVE  n \in N
<1>1. PICK L, f : L = Len(r.frames) /\ f = r.frames[L]
  OBVIOUS
<1>2. r.frames # <<>> /\ \E k \in f.left : n = Append(f.node, k)
  BY <1>1 DEF Called
<1>3. r.frames \in Seq(Frame)
  BY DEF Computation
<1>4. L \in DOMAIN r.frames
  BY <1>1, <1>2, <1>3, FrontIs
<1>5. FrameOk(N, f)
  BY <1>1, <1>4 DEF FramesOk
<1>6. QED
  BY <1>2, <1>5 DEF FrameOk

\* What a computation has is right after a step that leaves the leaf of p.
LEMMA FramesStay ==
  ASSUME epoch' = epoch, NEW p \in Paths, LeafKept(p), NEW r \in Computation,
         FramesOk(DOMAIN nodes, r), FramesRight(r, p)
  PROVE  FramesRight(r, p)'
<1>1. Content(p)' = Content(p) /\ Leaf(p)' = Leaf(p) /\ Root' = Root
  BY KeptContent DEF Root
<1>2. Leaf(p) = LeafAt(epoch, p)
  BY DEF Leaf, Root, LeafAt
<1>3. ASSUME r.pc = "leaf", r.leaf = Leaf(p)'
      PROVE  r.value = nodes'[r.leaf].value /\ r.value # None
  <2>1. r.value = nodes[r.leaf].value /\ r.value # None
    BY <1>1, <1>3 DEF FramesRight
  <2>2. r.leaf \in DOMAIN nodes
    BY <1>3, CalledIn DEF FramesOk
  <2>3. QED
    BY <1>1, <1>2, <1>3, <2>1, <2>2 DEF LeafKept
<1>4. QED
  BY <1>1, <1>3 DEF FramesRight

\* With no computation under way, nothing is to be right about one.
LEMMA NoFrames ==
  ASSUME NEW p, NEW r, r = Waiting
  PROVE  FramesRight(r, p)'
BY DEF FramesRight, Waiting

\* A call's step that is gentle keeps the roots right if it covers a leaf that
\* it changes, and if no computation under way minds.
LEMMA UpdateRight ==
  ASSUME ShapeInv, ShapeInv', RightInv, NEW u \in Updaters, Gentle(u),
         \A p \in Paths : Watched(p)' => Watched(p) \/ (Swept(p)' /\ TellInv(p)' /\ LeafInv(p)'),
         Computing = {} => \A p \in Paths : Watched(p) => Watched(p)',
         \A p \in Paths : LeafKept(p) \/ (Watched(p)' => TellInv(p)' /\ LeafInv(p)'),
         \A r \in Call : upd'[u] = r => CoverInv(r)',
         Computing # {} => \A p \in Paths : p \notin raced' => p \notin raced /\ LeafKept(p),
         \A p \in Paths : p \notin raced' => RootRight(p)'
  PROVE  RightInv'
<1>1. ASSUME NEW p \in Paths, Watched(p)'
      PROVE  TellInv(p)' /\ LeafInv(p)'
  <2>1. CASE LeafKept(p) /\ Watched(p)
    <3>1. TellInv(p) /\ LeafInv(p)
      BY <2>1 DEF RightInv
    <3>2. QED
      BY <2>1, <3>1, KeptPath
  <2>2. QED
    BY <1>1, <2>1
<1>2. ASSUME NEW v \in Updaters, NEW r \in Call, upd'[v] = r
      PROVE  CoverInv(r)'
  <2>1. CASE v = u
    BY <1>2, <2>1
  <2>2. CASE v # u
    <3>1. upd[v] = r
      BY <1>2, <2>2 DEF Gentle
    <3>2. SUFFICES ASSUME r.pc \in {"walk", "leaf"}
                   PROVE  CoverInv(r)'
      BY DEF CoverInv
    <3>3. CallOk(DOMAIN nodes, r)
      BY <3>1 DEF ShapeInv, CallsInv
    <3>4. PICK p : p = At(r)
      OBVIOUS
    <3>5. p \in Paths /\ r.node \in DOMAIN nodes
      BY <3>2, <3>3, <3>4, WorkTouched DEF CallOk
    <3>6. DOMAIN nodes \subseteq DOMAIN nodes' /\ epoch' = epoch
      BY DEF Gentle
    <3>7. /\ Watched(p) /\ On(epoch, r.node, p) => Cover(r, p)
          /\ r.alone => Watched(p) \/ (On(epoch, r.node, p) /\ Cover(r, p))
      BY <3>1, <3>2, <3>4 DEF RightInv, CoverInv
    <3>8. ASSUME On(epoch, r.node, p), Cover(r, p)
          PROVE  Cover(r, p)'
      BY <3>5, <3>8, CoverStays
    <3>9. ASSUME Watched(p)', On(epoch, r.node, p)
          PROVE  Cover(r, p)'
      <4>1. CASE Watched(p)
        BY <3>7, <3>8, <3>9, <4>1
      <4>2. CASE Swept(p)'
        BY <3>5, <3>6, <3>9, <4>2, SweptCover
      <4>3. QED
        BY <3>5, <3>9, <4>1, <4>2
    <3>10. ASSUME r.alone
           PROVE  Watched(p)' \/ (On(epoch, r.node, p) /\ Cover(r, p)')
      <4>1. Computing = {}
        BY <3>1, <3>2, <3>10 DEF ShapeInv, MeetInv
      <4>2. QED
        BY <3>5, <3>7, <3>8, <3>10, <4>1
    <3>11. QED
      BY <3>4, <3>6, <3>9, <3>10 DEF CoverInv
  <2>3. QED
    BY <2>1, <2>2
<1>3. ASSUME NEW p \in Paths, p \notin raced', NEW c \in Computers,
             NEW r \in Computation, comp'[c] = r
      PROVE  FramesRight(r, p)'
  <2>1. comp[c] = r /\ FramesOk(DOMAIN nodes, r)
    BY <1>3 DEF Gentle, ShapeInv, FramesInv
  <2>2. CASE Computing = {}
    <3>1. r = Waiting
      BY <2>1, <2>2 DEF Computing, FramesOk
    <3>2. QED
      BY <3>1, NoFrames
  <2>3. CASE Computing # {}
    <3>1. p \notin raced /\ LeafKept(p)
      BY <1>3, <2>3
    <3>2. FramesRight(r, p) /\ epoch' = epoch
      BY <2>1, <3>1 DEF RightInv, Gentle
    <3>3. QED
      BY <2>1, <3>1, <3>2, FramesStay
  <2>4. QED
    BY <2>2, <2>3
<1>4. QED
  BY <1>1, <1>2, <1>3 DEF RightInv

\* No leaf comes to be watched, and none ceases to be while nobody computes.
LEMMA WatchedSame ==
  ASSUME NEW u \in Updaters, \A v \in Updaters : v # u => upd'[v] = upd[v],
         raced \subseteq raced', Computing = {} => raced' = raced,
         NEW p \in Paths, Clean(upd'[u], p) <=> Clean(upd[u], p)
  PROVE  (Watched(p)' => Watched(p)) /\ (Computing = {} => (Watched(p) => Watched(p)'))
<1>1. ASSUME NEW v \in Updaters
      PROVE  Clean(upd'[v], p) <=> Clean(upd[v], p)
  BY <1>1
<1>2. Watched(p)' <=> p \notin raced' \/ \E v \in Updaters : Clean(upd'[v], p)
  BY DEF Watched, Clean, Changed, Marking, At
<1>3. QED
  BY <1>1, <1>2 DEF Watched

\* A step of a call that changes no leaf and no root.
LEMMA QuietRight ==
  ASSUME ShapeInv, ShapeInv', RightInv, NEW u \in Updaters, Gentle(u),
         rootCacheValid' = rootCacheValid, \A p \in Paths : LeafKept(p),
         raced \subseteq raced', Computing = {} => raced' = raced,
         \A p \in Paths : Clean(upd'[u], p) <=> Clean(upd[u], p),
         \A p \in Paths : Changed(upd'[u], p) <=> Changed(upd[u], p),
         \A r \in Call : upd'[u] = r => CoverInv(r)'
  PROVE  RightInv'
<1>1. \A v \in Updaters : v # u => upd'[v] = upd[v]
  BY DEF Gentle
<1>2. \A p \in Paths : Watched(p)' => Watched(p)
  BY <1>1, WatchedSame
<1>3. Computing = {} => \A p \in Paths : Watched(p) => Watched(p)'
  BY <1>1, WatchedSame
<1>4. ASSUME NEW p \in Paths, p \notin raced'
      PROVE  RootRight(p)'
  <2>1. RootRight(p)
    BY <1>4 DEF RightInv
  <2>2. Content(p)' = Content(p) /\ comp' = comp /\ cachedRoot' = cachedRoot
    BY KeptContent DEF Gentle
  <2>3. \A v \in Updaters : Changed(upd'[v], p) <=> Changed(upd[v], p)
    BY <1>1
  <2>4. (\E v \in Updaters : Changed(upd[v], p))' <=> \E v \in Updaters : Changed(upd'[v], p)
    BY DEF Changed, Marking, At
  <2>5. QED
    BY <2>1, <2>2, <2>3, <2>4 DEF RootRight
<1>5. Computing # {} => \A p \in Paths : p \notin raced' => p \notin raced /\ LeafKept(p)
  OBVIOUS
<1>6. QED
  BY <1>2, <1>3, <1>4, <1>5, UpdateRight

\* Above a root there is nothing to cover.
LEMMA RootCover ==
  ASSUME ShapeInv', NEW r \in Call, r.pc \in {"walk", "leaf"} => r.node = Root',
         r.pc \in {"walk", "leaf"} => At(r) \in Paths
  PROVE  CoverInv(r)'
<1>1. SUFFICES ASSUME r.node = Root', At(r) \in Paths
               PROVE  Cover(r, At(r))' /\ On(epoch', r.node, At(r))
  BY DEF CoverInv
<1>2. NodesInv' /\ epoch' \in Nat /\ Root' = <<epoch'>>
  BY DEF ShapeInv, StateType, Root
<1>3. \A n \in DOMAIN nodes' : Len(n) \in Nat /\ Len(n) >= 1
  <2>1. SUFFICES ASSUME NEW n \in DOMAIN nodes'
                 PROVE  Len(n) \in Nat /\ Len(n) >= 1
    OBVIOUS
  <2>2. NodeOk(epoch', DOMAIN nodes', n, nodes'[n])
    BY <1>2 DEF NodesInv
  <2>3. QED
    BY <2>2, NameType DEF NodeOk
<1>4. Len(r.node) = 1 /\ On(epoch', r.node, At(r))
  BY <1>1, <1>2, RootName
<1>5. QED
  BY <1>3, <1>4 DEF Cover

\* What a call has changed when it goes on with r, having done a leaf or a flag.
LEMMA UnwindChanged ==
  ASSUME ShapeInv, NEW r \in Call, r.todo # <<>>, NEW s, s = Unwind(r)
  PROVE  /\ s.alone = r.alone
         /\ \A p : Changed(s, p) <=> p \in r.done \/ p = At(r)
         /\ s.pc \in {"walk", "leaf"} => s.node = Root
         /\ \A n : Pending(r, n) => Marking(s, At(r)) /\ Pending(s, n)
<1>1. /\ s \in Call /\ s.marks = r.marks /\ s.alone = r.alone
      /\ r.marks # <<>> => s.pc = "mark" /\ s.todo = r.todo /\ s.done = r.done
      /\ r.marks = <<>> => s.pc \in {"walk", "invalidate"} /\ s.done = r.done \cup {At(r)} /\ s.node = Root
  BY UnwindIs
<1>2. CASE r.marks # <<>>
  <2>1. At(s) = At(r)
    BY <1>1, <1>2 DEF At
  <2>2. QED
    BY <1>1, <1>2, <2>1 DEF Changed, Marking, Pending
<1>3. CASE r.marks = <<>>
  <2>1. \A n : ~Pending(r, n)
    BY <1>3 DEF Pending
  <2>2. QED
    BY <1>1, <1>3, <2>1 DEF Changed, Marking
<1>4. QED
  BY <1>2, <1>3

\* The nodes are the same: nothing is asked of them.
LEMMA GentleSame ==
  ASSUME ShapeInv, NEW u \in Updaters, UNCHANGED <<nodes, epoch, comp, cachedRoot>>,
         NEW r, upd' = [upd EXCEPT ![u] = r],
         \A p \in Paths : \A n : Marking(upd[u], p) /\ Pending(upd[u], n) => Marking(r, p) /\ Pending(r, n)
  PROVE  Gentle(u) /\ upd'[u] = r /\ \A p : LeafKept(p)
<1>1. upd'[u] = r /\ \A v \in Updaters : v # u => upd'[v] = upd[v]
  BY DEF ShapeInv, StateType
<1>2. QED
  BY <1>1 DEF Gentle, LeafKept

\* A goroutine without a call has changed nothing.
LEMMA RestingIs ==
  /\ Resting.pc = "idle" /\ Resting.done = {} /\ Resting.marks = <<>> /\ Resting.todo = <<>>
  /\ Resting.kind = "insert" /\ \A p : ~Changed(Resting, p)
BY DEF Resting, Changed, Marking

\* Insert keeps the roots right.
LEMMA InsertRight ==
  ASSUME ShapeInv, ShapeInv', RightInv, NEW u \in Updaters, NEW its \in Batches, Insert(u, its)
  PROVE  RightInv'
<1>1. upd[u] = Resting /\ \A p : ~Changed(upd[u], p)
  BY RestingIs DEF ShapeInv, CallsInv, CallOk, Insert, StartUpdate
<1>2. PICK r : r = [Resting EXCEPT !.pc = "walk", !.todo = its, !.node = Root, !.alone = (Computing = {})]
  OBVIOUS
<1>3. upd' = [upd EXCEPT ![u] = r]
  BY <1>2 DEF Insert
<1>4. r.pc = "walk" /\ r.node = Root /\ r.done = {}
  BY <1>2 DEF Resting
<1>5. \A p : ~Changed(r, p)
  BY <1>4 DEF Changed, Marking
<1>6. UNCHANGED <<nodes, epoch, comp, cachedRoot, rootCacheValid>>
      /\ raced \subseteq raced' /\ (Computing = {} => raced' = raced)
  BY DEF Insert, Meet
<1>7. \A p : ~Marking(upd[u], p)
  BY <1>1 DEF Changed
<1>8. Gentle(u) /\ upd'[u] = r /\ \A p : LeafKept(p)
  BY <1>3, <1>6, <1>7, GentleSame
<1>9. r \in Call /\ CallOk(DOMAIN nodes', r) /\ Root' = Root
  BY <1>6, <1>8 DEF ShapeInv, StateType, CallsInv, Root
<1>10. At(r) \in Paths
  BY <1>4, <1>9, WorkTouched
<1>11. CoverInv(r)'
  BY <1>4, <1>9, <1>10, RootCover
<1>12. QED
  BY <1>1, <1>5, <1>6, <1>8, <1>11, QuietRight DEF Clean

\* Delete keeps the roots right.
LEMMA DeleteRight ==
  ASSUME ShapeInv, ShapeInv', RightInv, NEW u \in Updaters, NEW ids, NEW kind,
         Delete(u, ids, kind)
  PROVE  RightInv'
<1>1. upd[u] = Resting /\ \A p : ~Changed(upd[u], p)
  BY RestingIs DEF ShapeInv, CallsInv, CallOk, Delete, StartUpdate
<1>2. PICK r : r = [Resting EXCEPT !.pc = "unlink", !.kind = kind, !.drop = ids, !.alone = (Computing = {})]
  OBVIOUS
<1>3. upd' = [upd EXCEPT ![u] = r]
  BY <1>2 DEF Delete
<1>4. r.pc = "unlink" /\ r.done = {}
  BY <1>2 DEF Resting
<1>5. \A p : ~Changed(r, p)
  BY <1>4 DEF Changed, Marking
<1>6. UNCHANGED <<nodes, epoch, comp, cachedRoot, rootCacheValid>>
      /\ raced \subseteq raced' /\ (Computing = {} => raced' = raced)
  BY DEF Delete, Meet
<1>7. \A p : ~Marking(upd[u], p)
  BY <1>1 DEF Changed
<1>8. Gentle(u) /\ upd'[u] = r /\ \A p : LeafKept(p)
  BY <1>3, <1>6, <1>7, GentleSame
<1>9. CoverInv(r)'
  BY <1>4 DEF CoverInv
<1>10. QED
  BY <1>1, <1>5, <1>6, <1>8, <1>9, QuietRight DEF Clean

\* Unlink keeps the roots right.
LEMMA UnlinkRight ==
  ASSUME ShapeInv, ShapeInv', RightInv, NEW u \in Updaters, Unlink(u)
  PROVE  RightInv'
<1>1. PICK r, s : r = upd[u] /\ s = upd'[u]
  OBVIOUS
<1>2. r \in Call /\ r.pc = "unlink" /\ r.done = {} /\ upd \in [Updaters -> Call]
  BY <1>1 DEF Unlink, ShapeInv, StateType, CallsInv, CallOk
<1>3. upd' = [upd EXCEPT ![u] = s] /\ s.pc = "unlink" /\ s.done = {}
  BY <1>1, <1>2 DEF Unlink, Call
<1>4. (\A p : ~Changed(r, p)) /\ (\A p : ~Changed(s, p))
  BY <1>2, <1>3 DEF Changed, Marking
<1>5. UNCHANGED <<nodes, epoch, comp, cachedRoot, rootCacheValid, raced>>
  BY DEF Unlink
<1>6. \A p : ~Marking(upd[u], p)
  BY <1>1, <1>4 DEF Changed
<1>7. Gentle(u) /\ \A p : LeafKept(p)
  BY <1>3, <1>5, <1>6, GentleSame
<1>8. CoverInv(s)'
  BY <1>3 DEF CoverInv
<1>9. QED
  BY <1>1, <1>4, <1>5, <1>7, <1>8, QuietRight DEF Clean

\* StartRemoval keeps the roots right.
LEMMA StartRemovalRight ==
  ASSUME ShapeInv, ShapeInv', RightInv, NEW u \in Updaters, StartRemoval(u)
  PROVE  RightInv'
<1>1. PICK r, s : r = upd[u] /\ s = upd'[u]
  OBVIOUS
<1>2. r \in Call /\ r.pc = "unlink" /\ r.done = {} /\ upd \in [Updaters -> Call]
  BY <1>1 DEF StartRemoval, ShapeInv, StateType, CallsInv, CallOk
<1>3. /\ upd' = [upd EXCEPT ![u] = s]
      /\ s = Resting \/ (s.pc = "walk" /\ s.node = Root /\ s.done = {})
  <2>1. PICK w : w = [r EXCEPT !.pc = "walk", !.node = Root]
    OBVIOUS
  <2>2. upd' = [upd EXCEPT ![u] = Resting] \/ upd' = [upd EXCEPT ![u] = w]
    BY <1>1, <1>2, <2>1 DEF StartRemoval
  <2>3. w.pc = "walk" /\ w.node = Root /\ w.done = {}
    BY <1>2, <2>1 DEF Call
  <2>4. s = Resting \/ s = w
    BY <1>1, <1>2, <2>2
  <2>5. QED
    BY <1>1, <1>2, <2>2, <2>3, <2>4
<1>4. (\A p : ~Changed(r, p)) /\ (\A p : ~Changed(s, p))
  BY <1>2, <1>3, RestingIs DEF Changed, Marking
<1>5. UNCHANGED <<nodes, epoch, comp, cachedRoot, rootCacheValid, raced>>
  BY DEF StartRemoval
<1>6. \A p : ~Marking(upd[u], p)
  BY <1>1, <1>4 DEF Changed
<1>7. Gentle(u) /\ \A p : LeafKept(p)
  BY <1>3, <1>5, <1>6, GentleSame
<1>8. s \in Call /\ CallOk(DOMAIN nodes', s) /\ Root' = Root
  BY <1>1, <1>5 DEF ShapeInv, StateType, CallsInv, Root
<1>9. s.pc \in {"walk", "leaf"} => s.node = Root' /\ At(s) \in Paths
  BY <1>3, <1>8, RestingIs, WorkTouched
<1>10. CoverInv(s)'
  BY <1>8, <1>9, RootCover
<1>11. QED
  BY <1>1, <1>4, <1>5, <1>7, <1>10, QuietRight DEF Clean

\* Mark keeps the roots right.
LEMMA MarkRight ==
  ASSUME ShapeInv, ShapeInv', RightInv, NEW u \in Updaters, Mark(u)
  PROVE  RightInv'
<1>1. PICK r : r = upd[u]
  OBVIOUS
<1>2. UNCHANGED <<items, epoch, cachedRoot, rootCacheValid, comp, budget, raced>>
  BY <1>1, MarkIs
<1>3. PICK p, m, q : AtMark(r, p, m, q) /\ upd' = [upd EXCEPT ![u] = Unwind(q)]
  BY <1>1, MarkIs
<1>4. /\ r \in Call /\ r.pc = "mark" /\ r.todo # <<>>
      /\ p = At(r) /\ p \in Paths /\ m \in DOMAIN nodes /\ ~IsLeaf(m)
      /\ q \in Call /\ q.todo = r.todo /\ q.done = r.done /\ q.alone = r.alone /\ At(q) = p
      /\ \A k \in DOMAIN r.marks : k \in DOMAIN q.marks \/ r.marks[k] = m
      /\ \A k \in DOMAIN q.marks : k \in DOMAIN r.marks /\ q.marks[k] = r.marks[k]
      /\ nodes' = Flagged(nodes, m)
  BY <1>3 DEF AtMark
<1>5. PICK s : s = Unwind(q)
  OBVIOUS
<1>6. upd \in [Updaters -> Call] /\ upd'[u] = s /\ \A v \in Updaters : v # u => upd'[v] = upd[v]
  BY <1>3, <1>5 DEF ShapeInv, StateType
<1>7. /\ s.alone = r.alone
      /\ \A x : Changed(s, x) <=> x \in r.done \/ x = p
      /\ s.pc \in {"walk", "leaf"} => s.node = Root
      /\ \A n : Pending(q, n) => Marking(s, p) /\ Pending(s, n)
  <2>1. q.todo # <<>>
    BY <1>4
  <2>2. QED
    BY <1>4, <1>5, <2>1, UnwindChanged
<1>8. \A x : Changed(r, x) <=> x \in r.done \/ x = p
  BY <1>4 DEF Changed, Marking
<1>9. /\ DOMAIN nodes' = DOMAIN nodes /\ nodes'[m].dirty = TRUE
      /\ \A x \in DOMAIN nodes : nodes'[x].hash = nodes[x].hash
      /\ \A x \in DOMAIN nodes : x # m => nodes'[x] = nodes[x]
  <2>1. PICK D : D = DOMAIN nodes
    OBVIOUS
  <2>2. nodes \in [D -> Node] /\ m \in D
    BY <1>4, <2>1 DEF ShapeInv, NodesInv
  <2>3. /\ DOMAIN Flagged(nodes, m) = D /\ Flagged(nodes, m)[m].dirty = TRUE
        /\ \A x \in D : Flagged(nodes, m)[x].hash = nodes[x].hash
        /\ \A x \in D : x # m => Flagged(nodes, m)[x] = nodes[x]
    BY <2>2, MarkedNodes, ZenonT(60)
  <2>4. QED
    BY <1>4, <2>1, <2>3
<1>10. Gentle(u)
  <2>1. ASSUME NEW n \in DOMAIN nodes, NEW x \in Paths, Marking(upd[u], x), Pending(upd[u], n)
        PROVE  nodes'[n].dirty \/ (Marking(upd'[u], x) /\ Pending(upd'[u], n))
    <3>1. x = p /\ Pending(r, n)
      BY <1>1, <1>4, <2>1 DEF Marking
    <3>2. n = m \/ Pending(q, n)
      BY <1>4, <3>1 DEF Pending
    <3>3. QED
      BY <1>6, <1>7, <1>9, <3>1, <3>2
  <2>2. \A n \in DOMAIN nodes : nodes[n].dirty => nodes'[n].dirty
    BY <1>9
  <2>3. QED
    BY <1>2, <1>6, <1>9, <2>1, <2>2 DEF Gentle
<1>11. \A x \in Paths : LeafKept(x)
  <2>1. SUFFICES ASSUME NEW x \in Paths
                 PROVE  LeafKept(x)
    OBVIOUS
  <2>2. LeafAt(epoch, x) # m
    BY <1>4, RootIn, LeafName
  <2>3. QED
    BY <1>9, <2>2 DEF LeafKept
<1>12. s \in Call /\ CallOk(DOMAIN nodes', s) /\ Root' = Root
  BY <1>2, <1>6 DEF ShapeInv, StateType, CallsInv, Root
<1>13. s.pc \in {"walk", "leaf"} => s.node = Root' /\ At(s) \in Paths
  BY <1>7, <1>12, WorkTouched
<1>14. CoverInv(s)'
  BY <1>12, <1>13, RootCover
<1>15. QED
  BY <1>1, <1>2, <1>6, <1>7, <1>8, <1>10, <1>11, <1>14, QuietRight DEF Clean

\* A call on its way to p goes down from node n, which is covered or will be.
LEMMA StepDown ==
  ASSUME ShapeInv, ShapeInv', NEW u \in Updaters, Gentle(u),
         NEW r, NEW n, NEW p, NEW child, r = upd[u], r.pc = "walk", Walking(r, n, p, child),
         CoverInv(r),
         NEW s, s.node = child, s.alone = r.alone, At(s) = p,
         \A x : Pending(r, x) => Pending(s, x),
         Covered(n, p)' \/ Pending(s, n),
         Watched(p)' => Watched(p),
         Computing = {} => (Watched(p) => Watched(p)')
  PROVE  CoverInv(s)'
<1>1. /\ n = r.node /\ p = At(r) /\ p \in Paths
      /\ n \in DOMAIN nodes /\ n \in Names /\ ~IsLeaf(n) /\ Through(n, p)
      /\ Len(n) \in Nat /\ Len(n) >= 1 /\ Len(n) <= MaxDepth
      /\ Len(child) = Len(n) + 1 /\ child[1] = n[1] /\ Through(child, p)
  BY DEF Walking
<1>2. epoch' = epoch /\ NodesInv /\ NodesInv'
  BY DEF Gentle, ShapeInv
<1>3. ASSUME On(epoch, n, p), Cover(r, p)
      PROVE  Cover(s, p)'
  <2>1. ASSUME NEW m \in DOMAIN nodes', On(epoch, m, p), Len(m) < Len(child)
        PROVE  Covered(m, p)' \/ Pending(s, m)
    <3>1. m \in Names /\ Len(m) \in Nat
      <4>1. NodeOk(epoch', DOMAIN nodes', m, nodes'[m])
        BY <1>2, <2>1 DEF NodesInv
      <4>2. QED
        BY <4>1, NameType DEF NodeOk
    <3>2. Len(m) <= Len(n) /\ ~IsLeaf(m)
      BY <1>1, <2>1, <3>1, Depth DEF IsLeaf
    <3>3. m \in DOMAIN nodes
      BY <1>1, <1>2, <1>3, <2>1, <3>1, <3>2, WayIn DEF On
    <3>4. CASE Len(m) = Len(n)
      <4>1. m = n
        BY <1>1, <1>3, <2>1, <3>1, <3>4, SameNode DEF On
      <4>2. QED
        BY <4>1
    <3>5. CASE Len(m) < Len(n)
      <4>1. Covered(m, p) \/ Pending(r, m)
        BY <1>1, <1>3, <2>1, <3>3, <3>5 DEF Cover
      <4>2. QED
        BY <1>1, <3>2, <3>3, <4>1, CoveredStays
    <3>6. QED
      BY <1>1, <3>1, <3>2, <3>4, <3>5
  <2>2. QED
    BY <1>2, <2>1 DEF Cover
<1>4. On(epoch, n, p) <=> On(epoch, child, p)
  BY <1>1 DEF On
<1>5. /\ Watched(p) /\ On(epoch, n, p) => Cover(r, p)
      /\ r.alone => Watched(p) \/ (On(epoch, n, p) /\ Cover(r, p))
  BY <1>1 DEF CoverInv
<1>6. r.alone => Computing = {}
  BY DEF ShapeInv, MeetInv
<1>7. QED
  BY <1>2, <1>3, <1>4, <1>5, <1>6 DEF CoverInv

\* The tree after call r, at node n, has made the node child.
Grown(r, n, child) ==
  /\ DOMAIN nodes' = DOMAIN nodes \cup {child} /\ child \notin DOMAIN nodes
  /\ nodes'[child].hash = None
  /\ IsLeaf(child) => nodes'[child].dirty = TRUE /\ nodes'[child].value = Head(r.todo)
  /\ nodes'[n].dirty = TRUE /\ nodes'[n].hash = nodes[n].hash
  /\ \A x \in DOMAIN nodes : x # n => nodes'[x] = nodes[x]

\* A new child, and the flag of its parent.
LEMMA WalkNewIs ==
  ASSUME ShapeInv, NEW u \in Updaters, NEW r, NEW n, NEW p, NEW child,
         Walking(r, n, p, child), WalkNew(u, r, n, child)
  PROVE  Grown(r, n, child)
<1>1. n \in DOMAIN nodes /\ Head(r.todo) \in Item
  BY DEF Walking
<1>2. PICK nd : nd = IF IsLeaf(child) THEN NewLeaf(Head(r.todo)) ELSE NewNode
  OBVIOUS
<1>3. /\ nd \in Node /\ nd.hash = None
      /\ IsLeaf(child) => nd.value = Head(r.todo) /\ nd.dirty = TRUE
  BY <1>1, <1>2, NewNodes
<1>4. PICK ns : ns = WithNode(child, nd)
  OBVIOUS
<1>5. child \notin DOMAIN nodes
  BY DEF WalkNew
<1>5a. nodes' = [ns EXCEPT ![n].dirty = TRUE]
  BY <1>2, <1>4 DEF WalkNew
<1>6. ns \in [DOMAIN nodes \cup {child} -> Node] /\ ns[child] = nd
      /\ \A x \in DOMAIN nodes : ns[x] = nodes[x]
  <2>1. /\ WithNode(child, nd) \in [DOMAIN nodes \cup {child} -> Node]
        /\ WithNode(child, nd)[child] = nd
        /\ \A x \in DOMAIN nodes : WithNode(child, nd)[x] = nodes[x]
    <3>1. nd \in Node
      BY <1>3
    <3>2. QED
      BY <1>5, <3>1, AddedNode, Zenon
  <2>2. QED
    BY <1>4, <2>1
<1>7. PICK D : D = DOMAIN nodes \cup {child}
  OBVIOUS
<1>8. ns \in [D -> Node] /\ n \in D /\ child \in D /\ child # n /\ nodes' = Flagged(ns, n)
  BY <1>1, <1>5, <1>5a, <1>6, <1>7 DEF Flagged
<1>9. /\ DOMAIN Flagged(ns, n) = D /\ Flagged(ns, n)[n].dirty = TRUE
      /\ \A x \in D : Flagged(ns, n)[x].hash = ns[x].hash
      /\ \A x \in D : x # n => Flagged(ns, n)[x] = ns[x]
  <2>1. ns \in [D -> Node] /\ n \in D
    BY <1>8
  <2>2. QED
    BY <2>1, MarkedNodes, ZenonT(60)
<1>10. nodes'[child] = nd /\ nodes'[n].hash = nodes[n].hash
       /\ \A x \in DOMAIN nodes : x # n => nodes'[x] = nodes[x]
  BY <1>1, <1>6, <1>7, <1>8, <1>9
<1>11. QED
  BY <1>1, <1>3, <1>5, <1>7, <1>8, <1>9, <1>10 DEF Grown

\* It is a gentle step.
LEMMA WalkNewGentle ==
  ASSUME ShapeInv, NEW u \in Updaters, NEW r, NEW n, NEW p, NEW child, r = upd[u], r.pc = "walk",
         Walking(r, n, p, child), WalkNew(u, r, n, child),
         UNCHANGED <<epoch, comp, cachedRoot>>
  PROVE  /\ Gentle(u)
         /\ \A x \in Paths : LeafKept(x) \/ LeafAt(epoch, x) = child
<1>1. n \in DOMAIN nodes /\ ~IsLeaf(n)
  BY DEF Walking
<1>2. /\ DOMAIN nodes' = DOMAIN nodes \cup {child} /\ child \notin DOMAIN nodes
      /\ nodes'[child].hash = None
      /\ nodes'[n].dirty = TRUE /\ nodes'[n].hash = nodes[n].hash
      /\ \A x \in DOMAIN nodes : x # n => nodes'[x] = nodes[x]
  <2>1. Grown(r, n, child)
    BY WalkNewIs
  <2>2. QED
    BY <2>1 DEF Grown
<1>3. \A v \in Updaters : v # u => upd'[v] = upd[v]
  <2>1. PICK s : upd' = [upd EXCEPT ![u] = s]
    BY DEF WalkNew
  <2>2. QED
    BY <2>1 DEF ShapeInv, StateType
<1>4. \A x : ~Marking(upd[u], x)
  BY DEF Marking
<1>5. Gentle(u)
  <2>1. \A x \in DOMAIN nodes : nodes'[x].hash = nodes[x].hash /\ (nodes[x].dirty => nodes'[x].dirty)
    BY <1>2
  <2>2. QED
    BY <1>2, <1>3, <1>4, <2>1 DEF Gentle
<1>6. ASSUME NEW x \in Paths, LeafAt(epoch, x) # child
      PROVE  LeafKept(x)
  <2>1. LeafAt(epoch, x) # n
    BY <1>1, RootIn, LeafName
  <2>2. QED
    BY <1>2, <1>6, <2>1 DEF LeafKept
<1>7. QED
  BY <1>5, <1>6

\* Walk, when there is a child, keeps the roots right.
LEMMA WalkFoundRight ==
  ASSUME ShapeInv, ShapeInv', RightInv, NEW u \in Updaters,
         NEW r, NEW n, NEW p, NEW child, r = upd[u], r.pc = "walk",
         Walking(r, n, p, child), WalkFound(u, r, n, child),
         UNCHANGED <<epoch, cachedRoot, rootCacheValid, comp, raced>>
  PROVE  RightInv'
<1>1. PICK s : s = [r EXCEPT !.node = child, !.marks = Append(@, n),
                             !.pc = IF IsLeaf(child) THEN "leaf" ELSE "walk"]
  OBVIOUS
<1>2. r \in Call /\ p \in Paths /\ n \in DOMAIN nodes /\ n \in Names /\ p = At(r)
  BY DEF Walking
<1>3. r.marks \in Seq(Names) /\ Append(r.marks, n) \in Seq(Names)
  BY <1>2 DEF Call
<1>4. upd' = [upd EXCEPT ![u] = s] /\ UNCHANGED nodes
  BY <1>1 DEF WalkFound
<1>5. /\ s.node = child /\ s.todo = r.todo /\ s.marks = Append(r.marks, n)
      /\ s.done = r.done /\ s.alone = r.alone /\ s.pc \in {"walk", "leaf"}
  BY <1>1, <1>2, <1>3 DEF Call
<1>6. At(s) = p
  BY <1>2, <1>5 DEF At
<1>7. \A x : ~Marking(upd[u], x)
  BY DEF Marking
<1>8. Gentle(u) /\ upd'[u] = s /\ \A x : LeafKept(x)
  BY <1>4, <1>7, GentleSame
<1>9. \A x : Changed(s, x) <=> Changed(r, x)
  BY <1>5 DEF Changed, Marking
<1>10. \A x \in Paths : Clean(s, x) <=> Clean(r, x)
  BY <1>5, <1>9 DEF Clean
<1>11. (\A x : Pending(r, x) => Pending(s, x)) /\ Pending(s, n)
  <2>1. PICK L, ms, ns : L = Len(r.marks) /\ ms = r.marks /\ ns = Append(ms, n)
    OBVIOUS
  <2>2. /\ DOMAIN ms = 1 .. L /\ DOMAIN ns = 1 .. L + 1 /\ L \in Nat
        /\ ns[L + 1] = n /\ \A i \in 1 .. L : ns[i] = ms[i]
    BY <1>2, <1>3, <2>1
  <2>3. (\A i \in DOMAIN ms : i \in DOMAIN ns /\ ns[i] = ms[i]) /\ L + 1 \in DOMAIN ns
    BY <2>2
  <2>4. QED
    BY <1>5, <2>1, <2>2, <2>3 DEF Pending
<1>12. (Watched(p)' => Watched(p)) /\ (Computing = {} => (Watched(p) => Watched(p)'))
  <2>1. \A v \in Updaters : v # u => upd'[v] = upd[v]
    BY <1>8 DEF Gentle
  <2>2. QED
    BY <1>2, <1>8, <1>10, <2>1, WatchedSame
<1>13. CoverInv(r)
  BY <1>2 DEF RightInv
<1>14. CoverInv(s)'
  BY <1>5, <1>6, <1>8, <1>11, <1>12, <1>13, StepDown
<1>15. QED
  BY <1>8, <1>9, <1>10, <1>14, QuietRight

\* Walk, when it adds an inner node, keeps the roots right.
LEMMA WalkInnerRight ==
  ASSUME ShapeInv, ShapeInv', RightInv, NEW u \in Updaters,
         NEW r, NEW n, NEW p, NEW child, r = upd[u], r.pc = "walk",
         Walking(r, n, p, child), WalkNew(u, r, n, child), ~IsLeaf(child),
         UNCHANGED <<epoch, cachedRoot, rootCacheValid, comp, raced>>
  PROVE  RightInv'
<1>1. PICK s : s = [r EXCEPT !.node = child]
  OBVIOUS
<1>2. r \in Call /\ p \in Paths /\ n \in DOMAIN nodes /\ p = At(r)
  BY DEF Walking
<1>3. upd' = [upd EXCEPT ![u] = s] /\ nodes'[n].dirty = TRUE
  <2>1. Grown(r, n, child)
    BY WalkNewIs
  <2>2. QED
    BY <1>1, <2>1 DEF Grown, WalkNew
<1>4. /\ s.node = child /\ s.todo = r.todo /\ s.marks = r.marks
      /\ s.done = r.done /\ s.alone = r.alone /\ s.pc = "walk"
  BY <1>1, <1>2 DEF Call
<1>5. At(s) = p
  BY <1>2, <1>4 DEF At
<1>6. Gentle(u) /\ \A x \in Paths : LeafKept(x) \/ LeafAt(epoch, x) = child
  BY WalkNewGentle
<1>7. \A x \in Paths : LeafKept(x)
  BY <1>6, RootIn, LeafName
<1>8. upd'[u] = s /\ \A v \in Updaters : v # u => upd'[v] = upd[v]
  BY <1>3 DEF ShapeInv, StateType
<1>9. \A x : Changed(s, x) <=> Changed(r, x)
  BY <1>4 DEF Changed, Marking
<1>10. \A x \in Paths : Clean(s, x) <=> Clean(r, x)
  BY <1>4, <1>9 DEF Clean
<1>11. \A x : Pending(r, x) => Pending(s, x)
  BY <1>4 DEF Pending
<1>12. (Watched(p)' => Watched(p)) /\ (Computing = {} => (Watched(p) => Watched(p)'))
  BY <1>2, <1>8, <1>10, WatchedSame
<1>13. CoverInv(r)
  BY <1>2 DEF RightInv
<1>14. Covered(n, p)'
  BY <1>3 DEF Covered
<1>15. CoverInv(s)'
  BY <1>4, <1>5, <1>6, <1>11, <1>12, <1>13, <1>14, StepDown
<1>16. QED
  BY <1>6, <1>7, <1>8, <1>9, <1>10, <1>15, QuietRight

\* Call r, at node n, changes the leaf of q, or finds it gone.
Working(u, r, n, q) ==
  /\ r = upd[u] /\ r \in Call /\ r.pc \in {"walk", "leaf"} /\ n = r.node /\ q = At(r)
  /\ q \in Paths /\ q \in TouchedIn(r)

\* What it does: of the other leaves nothing, and this one is swept, unless the
\* call is at work on a tree that was replaced.
Worked(u, r, n, q) ==
  /\ raced' = raced /\ rootCacheValid' = rootCacheValid
  /\ \A p \in Paths : p # q => LeafKept(p)
  /\ ~On(epoch, n, q) => LeafKept(q)
  /\ upd'[u].alone = r.alone
  /\ \A p \in Paths : Changed(upd'[u], p) <=> Changed(r, p) \/ p = q

\* A step on the way to a leaf keeps the roots right if it keeps the nodes on
\* the way covered.
LEMMA WorkRight ==
  ASSUME ShapeInv, ShapeInv', RightInv, NEW u \in Updaters, NEW r, NEW n, NEW q,
         Working(u, r, n, q), Gentle(u), Worked(u, r, n, q),
         On(epoch, n, q) /\ Cover(r, q) => Swept(q)' /\ TellInv(q)' /\ LeafInv(q)',
         \A t \in Call : upd'[u] = t => CoverInv(t)'
  PROVE  RightInv'
<1>1. /\ r = upd[u] /\ r \in Call /\ r.pc \in {"walk", "leaf"} /\ q = At(r) /\ n = r.node
      /\ q \in Paths /\ q \in TouchedIn(r)
  BY DEF Working
<1>2. PICK s : s = upd'[u]
  OBVIOUS
<1>3. raced' = raced /\ rootCacheValid' = rootCacheValid /\ s.alone = r.alone
      /\ (\A p \in Paths : p # q => LeafKept(p)) /\ (~On(epoch, n, q) => LeafKept(q))
      /\ \A p \in Paths : Changed(s, p) <=> Changed(r, p) \/ p = q
  BY <1>2 DEF Worked
<1>4. \A v \in Updaters : v # u => upd'[v] = upd[v]
  BY DEF Gentle
<1>5. /\ Watched(q) /\ On(epoch, n, q) => Cover(r, q)
      /\ r.alone => Watched(q) \/ (On(epoch, n, q) /\ Cover(r, q))
  BY <1>1 DEF RightInv, CoverInv
<1>6. \A p \in Paths : Clean(s, p) <=> Clean(r, p) \/ (r.alone /\ p = q)
  BY <1>3 DEF Clean
<1>7. \A p : Watched(p)' <=> p \notin raced \/ \E v \in Updaters : Clean(upd'[v], p)
  BY <1>3 DEF Watched, Clean, Changed, Marking, At
<1>8. \A p \in Paths : Watched(p) => Watched(p)'
  BY <1>1, <1>2, <1>4, <1>6, <1>7 DEF Watched
<1>9. ASSUME NEW p \in Paths, Watched(p)'
      PROVE  Watched(p) \/ (p = q /\ r.alone)
  BY <1>1, <1>2, <1>4, <1>6, <1>7, <1>9 DEF Watched
<1>10. \A p \in Paths : Watched(p)' => Watched(p) \/ (Swept(p)' /\ TellInv(p)' /\ LeafInv(p)')
  <2>1. SUFFICES ASSUME NEW p \in Paths, Watched(p)', ~Watched(p)
                 PROVE  Swept(p)' /\ TellInv(p)' /\ LeafInv(p)'
    OBVIOUS
  <2>2. p = q /\ On(epoch, n, q) /\ Cover(r, q)
    BY <1>5, <1>9, <2>1
  <2>3. QED
    BY <2>2
<1>11. \A p \in Paths : LeafKept(p) \/ (Watched(p)' => TellInv(p)' /\ LeafInv(p)')
  <2>1. SUFFICES ASSUME NEW p \in Paths, Watched(p)', ~LeafKept(p)
                 PROVE  TellInv(p)' /\ LeafInv(p)'
    OBVIOUS
  <2>2. p = q /\ On(epoch, n, q)
    BY <1>3, <2>1
  <2>3. Cover(r, q)
    BY <1>5, <1>9, <2>1, <2>2
  <2>4. QED
    BY <2>2, <2>3
<1>12. Computing # {} => \A p \in Paths : p \notin raced' => p \notin raced /\ LeafKept(p)
  <2>1. Computing # {} => q \in raced
    BY <1>1, TouchedIs DEF ShapeInv, MeetInv
  <2>2. QED
    BY <1>3, <2>1
<1>13. ASSUME NEW p \in Paths, p \notin raced'
       PROVE  RootRight(p)'
  <2>1. (\E v \in Updaters : Changed(upd[v], p))' <=> \E v \in Updaters : Changed(upd'[v], p)
    BY DEF Changed, Marking, At
  <2>2. CASE p = q
    BY <1>2, <1>3, <2>1, <2>2 DEF RootRight
  <2>3. CASE p # q
    <3>1. RootRight(p)
      BY <1>3, <1>13 DEF RightInv
    <3>2. Content(p)' = Content(p) /\ comp' = comp /\ cachedRoot' = cachedRoot
      BY <1>3, <2>3, KeptContent DEF Gentle
    <3>3. \A v \in Updaters : Changed(upd'[v], p) <=> Changed(upd[v], p)
      BY <1>1, <1>2, <1>3, <1>4, <2>3
    <3>4. QED
      BY <1>3, <2>1, <3>1, <3>2, <3>3 DEF RootRight
  <2>4. QED
    BY <2>2, <2>3
<1>14. Computing = {} => \A p \in Paths : Watched(p) => Watched(p)'
  BY <1>8
<1>15. \A p \in Paths : p \notin raced' => RootRight(p)'
  BY <1>13
<1>16. QED
  BY <1>10, <1>11, <1>12, <1>14, <1>15, UpdateRight

\* When a leaf is changed, all nodes above it are flagged or will be.
LEMMA AllCovered ==
  ASSUME ShapeInv', epoch' = epoch, NEW p \in Paths,
         \A m \in DOMAIN nodes' : On(epoch, m, p) /\ ~IsLeaf(m) => Covered(m, p)'
  PROVE  Swept(p)' /\ TellInv(p)'
<1>1. \A m \in DOMAIN nodes' : m \in Names
  BY DEF ShapeInv, NodesInv, NodeOk
<1>2. ASSUME NEW m \in DOMAIN nodes', NEW x \in DOMAIN nodes', On(epoch, m, p), Len(m) < Len(x)
      PROVE  Covered(m, p)'
  <2>1. Len(x) <= MaxDepth + 1 /\ Len(x) \in Nat /\ Len(m) \in Nat
    BY <1>1, NameType
  <2>2. ~IsLeaf(m)
    BY <1>2, <2>1, Depth DEF IsLeaf
  <2>3. QED
    BY <1>2, <2>2
<1>3. QED
  BY <1>2 DEF Swept, TellInv

\* The call has covered the nodes above it, or has them among its marks.
LEMMA CoveredMarking ==
  ASSUME ShapeInv, NEW u \in Updaters, NEW r, NEW n, NEW p, Working(u, r, n, p), Gentle(u),
         \A m : Pending(r, m) => Marking(upd'[u], p) /\ Pending(upd'[u], m),
         Cover(r, p), NEW m \in DOMAIN nodes, On(epoch, m, p), ~IsLeaf(m), Len(m) < Len(n)
  PROVE  Covered(m, p)'
<1>1. n = r.node /\ p \in Paths
  BY DEF Working
<1>2. Covered(m, p) \/ Pending(r, m)
  BY <1>1 DEF Cover
<1>3. CASE Covered(m, p)
  BY <1>1, <1>3, CoveredStays
<1>4. CASE Pending(r, m)
  <2>1. Marking(upd'[u], p) /\ Pending(upd'[u], m)
    BY <1>4
  <2>2. QED
    BY <2>1 DEF Covered, Marking, Pending, At
<1>5. QED
  BY <1>2, <1>3, <1>4

\* SetLeaf keeps the roots right.
LEMMA SetLeafRight ==
  ASSUME ShapeInv, ShapeInv', RightInv, NEW u \in Updaters, SetLeaf(u)
  PROVE  RightInv'
<1>1. PICK r : r = upd[u]
  OBVIOUS
<1>2. /\ upd' = [upd EXCEPT ![u] = [r EXCEPT !.pc = "mark"]]
      /\ UNCHANGED <<epoch, cachedRoot, rootCacheValid, comp, raced>>
  BY <1>1, SetLeafIs
<1>3. PICK n, p, nd : Leafing(r, n, p, nd)
  BY <1>1, SetLeafIs
<1>4. /\ r \in Call /\ CallOk(DOMAIN nodes, r) /\ r.pc = "leaf"
      /\ n = r.node /\ p = At(r) /\ p \in Paths /\ p \in TouchedIn(r)
      /\ n \in DOMAIN nodes /\ n \in Names /\ IsLeaf(n) /\ Through(n, p)
      /\ r.kind = "insert" => nd.value \in Item /\ nd.dirty = TRUE
      /\ r.kind # "insert" => nd.value = None /\ nd.dirty = FALSE /\ nd.hash = Deleted
      /\ nodes' = [nodes EXCEPT ![n] = nd]
  BY <1>3 DEF Leafing
<1>5. DOMAIN nodes' = DOMAIN nodes /\ nodes'[n] = nd
      /\ \A x \in DOMAIN nodes : x # n => nodes'[x] = nodes[x]
  <2>1. nodes \in [DOMAIN nodes -> Node]
    BY DEF ShapeInv, NodesInv
  <2>2. QED
    BY <1>4, <2>1
<1>6. PICK s : s = [r EXCEPT !.pc = "mark"]
  OBVIOUS
<1>7. s.pc = "mark" /\ s.todo = r.todo /\ s.marks = r.marks /\ s.done = r.done /\ s.alone = r.alone
  BY <1>4, <1>6 DEF Call
<1>8. upd'[u] = s /\ \A v \in Updaters : v # u => upd'[v] = upd[v]
  BY <1>2, <1>6 DEF ShapeInv, StateType
<1>9. At(s) = p /\ (\A x : Marking(s, x) <=> x = p) /\ (\A x : ~Marking(r, x))
      /\ \A x : Pending(s, x) <=> Pending(r, x)
  BY <1>4, <1>7 DEF At, Marking, Pending
<1>10. Gentle(u)
  <2>1. \A x \in DOMAIN nodes : ~IsLeaf(x) => nodes'[x] = nodes[x]
    BY <1>4, <1>5
  <2>2. QED
    BY <1>1, <1>2, <1>5, <1>8, <1>9, <2>1 DEF Gentle
<1>11. \A x \in Paths : LeafAt(epoch, x) = n => x = p /\ On(epoch, n, p)
  <2>1. Tail(n) = p /\ Through(n, p) /\ epoch \in Nat
    BY <1>4, RootIn, LeafOn
  <2>2. \A x \in Paths : LeafAt(epoch, x)[1] = epoch /\ Tail(LeafAt(epoch, x)) = x
    BY <2>1, LeafName
  <2>3. QED
    BY <2>1, <2>2 DEF On
<1>12. \A x \in Paths : LeafAt(epoch, x) # n => LeafKept(x)
  BY <1>5 DEF LeafKept
<1>13. Working(u, r, n, p)
  BY <1>1, <1>4 DEF Working
<1>14. Worked(u, r, n, p)
  <2>1. \A x \in Paths : Changed(s, x) <=> Changed(r, x) \/ x = p
    BY <1>4, <1>7, <1>9 DEF Changed
  <2>2. QED
    BY <1>2, <1>4, <1>7, <1>8, <1>11, <1>12, <2>1 DEF Worked
<1>15. ASSUME On(epoch, n, p), Cover(r, p)
       PROVE  Swept(p)' /\ TellInv(p)' /\ LeafInv(p)'
  <2>1. ASSUME NEW m \in DOMAIN nodes', On(epoch, m, p), ~IsLeaf(m)
        PROVE  Covered(m, p)'
    <3>1. m \in DOMAIN nodes /\ Len(m) < Len(n)
      <4>1. m \in DOMAIN nodes
        BY <1>5, <2>1
      <4>2. Len(m) <= MaxDepth /\ Len(m) \in Nat
        BY <2>1, <4>1, NodeIs DEF ShapeInv
      <4>3. QED
        BY <1>4, <4>1, <4>2, Depth DEF IsLeaf
    <3>2. \A x : Pending(r, x) => Marking(upd'[u], p) /\ Pending(upd'[u], x)
      BY <1>8, <1>9
    <3>3. QED
      BY <1>10, <1>13, <1>15, <2>1, <3>1, <3>2, CoveredMarking
  <2>2. Swept(p)' /\ TellInv(p)'
    BY <1>2, <1>4, <2>1, AllCovered
  <2>3. Leaf(p)' = n
    <3>1. n = LeafAt(epoch, p)
      BY <1>4, <1>15, LeafOn DEF On
    <3>2. QED
      BY <1>2, <3>1 DEF Leaf, Root, LeafAt
  <2>4. LeafInv(p)'
    <3>1. nd.value = None => nd.dirty = FALSE /\ nd.hash = Deleted
      BY <1>4, TreeAssumption
    <3>2. nd.value # None => nd.dirty = TRUE
      BY <1>4
    <3>3. QED
      BY <1>5, <2>3, <3>1, <3>2 DEF LeafInv
  <2>5. QED
    BY <2>2, <2>4
<1>16. \A t \in Call : upd'[u] = t => CoverInv(t)'
  BY <1>7, <1>8 DEF CoverInv
<1>17. QED
  BY <1>10, <1>13, <1>14, <1>15, <1>16, WorkRight

\* The call that goes on with the next mark, or the next item.
LEMMA UnwindCover ==
  ASSUME ShapeInv, ShapeInv', NEW u \in Updaters, NEW r \in Call, r.todo # <<>>, NEW s, s = Unwind(r),
         upd'[u] = s, epoch' = epoch
  PROVE  \A t \in Call : upd'[u] = t => CoverInv(t)'
<1>1. s \in Call /\ CallOk(DOMAIN nodes', s) /\ Root' = Root
  BY DEF ShapeInv, StateType, CallsInv, Root
<1>2. s.pc \in {"walk", "leaf"} => s.node = Root' /\ At(s) \in Paths
  BY <1>1, UnwindChanged, WorkTouched
<1>3. CoverInv(s)'
  BY <1>1, <1>2, RootCover
<1>4. QED
  BY <1>3

\* Walk, when it adds the leaf, keeps the roots right.
LEMMA WalkLeafRight ==
  ASSUME ShapeInv, ShapeInv', RightInv, NEW u \in Updaters,
         NEW r, NEW n, NEW p, NEW child, r = upd[u], r.pc = "walk",
         Walking(r, n, p, child), WalkNew(u, r, n, child), IsLeaf(child),
         UNCHANGED <<epoch, cachedRoot, rootCacheValid, comp, raced>>
  PROVE  RightInv'
<1>1. /\ r \in Call /\ p \in Paths /\ n \in DOMAIN nodes /\ n = r.node /\ p = At(r)
      /\ p \in TouchedIn(r) /\ r.todo # <<>> /\ Through(n, p) /\ n \in Names
      /\ Head(r.todo) \in Item /\ child \in Names /\ Through(child, p) /\ child[1] = n[1]
      /\ Len(child) = Len(n) + 1 /\ Len(n) \in Nat
  BY DEF Walking
<1>2. PICK s : s = Unwind(r)
  OBVIOUS
<1>3. upd' = [upd EXCEPT ![u] = s]
  BY <1>2 DEF WalkNew
<1>4. /\ s.alone = r.alone
      /\ \A x : Changed(s, x) <=> x \in r.done \/ x = p
      /\ \A x : Pending(r, x) => Marking(s, p) /\ Pending(s, x)
  BY <1>1, <1>2, UnwindChanged
<1>5. Gentle(u) /\ \A x \in Paths : LeafKept(x) \/ LeafAt(epoch, x) = child
  BY WalkNewGentle
<1>6. upd'[u] = s
  BY <1>3 DEF ShapeInv, StateType
<1>7. Grown(r, n, child)
  BY WalkNewIs
<1>8. \A x \in Paths : LeafAt(epoch, x) = child => x = p /\ On(epoch, n, p)
  <2>1. Tail(child) = p /\ Through(n, p) /\ epoch \in Nat
    BY <1>1, RootIn, LeafOn
  <2>2. \A x \in Paths : LeafAt(epoch, x)[1] = epoch /\ Tail(LeafAt(epoch, x)) = x
    BY <2>1, LeafName
  <2>3. QED
    BY <1>1, <2>1, <2>2 DEF On
<1>9. Working(u, r, n, p)
  BY <1>1 DEF Working
<1>10. Worked(u, r, n, p)
  <2>1. \A x : Changed(r, x) <=> x \in r.done
    BY DEF Changed, Marking
  <2>2. QED
    BY <1>1, <1>4, <1>5, <1>6, <1>8, <2>1 DEF Worked
<1>11. ASSUME On(epoch, n, p), Cover(r, p)
       PROVE  Swept(p)' /\ TellInv(p)' /\ LeafInv(p)'
  <2>1. ASSUME NEW m \in DOMAIN nodes', On(epoch, m, p), ~IsLeaf(m)
        PROVE  Covered(m, p)'
    <3>1. m \in DOMAIN nodes
      BY <1>7, <2>1 DEF Grown
    <3>2. m \in Names /\ Len(m) \in Nat /\ Len(m) <= MaxDepth
      BY <2>1, <3>1, NodeIs DEF ShapeInv
    <3>3. CASE Len(m) = Len(n)
      <4>1. m = n
        BY <1>1, <1>11, <2>1, <3>2, <3>3, SameNode DEF On
      <4>2. QED
        BY <1>7, <4>1 DEF Grown, Covered
    <3>4. CASE Len(m) < Len(n)
      BY <1>4, <1>5, <1>6, <1>9, <1>11, <2>1, <3>1, <3>4, CoveredMarking
    <3>5. QED
      BY <1>1, <3>2, <3>3, <3>4, Depth DEF IsLeaf
  <2>2. Swept(p)' /\ TellInv(p)'
    BY <1>1, <2>1, AllCovered
  <2>3. Leaf(p)' = child
    <3>1. child = LeafAt(epoch, p)
      BY <1>1, <1>11, LeafOn DEF On
    <3>2. QED
      BY <3>1 DEF Leaf, Root, LeafAt
  <2>4. nodes'[child].value # None /\ nodes'[child].dirty = TRUE
    BY <1>1, <1>7, TreeAssumption DEF Grown
  <2>5. LeafInv(p)'
    BY <2>3, <2>4 DEF LeafInv
  <2>6. QED
    BY <2>2, <2>5
<1>12. \A t \in Call : upd'[u] = t => CoverInv(t)'
  BY <1>1, <1>2, <1>6, UnwindCover
<1>13. QED
  BY <1>5, <1>9, <1>10, <1>11, <1>12, WorkRight

\* Walk of a delete that finds no child keeps the roots right.
LEMMA WalkLostRight ==
  ASSUME ShapeInv, ShapeInv', RightInv, NEW u \in Updaters,
         NEW r, NEW n, NEW p, NEW child, r = upd[u], r.pc = "walk",
         Walking(r, n, p, child), WalkLost(u, r, n, child),
         UNCHANGED <<epoch, cachedRoot, rootCacheValid, comp, raced>>
  PROVE  RightInv'
<1>1. /\ r \in Call /\ p \in Paths /\ n \in DOMAIN nodes /\ n = r.node /\ p = At(r)
      /\ p \in TouchedIn(r) /\ r.todo # <<>> /\ Through(n, p) /\ n \in Names
      /\ child \in Names /\ Through(child, p) /\ child[1] = n[1]
      /\ Len(child) = Len(n) + 1 /\ Len(n) \in Nat
  BY DEF Walking
<1>2. PICK s : s = Unwind(r)
  OBVIOUS
<1>3. upd' = [upd EXCEPT ![u] = s] /\ UNCHANGED nodes /\ child \notin DOMAIN nodes
  BY <1>2 DEF WalkLost
<1>4. /\ s.alone = r.alone
      /\ \A x : Changed(s, x) <=> x \in r.done \/ x = p
      /\ \A x : Pending(r, x) => Marking(s, p) /\ Pending(s, x)
  BY <1>1, <1>2, UnwindChanged
<1>5. \A x : ~Marking(upd[u], x)
  BY DEF Marking
<1>6. Gentle(u) /\ upd'[u] = s /\ \A x : LeafKept(x)
  BY <1>3, <1>5, GentleSame
<1>7. Working(u, r, n, p)
  BY <1>1 DEF Working
<1>8. Worked(u, r, n, p)
  <2>1. \A x : Changed(r, x) <=> x \in r.done
    BY DEF Changed, Marking
  <2>2. QED
    BY <1>4, <1>6, <2>1 DEF Worked
<1>9. ASSUME On(epoch, n, p), Cover(r, p)
      PROVE  Swept(p)' /\ TellInv(p)' /\ LeafInv(p)'
  <2>1. ASSUME NEW x \in DOMAIN nodes, On(epoch, x, p)
        PROVE  Len(x) <= Len(n)
    <3>1. x \in Names /\ Len(x) \in Nat
      BY NodeIs DEF ShapeInv
    <3>2. Len(child) <= Len(x) => child \in DOMAIN nodes
      BY <1>1, <1>9, <2>1, <3>1, WayIn DEF On, ShapeInv
    <3>3. QED
      BY <1>1, <1>3, <3>1, <3>2
  <2>2. Leaf(p)' \notin DOMAIN nodes'
    <3>1. Leaf(p)' = Leaf(p)
      BY DEF Leaf, Root
    <3>2. On(epoch, Leaf(p), p) /\ Len(Leaf(p)) = MaxDepth + 1
      BY <1>1, RootIn, LeafIs DEF ShapeInv, On
    <3>3. Len(n) <= MaxDepth
      BY DEF Walking
    <3>4. QED
      BY <1>1, <1>3, <2>1, <3>1, <3>2, <3>3, Depth
  <2>3. TellInv(p)' /\ LeafInv(p)'
    BY <1>1, <2>2, MissingNext
  <2>4. ASSUME NEW m \in DOMAIN nodes, NEW x \in DOMAIN nodes,
               On(epoch, m, p), On(epoch, x, p), Len(m) < Len(x)
        PROVE  Covered(m, p)'
    <3>1. Len(m) \in Nat /\ Len(x) \in Nat /\ Len(x) <= Len(n) /\ Len(n) <= MaxDepth
      BY <2>1, <2>4, NodeIs DEF ShapeInv, Walking
    <3>2. Len(m) < Len(n) /\ ~IsLeaf(m)
      BY <1>1, <2>4, <3>1, Depth DEF IsLeaf
    <3>3. QED
      BY <1>4, <1>6, <1>7, <1>9, <2>4, <3>2, CoveredMarking
  <2>5. Swept(p)'
    BY <1>3, <2>4 DEF Swept
  <2>6. QED
    BY <2>3, <2>5
<1>10. \A t \in Call : upd'[u] = t => CoverInv(t)'
  BY <1>1, <1>2, <1>6, UnwindCover
<1>11. QED
  BY <1>6, <1>7, <1>8, <1>9, <1>10, WorkRight

\* Walk keeps the roots right.
LEMMA WalkRight ==
  ASSUME ShapeInv, ShapeInv', RightInv, NEW u \in Updaters, Walk(u)
  PROVE  RightInv'
<1>1. PICK r : r = upd[u]
  OBVIOUS
<1>2. PICK n, p, child :
        /\ r.pc = "walk" /\ Walking(r, n, p, child)
        /\ UNCHANGED <<items, epoch, cachedRoot, rootCacheValid, comp, budget, raced>>
        /\ WalkFound(u, r, n, child) \/ WalkNew(u, r, n, child) \/ WalkLost(u, r, n, child)
  BY <1>1, WalkIs
<1>3. CASE WalkFound(u, r, n, child)
  BY <1>1, <1>2, <1>3, WalkFoundRight
<1>4. CASE WalkNew(u, r, n, child) /\ IsLeaf(child)
  BY <1>1, <1>2, <1>4, WalkLeafRight
<1>5. CASE WalkNew(u, r, n, child) /\ ~IsLeaf(child)
  BY <1>1, <1>2, <1>5, WalkInnerRight
<1>6. CASE WalkLost(u, r, n, child)
  BY <1>1, <1>2, <1>6, WalkLostRight
<1>7. QED
  BY <1>2, <1>3, <1>4, <1>5, <1>6

\* A call that ends forgets the races on its leaves if it met no computation.
Ending(u) ==
  /\ UNCHANGED <<nodes, epoch, comp, cachedRoot>> /\ rootCacheValid' = FALSE
  /\ upd' = [upd EXCEPT ![u] = Resting] /\ upd[u].pc # "idle"
  /\ \A p \in Paths : ~Marking(upd[u], p)
  /\ \A p \in Paths : p \in raced' <=> p \in raced /\ ~Clean(upd[u], p)
  /\ \A p \in Paths : Changed(upd[u], p) => p \in TouchedIn(upd[u])

\* A call that ends forgets races only on leaves it covered.
LEMMA EndRight ==
  ASSUME ShapeInv, ShapeInv', RightInv, NEW u \in Updaters, Ending(u)
  PROVE  RightInv'
<1>1. /\ UNCHANGED <<nodes, epoch, comp, cachedRoot>> /\ rootCacheValid' = FALSE
      /\ upd' = [upd EXCEPT ![u] = Resting] /\ upd[u].pc # "idle"
      /\ \A p \in Paths : ~Marking(upd[u], p)
      /\ \A p \in Paths : p \in raced' <=> p \in raced /\ ~Clean(upd[u], p)
      /\ \A p \in Paths : Changed(upd[u], p) => p \in TouchedIn(upd[u])
  BY DEF Ending
<1>2. Gentle(u) /\ upd'[u] = Resting /\ \A p : LeafKept(p)
  BY <1>1, GentleSame
<1>3. \A v \in Updaters : v # u => upd'[v] = upd[v]
  BY <1>2 DEF Gentle
<1>4. \A p : ~Clean(upd'[u], p) /\ ~Changed(upd'[u], p)
  BY <1>2, RestingIs DEF Clean
<1>5. \A p \in Paths : Watched(p)' <=> Watched(p)
  <2>1. \A p : Watched(p)' <=> p \notin raced' \/ \E v \in Updaters : Clean(upd'[v], p)
    BY DEF Watched, Clean, Changed, Marking, At
  <2>2. QED
    BY <1>1, <1>3, <1>4, <2>1 DEF Watched
<1>6. Computing # {} => \A p \in Paths : p \notin raced' => p \notin raced /\ LeafKept(p)
  <2>1. Computing # {} => \A p \in Paths : ~Clean(upd[u], p)
    BY <1>1 DEF ShapeInv, MeetInv, Clean
  <2>2. QED
    BY <1>1, <1>2, <2>1
<1>7. ASSUME NEW p \in Paths, p \notin raced'
      PROVE  RootRight(p)'
  <2>1. SUFFICES ASSUME NEW c \in Computers, comp[c].pc = "valid"
                 PROVE  InRoot(cachedRoot, p) = Content(p)' \/ \E v \in Updaters : Changed(upd'[v], p)
    <3>1. (\E v \in Updaters : Changed(upd[v], p))' <=> \E v \in Updaters : Changed(upd'[v], p)
      BY DEF Changed, Marking, At
    <3>2. QED
      BY <1>1, <3>1 DEF RootRight
  <2>2. Computing # {}
    BY <2>1 DEF Computing
  <2>3. p \notin raced
    BY <1>6, <1>7, <2>2
  <2>4. InRoot(cachedRoot, p) = Content(p) \/ \E v \in Updaters : Changed(upd[v], p)
    BY <2>1, <2>3 DEF RightInv, RootRight
  <2>5. Content(p)' = Content(p)
    BY <1>1, <1>2, KeptContent
  <2>6. ~Changed(upd[u], p)
    BY <1>1, <2>2, <2>3, TouchedIs DEF ShapeInv, MeetInv
  <2>7. QED
    BY <1>3, <2>4, <2>5, <2>6
<1>8. \A t \in Call : upd'[u] = t => CoverInv(t)'
  BY <1>2, RestingIs DEF CoverInv
<1>9. \A p \in Paths : p \notin raced' => RootRight(p)'
  BY <1>7
<1>10. \A p \in Paths : LeafKept(p)
  BY <1>2
<1>11. QED
  BY <1>2, <1>5, <1>6, <1>8, <1>9, <1>10, UpdateRight

\* Invalidate keeps the roots right.
LEMMA InvalidateRight ==
  ASSUME ShapeInv, ShapeInv', RightInv, NEW u \in Updaters, Invalidate(u)
  PROVE  RightInv'
<1>1. PICK r : r = upd[u]
  OBVIOUS
<1>2. r \in Call /\ CallOk(DOMAIN nodes, r) /\ r.pc = "invalidate" /\ r.kind # "clear"
  BY <1>1 DEF Invalidate, ShapeInv, StateType, CallsInv, CallOk
<1>3. (\A p : ~Marking(r, p)) /\ \A p : Changed(r, p) <=> p \in r.done
  BY <1>2 DEF Marking, Changed
<1>4. \A p \in Paths : p \in raced' <=> p \in raced /\ ~Clean(r, p)
  BY <1>1, <1>3 DEF Invalidate, Clean
<1>5. \A p \in Paths : Changed(r, p) => p \in TouchedIn(r)
  BY <1>2, <1>3 DEF TouchedIn
<1>6. /\ UNCHANGED <<nodes, epoch, comp, cachedRoot>> /\ rootCacheValid' = FALSE
      /\ upd' = [upd EXCEPT ![u] = Resting]
  BY DEF Invalidate
<1>7. Ending(u)
  BY <1>1, <1>2, <1>3, <1>4, <1>5, <1>6 DEF Ending
<1>8. QED
  BY <1>7, EndRight

\* ClearEnd keeps the roots right.
LEMMA ClearEndRight ==
  ASSUME ShapeInv, ShapeInv', RightInv, NEW u \in Updaters, ClearEnd(u)
  PROVE  RightInv'
<1>1. PICK r : r = upd[u]
  OBVIOUS
<1>2. r \in Call /\ CallOk(DOMAIN nodes, r) /\ r.pc = "clearing" /\ r.kind = "clear"
  BY <1>1 DEF ClearEnd, ShapeInv, StateType, CallsInv, CallOk
<1>3. (\A p : ~Marking(r, p)) /\ \A p : Changed(r, p)
  BY <1>2 DEF Marking, Changed
<1>4. \A p \in Paths : p \in raced' <=> p \in raced /\ ~Clean(r, p)
  BY <1>1, <1>3 DEF ClearEnd, Clean
<1>5. \A p \in Paths : Changed(r, p) => p \in TouchedIn(r)
  BY <1>2, <1>3 DEF TouchedIn
<1>6. /\ UNCHANGED <<nodes, epoch, comp, cachedRoot>> /\ rootCacheValid' = FALSE
      /\ upd' = [upd EXCEPT ![u] = Resting]
  BY DEF ClearEnd
<1>7. Ending(u)
  BY <1>1, <1>2, <1>3, <1>4, <1>5, <1>6 DEF Ending
<1>8. QED
  BY <1>7, EndRight

\* The new tree has no leaf; calls at work on the old one do not reach it.
LEMMA ClearRight ==
  ASSUME ShapeInv, ShapeInv', RightInv, NEW u \in Updaters, Clear(u)
  PROVE  RightInv'
<1>1. /\ epoch' = epoch + 1 /\ nodes' = WithNode(<<epoch + 1>>, NewNode)
      /\ comp' = comp
  BY DEF Clear
<1>2. PICK n, s : n = <<epoch + 1>> /\ s = upd'[u]
  OBVIOUS
<1>3. /\ nodes' \in [DOMAIN nodes \cup {n} -> Node]
      /\ \A x \in DOMAIN nodes : nodes'[x] = nodes[x] /\ x[1] # epoch'
  BY <1>1, <1>2, ClearNodes
<1>4. s.pc = "clearing" /\ (s.alone <=> Computing = {})
      /\ \A v \in Updaters : v # u => upd'[v] = upd[v]
  <2>1. PICK b : b = (Computing = {})
    OBVIOUS
  <2>2. upd' = [upd EXCEPT ![u] = [Resting EXCEPT !.pc = "clearing", !.kind = "clear", !.alone = b]]
    BY <2>1 DEF Clear
  <2>3. upd \in [Updaters -> Call]
    BY DEF ShapeInv, StateType
  <2>4. s = [Resting EXCEPT !.pc = "clearing", !.kind = "clear", !.alone = b]
    BY <1>2, <2>2, <2>3
  <2>5. s.pc = "clearing" /\ s.alone = b
    BY <2>4 DEF Resting
  <2>6. QED
    BY <2>1, <2>2, <2>3, <2>5
<1>5. Computing = {} \/ \A p \in Paths : p \in raced'
  BY DEF Clear, Meet
<1>6. \A p : Changed(s, p)
  BY <1>4 DEF Changed
<1>7. \A p : (\E v \in Updaters : Changed(upd[v], p))' /\ (Computing = {} => Watched(p)')
  <2>1. \A p : (\E v \in Updaters : Changed(upd[v], p))' <=> \E v \in Updaters : Changed(upd'[v], p)
    BY DEF Changed, Marking, At
  <2>2. \A p : Watched(p)' <=> p \notin raced' \/ \E v \in Updaters : Clean(upd'[v], p)
    BY DEF Watched, Clean, Changed, Marking, At
  <2>3. QED
    BY <1>2, <1>4, <1>6, <2>1, <2>2 DEF Clean
<1>8. ASSUME NEW p \in Paths
      PROVE  TellInv(p)' /\ LeafInv(p)'
  <2>1. Leaf(p)' \in Names /\ IsLeaf(Leaf(p)') /\ Leaf(p)'[1] = epoch'
    <3>1. Leaf(p)' = LeafAt(epoch', p) /\ epoch' \in Nat
      BY DEF Leaf, Root, LeafAt, ShapeInv, StateType
    <3>2. QED
      BY <3>1, LeafName
  <2>2. ~IsLeaf(n)
    BY <1>1, <1>2, RootName DEF ShapeInv, StateType
  <2>3. Leaf(p)' \notin DOMAIN nodes'
    BY <1>3, <2>1, <2>2
  <2>4. QED
    BY <2>3, MissingNext
<1>9. ASSUME NEW v \in Updaters, NEW r \in Call, upd'[v] = r
      PROVE  CoverInv(r)'
  <2>1. CASE v = u
    BY <1>2, <1>4, <1>9, <2>1 DEF CoverInv
  <2>2. CASE v # u
    <3>1. SUFFICES ASSUME r.pc \in {"walk", "leaf"}
                   PROVE  ~On(epoch', r.node, At(r)) /\ (r.alone => Watched(At(r))')
      BY DEF CoverInv
    <3>2. CallOk(DOMAIN nodes, r) /\ upd[v] = r
      BY <1>4, <1>9, <2>2 DEF ShapeInv, CallsInv
    <3>3. r.node \in DOMAIN nodes
      BY <3>1, <3>2 DEF CallOk
    <3>4. r.alone => Computing = {}
      BY <3>1, <3>2 DEF ShapeInv, MeetInv
    <3>5. QED
      BY <1>3, <1>7, <3>3, <3>4 DEF On
  <2>3. QED
    BY <2>1, <2>2
<1>10. \A p \in Paths : p \notin raced' => RootRight(p)'
  BY <1>7 DEF RootRight
<1>11. ASSUME NEW p \in Paths, p \notin raced', NEW c \in Computers, NEW r \in Computation, comp'[c] = r
       PROVE  FramesRight(r, p)'
  <2>1. Computing = {}
    BY <1>5, <1>11
  <2>2. comp[c] = r /\ FramesOk(DOMAIN nodes, r)
    BY <1>1, <1>11 DEF ShapeInv, FramesInv
  <2>3. r = Waiting
    BY <2>1, <2>2 DEF Computing, FramesOk
  <2>4. QED
    BY <2>3, NoFrames
<1>12. QED
  BY <1>8, <1>9, <1>10, <1>11 DEF RightInv

-------------------------------------------------------------------------------
(* The steps of a computation.                                             *)

\* What a call changed, it is about.
LEMMA ChangedTouched ==
  ASSUME ShapeInv, NEW u \in Updaters, NEW p \in Paths, Changed(upd[u], p)
  PROVE  upd[u].pc # "idle" /\ p \in TouchedIn(upd[u])
<1>1. PICK r : r = upd[u]
  OBVIOUS
<1>2. r \in Call /\ CallOk(DOMAIN nodes, r)
  BY <1>1 DEF ShapeInv, StateType, CallsInv
<1>3. r.pc # "idle"
  BY <1>1, <1>2, RestingIs DEF CallOk
<1>4. CASE Marking(r, p)
  BY <1>1, <1>2, <1>3, <1>4, WorkTouched DEF Marking
<1>5. CASE r.pc = "clearing" \/ p \in r.done
  BY <1>1, <1>2, <1>3, <1>5 DEF CallOk, TouchedIn
<1>6. QED
  BY <1>1, <1>4, <1>5 DEF Changed

\* While a computation is under way nobody is alone, and of the leaves that
\* no race is noted for none is changed.
LEMMA Meeting ==
  ASSUME ShapeInv, Computing # {}
  PROVE  /\ \A u \in Updaters : upd[u].pc # "idle" => ~upd[u].alone /\ TouchedIn(upd[u]) \subseteq raced
         /\ \A u \in Updaters, p \in Paths : ~Clean(upd[u], p)
         /\ \A u \in Updaters, p \in Paths : p \notin raced => ~Changed(upd[u], p)
<1>1. \A u \in Updaters : upd[u].pc # "idle" => ~upd[u].alone /\ TouchedIn(upd[u]) \subseteq raced
  BY TouchedIs DEF ShapeInv, MeetInv
<1>2. \A u \in Updaters, p \in Paths : Changed(upd[u], p) => upd[u].pc # "idle" /\ p \in TouchedIn(upd[u])
  BY ChangedTouched
<1>3. QED
  BY <1>1, <1>2 DEF Clean

\* Then a node is covered if it is flagged.
LEMMA MeetingCovered ==
  ASSUME ShapeInv, Computing # {}, NEW p \in Paths, p \notin raced
  PROVE  Watched(p) /\ \A n : Covered(n, p) <=> nodes[n].dirty
<1>1. \A u \in Updaters : ~Marking(upd[u], p)
  BY Meeting DEF Changed
<1>2. QED
  BY <1>1 DEF Watched, Covered

\* A step of a computation changes hashes and flags of nodes.
Hashing ==
  /\ epoch' = epoch /\ upd' = upd /\ raced' = raced
  /\ DOMAIN nodes' = DOMAIN nodes /\ \A x \in DOMAIN nodes : nodes'[x].value = nodes[x].value

\* Hashing changes no leaf.
LEMMA HashingContent ==
  ASSUME Hashing, NEW p
  PROVE  Content(p)' = Content(p) /\ Leaf(p)' = Leaf(p) /\ Root' = Root
<1>1. Leaf(p)' = Leaf(p) /\ Root' = Root
  BY DEF Hashing, Leaf, Root
<1>2. QED
  BY <1>1 DEF Hashing, Content

\* It leaves the other computations what they have.
LEMMA HashingFrames ==
  ASSUME Hashing, NEW p, NEW r \in Computation, FramesOk(DOMAIN nodes, r), FramesRight(r, p)
  PROVE  FramesRight(r, p)'
<1>1. Content(p)' = Content(p) /\ Leaf(p)' = Leaf(p) /\ Root' = Root /\ epoch' = epoch
  BY HashingContent DEF Hashing
<1>2. ASSUME r.pc = "leaf", r.leaf = Leaf(p)'
      PROVE  r.value = nodes'[r.leaf].value /\ r.value # None
  <2>1. r.value = nodes[r.leaf].value /\ r.value # None
    BY <1>1, <1>2 DEF FramesRight
  <2>2. r.leaf \in DOMAIN nodes
    BY <1>2, CalledIn DEF FramesOk
  <2>3. QED
    BY <2>1, <2>2 DEF Hashing
<1>3. QED
  BY <1>1, <1>2 DEF FramesRight

\* A step of a computation keeps the roots right if it does for each leaf.
LEMMA ComputeRight ==
  ASSUME ShapeInv, ShapeInv', RightInv, NEW c \in Computers, comp[c].pc # "idle", Hashing,
         NEW s \in Computation, comp' = [comp EXCEPT ![c] = s], FramesOk(DOMAIN nodes, s),
         \A p \in Paths : p \notin raced =>
            TellInv(p)' /\ LeafInv(p)' /\ FramesRight(s, p) /\ RootRight(p)'
  PROVE  RightInv'
<1>1. Computing # {}
  BY DEF Computing
<1>2. upd' = upd /\ raced' = raced
  BY DEF Hashing
<1>3. \A p \in Paths : Watched(p)' => p \notin raced
  <2>1. \A p : Watched(p)' <=> p \notin raced \/ \E v \in Updaters : Clean(upd[v], p)
    BY <1>2 DEF Watched, Clean, Changed, Marking, At
  <2>2. QED
    BY <1>1, <2>1, Meeting
<1>4. ASSUME NEW v \in Updaters, NEW r \in Call, upd'[v] = r
      PROVE  CoverInv(r)'
  <2>1. SUFFICES ASSUME r.pc \in {"walk", "leaf"}
                 PROVE  ~Watched(At(r))' /\ ~r.alone
    BY DEF CoverInv
  <2>2. upd[v] = r /\ CallOk(DOMAIN nodes, r)
    BY <1>2, <1>4 DEF ShapeInv, CallsInv
  <2>3. At(r) \in Paths /\ At(r) \in TouchedIn(r)
    BY <2>1, <2>2, WorkTouched
  <2>4. ~r.alone /\ TouchedIn(r) \subseteq raced
    BY <1>1, <2>1, <2>2, Meeting
  <2>5. QED
    BY <1>3, <2>3, <2>4
<1>5. ASSUME NEW p \in Paths, p \notin raced, NEW d \in Computers, NEW r \in Computation, comp'[d] = r
      PROVE  FramesRight(r, p)'
  <2>1. CASE d = c
    <3>1. r = s
      BY <1>5, <2>1 DEF ShapeInv, StateType
    <3>2. FramesRight(r, p) /\ FramesOk(DOMAIN nodes, r)
      BY <1>5, <3>1
    <3>3. QED
      BY <3>2, HashingFrames
  <2>2. CASE d # c
    <3>1. comp[d] = r
      BY <1>5, <2>2 DEF ShapeInv, StateType
    <3>2. FramesRight(r, p) /\ FramesOk(DOMAIN nodes, r)
      BY <1>5, <3>1 DEF ShapeInv, FramesInv, RightInv
    <3>3. QED
      BY <3>2, HashingFrames
  <2>3. QED
    BY <2>1, <2>2
<1>6. QED
  BY <1>2, <1>3, <1>4, <1>5 DEF RightInv

\* A call on its way to p is not passed below node n: the leaf is not there.
LEMMA NoKey ==
  ASSUME ShapeInv, NEW n \in DOMAIN nodes, ~IsLeaf(n), NEW p \in Paths, On(epoch, n, p),
         p[Len(n)] \notin Keys(n)
  PROVE  Content(p) = None
<1>1. SUFFICES ASSUME Leaf(p) \in DOMAIN nodes
               PROVE  FALSE
  BY DEF Content
<1>2. NodesInv /\ epoch \in Nat
  BY RootIn DEF ShapeInv
<1>3. n \in Names /\ Len(n) \in Nat /\ Len(n) >= 1 /\ Len(n) <= MaxDepth
  BY <1>2, NodeIs
<1>4. PICK k : k = p[Len(n)]
  OBVIOUS
<1>5. k \in Letters
  BY <1>3, <1>4, PathType, Depth
<1>6. PICK m : m = Append(n, k)
  OBVIOUS
<1>7. m \in Names /\ Len(m) = Len(n) + 1 /\ m[1] = n[1] /\ Through(m, p)
  BY <1>3, <1>4, <1>5, <1>6, ChildName DEF On
<1>8. Leaf(p)[1] = epoch /\ Through(Leaf(p), p) /\ Len(Leaf(p)) = MaxDepth + 1
  BY <1>2, LeafIs
<1>9. n[1] = epoch
  BY DEF On
<1>10. m[1] = Leaf(p)[1] /\ Len(m) <= Len(Leaf(p))
  BY <1>3, <1>7, <1>8, <1>9, Depth
<1>11. m \in DOMAIN nodes
  BY <1>1, <1>2, <1>7, <1>8, <1>10, WayIn
<1>12. QED
  BY <1>2, <1>3, <1>4, <1>5, <1>6, <1>11, KeysAre

\* What computation r has of the leaf of p.
GotRight(r, p) ==
  /\ r.frames # <<>> => r.frames[1].node = Root
  /\ \A i \in DOMAIN r.frames : On(epoch, r.frames[i].node, p) =>
       p[Len(r.frames[i].node)] \in r.frames[i].left \/ InRoot(r.frames[i].got, p) = Content(p)

\* The answer h of node n is right about the leaf of p.
HashRight(n, h, p) == On(epoch, n, p) => InRoot(Leaves(n, h), p) = Content(p)

\* So is what a frame has with it.
LEMMA JoinRight ==
  ASSUME NEW p \in Paths, NEW g \in Frame, FrameOk(DOMAIN nodes, g), NEW k \in g.left,
         NEW n, NEW h, n = Append(g.node, k), HashOk(DOMAIN nodes, n, h), HashRight(n, h, p),
         On(epoch, g.node, p),
         p[Len(g.node)] \in g.left \/ InRoot(g.got, p) = Content(p)
  PROVE  p[Len(g.node)] \in g.left \ {k} \/ InRoot(Join(g.got, Leaves(n, h)), p) = Content(p)
<1>1. g.node \in Names /\ ~IsLeaf(g.node) /\ k \in Letters /\ g.got \in Tables
  BY DEF Frame, FrameOk
<1>2. n[1] = g.node[1] /\ (Through(n, p) <=> Through(g.node, p) /\ p[Len(g.node)] = k)
  BY <1>1, ChildName
<1>3. PICK t : t = Leaves(n, h)
  OBVIOUS
<1>4. t \in Tables /\ Says(DOMAIN nodes, n, t) /\ t # None
  BY <1>3, LeavesSay, NoneNoTable
<1>5. InRoot(Join(g.got, t), p) = IF p \in DOMAIN t THEN t[p] ELSE InRoot(g.got, p)
  <2>1. g.got \in Tables /\ t \in Tables
    BY <1>1, <1>4
  <2>2. \A q : InRoot(Join(g.got, t), q) = IF q \in DOMAIN t THEN t[q] ELSE InRoot(g.got, q)
    BY <2>1, JoinType, ZenonT(60)
  <2>3. QED
    BY <2>2
<1>6. CASE p[Len(g.node)] = k
  <2>1. InRoot(t, p) = Content(p)
    BY <1>2, <1>3, <1>6 DEF On, HashRight
  <2>2. p \notin DOMAIN g.got
    BY <1>6 DEF FrameOk
  <2>3. QED
    BY <1>3, <1>4, <1>5, <2>1, <2>2 DEF InRoot
<1>7. CASE p[Len(g.node)] # k
  <2>1. p \notin DOMAIN t
    BY <1>2, <1>4, <1>7 DEF Says
  <2>2. QED
    BY <1>3, <1>5, <1>7, <2>1
<1>8. QED
  BY <1>6, <1>7

\* A right answer goes into the frame below, or becomes the hash of the root.
LEMMA ReturnRight ==
  ASSUME ShapeInv, NEW p \in Paths, NEW r \in Computation, FramesOk(DOMAIN nodes, r), NEW n, NEW h,
         HashOk(DOMAIN nodes, n, h), HashRight(n, h, p), GotRight(r, p),
         IF r.frames = <<>> THEN n = Root ELSE Called(r.frames, n),
         NEW s, s = Return(r, n, h)
  PROVE  FramesRight(s, p)
<1>1. n \in Names /\ n \in DOMAIN nodes /\ Leaves(n, h) \in Tables
  BY LeavesSay DEF HashOk
<1>2. CASE r.frames = <<>>
  <2>1. n = Root /\ ~IsLeaf(n) /\ On(epoch, n, p)
    BY <1>2, RootIn, RootName
  <2>2. h \in NodeHash
    BY <2>1 DEF HashOk
  <2>3. s.pc \in {"store", "load", "lock"} /\ s.frames = <<>> /\ s.hash = h
    BY <1>1, <1>2, <2>2, ReturnIs
  <2>4. InRoot(Leaves(n, h), p) = InRoot(h, p)
    BY <1>1, <2>1, <2>2, LeavesType
  <2>5. InRoot(h, p) = Content(p)
    BY <2>1, <2>4 DEF HashRight
  <2>6. QED
    BY <2>3, <2>5 DEF FramesRight
<1>3. CASE r.frames # <<>>
  <2>1. PICK L, g : L = Len(r.frames) /\ g = r.frames[L]
    OBVIOUS
  <2>2. r.frames \in Seq(Frame)
    BY DEF Computation
  <2>3. L \in Nat /\ L >= 1 /\ DOMAIN r.frames = 1 .. L /\ g \in Frame
    <3>1. Len(r.frames) \in Nat /\ Len(r.frames) >= 1 /\ DOMAIN r.frames = 1 .. Len(r.frames)
      BY <1>3, <2>2, FrontIs
    <3>2. QED
      BY <2>1, <2>2, <3>1
  <2>4. FrameOk(DOMAIN nodes, g)
    BY <2>1, <2>3 DEF FramesOk
  <2>5. PICK k \in g.left : n = Append(g.node, k)
    BY <1>3, <2>1 DEF Called
  <2>6. s.pc = "visit" /\ \E f : Replaced(r, s, n, h, f)
    BY <1>1, <1>3, ReturnIs
  <2>7. PICK f : Replaced(r, s, n, h, f)
    BY <2>6
  <2>8. Last(n) = k
    <3>1. g.node \in Names /\ ~IsLeaf(g.node) /\ k \in Letters
      BY <2>3, <2>4, <2>5 DEF Frame, FrameOk
    <3>2. QED
      BY <2>5, <3>1, ChildName
  <2>9. /\ f.node = g.node /\ f.left = g.left \ {k} /\ f.got = Join(g.got, Leaves(n, h))
        /\ s.frames = [r.frames EXCEPT ![L] = f]
    BY <2>1, <2>7, <2>8 DEF Replaced
  <2>10. DOMAIN s.frames = 1 .. L /\ s.frames[L] = f /\ \A i \in 1 .. L : i # L => s.frames[i] = r.frames[i]
    BY <2>2, <2>3, <2>9
  <2>11. \A i \in 1 .. L : On(epoch, r.frames[i].node, p) =>
           p[Len(r.frames[i].node)] \in r.frames[i].left \/ InRoot(r.frames[i].got, p) = Content(p)
    BY <2>3 DEF GotRight
  <2>12. On(epoch, f.node, p) => p[Len(f.node)] \in f.left \/ InRoot(f.got, p) = Content(p)
    <3>1. SUFFICES ASSUME On(epoch, g.node, p)
                   PROVE  p[Len(g.node)] \in g.left \ {k} \/ InRoot(Join(g.got, Leaves(n, h)), p) = Content(p)
      BY <2>9
    <3>2. p[Len(g.node)] \in g.left \/ InRoot(g.got, p) = Content(p)
      BY <2>1, <2>3, <2>11, <3>1
    <3>3. QED
      BY <2>3, <2>4, <2>5, <3>1, <3>2, JoinRight
  <2>13. \A i \in DOMAIN s.frames : On(epoch, s.frames[i].node, p) =>
           p[Len(s.frames[i].node)] \in s.frames[i].left \/ InRoot(s.frames[i].got, p) = Content(p)
    BY <2>10, <2>11, <2>12
  <2>14. s.frames[1].node = Root
    <3>1. r.frames[1].node = Root
      BY <1>3 DEF GotRight
    <3>2. CASE L = 1
      BY <2>1, <2>9, <2>10, <3>1, <3>2
    <3>3. CASE L # 1
      <4>1. 1 \in 1 .. L
        BY <2>3
      <4>2. QED
        BY <2>10, <3>1, <3>3, <4>1
    <3>4. QED
      BY <3>2, <3>3
  <2>15. QED
    BY <2>6, <2>13, <2>14 DEF FramesRight
<1>4. QED
  BY <1>2, <1>3

\* The cached root stays right.
LEMMA RootStays ==
  ASSUME ShapeInv, Hashing, NEW c \in Computers, NEW s, comp' = [comp EXCEPT ![c] = s],
         cachedRoot' = cachedRoot,
         rootCacheValid' \/ s.pc = "valid" => rootCacheValid \/ comp[c].pc = "valid",
         NEW p, RootRight(p)
  PROVE  RootRight(p)'
<1>1. Content(p)' = Content(p) /\ upd' = upd
  BY HashingContent DEF Hashing
<1>2. (\E v \in Updaters : Changed(upd[v], p))' <=> \E v \in Updaters : Changed(upd[v], p)
  BY <1>1 DEF Changed, Marking, At
<1>3. comp'[c] = s /\ \A d \in Computers : d # c => comp'[d] = comp[d]
  BY DEF ShapeInv, StateType
<1>4. rootCacheValid' \/ (\E d \in Computers : comp'[d].pc = "valid")
         => rootCacheValid \/ \E d \in Computers : comp[d].pc = "valid"
  BY <1>3
<1>5. QED
  BY <1>1, <1>2, <1>4 DEF RootRight

\* The nodes stay as they are.
LEMMA NodesStay ==
  ASSUME Hashing, nodes' = nodes, NEW p
  PROVE  (TellInv(p) => TellInv(p)') /\ (LeafInv(p) => LeafInv(p)')
<1>1. Content(p)' = Content(p) /\ Leaf(p)' = Leaf(p) /\ upd' = upd /\ epoch' = epoch
  BY HashingContent DEF Hashing
<1>2. \A n : Covered(n, p)' <=> Covered(n, p)
  BY <1>1 DEF Covered, Marking, Pending, At
<1>3. \A n : Tells(n, p)' <=> Tells(n, p)
  BY <1>1 DEF Tells
<1>4. TellInv(p)' <=> \A n \in DOMAIN nodes : On(epoch, n, p) /\ ~IsLeaf(n) => Covered(n, p)' \/ Tells(n, p)'
  BY <1>1 DEF TellInv
<1>5. QED
  BY <1>1, <1>2, <1>3, <1>4 DEF TellInv, LeafInv

\* What a visited node answers, and what a leaf has.
LEMMA LeafRight ==
  ASSUME ShapeInv, NEW p \in Paths, LeafInv(p), NEW n \in DOMAIN nodes, IsLeaf(n), On(epoch, n, p)
  PROVE  /\ n = Leaf(p) /\ Tail(n) = p
         /\ ~nodes[n].dirty /\ nodes[n].hash # None => nodes[n].hash = Content(p)
         /\ nodes[n].dirty \/ nodes[n].hash = None => nodes[n].value # None
         /\ nodes[n].value # None => nodes[n].value = Content(p)
<1>1. n = Leaf(p) /\ Tail(Leaf(p)) = p
  BY LeafIs, RootIn DEF ShapeInv
<1>2. Content(p) = IF nodes[n].value = None THEN Deleted ELSE nodes[n].value
  BY <1>1 DEF Content
<1>3. /\ nodes[n].value = None => ~nodes[n].dirty /\ nodes[n].hash = Deleted
      /\ nodes[n].value # None => nodes[n].dirty \/ nodes[n].hash \in {None, nodes[n].value}
  BY <1>1 DEF LeafInv
<1>4. Deleted # None
  BY TreeAssumption
<1>5. QED
  BY <1>1, <1>2, <1>3, <1>4

\* The hash of a leaf is what the leaf adds.
LEMMA LeafHashRight ==
  ASSUME NEW p \in Paths, NEW n \in Names, IsLeaf(n), Tail(n) = p, NEW h \in LeafHash, h # None,
         h = Content(p)
  PROVE  HashRight(n, h, p)
<1>1. PICK t : t = Leaves(n, h)
  OBVIOUS
<1>2. t \in Tables /\ DOMAIN t = {p} /\ t[p] = h /\ t # None
  BY <1>1, LeavesType, NoneNoTable
<1>3. InRoot(t, p) = h
  BY <1>2 DEF InRoot
<1>4. QED
  BY <1>1, <1>3 DEF HashRight

\* A hash that a visit finds is right.
LEMMA VisitedRight ==
  ASSUME ShapeInv, RightInv, Computing # {}, NEW p \in Paths, p \notin raced,
         NEW r, NEW n, NEW nd, Visiting(r, n, nd), ~nd.dirty, nd.hash # None
  PROVE  HashRight(n, nd.hash, p)
<1>1. n \in DOMAIN nodes /\ n \in Names /\ nd = nodes[n] /\ HashOk(DOMAIN nodes, n, nd.hash)
  BY DEF Visiting
<1>2. TellInv(p) /\ LeafInv(p) /\ (Covered(n, p) <=> nd.dirty)
  BY <1>1, MeetingCovered DEF RightInv
<1>3. SUFFICES ASSUME On(epoch, n, p)
               PROVE  HashRight(n, nd.hash, p)
  BY DEF HashRight
<1>4. CASE IsLeaf(n)
  <2>1. Tail(n) = p /\ nd.hash = Content(p)
    BY <1>1, <1>2, <1>3, <1>4, LeafRight
  <2>2. nd.hash \in LeafHash
    BY <1>1, <1>4 DEF HashOk
  <2>3. QED
    BY <1>1, <1>4, <2>1, <2>2, LeafHashRight
<1>5. CASE ~IsLeaf(n)
  <2>1. InRoot(nd.hash, p) = Content(p)
    BY <1>1, <1>2, <1>3, <1>5 DEF TellInv, Tells
  <2>2. Leaves(n, nd.hash) = nd.hash
    BY <1>5 DEF Leaves
  <2>3. QED
    BY <2>1, <2>2 DEF HashRight
<1>6. QED
  BY <1>4, <1>5

\* A node without children tells of no leaf.
LEMMA EmptyRight ==
  ASSUME ShapeInv, NEW p \in Paths, NEW n \in DOMAIN nodes, ~IsLeaf(n), Keys(n) = {}
  PROVE  HashRight(n, None, p)
<1>1. SUFFICES ASSUME On(epoch, n, p)
               PROVE  InRoot(Leaves(n, None), p) = None /\ Content(p) = None
  BY DEF HashRight
<1>2. Content(p) = None
  BY <1>1, NoKey
<1>3. Leaves(n, None) = NoLeaves /\ DOMAIN NoLeaves = {}
  BY DEF Leaves, NoLeaves
<1>4. QED
  BY <1>2, <1>3 DEF InRoot

\* A new frame has everything still before it.
LEMMA PushRight ==
  ASSUME ShapeInv, NEW p \in Paths, NEW r, NEW n, NEW nd, Visiting(r, n, nd), ~IsLeaf(n), FramesRight(r, p),
         NEW s, s = [r EXCEPT !.frames = Append(@, NewFrame(n))]
  PROVE  FramesRight(s, p)
<1>1. r \in Computation /\ r.pc = "visit" /\ n \in DOMAIN nodes /\ n \in Names
      /\ (r.frames = <<>> => n = Root)
  BY DEF Visiting
<1>2. PICK f : f = NewFrame(n)
  OBVIOUS
<1>3. f.node = n /\ f.left = Keys(n) /\ f.got = NoLeaves
  BY <1>2 DEF NewFrame
<1>4. f \in Frame
  <2>1. Keys(n) \subseteq Letters
    BY <1>1, KeysAre DEF ShapeInv
  <2>2. NoLeaves \in Tables
    <3>1. NoLeaves \in [{} -> LeafHash]
      BY DEF NoLeaves
    <3>2. {} \in SUBSET Paths
      OBVIOUS
    <3>3. QED
      BY <3>1, <3>2, TableType
  <2>3. QED
    BY <1>1, <1>2, <2>1, <2>2 DEF Frame, NewFrame
<1>5. PICK L : L = Len(r.frames)
  OBVIOUS
<1>6. r.frames \in Seq(Frame) /\ L \in Nat /\ DOMAIN r.frames = 1 .. L
  BY <1>1, <1>5 DEF Computation
<1>7. s.frames = Append(r.frames, f) /\ s.pc = "visit"
  BY <1>1, <1>2 DEF Computation
<1>8. DOMAIN s.frames = 1 .. L + 1 /\ s.frames[L + 1] = f /\ \A i \in 1 .. L : s.frames[i] = r.frames[i]
  BY <1>4, <1>5, <1>6, <1>7
<1>9. On(epoch, n, p) => p[Len(n)] \in f.left \/ InRoot(f.got, p) = Content(p)
  <2>1. SUFFICES ASSUME On(epoch, n, p), p[Len(n)] \notin Keys(n)
                 PROVE  InRoot(NoLeaves, p) = Content(p)
    BY <1>3
  <2>2. Content(p) = None
    BY <1>1, <2>1, NoKey
  <2>3. QED
    BY <2>2 DEF InRoot, NoLeaves
<1>10. ASSUME NEW i \in DOMAIN s.frames, On(epoch, s.frames[i].node, p)
       PROVE  p[Len(s.frames[i].node)] \in s.frames[i].left \/ InRoot(s.frames[i].got, p) = Content(p)
  <2>1. CASE i = L + 1
    BY <1>3, <1>8, <1>9, <1>10, <2>1
  <2>2. CASE i # L + 1
    <3>1. i \in 1 .. L
      BY <1>6, <1>8, <1>10, <2>2
    <3>2. QED
      BY <1>6, <1>8, <1>10, <3>1 DEF FramesRight
  <2>3. QED
    BY <2>1, <2>2
<1>11. s.frames[1].node = Root
  <2>1. CASE L = 0
    <3>1. r.frames # <<>> => Len(r.frames) >= 1
      BY <1>6, FrontIs
    <3>2. r.frames = <<>>
      BY <1>5, <2>1, <3>1
    <3>3. QED
      BY <1>1, <1>3, <1>8, <2>1, <3>2
  <2>2. CASE L # 0
    <3>1. 1 \in 1 .. L /\ r.frames # <<>>
      BY <1>5, <1>6, <2>2
    <3>2. QED
      BY <1>8, <3>1 DEF FramesRight
  <2>3. QED
    BY <2>1, <2>2
<1>12. QED
  BY <1>7, <1>10, <1>11 DEF FramesRight

\* A computation that steps to s and leaves the nodes.
LEMMA MoveRight ==
  ASSUME ShapeInv, ShapeInv', RightInv, NEW c \in Computers, comp[c].pc # "idle",
         NEW s \in Computation, comp' = [comp EXCEPT ![c] = s], FramesOk(DOMAIN nodes, s),
         UNCHANGED <<nodes, epoch, upd, raced>>,
         \A p \in Paths : p \notin raced => FramesRight(s, p) /\ RootRight(p)'
  PROVE  RightInv'
<1>1. Hashing /\ nodes' = nodes
  BY DEF Hashing
<1>2. ASSUME NEW p \in Paths, p \notin raced
      PROVE  TellInv(p)' /\ LeafInv(p)'
  <2>1. TellInv(p) /\ LeafInv(p)
    BY <1>2 DEF RightInv, Watched
  <2>2. QED
    BY <1>1, <2>1, NodesStay
<1>3. QED
  BY <1>1, <1>2, ComputeRight

\* Visit keeps the roots right.
LEMMA VisitRight ==
  ASSUME ShapeInv, ShapeInv', RightInv, NEW c \in Computers, NEW n \in ToVisit(c), Visit(c, n)
  PROVE  RightInv'
<1>1. PICK r, nd : r = comp[c] /\ nd = nodes[n]
  OBVIOUS
<1>2. /\ Visiting(r, n, nd)
      /\ \/ VisitHashed(c, r, n, nd) \/ VisitLeaf(c, r, n, nd)
         \/ VisitEmpty(c, r, n, nd) \/ VisitInner(c, r, n, nd)
      /\ UNCHANGED <<items, nodes, epoch, dirtyNodes, cachedRoot,
                       rootCacheValid, treeLock, upd, budget, raced, clashed>>
  BY <1>1, VisitIs
<1>3. /\ r \in Computation /\ FramesOk(DOMAIN nodes, r) /\ r.pc = "visit"
      /\ n \in DOMAIN nodes /\ n \in Names /\ nd = nodes[n] /\ nd \in Node
      /\ HashOk(DOMAIN nodes, n, nd.hash)
      /\ IF r.frames = <<>> THEN n = Root ELSE Called(r.frames, n)
      /\ IF r.frames = <<>> THEN ~IsLeaf(n) ELSE Called(r.frames, n)
  BY <1>2 DEF Visiting
<1>4. comp[c].pc # "idle" /\ Computing # {} /\ c \in Computing
  BY <1>1, <1>3 DEF Computing
<1>5. \A p \in Paths : p \notin raced => FramesRight(r, p) /\ RootRight(p) /\ GotRight(r, p) /\ LeafInv(p)
  BY <1>1, <1>3 DEF RightInv, FramesRight, GotRight, Watched
<1>6. \A s : comp' = [comp EXCEPT ![c] = s] /\ s.pc # "valid" =>
        \A p \in Paths : p \notin raced => RootRight(p)'
  <2>1. Hashing
    BY <1>2 DEF Hashing
  <2>2. QED
    BY <1>2, <1>5, <2>1, RootStays
<1>7. CASE VisitHashed(c, r, n, nd)
  <2>1. PICK h, s : h = nd.hash /\ s = Return(r, n, h)
    OBVIOUS
  <2>2. comp' = [comp EXCEPT ![c] = s] /\ ~nd.dirty /\ nd.hash # None
    BY <1>7, <2>1 DEF VisitHashed
  <2>3. s \in Computation /\ FramesOk(DOMAIN nodes, s)
    BY <1>3, <2>1, ReturnOk
  <2>4. ASSUME NEW p \in Paths, p \notin raced
        PROVE  FramesRight(s, p)
    <3>1. HashRight(n, h, p)
      BY <1>2, <1>4, <2>1, <2>2, <2>4, VisitedRight
    <3>2. QED
      BY <1>3, <1>5, <2>1, <2>4, <3>1, ReturnRight
  <2>5. s.pc # "valid"
    BY <1>3, <2>1, LeavesSay, ReturnIs DEF HashOk
  <2>6. QED
    BY <1>2, <1>4, <1>6, <2>2, <2>3, <2>4, <2>5, MoveRight
<1>8. CASE VisitLeaf(c, r, n, nd)
  <2>1. PICK s : s = [r EXCEPT !.pc = "leaf", !.leaf = n, !.value = nd.value]
    OBVIOUS
  <2>2. comp' = [comp EXCEPT ![c] = s] /\ IsLeaf(n) /\ (nd.dirty \/ nd.hash = None)
    BY <1>8, <2>1 DEF VisitLeaf
  <2>3. /\ s.pc = "leaf" /\ s.leaf = n /\ s.value = nd.value /\ s.frames = r.frames
    BY <1>3, <2>1 DEF Computation
  <2>4. s \in Computation /\ FramesOk(DOMAIN nodes, s)
    <3>1. comp'[c] = s /\ DOMAIN nodes' = DOMAIN nodes
      BY <1>2, <2>2 DEF ShapeInv, StateType
    <3>2. QED
      BY <3>1 DEF ShapeInv, StateType, FramesInv
  <2>5. ASSUME NEW p \in Paths, p \notin raced
        PROVE  FramesRight(s, p)
    <3>1. FramesRight(r, p) /\ LeafInv(p)
      BY <1>5, <2>5
    <3>2. n = Leaf(p) => nd.value # None
      <4>1. NodesInv /\ epoch \in Nat
        BY RootIn DEF ShapeInv
      <4>2. n = Leaf(p) => On(epoch, n, p)
        BY <4>1, LeafIs DEF On
      <4>3. QED
        BY <1>3, <2>2, <3>1, <4>2, LeafRight
    <3>3. QED
      BY <1>3, <2>3, <3>1, <3>2 DEF FramesRight
  <2>6. QED
    BY <1>2, <1>4, <1>6, <2>2, <2>3, <2>4, <2>5, MoveRight
<1>9. CASE VisitEmpty(c, r, n, nd)
  <2>1. PICK s : s = Return(r, n, None)
    OBVIOUS
  <2>2. comp' = [comp EXCEPT ![c] = s] /\ ~IsLeaf(n) /\ Keys(n) = {}
    BY <1>9, <2>1 DEF VisitEmpty
  <2>3. HashOk(DOMAIN nodes, n, None)
    BY <1>3, <2>2 DEF HashOk, NodeHash
  <2>4. s \in Computation /\ FramesOk(DOMAIN nodes, s)
    BY <1>3, <2>1, <2>3, ReturnOk
  <2>5. ASSUME NEW p \in Paths, p \notin raced
        PROVE  FramesRight(s, p)
    <3>1. HashRight(n, None, p)
      BY <1>3, <2>2, EmptyRight
    <3>2. QED
      BY <1>3, <1>5, <2>1, <2>3, <2>5, <3>1, ReturnRight
  <2>6. s.pc # "valid"
    <3>1. Leaves(n, None) \in Tables /\ None \in NodeHash
      BY <2>3, LeavesSay DEF NodeHash
    <3>2. QED
      BY <1>3, <2>1, <3>1, ReturnIs
  <2>7. QED
    BY <1>2, <1>4, <1>6, <2>2, <2>4, <2>5, <2>6, MoveRight
<1>10. CASE VisitInner(c, r, n, nd)
  <2>1. PICK s : s = [r EXCEPT !.frames = Append(@, NewFrame(n))]
    OBVIOUS
  <2>2. comp' = [comp EXCEPT ![c] = s] /\ ~IsLeaf(n)
    BY <1>10, <2>1 DEF VisitInner
  <2>3. s \in Computation /\ FramesOk(DOMAIN nodes, s)
    BY <1>2, <2>1, <2>2, PushOk
  <2>4. \A p \in Paths : p \notin raced => FramesRight(s, p)
    BY <1>2, <1>5, <2>1, <2>2, PushRight
  <2>5. s.pc # "valid"
    BY <1>3, <2>1 DEF Computation
  <2>6. QED
    BY <1>2, <1>4, <1>6, <2>2, <2>3, <2>4, <2>5, MoveRight
<1>11. QED
  BY <1>2, <1>7, <1>8, <1>9, <1>10

\* Node n is nd now, with hash h.
Rehashed(n, h, nd) ==
  /\ DOMAIN nodes' = DOMAIN nodes
  /\ nd.hash = h /\ nd.dirty = FALSE /\ nd.value = nodes[n].value
  /\ nodes'[n] = nd /\ \A x \in DOMAIN nodes : x # n => nodes'[x] = nodes[x]

\* That is what Hashed does.
LEMMA RehashedIs ==
  ASSUME ShapeInv, NEW n, NEW h, HashOk(DOMAIN nodes, n, h), Hashed(n, h), UNCHANGED epoch
  PROVE  Rehashed(n, h, NewHash(n, h))
<1>1. /\ DOMAIN nodes' = DOMAIN nodes
      /\ NewHash(n, h).hash = h /\ NewHash(n, h).dirty = FALSE
      /\ NewHash(n, h).value = nodes[n].value
      /\ nodes'[n] = NewHash(n, h) /\ \A x \in DOMAIN nodes : x # n => nodes'[x] = nodes[x]
  BY HashedIs, ZenonT(60)
<1>2. QED
  BY <1>1, Zenon DEF Rehashed

\* A computation that stores the hash h with node n and goes on with q.
LEMMA StoringRight ==
  ASSUME ShapeInv, ShapeInv', RightInv, NEW c \in Computers, NEW r, r = comp[c], r.pc # "idle",
         NEW q, NEW n, NEW h, Storing(r, q, n, h), Hashed(n, h),
         comp' = [comp EXCEPT ![c] = Return(q, n, h)],
         UNCHANGED <<epoch, cachedRoot, rootCacheValid, upd, raced>>,
         \A p \in Paths : p \notin raced =>
            HashRight(n, h, p) /\ GotRight(q, p) /\ (q.frames = <<>> => n = Root),
         IsLeaf(n) => h = nodes[n].value \/ \A p \in Paths : p \notin raced => ~On(epoch, n, p),
         \A p \in Paths : p \notin raced /\ IsLeaf(n) /\ On(epoch, n, p) => h # None
  PROVE  RightInv'
<1>1. /\ r \in Computation /\ FramesOk(DOMAIN nodes, r)
      /\ q \in Computation /\ FramesOk(DOMAIN nodes, q)
      /\ HashOk(DOMAIN nodes, n, h) /\ n \in DOMAIN nodes /\ n \in Names
      /\ IF q.frames = <<>> THEN ~IsLeaf(n) ELSE Called(q.frames, n)
  BY DEF Storing, HashOk
<1>2. PICK s : s = Return(q, n, h)
  OBVIOUS
<1>3. comp' = [comp EXCEPT ![c] = s]
  BY <1>2
<1>4. PICK nd : nd = NewHash(n, h)
  OBVIOUS
<1>5. /\ DOMAIN nodes' = DOMAIN nodes
      /\ nd.hash = h /\ nd.dirty = FALSE /\ nd.value = nodes[n].value
      /\ nodes'[n] = nd /\ \A x \in DOMAIN nodes : x # n => nodes'[x] = nodes[x]
  <2>1. HashOk(DOMAIN nodes, n, h) /\ UNCHANGED epoch
    BY <1>1
  <2>2. Rehashed(n, h, nd)
    BY <1>4, <2>1, RehashedIs, Zenon
  <2>3. QED
    BY <2>2 DEF Rehashed
<1>6. Hashing
  BY <1>5 DEF Hashing
<1>7. s \in Computation /\ FramesOk(DOMAIN nodes, s)
  BY <1>1, <1>2, ReturnOk
<1>8. s.pc # "valid"
  <2>1. Leaves(n, h) \in Tables /\ (~IsLeaf(n) => h \in NodeHash)
    BY <1>1, LeavesSay DEF HashOk
  <2>2. QED
    BY <1>1, <1>2, <2>1, ReturnIs
<1>9. Computing # {}
  BY DEF Computing
<1>10. ASSUME NEW p \in Paths, p \notin raced
       PROVE  TellInv(p)' /\ LeafInv(p)' /\ FramesRight(s, p) /\ RootRight(p)'
  <2>1. FramesRight(s, p)
    <3>1. HashRight(n, h, p) /\ GotRight(q, p)
          /\ IF q.frames = <<>> THEN n = Root ELSE Called(q.frames, n)
      BY <1>1, <1>10
    <3>2. QED
      BY <1>1, <1>2, <3>1, ReturnRight
  <2>2. RootRight(p)'
    <3>1. RootRight(p)
      BY <1>10 DEF RightInv
    <3>2. QED
      BY <1>3, <1>6, <1>8, <3>1, RootStays
  <2>3. TellInv(p) /\ LeafInv(p) /\ \A x : Covered(x, p) <=> nodes[x].dirty
    BY <1>9, <1>10, MeetingCovered DEF RightInv
  <2>4. Content(p)' = Content(p) /\ Leaf(p)' = Leaf(p)
    BY <1>6, HashingContent
  <2>5. ASSUME NEW x \in DOMAIN nodes, On(epoch, x, p), ~IsLeaf(x)
        PROVE  Covered(x, p)' \/ Tells(x, p)'
    <3>1. CASE x = n
      <4>1. InRoot(Leaves(n, h), p) = Content(p)
        BY <1>10, <2>5, <3>1 DEF HashRight
      <4>2. h # None => Leaves(n, h) = h
        BY <2>5, <3>1 DEF Leaves
      <4>3. QED
        BY <1>5, <2>4, <3>1, <4>1, <4>2 DEF Tells
    <3>2. CASE x # n
      <4>1. nodes'[x] = nodes[x]
        BY <1>5, <3>2
      <4>2. nodes[x].dirty \/ Tells(x, p)
        BY <2>3, <2>5 DEF TellInv
      <4>3. QED
        BY <2>4, <4>1, <4>2 DEF Covered, Tells
    <3>3. QED
      BY <3>1, <3>2
  <2>6. TellInv(p)'
    BY <1>5, <2>5 DEF TellInv
  <2>7. LeafInv(p)'
    <3>1. CASE Leaf(p) = n
      <4>1. On(epoch, n, p) /\ IsLeaf(n)
        BY <3>1, LeafIs, RootIn DEF ShapeInv, On
      <4>2. h # None /\ h = nodes[n].value
        BY <1>10, <4>1
      <4>3. QED
        BY <1>5, <2>4, <3>1, <4>2 DEF LeafInv
    <3>2. CASE Leaf(p) # n
      BY <1>5, <2>3, <2>4, <3>2 DEF LeafInv
    <3>3. QED
      BY <3>1, <3>2
  <2>8. QED
    BY <2>1, <2>2, <2>6, <2>7
<1>11. QED
  BY <1>3, <1>6, <1>7, <1>10, ComputeRight

\* StoreLeafHash keeps the roots right.
LEMMA StoreLeafRight ==
  ASSUME ShapeInv, ShapeInv', RightInv, NEW c \in Computers, StoreLeafHash(c)
  PROVE  RightInv'
<1>1. PICK r, n, h : r = comp[c] /\ n = r.leaf /\ h = r.value
  OBVIOUS
<1>2. PICK q : /\ r.pc = "leaf" /\ IsLeaf(n) /\ Storing(r, q, n, h)
               /\ q.frames = r.frames
               /\ Hashed(n, h)
               /\ comp' = [comp EXCEPT ![c] = Return(q, n, h)]
  BY <1>1, StoreLeafIs
<1>3. UNCHANGED <<epoch, cachedRoot, rootCacheValid, upd, raced>>
  BY DEF StoreLeafHash
<1>4. /\ r \in Computation /\ HashOk(DOMAIN nodes, n, h)
      /\ IF q.frames = <<>> THEN ~IsLeaf(n) ELSE Called(q.frames, n)
  BY <1>2 DEF Storing
<1>5. n \in DOMAIN nodes /\ n \in Names /\ h \in LeafHash /\ q.frames # <<>>
  BY <1>2, <1>4 DEF HashOk
<1>6. \A p \in Paths : p \notin raced => FramesRight(r, p) /\ LeafInv(p)
  BY <1>1, <1>4 DEF RightInv, Watched
<1>7. ASSUME NEW p \in Paths, p \notin raced, On(epoch, n, p)
      PROVE  h = nodes[n].value /\ h # None /\ h = Content(p) /\ Tail(n) = p
  <2>1. n = Leaf(p) /\ Tail(n) = p /\ (nodes[n].value # None => nodes[n].value = Content(p))
    BY <1>2, <1>5, <1>6, <1>7, LeafRight
  <2>2. h = nodes[n].value /\ h # None
    BY <1>1, <1>2, <1>6, <1>7, <2>1 DEF FramesRight
  <2>3. QED
    BY <2>1, <2>2
<1>8. ASSUME NEW p \in Paths, p \notin raced
      PROVE  HashRight(n, h, p) /\ GotRight(q, p)
  <2>1. GotRight(q, p)
    BY <1>2, <1>6, <1>8 DEF FramesRight, GotRight
  <2>2. On(epoch, n, p) => HashRight(n, h, p)
    BY <1>2, <1>5, <1>7, <1>8, LeafHashRight
  <2>3. QED
    BY <2>1, <2>2 DEF HashRight
<1>9. h = nodes[n].value \/ \A p \in Paths : p \notin raced => ~On(epoch, n, p)
  BY <1>7
<1>10. r.pc # "idle"
  BY <1>2
<1>11. \A p \in Paths : p \notin raced =>
          HashRight(n, h, p) /\ GotRight(q, p) /\ (q.frames = <<>> => n = Root)
  BY <1>5, <1>8
<1>12. \A p \in Paths : p \notin raced /\ IsLeaf(n) /\ On(epoch, n, p) => h # None
  BY <1>7
<1>13. /\ r = comp[c] /\ Storing(r, q, n, h) /\ Hashed(n, h)
       /\ comp' = [comp EXCEPT ![c] = Return(q, n, h)]
       /\ IsLeaf(n) => h = nodes[n].value \/ \A p \in Paths : p \notin raced => ~On(epoch, n, p)
  BY <1>1, <1>2, <1>9
<1>14. QED
  BY <1>3, <1>10, <1>11, <1>12, <1>13, StoringRight, ZenonT(60)

\* StoreNodeHash keeps the roots right.
LEMMA StoreNodeRight ==
  ASSUME ShapeInv, ShapeInv', RightInv, NEW c \in Computers, StoreNodeHash(c)
  PROVE  RightInv'
<1>1. PICK r : r = comp[c]
  OBVIOUS
<1>2. PICK q, f : NodeStored(c, r, q, f)
  BY <1>1, StoreNodeIs
<1>3. PICK n, h, L : n = f.node /\ h = f.got /\ L = Len(r.frames)
  OBVIOUS
<1>4. /\ r.pc = "visit" /\ r.frames # <<>> /\ f = r.frames[L] /\ f.left = {}
      /\ Storing(r, q, n, h) /\ ~IsLeaf(n) /\ q.frames = Front(r.frames) /\ Hashed(n, h)
      /\ comp' = [comp EXCEPT ![c] = Return(q, n, h)]
      /\ r \in Computation
  BY <1>2, <1>3 DEF NodeStored, Storing
<1>5. UNCHANGED <<epoch, cachedRoot, rootCacheValid, upd, raced>>
  BY DEF StoreNodeHash
<1>6. /\ L \in Nat /\ L >= 1 /\ DOMAIN r.frames = 1 .. L
      /\ DOMAIN q.frames = 1 .. L - 1 /\ Len(q.frames) = L - 1
      /\ \A i \in 1 .. L - 1 : q.frames[i] = r.frames[i]
  <2>1. r.frames \in Seq(Frame) /\ r.frames # <<>>
    BY <1>4 DEF Computation
  <2>2. /\ Len(r.frames) \in Nat /\ Len(r.frames) >= 1 /\ DOMAIN r.frames = 1 .. Len(r.frames)
        /\ DOMAIN Front(r.frames) = 1 .. Len(r.frames) - 1 /\ Len(Front(r.frames)) = Len(r.frames) - 1
        /\ \A i \in 1 .. Len(r.frames) - 1 : Front(r.frames)[i] = r.frames[i]
    BY <2>1, FrontIs
  <2>3. QED
    BY <1>3, <1>4, <2>2
<1>7. \A p \in Paths : p \notin raced => FramesRight(r, p)
  BY <1>1, <1>4 DEF RightInv
<1>8. ASSUME NEW p \in Paths, p \notin raced
      PROVE  HashRight(n, h, p) /\ GotRight(q, p)
  <2>1. FramesRight(r, p)
    BY <1>7, <1>8
  <2>2. On(epoch, n, p) => InRoot(h, p) = Content(p)
    <3>1. L \in DOMAIN r.frames
      BY <1>6
    <3>2. On(epoch, r.frames[L].node, p) =>
            p[Len(r.frames[L].node)] \in r.frames[L].left \/ InRoot(r.frames[L].got, p) = Content(p)
      BY <2>1, <3>1 DEF FramesRight
    <3>3. QED
      BY <1>3, <1>4, <3>2
  <2>3. h # None
    BY <1>2, <1>3, NoneNoTable DEF NodeStored, Frame
  <2>4. HashRight(n, h, p)
    BY <1>4, <2>2, <2>3 DEF HashRight, Leaves
  <2>5. q.frames # <<>> => q.frames[1].node = Root
    <3>1. SUFFICES ASSUME q.frames # <<>>
                   PROVE  q.frames[1].node = Root
      OBVIOUS
    <3>2. L - 1 # 0
      <4>1. q.frames \in Seq(Frame)
        BY <1>4 DEF Storing, Computation
      <4>2. Len(q.frames) >= 1
        BY <3>1, <4>1, FrontIs
      <4>3. QED
        BY <1>6, <4>2
    <3>3. 1 \in 1 .. L - 1
      BY <1>6, <3>2
    <3>4. QED
      BY <1>4, <1>6, <2>1, <3>3 DEF FramesRight
  <2>6. ASSUME NEW i \in DOMAIN q.frames, On(epoch, q.frames[i].node, p)
        PROVE  p[Len(q.frames[i].node)] \in q.frames[i].left \/ InRoot(q.frames[i].got, p) = Content(p)
    <3>1. i \in DOMAIN r.frames /\ q.frames[i] = r.frames[i]
      BY <1>6, <2>6
    <3>2. QED
      BY <2>1, <2>6, <3>1 DEF FramesRight
  <2>7. QED
    BY <2>4, <2>5, <2>6 DEF GotRight
<1>9. ASSUME q.frames = <<>>, NEW p \in Paths, p \notin raced
      PROVE  n = Root
  <2>1. L = 1
    BY <1>6, <1>9
  <2>2. r.frames[1].node = Root
    BY <1>4, <1>7, <1>9 DEF FramesRight
  <2>3. QED
    BY <1>3, <1>4, <2>1, <2>2
<1>10. r.pc # "idle"
  BY <1>4
<1>11. \A p \in Paths : p \notin raced =>
          HashRight(n, h, p) /\ GotRight(q, p) /\ (q.frames = <<>> => n = Root)
  BY <1>8, <1>9
<1>12. QED
  BY <1>1, <1>4, <1>5, <1>10, <1>11, StoringRight

\* The steps of a computation that is not hashing.
Plain(c, r, s) ==
  /\ r = comp[c] /\ r.pc \in {"load", "store", "valid", "cas", "lock", "zero"}
  /\ s \in Computation /\ comp' = [comp EXCEPT ![c] = s]
  /\ s.frames = <<>> /\ s.pc # "leaf"
  /\ s.pc \in {"load", "store"} => r.pc = "load" /\ s.hash = r.hash

\* Such a step keeps the roots right if the root it declares valid is right.
LEMMA PlainRight ==
  ASSUME ShapeInv, ShapeInv', RightInv, NEW c \in Computers, NEW r, NEW s, Plain(c, r, s),
         UNCHANGED <<nodes, epoch, upd, raced>>,
         \A p \in Paths : p \notin raced => RootRight(p)'
  PROVE  RightInv'
<1>1. /\ r = comp[c] /\ r.pc # "idle"
      /\ s \in Computation /\ comp' = [comp EXCEPT ![c] = s]
      /\ s.frames = <<>> /\ s.pc # "leaf"
      /\ s.pc \in {"load", "store"} => r.pc = "load" /\ s.hash = r.hash
  BY DEF Plain
<1>2. r \in Computation
  BY <1>1 DEF ShapeInv, StateType
<1>3. FramesOk(DOMAIN nodes, s)
  <2>1. comp'[c] = s
    BY <1>1 DEF ShapeInv, StateType
  <2>2. QED
    BY <2>1 DEF ShapeInv, FramesInv
<1>4. ASSUME NEW p \in Paths, p \notin raced
      PROVE  FramesRight(s, p)
  <2>1. r.pc = "load" => InRoot(r.hash, p) = Content(p)
    BY <1>1, <1>2, <1>4 DEF RightInv, FramesRight
  <2>2. QED
    BY <1>1, <2>1 DEF FramesRight
<1>5. QED
  BY <1>1, <1>3, <1>4, MoveRight

\* It does if it declares none.
LEMMA PlainRoot ==
  ASSUME ShapeInv, ShapeInv', RightInv, NEW c \in Computers, NEW r, NEW s, Plain(c, r, s),
         UNCHANGED <<nodes, epoch, upd, raced, cachedRoot>>,
         rootCacheValid' \/ s.pc = "valid" => rootCacheValid \/ r.pc = "valid"
  PROVE  RightInv'
<1>1. r = comp[c] /\ comp' = [comp EXCEPT ![c] = s]
  BY DEF Plain
<1>2. Hashing
  BY DEF Hashing
<1>3. ASSUME NEW p \in Paths, p \notin raced
      PROVE  RootRight(p)'
  <2>1. RootRight(p)
    BY <1>3 DEF RightInv
  <2>2. QED
    BY <1>1, <1>2, <2>1, RootStays
<1>4. QED
  BY <1>3, PlainRight

\* The steps after the hashing keep the roots right.
LEMMA PlainStepsRight ==
  ASSUME ShapeInv, ShapeInv', RightInv, NEW c \in Computers,
         LoadDirty(c) \/ StoreRoot(c) \/ StoreValid(c) \/ CompareAndSwap(c) \/ Fallback(c) \/ FallbackEnd(c)
  PROVE  RightInv'
<1>1. PICK r : r = comp[c]
  OBVIOUS
<1>2. r \in Computation /\ comp \in [Computers -> Computation] /\ FramesOk(DOMAIN nodes, r)
      /\ dirtyNodes \in Nat
  BY <1>1 DEF ShapeInv, StateType, FramesInv
<1>3. UNCHANGED <<nodes, epoch, upd, raced>>
  BY DEF LoadDirty, StoreRoot, StoreValid, CompareAndSwap, Fallback, FallbackEnd
<1>4. Waiting \in Computation /\ Waiting.pc = "idle" /\ Waiting.frames = <<>>
  BY WaitingType DEF Waiting
<1>5. r.pc \in {"load", "store", "valid", "cas", "lock", "zero"} => r.frames = <<>>
  BY <1>2 DEF FramesOk
<1>6. CASE LoadDirty(c)
  <2>1. PICK s : s = [r EXCEPT !.seen = dirtyNodes, !.pc = "store"]
    OBVIOUS
  <2>2. s \in Computation /\ s.pc = "store" /\ s.frames = r.frames /\ s.hash = r.hash
    BY <1>2, <2>1 DEF Computation
  <2>3. r.pc = "load" /\ comp' = [comp EXCEPT ![c] = s] /\ UNCHANGED <<cachedRoot, rootCacheValid>>
    BY <1>1, <1>2, <1>6, <2>1 DEF LoadDirty
  <2>4. Plain(c, r, s)
    BY <1>1, <1>5, <2>2, <2>3 DEF Plain
  <2>5. QED
    BY <1>3, <2>2, <2>3, <2>4, PlainRoot
<1>7. CASE StoreRoot(c)
  <2>1. PICK s : s = [r EXCEPT !.pc = "valid"]
    OBVIOUS
  <2>2. s \in Computation /\ s.pc = "valid" /\ s.frames = r.frames
    BY <1>2, <2>1 DEF Computation
  <2>3. r.pc = "store" /\ comp' = [comp EXCEPT ![c] = s] /\ cachedRoot' = r.hash
    BY <1>1, <1>2, <1>7, <2>1 DEF StoreRoot
  <2>4. Plain(c, r, s)
    BY <1>1, <1>5, <2>2, <2>3 DEF Plain
  <2>5. ASSUME NEW p \in Paths, p \notin raced
        PROVE  RootRight(p)'
    <3>1. InRoot(r.hash, p) = Content(p)
      BY <1>1, <1>2, <2>3, <2>5 DEF RightInv, FramesRight
    <3>2. Content(p)' = Content(p)
      BY <1>3, HashingContent DEF Hashing
    <3>3. QED
      BY <2>3, <3>1, <3>2 DEF RootRight
  <2>6. QED
    BY <1>3, <2>4, <2>5, PlainRight
<1>8. CASE StoreValid(c)
  <2>1. PICK pc \in {"zero", "cas"} : pc = IF r.final THEN "zero" ELSE "cas"
    OBVIOUS
  <2>2. PICK s : s = [r EXCEPT !.pc = pc]
    OBVIOUS
  <2>3. s \in Computation /\ s.pc = pc /\ s.frames = r.frames
    BY <1>2, <2>1, <2>2 DEF Computation
  <2>4. r.pc = "valid" /\ comp' = [comp EXCEPT ![c] = s] /\ UNCHANGED cachedRoot
    BY <1>1, <1>2, <1>8, <2>1, <2>2 DEF StoreValid
  <2>5. Plain(c, r, s)
    BY <1>1, <1>5, <2>1, <2>3, <2>4 DEF Plain
  <2>6. QED
    BY <1>3, <2>4, <2>5, PlainRoot
<1>9. CASE CompareAndSwap(c)
  <2>1. r.pc = "cas" /\ UNCHANGED <<cachedRoot, rootCacheValid>>
    BY <1>1, <1>9 DEF CompareAndSwap
  <2>2. PICK t : t = r.tries + 1
    OBVIOUS
  <2>3. t \in Nat
    BY <1>2, <2>2 DEF Computation
  <2>4. PICK q : q = [r EXCEPT !.tries = t, !.pc = "visit"]
    OBVIOUS
  <2>5. q \in Computation /\ q.pc = "visit" /\ q.frames = r.frames
    BY <1>2, <2>3, <2>4 DEF Computation
  <2>6. comp' = [comp EXCEPT ![c] = q] \/ comp' = [comp EXCEPT ![c] = Waiting]
    BY <1>1, <1>2, <1>9, <2>2, <2>4 DEF CompareAndSwap
  <2>7. PICK s \in {q, Waiting} : comp' = [comp EXCEPT ![c] = s]
    BY <2>6
  <2>8. s \in Computation /\ s.frames = <<>> /\ s.pc \in {"visit", "idle"}
    BY <1>4, <1>5, <2>1, <2>5, <2>7
  <2>9. Plain(c, r, s)
    BY <1>1, <2>1, <2>7, <2>8 DEF Plain
  <2>10. QED
    BY <1>3, <2>1, <2>8, <2>9, PlainRoot
<1>10. CASE Fallback(c)
  <2>1. PICK s : s = [r EXCEPT !.final = TRUE, !.pc = "visit"]
    OBVIOUS
  <2>2. s \in Computation /\ s.pc = "visit" /\ s.frames = r.frames
    BY <1>2, <2>1 DEF Computation
  <2>3. r.pc = "lock" /\ comp' = [comp EXCEPT ![c] = s] /\ UNCHANGED <<cachedRoot, rootCacheValid>>
    BY <1>1, <1>2, <1>10, <2>1 DEF Fallback
  <2>4. Plain(c, r, s)
    BY <1>1, <1>5, <2>2, <2>3 DEF Plain
  <2>5. QED
    BY <1>3, <2>2, <2>3, <2>4, PlainRoot
<1>11. CASE FallbackEnd(c)
  <2>1. r.pc = "zero" /\ UNCHANGED <<cachedRoot, rootCacheValid>> /\ comp' = [comp EXCEPT ![c] = Waiting]
    BY <1>1, <1>11 DEF FallbackEnd
  <2>2. Plain(c, r, Waiting)
    BY <1>1, <1>4, <2>1 DEF Plain
  <2>3. QED
    BY <1>3, <1>4, <2>1, <2>2, PlainRoot
<1>12. QED
  BY <1>6, <1>7, <1>8, <1>9, <1>10, <1>11

\* A computation that starts notes the races; of the other leaves no hash and
\* no change of a call is touched.
LEMMA ComputeRootRight ==
  ASSUME ShapeInv, ShapeInv', RightInv, NEW c \in Computers, ComputeRoot(c)
  PROVE  RightInv'
<1>1. /\ raced' = raced \cup TouchedBy(Updaters)
      /\ UNCHANGED <<nodes, epoch, cachedRoot, rootCacheValid>>
  BY ComputeRootIs
<1>2. PICK s \in Computation : /\ comp' = [comp EXCEPT ![c] = s] /\ s.frames = <<>>
                               /\ s.pc = "visit" /\ s.leaf = <<>>
  BY ComputeRootIs
<1>3. comp'[c] = s /\ \A d \in Computers : d # c => comp'[d] = comp[d]
  BY <1>2 DEF ShapeInv, StateType
<1>4. \A v \in Updaters :
        /\ upd[v].pc = "idle" => upd'[v] = Resting
        /\ upd'[v].pc = upd[v].pc /\ upd'[v].kind = upd[v].kind
        /\ upd'[v].todo = upd[v].todo /\ upd'[v].node = upd[v].node /\ upd'[v].marks = upd[v].marks
        /\ upd'[v].done = upd[v].done
        /\ upd[v].pc # "idle" => upd'[v].alone = FALSE
  BY ComputeRootIs
<1>5. \A v \in Updaters : \A p :
        /\ Marking(upd'[v], p) <=> Marking(upd[v], p)
        /\ Changed(upd'[v], p) <=> Changed(upd[v], p)
        /\ \A n : Pending(upd'[v], n) <=> Pending(upd[v], n)
  BY <1>4 DEF Marking, Changed, Pending, At
<1>6. \A v \in Updaters : \A p : ~Clean(upd'[v], p)
  BY <1>4, RestingIs DEF Clean
<1>7. \A p : Watched(p)' <=> p \notin raced'
  <2>1. \A p : Watched(p)' <=> p \notin raced' \/ \E v \in Updaters : Clean(upd'[v], p)
    BY DEF Watched, Clean, Changed, Marking, At
  <2>2. QED
    BY <1>6, <2>1
<1>8. \A p : Content(p)' = Content(p) /\ Leaf(p)' = Leaf(p)
  BY <1>1 DEF Content, Leaf, Root
<1>9. ASSUME NEW p \in Paths, p \notin raced'
      PROVE  TellInv(p)' /\ LeafInv(p)' /\ RootRight(p)'
  <2>1. TellInv(p) /\ LeafInv(p) /\ RootRight(p)
    BY <1>1, <1>9 DEF RightInv, Watched
  <2>2. \A n : (Covered(n, p)' <=> Covered(n, p)) /\ (Tells(n, p)' <=> Tells(n, p))
    <3>1. \A n : Covered(n, p)' <=>
            nodes'[n].dirty \/ \E v \in Updaters : Marking(upd'[v], p) /\ Pending(upd'[v], n)
      BY DEF Covered, Marking, Pending, At
    <3>2. QED
      BY <1>1, <1>5, <1>8, <3>1 DEF Covered, Tells
  <2>3. TellInv(p)'
    <3>1. TellInv(p)' <=> \A n \in DOMAIN nodes : On(epoch, n, p) /\ ~IsLeaf(n) => Covered(n, p)' \/ Tells(n, p)'
      BY <1>1 DEF TellInv
    <3>2. QED
      BY <2>1, <2>2, <3>1 DEF TellInv
  <2>4. LeafInv(p)'
    BY <1>1, <1>8, <2>1 DEF LeafInv
  <2>5. RootRight(p)'
    <3>1. (\E v \in Updaters : Changed(upd[v], p))' <=> \E v \in Updaters : Changed(upd'[v], p)
      BY DEF Changed, Marking, At
    <3>2. (\E d \in Computers : comp'[d].pc = "valid") => \E d \in Computers : comp[d].pc = "valid"
      BY <1>2, <1>3
    <3>3. QED
      BY <1>1, <1>5, <1>8, <2>1, <3>1, <3>2 DEF RootRight
  <2>6. QED
    BY <2>3, <2>4, <2>5
<1>10. ASSUME NEW v \in Updaters, NEW r \in Call, upd'[v] = r
       PROVE  CoverInv(r)'
  <2>1. SUFFICES ASSUME r.pc \in {"walk", "leaf"}
                 PROVE  ~Watched(At(r))' /\ ~r.alone
    BY DEF CoverInv
  <2>2. CallOk(DOMAIN nodes, r)
    BY <1>1, <1>10 DEF ShapeInv, CallsInv
  <2>3. At(r) \in Paths /\ At(r) \in TouchedIn(r)
    BY <2>1, <2>2, WorkTouched
  <2>4. Computing' # {}
    BY <1>2, <1>3 DEF Computing
  <2>5. TouchedIn(r) \subseteq raced'
    BY <1>10, <2>4, TouchedNext DEF ShapeInv, MeetInv
  <2>6. QED
    BY <1>4, <1>7, <1>10, <2>1, <2>3, <2>5
<1>11. ASSUME NEW p \in Paths, p \notin raced', NEW d \in Computers, NEW r \in Computation, comp'[d] = r
       PROVE  FramesRight(r, p)'
  <2>1. CASE d = c
    BY <1>2, <1>3, <1>11, <2>1 DEF FramesRight
  <2>2. CASE d # c
    <3>1. comp[d] = r
      BY <1>3, <1>11, <2>2
    <3>2. FramesRight(r, p)
      BY <1>1, <1>11, <3>1 DEF RightInv
    <3>3. Root' = Root
      BY <1>1 DEF Root
    <3>4. QED
      BY <1>1, <1>8, <3>2, <3>3 DEF FramesRight
  <2>3. QED
    BY <2>1, <2>2
<1>12. QED
  BY <1>7, <1>9, <1>10, <1>11 DEF RightInv

-------------------------------------------------------------------------------
(* The invariant and the theorem.                                          *)

\* At first there are no leaves and no computation.
LEMMA InitRight == Init => RightInv
<1> SUFFICES ASSUME Init
             PROVE  RightInv
  OBVIOUS
<1>1. ShapeInv
  BY InitShape
<1>2. /\ nodes = [n \in {<<0>>} |-> NewNode] /\ epoch = 0 /\ ~rootCacheValid
      /\ upd = [u \in Updaters |-> Resting] /\ comp = [c \in Computers |-> Waiting]
  BY DEF Init
<1>3. /\ Waiting.pc = "idle" /\ Waiting.frames = <<>> /\ DOMAIN Waiting.frames = {}
  BY DEF Waiting
<1>4. ASSUME NEW p \in Paths
      PROVE  TellInv(p) /\ LeafInv(p) /\ RootRight(p)
  <2>1. Leaf(p) # <<0>>
    <3>1. epoch \in Nat /\ NodesInv
      BY <1>1, RootIn DEF ShapeInv
    <3>2. Len(Leaf(p)) = MaxDepth + 1
      BY <3>1, LeafIs
    <3>3. Len(<<0>>) = 1
      OBVIOUS
    <3>4. QED
      BY <3>2, <3>3, Depth
  <2>2. TellInv(p) /\ LeafInv(p)
    BY <1>1, <1>2, <2>1, Missing DEF MissingRight
  <2>3. RootRight(p)
    BY <1>2, <1>3 DEF RootRight
  <2>4. QED
    BY <2>2, <2>3
<1>5. ASSUME NEW u \in Updaters, NEW r \in Call, upd[u] = r
      PROVE  CoverInv(r)
  <2>1. r.pc = "idle"
    BY <1>2, <1>5, RestingIs
  <2>2. QED
    BY <2>1 DEF CoverInv
<1>6. ASSUME NEW p \in Paths, NEW c \in Computers, NEW r \in Computation, comp[c] = r
      PROVE  FramesRight(r, p)
  <2>1. r.pc = "idle" /\ r.frames = <<>> /\ DOMAIN r.frames = {}
    BY <1>2, <1>3, <1>6
  <2>2. QED
    BY <2>1 DEF FramesRight
<1>7. QED
  BY <1>4, <1>5, <1>6 DEF RightInv

\* A step of nobody.
LEMMA StutterRight ==
  ASSUME RightInv, UNCHANGED vars
  PROVE  RightInv'
<1>1. UNCHANGED <<nodes, epoch, cachedRoot, rootCacheValid, upd, comp, raced>>
  BY DEF vars
<1>2. Hashing /\ nodes' = nodes
  BY <1>1 DEF Hashing
<1>3. \A p : (Watched(p)' <=> Watched(p)) /\ (RootRight(p)' <=> RootRight(p))
  <2>1. \A p : Content(p)' = Content(p)
    BY <1>2, HashingContent
  <2>2. QED
    BY <1>1, <2>1 DEF Watched, RootRight, Clean, Changed, Marking, At
<1>4. \A p : (TellInv(p) => TellInv(p)') /\ (LeafInv(p) => LeafInv(p)')
  BY <1>2, NodesStay
<1>5. \A p : \A n : Covered(n, p)' <=> Covered(n, p)
  BY <1>1 DEF Covered, Marking, Pending, At
<1>6. ASSUME NEW r \in Call, CoverInv(r)
      PROVE  CoverInv(r)'
  <2>1. \A p : Cover(r, p)' <=> Cover(r, p)
    BY <1>1, <1>5 DEF Cover
  <2>2. QED
    BY <1>1, <1>3, <1>6, <2>1 DEF CoverInv
<1>7. ASSUME NEW r \in Computation, NEW p, FramesRight(r, p)
      PROVE  FramesRight(r, p)'
  <2>1. Content(p)' = Content(p) /\ Leaf(p)' = Leaf(p) /\ Root' = Root
    BY <1>2, HashingContent
  <2>2. QED
    BY <1>1, <1>7, <2>1 DEF FramesRight
<1>8. QED
  BY <1>1, <1>3, <1>4, <1>6, <1>7 DEF RightInv

\* Every step keeps the roots right.
LEMMA RightNext ==
  ASSUME ShapeInv, ShapeInv', RightInv, [Next]_vars
  PROVE  RightInv'
<1>1. CASE UNCHANGED vars
  BY <1>1, StutterRight
<1>2. ASSUME NEW u \in Updaters, UpdateCalls(u)
      PROVE  RightInv'
  BY <1>2, InsertRight, DeleteRight, ClearRight DEF UpdateCalls
<1>3. ASSUME NEW u \in Updaters, UpdateSteps(u)
      PROVE  RightInv'
  BY <1>3, UnlinkRight, StartRemovalRight, WalkRight, SetLeafRight, MarkRight,
     InvalidateRight, ClearEndRight DEF UpdateSteps
<1>4. ASSUME NEW c \in Computers, ComputeRoot(c) \/ ComputeSteps(c)
      PROVE  RightInv'
  BY <1>4, ComputeRootRight, VisitRight, StoreLeafRight, StoreNodeRight, PlainStepsRight
     DEF ComputeSteps
<1>5. QED
  BY <1>1, <1>2, <1>3, <1>4 DEF Next

\* What is invariant is what was to be shown.
LEMMA RootIs ==
  ASSUME ShapeInv, RightInv
  PROVE  RootCurrent
<1> SUFFICES ASSUME rootCacheValid, NEW p \in Paths, p \notin raced, p \notin TouchedBy(Updaters)
             PROVE  InRoot(cachedRoot, p) = Content(p)
  BY DEF RootCurrent
<1>1. RootRight(p)
  BY DEF RightInv
<1>2. ASSUME NEW u \in Updaters, Changed(upd[u], p)
      PROVE  FALSE
  <2>1. p \in TouchedIn(upd[u])
    BY <1>2, ChangedTouched
  <2>2. QED
    BY <2>1, TouchedIs
<1>3. QED
  BY <1>1, <1>2 DEF RootRight

\* A root that ComputeRoot declared valid tells of every leaf what the tree has
\* there, unless an update of the leaf is under way or its last one overlapped
\* a computation: the dirty flags and the retries of ComputeRoot lose no other
\* change, whoever inserts, deletes and clears at the same time.
THEOREM RootsAreCurrent == Spec => []RootCurrent
<1>1. Init => ShapeInv /\ RightInv
  BY InitShape, InitRight
<1>2. ShapeInv /\ RightInv /\ [Next]_vars => ShapeInv' /\ RightInv'
  BY ShapeNext, RightNext
<1>3. ShapeInv /\ RightInv => RootCurrent
  BY RootIs
<1>4. QED
  BY <1>1, <1>2, <1>3, PTL DEF Spec

===============================================================================
