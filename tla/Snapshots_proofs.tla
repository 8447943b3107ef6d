--------------------------- MODULE Snapshots_proofs ---------------------------
(***************************************************************************)
(* Theorems about TreeManager and Snapshots together: the cached global    *)
(* root is that of the trees, and a stored snapshot is what its version    *)
(* says, for any number of callers, names and calls.                       *)
(***************************************************************************)
EXTENDS Snapshots, FiniteSetTheorems, TLAPS

-------------------------------------------------------------------------------
(* The inductive invariant.                                                *)

CallFields == {"pc", "op", "name", "to", "tree", "names", "roots", "root", "then", "calm"}
DbFields == {"metas", "data", "first", "last", "count"}
SnapFields == {"refs", "data", "version", "names", "first", "count", "alone"}

Trees == [items: SUBSET Items, holes: SUBSET Items]

\* What has a name is numbered, and what is a tree is one.
TypeInv ==
  /\ DOMAIN trees \subseteq Names
  /\ \A n \in DOMAIN trees : trees[n] \in 1 .. Len(content)
  /\ content \in Seq(Trees)
  /\ globalRootDirty \in BOOLEAN /\ forgot \in BOOLEAN /\ skewed \in BOOLEAN
  /\ "names" \in DOMAIN budget /\ budget.names \subseteq Names
  /\ DOMAIN call = Callers
  /\ \A c \in Callers : DOMAIN call[c] = CallFields /\ call[c].calm \in BOOLEAN
  /\ DOMAIN snap = Callers
  /\ \A c \in Callers : DOMAIN snap[c] = SnapFields

\* The names that calls are about, and where they can be.
CallOk(c) ==
    /\ call[c].op \in {"create", "createConfig"} => call[c].name \in Names
    /\ call[c].op \in {"clone", "rename"} => call[c].to \in Names
    /\ call[c].pc = "compute" => writer = c
    /\ call[c].then = "snapshot" => call[c].pc \in {"check", "lock", "compute"}

CallInv == \A c \in Callers : CallOk(c)

\* Who computes the global root has cached the roots it has, and the names of
\* the others; the roots are still right if no tree has changed since.
CompOk(c) ==
  call[c].pc = "compute" =>
    LET names == call[c].names
        roots == call[c].roots
    IN  /\ names \in Seq(Names)
        /\ \A i, j \in 1 .. Len(names) : names[i] = names[j] => i = j
        /\ \A i \in 1 .. Len(names) : names[i] \in DOMAIN trees /\ names[i] \notin DOMAIN roots
        /\ \A n \in DOMAIN trees : n \in DOMAIN roots \/ \E i \in 1 .. Len(names) : names[i] = n
        /\ \A n \in DOMAIN roots : /\ n \in DOMAIN trees
                                   /\ n \in DOMAIN treeRootCache
                                   /\ treeRootCache[n] = roots[n]
                                   /\ call[c].calm => roots[n] = Root(trees[n])

CompInv == \A c \in Callers : CompOk(c)

\* The cached global root is that of some roots; of these, if all trees have a
\* cached root.
Fits(roots) ==
  /\ globalRootCache = MerkleRoot(RootsOf(roots))
  /\ (\E n \in DOMAIN trees : n \notin DOMAIN treeRootCache) \/ DOMAIN roots = DOMAIN trees
  /\ \A n \in DOMAIN trees \cap DOMAIN treeRootCache :
        n \in DOMAIN roots /\ treeRootCache[n] = roots[n]

RootInv == writer = None /\ ~globalRootDirty /\ ~forgot => \E roots : Fits(roots)

\* What a snapshot in the making will hold.
Captured(c) ==
  [n \in DOMAIN snap[c].refs \cup DOMAIN snap[c].data |->
     IF n \in DOMAIN snap[c].data THEN TreeRoot(Inserted(NoItems, snap[c].data[n]))
     ELSE Root(snap[c].refs[n])]

SnapOk(c) ==
    /\ DOMAIN snap[c].refs \subseteq Names
    /\ \A n \in DOMAIN snap[c].refs : snap[c].refs[n] \in 1 .. Len(content)
    /\ DOMAIN snap[c].data \subseteq Names
    /\ \A n \in DOMAIN snap[c].data : snap[c].data[n] \in SUBSET Items
    /\ snap[c].names \subseteq Names
    /\ call[c].then = "snapshot" =>
         /\ DOMAIN snap[c].data = {}
         /\ call[c].calm => /\ DOMAIN snap[c].refs = DOMAIN trees
                            /\ \A n \in DOMAIN trees : snap[c].refs[n] = trees[n]
    /\ call[c].pc \in {"answered", "commit"} /\ call[c].calm =>
         call[c].root = MerkleRoot(RootsOf(Captured(c)))
    /\ call[c].pc = "answered" => DOMAIN snap[c].refs \cap DOMAIN snap[c].data = {}
    /\ call[c].pc = "commit" => DOMAIN snap[c].refs = {}

SnapInv == \A c \in Callers : SnapOk(c)

LoadedFrom(d, v) == [n \in TreesOf(d, v) |-> TreeRoot(Inserted(NoItems, d.data[<<v, n>>]))]

\* What a crash may leave is as good as what there is.
DbInv ==
  \A d \in past \cup {db} :
    /\ DOMAIN d = DbFields
    /\ \A k \in DOMAIN d.data : k = <<k[1], k[2]>> /\ k[2] \in Names
                                 /\ d.data[k] \in SUBSET Items
    /\ \A v \in d.metas \ mixed : MerkleRoot(RootsOf(LoadedFrom(d, v))) = v

\* Who has read the count is alone with it.
CountInv ==
  ~skewed =>
    /\ \A d \in past \cup {db} : IsFiniteSet(d.metas) /\ d.count = Cardinality(d.metas)
    /\ \A c \in Callers : call[c].pc \in {"commit", "delete"} =>
          /\ snap[c].count = db.count
          /\ \A d \in Callers : call[d].pc \in {"commit", "delete"} => d = c

IInv == TypeInv /\ CallInv /\ CompInv /\ RootInv /\ SnapInv /\ DbInv /\ CountInv

-------------------------------------------------------------------------------
(* Names in order.                                                         *)

\* Sorted lists each name of a set once.
LEMMA SortedNames ==
  ASSUME NEW S \in SUBSET Names
  PROVE  /\ IsFiniteSet(S) /\ Cardinality(S) \in Nat
         /\ \A n \in S : Cardinality({m \in S : m <= n}) \in 1 .. Cardinality(S)
         /\ Sorted(S) \in Seq(S) /\ Len(Sorted(S)) = Cardinality(S)
         /\ \A i, j \in 1 .. Len(Sorted(S)) : Sorted(S)[i] = Sorted(S)[j] => i = j
         /\ \A n \in S : \E i \in 1 .. Len(Sorted(S)) : Sorted(S)[i] = n
<1> DEFINE Up2(n) == {m \in S : m <= n}
           rank == [n \in S |-> Cardinality(Up2(n))]
           k == Cardinality(S)
<1>1. IsFiniteSet(S) /\ k \in Nat /\ S \in SUBSET Nat
  BY FS_Subset, FS_CardinalityType, ManagerAssumption
<1>2. ASSUME NEW n \in S
      PROVE  /\ IsFiniteSet(Up2(n)) /\ Cardinality(Up2(n)) \in Nat
             /\ Cardinality(Up2(n)) <= k /\ Cardinality(Up2(n)) # 0
  <2>1. Up2(n) \in SUBSET S /\ n \in Up2(n)
    BY <1>1
  <2>2. IsFiniteSet(Up2(n)) /\ Cardinality(Up2(n)) <= k
    BY <2>1, <1>1, FS_Subset
  <2>3. Cardinality(Up2(n)) \in Nat
    BY <2>2, FS_CardinalityType
  <2>4. Cardinality(Up2(n)) # 0
    BY <2>1, <2>2, FS_EmptySet
  <2>5. QED
    BY <2>2, <2>3, <2>4
<1>3. ASSUME NEW n \in S, NEW m \in S, n < m
      PROVE  Cardinality(Up2(n)) # Cardinality(Up2(m))
  <2>. \A x \in S : x \in Nat
    BY <1>1
  <2>1. Up2(n) \in SUBSET Up2(m) /\ m \in Up2(m) /\ m \notin Up2(n)
    <3>1. \A x \in Up2(n) : x \in S /\ x <= m
      BY <1>3
    <3>2. m \in Up2(m) /\ ~(m <= n)
      BY <1>3
    <3>3. QED
      BY <3>1, <3>2
  <2>2. Cardinality(Up2(n)) = Cardinality(Up2(m)) => Up2(m) = Up2(n)
    BY <2>1, <1>2, FS_Subset
  <2>3. QED
    BY <2>1, <2>2
<1> HIDE DEF Up2, k
<1>4. rank \in [S -> 1 .. k] /\ \A n, m \in S : rank[n] = rank[m] => n = m
  <2>1. \A n \in S : Cardinality(Up2(n)) \in 1 .. k
    BY <1>1, <1>2
  <2>2. \A n, m \in S : n < m => Cardinality(Up2(n)) # Cardinality(Up2(m))
    BY <1>3
  <2>3. \A n, m \in S : n < m \/ m < n \/ n = m
    BY <1>1
  <2>4. QED
    BY <2>1, <2>2, <2>3
<1>5. rank \in Injection(S, 1 .. k)
  BY <1>4 DEF Injection, IsInjective
<1>6. IsFiniteSet(1 .. k) /\ Cardinality(1 .. k) = k
  BY <1>1, FS_Interval
<1>7. rank \in Surjection(S, 1 .. k)
  BY <1>5, <1>6, FS_Injection DEF k
<1>8. \A i \in 1 .. k : \E n \in S : rank[n] = i
  BY <1>7 DEF Surjection
<1>9. Sorted(S) = [i \in 1 .. k |-> CHOOSE n \in S : Cardinality(Up2(n)) = i]
  BY DEF Sorted, Up2, k
<1>10. \A i \in 1 .. k : Sorted(S)[i] \in S /\ rank[Sorted(S)[i]] = i
  <2>1. TAKE i \in 1 .. k
  <2>2. \E n \in S : Cardinality(Up2(n)) = i
    BY <1>8
  <2>3. Sorted(S)[i] = CHOOSE n \in S : Cardinality(Up2(n)) = i
    BY <1>9
  <2>4. QED
    BY <2>2, <2>3
<1>11. Sorted(S) \in Seq(S) /\ Len(Sorted(S)) = k
  <2>1. Sorted(S) \in [1 .. k -> S]
    BY <1>9, <1>10
  <2>2. QED
    BY <1>1, <2>1
<1>12. \A n \in S : Sorted(S)[rank[n]] = n /\ rank[n] \in 1 .. k
  BY <1>4, <1>10
<1>13. \A n \in S : Cardinality(Up2(n)) \in 1 .. k
  BY <1>4
<1>14. \A i, j \in 1 .. k : Sorted(S)[i] = Sorted(S)[j] => i = j
  BY <1>10
<1>15. \A n \in S : \E i \in 1 .. k : Sorted(S)[i] = n
  BY <1>12
<1>16. QED
  BY <1>1, <1>11, <1>13, <1>14, <1>15 DEF Up2, k

-------------------------------------------------------------------------------
(* What a step of one caller leaves alone of another.                      *)

Stays(d) ==
  /\ call'[d].pc = call[d].pc /\ call'[d].op = call[d].op
  /\ call'[d].name = call[d].name /\ call'[d].to = call[d].to
  /\ call'[d].names = call[d].names /\ call'[d].roots = call[d].roots
  /\ call'[d].root = call[d].root /\ call'[d].then = call[d].then
  /\ call'[d].calm => call[d].calm
  /\ snap'[d] = snap[d]

OthersStay(c) ==
  /\ \A d \in Callers : d # c => /\ Stays(d)
                                 /\ UNCHANGED <<trees, content>> \/ ~call'[d].calm
  /\ writer = None \/ writer = c \/ UNCHANGED <<trees, treeRootCache, writer>>
  /\ Len(content') >= Len(content)

LEMMA OthersKeep ==
  ASSUME TypeInv, CallInv, CompInv, SnapInv, TypeInv', NEW c \in Callers, OthersStay(c)
  PROVE  \A d \in Callers : d # c => CallOk(d)' /\ CompOk(d)' /\ SnapOk(d)'
<1> SUFFICES ASSUME NEW d \in Callers, d # c
             PROVE  CallOk(d)' /\ CompOk(d)' /\ SnapOk(d)'
  OBVIOUS
<1>1. Stays(d) /\ (UNCHANGED <<trees, content>> \/ ~call'[d].calm)
  BY DEF OthersStay
<1>2. call[d].pc = "compute" => writer = d /\ UNCHANGED <<trees, treeRootCache, writer>>
  BY ManagerAssumption DEF CallInv, CallOk, OthersStay
<1>3. CallOk(d)'
  BY <1>1, <1>2 DEF CallInv, CallOk, Stays
<1>4. call'[d].calm => call[d].calm /\ UNCHANGED <<trees, content>>
  BY <1>1 DEF Stays
<1>5. CompOk(d)'
  <2> SUFFICES ASSUME call'[d].pc = "compute" PROVE CompOk(d)'
    BY DEF CompOk
  <2>1. call[d].pc = "compute" /\ call'[d].names = call[d].names
            /\ call'[d].roots = call[d].roots
    BY <1>1 DEF Stays
  <2>2. trees' = trees /\ treeRootCache' = treeRootCache
    BY <2>1, <1>2
  <2>3. call'[d].calm => call[d].calm /\ \A o : Root(o)' = Root(o)
    BY <1>4 DEF Root
  <2>4. QED
    BY <2>1, <2>2, <2>3 DEF CompInv, CompOk, Root
<1>6. Captured(d)' = Captured(d) \/ ~call'[d].calm
  BY <1>1, <1>4 DEF Captured, Stays, Root
<1>7. Len(content) \in Nat /\ Len(content') \in Nat /\ Len(content') >= Len(content)
  BY DEF TypeInv, OthersStay
<1>8. \A n \in DOMAIN snap'[d].refs : snap'[d].refs[n] \in 1 .. Len(content')
  BY <1>1, <1>7 DEF SnapInv, SnapOk, Stays
<1>9. SnapOk(d)'
  BY <1>1, <1>4, <1>6, <1>8 DEF SnapInv, SnapOk, Stays
<1>10. QED
  BY <1>3, <1>5, <1>9

\* So what is left to show is about the caller itself.
LEMMA OwnStep ==
  ASSUME TypeInv, CallInv, CompInv, SnapInv, TypeInv', NEW c \in Callers, OthersStay(c),
         CallOk(c)', CompOk(c)', SnapOk(c)'
  PROVE  CallInv' /\ CompInv' /\ SnapInv'
BY OthersKeep DEF CallInv, CompInv, SnapInv

\* The count is right if nobody begins to change it and nobody has.
LEMMA CountStays ==
  ASSUME CountInv, UNCHANGED <<db, past, skewed>>,
         \A d \in Callers : call'[d].pc \in {"commit", "delete"} =>
            call[d].pc \in {"commit", "delete"} /\ snap'[d].count = snap[d].count
  PROVE  CountInv'
BY DEF CountInv

LEMMA RootStays ==
  ASSUME RootInv, UNCHANGED <<trees, treeRootCache, globalRootCache, globalRootDirty, writer,
                              forgot>>
  PROVE  RootInv'
BY DEF RootInv, Fits

LEMMA DbStays == ASSUME DbInv, UNCHANGED <<db, past, mixed>> PROVE DbInv'
BY DEF DbInv, LoadedFrom, TreesOf

-------------------------------------------------------------------------------
(* A call begins.                                                          *)

Fresh(r) ==
  /\ DOMAIN r = CallFields /\ r.calm = TRUE
  /\ r.pc \in {"lock", "change", "check", "prove", "delete", "load"}
  /\ r.op \in {"create", "createConfig"} => r.name \in Names
  /\ r.op \in {"clone", "rename"} => r.to \in Names
  /\ r.then = "snapshot" => r.pc = "check"

ManagerVars == <<trees, content, treeRootCache, globalRootCache, globalRootDirty, writer, forgot>>

LEMMA BeginStep ==
  ASSUME IInv, NEW c \in Callers, NEW kind, kind # "names", NEW r, Begin(c, kind, r), Fresh(r),
         UNCHANGED <<ManagerVars, db, past, mixed>>, skewed' \in BOOLEAN,
         NEW s, DOMAIN snap' = Callers, snap'[c] = s, DOMAIN s = SnapFields,
         \A d \in Callers : d # c => snap'[d] = snap[d],
         DOMAIN s.refs \subseteq Names, DOMAIN s.data \subseteq Names, s.names \subseteq Names,
         \A n \in DOMAIN s.refs : s.refs[n] \in 1 .. Len(content),
         \A n \in DOMAIN s.data : s.data[n] \in SUBSET Items,
         r.then = "snapshot" => s.refs = trees /\ DOMAIN s.data = {}
  PROVE  TypeInv' /\ CallInv' /\ CompInv' /\ RootInv' /\ SnapInv' /\ DbInv'
<1> USE DEF IInv
<1>1. call' = [call EXCEPT ![c] = r] /\ budget' = [budget EXCEPT ![kind] = @ - 1]
  BY DEF Begin
<1>2. budget'.names = budget.names /\ "names" \in DOMAIN budget'
  BY <1>1 DEF TypeInv
<1>3. DOMAIN call' = Callers /\ call'[c] = r /\ \A d \in Callers : d # c => call'[d] = call[d]
  BY <1>1 DEF TypeInv
<1>4. DOMAIN snap' = Callers /\ snap'[c] = s /\ \A d \in Callers : d # c => snap'[d] = snap[d]
  OBVIOUS
<1>5. TypeInv'
  BY <1>2, <1>3, <1>4 DEF TypeInv, Fresh, ManagerVars
<1>6. OthersStay(c)
  <2>1. Len(content') >= Len(content)
    BY DEF ManagerVars, TypeInv
  <2>2. QED
    BY <2>1, <1>3, <1>4 DEF OthersStay, Stays, ManagerVars
<1>7. CallOk(c)' /\ CompOk(c)'
  BY <1>3 DEF CallOk, CompOk, Fresh
<1>8. SnapOk(c)'
  BY <1>3, <1>4 DEF SnapOk, Fresh, ManagerVars
<1>9. QED
  BY <1>5, <1>6, <1>7, <1>8, OwnStep, RootStays, DbStays DEF ManagerVars

\* Most of them have nothing to do with snapshots.
LEMMA PlainBegin ==
  ASSUME IInv, NEW c \in Callers, NEW kind, kind # "names", NEW r, Begin(c, kind, r), Fresh(r),
         r.then # "snapshot", r.pc # "delete",
         UNCHANGED <<ManagerVars, svars>>
  PROVE  IInv'
<1> USE DEF IInv
<1>1. DOMAIN snap' = Callers /\ \A d \in Callers : snap'[d] = snap[d]
  BY DEF svars, TypeInv
<1>2. TypeInv' /\ CallInv' /\ CompInv' /\ RootInv' /\ SnapInv' /\ DbInv'
  <2>1. UNCHANGED <<ManagerVars, db, past, mixed>> /\ skewed' \in BOOLEAN
    BY DEF svars, TypeInv
  <2>2. DOMAIN snap[c] = SnapFields
    BY DEF TypeInv
  <2>3. QED
    BY ZenonT(60), <1>1, <2>1, <2>2, BeginStep DEF SnapInv, SnapOk
<1>3. \A d \in Callers : call'[d].pc \in {"commit", "delete"} => call[d].pc \in {"commit", "delete"}
  BY DEF Begin, Fresh, TypeInv
<1>4. CountInv'
  BY <1>3, CountStays DEF svars
<1>5. QED
  BY <1>2, <1>4

LEMMA NoCallFields ==
  /\ DOMAIN NoCall = CallFields /\ NoCall.calm = TRUE /\ NoCall.op = "" /\ NoCall.then = ""
  /\ NoCall.pc = "idle" /\ DOMAIN NoSnapshot = SnapFields
  /\ NoSnapshot.refs = <<>> /\ NoSnapshot.data = <<>> /\ NoSnapshot.names = {}
BY DEF NoCall, NoSnapshot, CallFields, SnapFields

LEMMA PlainCalls ==
  ASSUME IInv, NEW c \in Callers, Calls(c), UNCHANGED svars
  PROVE  IInv'
<1>0. budget.names \subseteq Names
  BY DEF IInv, TypeInv
<1>1. ASSUME NEW kind \in {"create", "move", "remove", "direct"},
             NEW op \in {"create", "createConfig", "remove", "clone", "rename", "removeAll",
                         "clearAll"},
             NEW name, NEW to, Wait(c, kind, op, name, to),
             op \in {"create", "createConfig"} => name \in Names,
             op \in {"clone", "rename"} => to \in Names
      PROVE  IInv'
  <2> DEFINE r == [NoCall EXCEPT !.pc = "lock", !.op = op, !.name = name, !.to = to]
  <2>1. Begin(c, kind, r) /\ UNCHANGED <<ManagerVars, svars>>
    BY <1>1 DEF Wait, ManagerVars, caches, lock
  <2>2. Fresh(r) /\ r.then = "" /\ r.pc = "lock"
    BY <1>1, NoCallFields DEF Fresh, CallFields
  <2>3. QED
    BY <2>1, <2>2, PlainBegin
<1>2. ASSUME NEW n, NEW kind \in {"insert", "direct"}, NEW op \in {"insert", "clear", "direct"},
             GetTree(c, n, kind, op)
      PROVE  IInv'
  <2> DEFINE r == [NoCall EXCEPT !.pc = "change", !.op = op, !.name = n, !.tree = trees[n]]
  <2>1. Begin(c, kind, r) /\ UNCHANGED <<ManagerVars, svars>>
    BY <1>2 DEF GetTree, ManagerVars, caches, lock
  <2>2. Fresh(r) /\ r.then = "" /\ r.pc = "change"
    BY <1>2, NoCallFields DEF Fresh, CallFields
  <2>3. QED
    BY <2>1, <2>2, PlainBegin
<1>3. ASSUME ComputeGlobalRoot(c)
      PROVE  IInv'
  <2> DEFINE r == [NoCall EXCEPT !.pc = "check"]
  <2>1. Begin(c, "root", r) /\ UNCHANGED <<ManagerVars, svars>>
    BY <1>3 DEF ComputeGlobalRoot, ManagerVars, caches, lock
  <2>2. Fresh(r) /\ r.then = "" /\ r.pc = "check"
    BY NoCallFields DEF Fresh, CallFields
  <2>3. QED
    BY <2>1, <2>2, PlainBegin
<1>4. ASSUME NEW n, GetMerkleProof(c, n)
      PROVE  IInv'
  <2> DEFINE r == [NoCall EXCEPT !.pc = "prove", !.name = n,
                                 !.names = Sorted(DOMAIN trees), !.then = "proof"]
  <2>1. Begin(c, "proof", r) /\ UNCHANGED <<ManagerVars, svars>>
    BY <1>4 DEF GetMerkleProof, ManagerVars, caches
  <2>2. Fresh(r) /\ r.then = "proof" /\ r.pc = "prove"
    BY NoCallFields DEF Fresh, CallFields
  <2>3. QED
    BY <2>1, <2>2, PlainBegin
<1>5. CASE \E n \in budget.names :
             \/ Wait(c, "create", "create", n, None)
             \/ Wait(c, "move", "createConfig", n, None)
             \/ Wait(c, "remove", "remove", n, None)
             \/ GetTree(c, n, "insert", "insert")
             \/ GetTree(c, n, "direct", "clear")
             \/ GetTree(c, n, "direct", "direct")
             \/ GetMerkleProof(c, n)
  BY <1>0, <1>1, <1>2, <1>4, <1>5
<1>6. CASE \E n, m \in budget.names, op \in {"clone", "rename"} :
             n # m /\ Wait(c, "move", op, n, m)
  BY <1>0, <1>1, <1>6
<1>7. CASE \/ Wait(c, "remove", "removeAll", None, None)
           \/ Wait(c, "direct", "clearAll", None, None)
  BY <1>1, <1>7
<1>8. QED
  BY <1>3, <1>5, <1>6, <1>7 DEF Calls

LEMMA CaptureStep == ASSUME IInv, NEW c \in Callers, Capture(c) PROVE IInv'
<1> DEFINE r == [NoCall EXCEPT !.pc = "check", !.then = "snapshot"]
           s == [NoSnapshot EXCEPT !.refs = trees]
<1>1. Begin(c, "save", r) /\ UNCHANGED <<ManagerVars, db, past, mixed, skewed>>
  BY DEF Capture, ManagerVars, caches, lock
<1>2. Fresh(r) /\ r.pc = "check"
  BY NoCallFields DEF Fresh, CallFields
<1>3. DOMAIN snap' = Callers /\ snap'[c] = s /\ \A d \in Callers : d # c => snap'[d] = snap[d]
  BY DEF Capture, IInv, TypeInv
<1>4. DOMAIN s = SnapFields /\ s.refs = trees /\ DOMAIN s.data = {} /\ s.names = {}
  <2>1. DOMAIN s = SnapFields /\ s.refs = trees /\ s.data = <<>> /\ s.names = {}
    BY NoCallFields DEF SnapFields
  <2>2. QED
    BY <2>1
<1>5. TypeInv' /\ CallInv' /\ CompInv' /\ RootInv' /\ SnapInv' /\ DbInv'
  <2>1. DOMAIN s.refs \subseteq Names /\ \A n \in DOMAIN s.refs : s.refs[n] \in 1 .. Len(content)
    BY <1>4 DEF IInv, TypeInv
  <2>2. skewed' \in BOOLEAN
    BY <1>1 DEF IInv, TypeInv
  <2> HIDE DEF r, s
  <2>3. QED
    BY <1>1, <1>2, <1>3, <1>4, <2>1, <2>2, BeginStep
<1>6. \A d \in Callers : call'[d].pc \in {"commit", "delete"} =>
         call[d].pc \in {"commit", "delete"} /\ snap'[d].count = snap[d].count
  BY <1>1, <1>2, <1>3 DEF Begin, IInv, TypeInv
<1>7. CountInv'
  BY <1>1, <1>6, CountStays DEF IInv
<1>8. QED
  BY <1>5, <1>7 DEF IInv

LEMMA TreesOfNames == ASSUME DbInv, NEW v PROVE TreesOf(db, v) \subseteq Names
BY DEF DbInv, TreesOf

\* The count is read while nobody else is about to change it, or it is noted.
LEMMA CountRead ==
  ASSUME IInv, NEW c \in Callers, NEW r, ReadCount(c, r), DOMAIN r = SnapFields,
         UNCHANGED <<db, past>>,
         \A d \in Callers : d # c => call'[d].pc = call[d].pc
  PROVE  CountInv' /\ skewed' \in BOOLEAN
<1>1. /\ snap'[c].count = db.count
      /\ \A d \in Callers : d # c => snap'[d] = snap[d]
  BY DEF ReadCount, SnapFields
<1>2. skewed' = (skewed \/ Counting(c) # {}) /\ skewed \in BOOLEAN
  BY DEF ReadCount, IInv, TypeInv
<1>3. ASSUME ~skewed'
      PROVE  ~skewed /\ \A d \in Callers : d # c => call[d].pc \notin {"commit", "delete"}
  BY <1>2, <1>3 DEF Counting
<1>4. CountInv'
  BY <1>1, <1>3 DEF IInv, CountInv
<1>5. QED
  BY <1>2, <1>4

LEMMA DeleteStep == ASSUME IInv, NEW c \in Callers, NEW v, DeleteSnapshot(c, v) PROVE IInv'
<1> DEFINE r == [NoCall EXCEPT !.pc = "delete"]
           q == [NoSnapshot EXCEPT !.version = v, !.names = TreesOf(db, v)]
           s == [q EXCEPT !.first = db.first, !.count = db.count]
<1>1. Begin(c, "drop", r) /\ UNCHANGED <<ManagerVars, db, past, mixed>> /\ ReadCount(c, q)
  BY DEF DeleteSnapshot, ManagerVars, caches, lock
<1>2. Fresh(r) /\ r.then = ""
  BY NoCallFields DEF Fresh, CallFields
<1>3. DOMAIN snap' = Callers /\ snap'[c] = s /\ \A d \in Callers : d # c => snap'[d] = snap[d]
  BY <1>1 DEF ReadCount
<1>4. /\ DOMAIN q = SnapFields /\ DOMAIN s = SnapFields
      /\ s.refs = <<>> /\ s.data = <<>> /\ s.names = TreesOf(db, v)
  BY NoCallFields DEF SnapFields
<1>5. CountInv' /\ skewed' \in BOOLEAN
  BY <1>1, <1>4, CountRead DEF Begin, IInv, TypeInv
<1>6. TypeInv' /\ CallInv' /\ CompInv' /\ RootInv' /\ SnapInv' /\ DbInv'
  <2>1. DOMAIN s.refs = {} /\ DOMAIN s.data = {} /\ s.names \subseteq Names
    BY <1>4, TreesOfNames DEF IInv
  <2> HIDE DEF r, s, q
  <2>2. QED
    BY <1>1, <1>2, <1>3, <1>4, <1>5, <2>1, BeginStep
<1>7. QED
  BY <1>5, <1>6 DEF IInv

LEMMA LoadStep == ASSUME IInv, NEW c \in Callers, NEW v, LoadSnapshot(c, v) PROVE IInv'
<1> DEFINE r == [NoCall EXCEPT !.pc = "load"]
           s == [NoSnapshot EXCEPT !.version = v, !.names = TreesOf(db, v)]
<1>1. Begin(c, "load", r) /\ UNCHANGED <<ManagerVars, db, past, mixed, skewed>>
  BY DEF LoadSnapshot, ManagerVars, caches, lock
<1>2. Fresh(r) /\ r.then = "" /\ r.pc = "load"
  BY NoCallFields DEF Fresh, CallFields
<1>3. DOMAIN snap' = Callers /\ snap'[c] = s /\ \A d \in Callers : d # c => snap'[d] = snap[d]
  BY DEF LoadSnapshot, IInv, TypeInv
<1>4. /\ DOMAIN s = SnapFields
      /\ s.refs = <<>> /\ s.data = <<>> /\ s.names = TreesOf(db, v)
  BY NoCallFields DEF SnapFields
<1>5. TypeInv' /\ CallInv' /\ CompInv' /\ RootInv' /\ SnapInv' /\ DbInv'
  <2>1. DOMAIN s.refs = {} /\ DOMAIN s.data = {} /\ s.names \subseteq Names
    BY <1>4, TreesOfNames DEF IInv
  <2>2. skewed' \in BOOLEAN
    BY <1>1 DEF IInv, TypeInv
  <2> HIDE DEF r, s
  <2>3. QED
    BY <1>1, <1>2, <1>3, <1>4, <2>1, <2>2, BeginStep
<1>6. \A d \in Callers : call'[d].pc \in {"commit", "delete"} =>
         call[d].pc \in {"commit", "delete"} /\ snap'[d].count = snap[d].count
  BY <1>1, <1>2, <1>3 DEF Begin, IInv, TypeInv
<1>7. CountInv'
  BY <1>1, <1>6, CountStays DEF IInv
<1>8. QED
  BY <1>5, <1>7 DEF IInv

-------------------------------------------------------------------------------
(* The set of trees changes.                                               *)

\* The new trees are noticed: marked, noted as forgotten, or among the names
\* there is one without a cached root.
Noticed(newTrees, marked, stale) ==
  \/ marked \/ stale
  \/ /\ UNCHANGED treeRootCache
     /\ \/ newTrees = trees
        \/ \E n \in DOMAIN newTrees : /\ n \notin DOMAIN treeRootCache
                                      /\ DOMAIN newTrees \subseteq DOMAIN trees \cup {n}

LEMMA Disturbed ==
  ASSUME NEW r, DOMAIN r = CallFields, NEW q, q = [r EXCEPT !.calm = FALSE]
  PROVE  /\ DOMAIN q = CallFields /\ q.calm = FALSE
         /\ q.pc = r.pc /\ q.op = r.op /\ q.name = r.name /\ q.to = r.to
         /\ q.names = r.names /\ q.roots = r.roots /\ q.root = r.root /\ q.then = r.then
BY DEF CallFields

LEMMA ReturnedCalls ==
  ASSUME TypeInv, NEW c \in Callers, call' \in {Returned(c), Disturb(Returned(c))}
  PROVE  /\ DOMAIN call' = Callers
         /\ \A d \in Callers : DOMAIN call'[d] = CallFields /\ call'[d].calm \in BOOLEAN
         /\ call'[c].pc = "idle" /\ call'[c].op = "" /\ call'[c].then = ""
         /\ \A d \in Callers : d # c =>
              /\ call'[d].pc = call[d].pc /\ call'[d].op = call[d].op
              /\ call'[d].name = call[d].name /\ call'[d].to = call[d].to
              /\ call'[d].names = call[d].names /\ call'[d].roots = call[d].roots
              /\ call'[d].root = call[d].root /\ call'[d].then = call[d].then
              /\ call'[d].calm => call[d].calm
         /\ call' = Disturb(Returned(c)) => \A d \in Callers : ~call'[d].calm
<1>1. DOMAIN Returned(c) = Callers /\ Returned(c)[c] = NoCall
      /\ \A d \in Callers : d # c => Returned(c)[d] = call[d]
  BY DEF Returned, TypeInv
<1>2. /\ DOMAIN Disturb(Returned(c)) = Callers
      /\ \A d \in Callers : Disturb(Returned(c))[d] = [Returned(c)[d] EXCEPT !.calm = FALSE]
  BY DEF Disturb
<1> HIDE DEF Returned, Disturb
<1>2a. \A d \in Callers : DOMAIN Returned(c)[d] = CallFields
  BY <1>1, NoCallFields DEF TypeInv
<1>2b. ASSUME NEW d \in Callers, NEW q, q = Disturb(Returned(c))[d]
      PROVE  /\ DOMAIN q = CallFields /\ q.calm = FALSE
             /\ q.pc = Returned(c)[d].pc /\ q.op = Returned(c)[d].op
             /\ q.name = Returned(c)[d].name /\ q.to = Returned(c)[d].to
             /\ q.names = Returned(c)[d].names /\ q.roots = Returned(c)[d].roots
             /\ q.root = Returned(c)[d].root /\ q.then = Returned(c)[d].then
  <2>1. DOMAIN Returned(c)[d] = CallFields /\ q = [Returned(c)[d] EXCEPT !.calm = FALSE]
    BY <1>2, <1>2a, <1>2b
  <2> DEFINE r == Returned(c)[d]
  <2>2. DOMAIN r = CallFields /\ q = [r EXCEPT !.calm = FALSE]
    BY <2>1
  <2> HIDE DEF r
  <2>3. /\ DOMAIN q = CallFields /\ q.calm = FALSE
        /\ q.pc = r.pc /\ q.op = r.op /\ q.name = r.name /\ q.to = r.to
        /\ q.names = r.names /\ q.roots = r.roots /\ q.root = r.root /\ q.then = r.then
    BY <2>2, Disturbed
  <2>4. QED
    BY <2>3 DEF r
<1>3. CASE call' = Returned(c)
  <2>1. call' = Disturb(Returned(c)) => \A d \in Callers : ~call'[d].calm
    BY <1>2b
  <2>2. QED
    BY <1>1, <1>3, <2>1, NoCallFields DEF TypeInv
<1>4. CASE call' = Disturb(Returned(c))
  <2>1. DOMAIN call' = Callers
    BY <1>2, <1>4
  <2>2. ASSUME NEW d \in Callers
        PROVE  /\ DOMAIN call'[d] = CallFields /\ call'[d].calm = FALSE
               /\ call'[d].pc = Returned(c)[d].pc /\ call'[d].op = Returned(c)[d].op
               /\ call'[d].name = Returned(c)[d].name /\ call'[d].to = Returned(c)[d].to
               /\ call'[d].names = Returned(c)[d].names
               /\ call'[d].roots = Returned(c)[d].roots
               /\ call'[d].root = Returned(c)[d].root
               /\ call'[d].then = Returned(c)[d].then
    BY <1>2b, <1>4
  <2>3. call'[c].pc = "idle" /\ call'[c].op = "" /\ call'[c].then = ""
    BY <1>1, <2>2, NoCallFields
  <2>4. QED
    BY ZenonT(60), <1>1, <2>1, <2>2, <2>3
<1>5. QED
  BY <1>3, <1>4

LEMMA RearrangedStep ==
  ASSUME IInv, NEW c \in Callers, writer = None,
         NEW newTrees, NEW newContent, NEW marked \in BOOLEAN, NEW stale \in BOOLEAN,
         Rearranged(c, newTrees, newContent, marked, stale),
         Noticed(newTrees, marked, stale),
         DOMAIN newTrees \subseteq Names,
         \A n \in DOMAIN newTrees : newTrees[n] \in 1 .. Len(newContent),
         newContent \in Seq(Trees), Len(newContent) >= Len(content),
         UNCHANGED <<db, past, mixed, skewed>>, DOMAIN snap' = Callers,
         \A d \in Callers : d # c => snap'[d] = snap[d],
         snap'[c] \in {snap[c], NoSnapshot}
  PROVE  IInv'
<1> USE DEF IInv
<1>1. /\ trees' = newTrees /\ content' = newContent
      /\ globalRootDirty' = (globalRootDirty \/ marked)
      /\ forgot' = (~globalRootDirty' /\ (forgot \/ stale))
      /\ UNCHANGED <<globalRootCache, writer, budget>>
  BY DEF Rearranged, lock
<1>2. /\ call' \in {Returned(c), Disturb(Returned(c))}
      /\ UNCHANGED <<trees, content>> \/ call' = Disturb(Returned(c))
  BY <1>1 DEF Rearranged
<1>3. DOMAIN snap'[c] = SnapFields
  BY NoCallFields DEF TypeInv
<1>4. TypeInv'
  <2>1. globalRootDirty' \in BOOLEAN /\ forgot' \in BOOLEAN /\ skewed' \in BOOLEAN
    BY <1>1 DEF TypeInv
  <2>2. QED
    BY ZenonT(60), <1>1, <1>2, <1>3, <2>1, ReturnedCalls DEF TypeInv
<1>5. OthersStay(c)
  <2>1. \A d \in Callers : d # c => Stays(d)
    BY ZenonT(60), <1>2, ReturnedCalls DEF Stays
  <2>2. UNCHANGED <<trees, content>> \/ \A d \in Callers : ~call'[d].calm
    BY <1>2, ReturnedCalls
  <2>3. QED
    BY <1>1, <2>1, <2>2 DEF OthersStay
<1>6. CallOk(c)' /\ CompOk(c)'
  BY <1>2, ReturnedCalls DEF CallOk, CompOk
<1>7. SnapOk(c)'
  <2>1. call'[c].pc = "idle" /\ call'[c].then = ""
    BY <1>2, ReturnedCalls
  <2>2. Len(content) \in Nat /\ Len(content') \in Nat /\ Len(content') >= Len(content)
    BY <1>1 DEF TypeInv
  <2>3. CASE snap'[c] = snap[c]
    <3>1. SnapOk(c)
      BY DEF SnapInv
    <3>2. \A n \in DOMAIN snap'[c].refs : snap'[c].refs[n] \in 1 .. Len(content')
      BY <2>2, <2>3, <3>1 DEF SnapOk
    <3>3. QED
      BY <2>1, <2>3, <3>1, <3>2 DEF SnapOk
  <2>4. CASE snap'[c] = NoSnapshot
    <3>1. snap'[c].refs = <<>> /\ snap'[c].data = <<>> /\ snap'[c].names = {}
      BY <2>4, NoCallFields
    <3>2. DOMAIN snap'[c].refs = {} /\ DOMAIN snap'[c].data = {}
      BY <3>1
    <3>3. QED
      BY <2>1, <3>1, <3>2 DEF SnapOk
  <2>5. QED
    BY <2>3, <2>4
<1>8. RootInv'
  <2> SUFFICES ASSUME ~globalRootDirty', ~forgot'
               PROVE  \E roots : Fits(roots)'
    BY DEF RootInv
  <2>1. ~globalRootDirty /\ ~forgot /\ ~marked /\ ~stale
    BY <1>1 DEF TypeInv
  <2>2. PICK roots : Fits(roots)
    BY <2>1 DEF RootInv
  <2>3. Fits(roots)'
    BY <1>1, <2>1, <2>2 DEF Fits, Noticed
  <2>4. QED
    BY <2>3
<1>9. CountInv'
  <2>1. \A d \in Callers : call'[d].pc \in {"commit", "delete"} =>
           call[d].pc \in {"commit", "delete"} /\ snap'[d].count = snap[d].count
    BY <1>2, ReturnedCalls
  <2>2. QED
    BY <2>1, CountStays
<1>10. QED
  BY <1>4, <1>5, <1>6, <1>7, <1>8, <1>9, OwnStep, DbStays

LEMMA InsertedTree ==
  ASSUME NEW t \in Trees, NEW items \in SUBSET Items
  PROVE  Inserted(t, items) \in Trees /\ Deleted(t, items) \in Trees
BY DEF Inserted, Deleted, Trees

LEMMA NoItemsTree == NoItems \in Trees
BY DEF NoItems, Trees

LEMMA NewTreeFacts ==
  ASSUME TypeInv, NEW name \in Names, NEW items \in SUBSET Items
  PROVE  /\ DOMAIN Named(name) = DOMAIN trees \cup {name}
         /\ \A n \in DOMAIN Named(name) : Named(name)[n] \in 1 .. Len(NewTree(items))
         /\ NewTree(items) \in Seq(Trees) /\ Len(NewTree(items)) >= Len(content)
<1>1. DOMAIN Named(name) = DOMAIN trees \cup {name}
  BY DEF Named, With
<1>2. \A n \in DOMAIN Named(name) :
        Named(name)[n] = IF n = name THEN Len(content) + 1 ELSE trees[n]
  BY DEF Named, With
<1>3. Inserted(NoItems, items) \in Trees
  BY InsertedTree, NoItemsTree
<1>4. NewTree(items) \in Seq(Trees) /\ Len(NewTree(items)) = Len(content) + 1
  BY <1>3 DEF NewTree, TypeInv
<1>5. Len(content) \in Nat
  BY DEF TypeInv
<1>6. QED
  BY <1>1, <1>2, <1>4, <1>5 DEF TypeInv

\* Nothing changes, or a tree with a new name is added.
LEMMA SameTrees ==
  ASSUME IInv, NEW c \in Callers, writer = None, NEW marked \in BOOLEAN,
         Rearranged(c, trees, content, marked, FALSE), UNCHANGED <<treeRootCache, svars>>
  PROVE  IInv'
<1>1. Noticed(trees, marked, FALSE)
  BY DEF Noticed
<1>2. /\ DOMAIN trees \subseteq Names /\ \A n \in DOMAIN trees : trees[n] \in 1 .. Len(content)
      /\ content \in Seq(Trees) /\ Len(content) >= Len(content) /\ DOMAIN snap = Callers
  BY DEF IInv, TypeInv
<1>3. UNCHANGED <<db, past, mixed, skewed, snap>>
  BY DEF svars
<1>4. QED
  BY <1>1, <1>2, <1>3, RearrangedStep

LEMMA AddedTree ==
  ASSUME IInv, NEW c \in Callers, writer = None, NEW name \in Names,
         NEW items \in SUBSET Items, NEW marked \in BOOLEAN, NEW stale \in BOOLEAN,
         Rearranged(c, Named(name), NewTree(items), marked, stale),
         marked \/ stale \/ name \notin DOMAIN treeRootCache,
         UNCHANGED <<treeRootCache, svars>>
  PROVE  IInv'
<1>1. /\ DOMAIN Named(name) = DOMAIN trees \cup {name}
      /\ \A n \in DOMAIN Named(name) : Named(name)[n] \in 1 .. Len(NewTree(items))
      /\ NewTree(items) \in Seq(Trees) /\ Len(NewTree(items)) >= Len(content)
  BY NewTreeFacts DEF IInv
<1>2. Noticed(Named(name), marked, stale)
  BY <1>1 DEF Noticed
<1>3. DOMAIN Named(name) \subseteq Names /\ DOMAIN snap = Callers
  BY <1>1 DEF IInv, TypeInv
<1>4. UNCHANGED <<db, past, mixed, skewed, snap>>
  BY DEF svars
<1> HIDE DEF Named, NewTree
<1>5. QED
  BY <1>1, <1>2, <1>3, <1>4, RearrangedStep

LEMMA HoldingFacts ==
  ASSUME IInv, NEW c \in Callers, NEW op, Holding(c, op)
  PROVE  /\ writer = None
         /\ op \in {"create", "createConfig"} => call[c].name \in Names
         /\ op \in {"clone", "rename"} => call[c].to \in Names
BY DEF Holding, MayWrite, IInv, CallInv, CallOk

LEMMA CreateSteps ==
  ASSUME IInv, NEW c \in Callers, CreateTree(c) \/ CreateTreeWithConfig(c), UNCHANGED svars
  PROVE  IInv'
<1> DEFINE name == call[c].name
<1>1. writer = None /\ name \in Names /\ UNCHANGED treeRootCache /\ {} \in SUBSET Items
  BY HoldingFacts DEF CreateTree, CreateTreeWithConfig
<1>2. \/ Rearranged(c, trees, content, FALSE, FALSE)
      \/ Rearranged(c, Named(name), NewTree({}), TRUE, FALSE)
      \/ Rearranged(c, Named(name), NewTree({}), FALSE, name \in DOMAIN treeRootCache)
  BY DEF CreateTree, CreateTreeWithConfig
<1> HIDE DEF name
<1>3. CASE Rearranged(c, trees, content, FALSE, FALSE)
  BY <1>1, <1>3, SameTrees
<1>4. CASE Rearranged(c, Named(name), NewTree({}), TRUE, FALSE)
  BY <1>1, <1>4, AddedTree
<1>5. CASE Rearranged(c, Named(name), NewTree({}), FALSE, name \in DOMAIN treeRootCache)
  <2> DEFINE stale == name \in DOMAIN treeRootCache
  <2>1. Rearranged(c, Named(name), NewTree({}), FALSE, stale)
    BY <1>5
  <2>1a. stale \in BOOLEAN /\ (stale \/ name \notin DOMAIN treeRootCache)
    OBVIOUS
  <2> HIDE DEF stale
  <2>2. QED
    BY <1>1, <2>1, <2>1a, AddedTree
<1>6. QED
  BY <1>2, <1>3, <1>4, <1>5

LEMMA CloneStep ==
  ASSUME IInv, NEW c \in Callers, CloneTree(c), UNCHANGED svars
  PROVE  IInv'
<1> DEFINE name == call[c].name
           to == call[c].to
           stale == to \in DOMAIN treeRootCache
<1>1. writer = None /\ to \in Names /\ UNCHANGED treeRootCache
  BY HoldingFacts DEF CloneTree
<1>2. CASE name \notin DOMAIN trees \/ to \in DOMAIN trees
  <2>1. Rearranged(c, trees, content, FALSE, FALSE)
    BY <1>2 DEF CloneTree
  <2>2. QED
    BY <1>1, <2>1, SameTrees
<1>3. CASE name \in DOMAIN trees /\ to \notin DOMAIN trees
  <2> DEFINE items == content[trees[name]].items
  <2>1. Rearranged(c, Named(to), NewTree(items), FALSE, stale)
    BY <1>3 DEF CloneTree
  <2>2. content[trees[name]] \in Trees
    BY <1>3 DEF IInv, TypeInv
  <2>3. items \in SUBSET Items
    BY <2>2 DEF Trees
  <2>4. stale \in BOOLEAN /\ (stale \/ to \notin DOMAIN treeRootCache)
    OBVIOUS
  <2> HIDE DEF name, to, stale, items
  <2>5. QED
    BY <1>1, <2>1, <2>3, <2>4, AddedTree
<1>4. QED
  BY <1>2, <1>3

LEMMA RenameStep ==
  ASSUME IInv, NEW c \in Callers, RenameTree(c), UNCHANGED svars
  PROVE  IInv'
<1> DEFINE name == call[c].name
           to == call[c].to
           stale == to \in DOMAIN treeRootCache
           newTrees == With(Without(trees, name), to, trees[name])
<1>1. writer = None /\ to \in Names /\ UNCHANGED treeRootCache
  BY HoldingFacts DEF RenameTree
<1>2. CASE name \notin DOMAIN trees \/ to \in DOMAIN trees
  <2>1. Rearranged(c, trees, content, FALSE, FALSE)
    BY <1>2 DEF RenameTree
  <2>2. QED
    BY <1>1, <2>1, SameTrees
<1>3. CASE name \in DOMAIN trees /\ to \notin DOMAIN trees
  <2>1. Rearranged(c, newTrees, content, FALSE, stale)
    BY <1>3 DEF RenameTree
  <2>2. DOMAIN newTrees = (DOMAIN trees \ {name}) \cup {to}
    BY DEF Without, With, Restrict
  <2>3. \A n \in DOMAIN newTrees : newTrees[n] = IF n = to THEN trees[name] ELSE trees[n]
    BY DEF Without, With, Restrict
  <2>4. \A n \in DOMAIN newTrees : newTrees[n] \in 1 .. Len(content)
    BY <1>3, <2>2, <2>3 DEF IInv, TypeInv
  <2>5. DOMAIN newTrees \subseteq Names /\ content \in Seq(Trees) /\ Len(content) >= Len(content)
        /\ DOMAIN snap = Callers
    BY <1>1, <2>2 DEF IInv, TypeInv
  <2>6. Noticed(newTrees, FALSE, stale)
    BY <1>1, <2>2 DEF Noticed
  <2>7. stale \in BOOLEAN /\ UNCHANGED <<db, past, mixed, skewed, snap>>
    BY DEF svars
  <2> HIDE DEF newTrees, stale
  <2>8. QED
    BY <1>1, <2>1, <2>4, <2>5, <2>6, <2>7, RearrangedStep
<1>4. QED
  BY <1>2, <1>3

LEMMA RemoveSteps ==
  ASSUME IInv, NEW c \in Callers, RemoveTree(c) \/ RemoveAll(c) \/ ClearAll(c), UNCHANGED svars
  PROVE  IInv'
<1>1. /\ DOMAIN trees \subseteq Names /\ \A n \in DOMAIN trees : trees[n] \in 1 .. Len(content)
      /\ content \in Seq(Trees) /\ Len(content) \in Nat /\ DOMAIN snap = Callers
  BY DEF IInv, TypeInv
<1>2. UNCHANGED <<db, past, mixed, skewed, snap>> /\ writer = None
  BY HoldingFacts DEF svars, RemoveTree, RemoveAll, ClearAll
<1>3. CASE RemoveTree(c)
  <2> DEFINE newTrees == Without(trees, call[c].name)
  <2>1. CASE call[c].name \notin DOMAIN trees
    BY <1>2, <1>3, <2>1, SameTrees DEF RemoveTree
  <2>2. CASE call[c].name \in DOMAIN trees
    <3>1. Rearranged(c, newTrees, content, TRUE, FALSE)
      BY <1>3, <2>2 DEF RemoveTree
    <3>2. /\ DOMAIN newTrees \subseteq DOMAIN trees
          /\ \A n \in DOMAIN newTrees : newTrees[n] = trees[n]
      BY DEF Without, Restrict
    <3>3. Noticed(newTrees, TRUE, FALSE)
      BY DEF Noticed
    <3> HIDE DEF newTrees
    <3>4. DOMAIN newTrees \subseteq Names
          /\ \A n \in DOMAIN newTrees : newTrees[n] \in 1 .. Len(content)
      BY <1>1, <3>2
    <3>5. Len(content) >= Len(content)
      BY <1>1
    <3>6. QED
      BY <1>1, <1>2, <3>1, <3>3, <3>4, <3>5, RearrangedStep
  <2>3. QED
    BY <2>1, <2>2
<1>4. CASE RemoveAll(c)
  <2> DEFINE none == <<>>
             stale == trees # <<>>
  <2>1. Rearranged(c, none, content, FALSE, stale) /\ UNCHANGED treeRootCache
    BY <1>4 DEF RemoveAll
  <2>2. DOMAIN none = {} /\ stale \in BOOLEAN /\ (stale \/ none = trees)
    OBVIOUS
  <2>3. Noticed(none, FALSE, stale)
    BY <2>1, <2>2 DEF Noticed
  <2>4. Len(content) >= Len(content)
    BY <1>1
  <2> HIDE DEF none, stale
  <2>5. QED
    BY <1>1, <1>2, <2>1, <2>2, <2>3, <2>4, RearrangedStep
<1>5. CASE ClearAll(c)
  <2> DEFINE newContent == [o \in DOMAIN content |->
                              IF \E n \in DOMAIN trees : trees[n] = o THEN NoItems
                              ELSE content[o]]
  <2>1. Rearranged(c, trees, newContent, FALSE, FALSE) /\ UNCHANGED treeRootCache
    BY <1>5 DEF ClearAll
  <2>2. DOMAIN content = 1 .. Len(content) /\ \A o \in DOMAIN content : newContent[o] \in Trees
    BY <1>1, NoItemsTree
  <2>3. newContent \in [1 .. Len(content) -> Trees]
    BY <2>2
  <2> HIDE DEF newContent
  <2>4. newContent \in Seq(Trees) /\ Len(newContent) = Len(content)
    BY <1>1, <2>3
  <2>5. \A n \in DOMAIN trees : trees[n] \in 1 .. Len(newContent)
    BY <1>1, <2>4
  <2>6. Noticed(trees, FALSE, FALSE)
    BY <2>1 DEF Noticed
  <2>7. Len(newContent) >= Len(content)
    BY <1>1, <2>4
  <2>8. QED
    BY <1>1, <1>2, <2>1, <2>4, <2>5, <2>6, <2>7, RearrangedStep
<1>6. QED
  BY <1>3, <1>4, <1>5

-------------------------------------------------------------------------------
(* A tree changes, or its cached root is given up.                         *)

LEMMA DisturbedCalls ==
  ASSUME TypeInv, NEW c \in Callers, NEW q, DOMAIN q = CallFields,
         call' = Disturb([call EXCEPT ![c] = q])
  PROVE  /\ DOMAIN call' = Callers
         /\ \A d \in Callers : DOMAIN call'[d] = CallFields /\ call'[d].calm = FALSE
         /\ call'[c].pc = q.pc /\ call'[c].op = q.op /\ call'[c].then = q.then
         /\ \A d \in Callers : d # c =>
              /\ call'[d].pc = call[d].pc /\ call'[d].op = call[d].op
              /\ call'[d].name = call[d].name /\ call'[d].to = call[d].to
              /\ call'[d].names = call[d].names /\ call'[d].roots = call[d].roots
              /\ call'[d].root = call[d].root /\ call'[d].then = call[d].then
<1> DEFINE cs == [call EXCEPT ![c] = q]
<1>1. DOMAIN cs = Callers /\ cs[c] = q /\ \A d \in Callers : d # c => cs[d] = call[d]
  BY DEF TypeInv
<1>2. \A d \in Callers : DOMAIN cs[d] = CallFields
  BY <1>1 DEF TypeInv
<1>3. DOMAIN call' = Callers /\ \A d \in Callers : call'[d] = [cs[d] EXCEPT !.calm = FALSE]
  BY DEF Disturb
<1> HIDE DEF cs
<1>4. ASSUME NEW d \in Callers
      PROVE  /\ DOMAIN call'[d] = CallFields /\ call'[d].calm = FALSE
             /\ call'[d].pc = cs[d].pc /\ call'[d].op = cs[d].op
             /\ call'[d].name = cs[d].name /\ call'[d].to = cs[d].to
             /\ call'[d].names = cs[d].names /\ call'[d].roots = cs[d].roots
             /\ call'[d].root = cs[d].root /\ call'[d].then = cs[d].then
  <2> DEFINE r == cs[d]
             q2 == call'[d]
  <2>1. DOMAIN r = CallFields /\ q2 = [r EXCEPT !.calm = FALSE]
    BY <1>2, <1>3
  <2> HIDE DEF r, q2
  <2>2. /\ DOMAIN q2 = CallFields /\ q2.calm = FALSE
        /\ q2.pc = r.pc /\ q2.op = r.op /\ q2.name = r.name /\ q2.to = r.to
        /\ q2.names = r.names /\ q2.roots = r.roots /\ q2.root = r.root /\ q2.then = r.then
    BY <2>1, Disturbed
  <2>3. QED
    BY <2>2 DEF r, q2
<1>5. call'[c].pc = q.pc /\ call'[c].op = q.op /\ call'[c].then = q.then
  BY <1>1, <1>4
<1>6. ASSUME NEW d \in Callers, d # c
      PROVE  /\ call'[d].pc = call[d].pc /\ call'[d].op = call[d].op
             /\ call'[d].name = call[d].name /\ call'[d].to = call[d].to
             /\ call'[d].names = call[d].names /\ call'[d].roots = call[d].roots
             /\ call'[d].root = call[d].root /\ call'[d].then = call[d].then
  <2>1. cs[d] = call[d]
    BY <1>1, <1>6
  <2>2. QED
    BY <1>4, <2>1
<1>7. QED
  BY <1>3, <1>4, <1>5, <1>6

LEMMA ChangeStep ==
  ASSUME IInv, NEW c \in Callers, NEW items \in SUBSET Items, Change(c, items), UNCHANGED svars
  PROVE  IInv'
<1> DEFINE o == call[c].tree
           q == IF call[c].op = "insert" THEN [call[c] EXCEPT !.pc = "lock", !.op = "invalidate"]
                ELSE NoCall
<1>1. /\ call[c].pc = "change" /\ call' = Disturb([call EXCEPT ![c] = q])
      /\ UNCHANGED <<trees, treeRootCache, globalRootCache, globalRootDirty, writer, forgot,
                     budget>>
      /\ UNCHANGED <<db, past, snap, mixed, skewed>>
  BY DEF Change, caches, lock, svars
<1>2. content' \in Seq(Trees) /\ Len(content') = Len(content) /\ Len(content) \in Nat
  <2>1. content \in [1 .. Len(content) -> Trees] /\ Len(content) \in Nat
    BY DEF IInv, TypeInv
  <2>2. PICK t : /\ content' = [content EXCEPT ![o] = t]
                 /\ content[o] \in Trees => t \in Trees
    BY InsertedTree, NoItemsTree DEF Change
  <2> HIDE DEF o
  <2>3. content' \in [1 .. Len(content) -> Trees]
    BY <2>1, <2>2
  <2>4. QED
    BY <2>1, <2>3
<1>3. call[c].then # "snapshot"
  BY <1>1 DEF IInv, CallInv, CallOk
<1>4. /\ DOMAIN q = CallFields /\ q.then # "snapshot"
      /\ q.pc \in {"lock", "idle"} /\ q.op \in {"invalidate", ""}
  <2>1. DOMAIN call[c] = CallFields
    BY DEF IInv, TypeInv
  <2>2. CASE call[c].op = "insert"
    <3> DEFINE r == call[c]
    <3>1. DOMAIN r = CallFields /\ r.then # "snapshot"
      BY <1>3, <2>1
    <3>2. q = [r EXCEPT !.pc = "lock", !.op = "invalidate"]
      BY <2>2
    <3> HIDE DEF r, q
    <3>3. QED
      BY <3>1, <3>2 DEF CallFields
  <2>3. CASE call[c].op # "insert"
    BY <2>3, NoCallFields
  <2>4. QED
    BY <2>2, <2>3
<1> HIDE DEF q
<1>5. /\ DOMAIN call' = Callers
      /\ \A d \in Callers : DOMAIN call'[d] = CallFields /\ call'[d].calm = FALSE
      /\ call'[c].pc = q.pc /\ call'[c].op = q.op /\ call'[c].then = q.then
      /\ \A d \in Callers : d # c =>
           /\ call'[d].pc = call[d].pc /\ call'[d].op = call[d].op
           /\ call'[d].name = call[d].name /\ call'[d].to = call[d].to
           /\ call'[d].names = call[d].names /\ call'[d].roots = call[d].roots
           /\ call'[d].root = call[d].root /\ call'[d].then = call[d].then
  BY <1>1, <1>4, DisturbedCalls DEF IInv
<1>6. TypeInv'
  BY <1>1, <1>2, <1>5 DEF IInv, TypeInv
<1>7. OthersStay(c)
  <2>1. \A d \in Callers : d # c => Stays(d) /\ ~call'[d].calm
    BY <1>1, <1>5 DEF Stays
  <2>2. UNCHANGED <<trees, treeRootCache, writer>>
    BY <1>1
  <2>3. Len(content') >= Len(content)
    BY <1>2
  <2>4. QED
    BY <2>1, <2>2, <2>3 DEF OthersStay
<1>8. CallOk(c)' /\ CompOk(c)'
  BY <1>4, <1>5 DEF CallOk, CompOk
<1>9. SnapOk(c)'
  BY <1>1, <1>2, <1>4, <1>5 DEF IInv, SnapInv, SnapOk
<1>10. CountInv'
  <2>1. \A d \in Callers : call'[d].pc \in {"commit", "delete"} =>
           call[d].pc \in {"commit", "delete"} /\ snap'[d].count = snap[d].count
    BY <1>1, <1>4, <1>5
  <2>2. QED
    BY <1>1, <2>1, CountStays DEF IInv
<1>11. RootInv'
  BY <1>1, RootStays DEF IInv
<1>12. QED
  BY <1>1, <1>6, <1>7, <1>8, <1>9, <1>10, <1>11, OwnStep, DbStays DEF IInv

\* A step of a caller on its own call, that leaves the trees alone.
LEMMA OwnCall ==
  ASSUME IInv, NEW c \in Callers, NEW q, call' = [call EXCEPT ![c] = q],
         DOMAIN q = CallFields, q.calm \in BOOLEAN, q.pc \notin {"commit", "delete"},
         UNCHANGED <<trees, content, budget>>, UNCHANGED svars,
         globalRootDirty' \in BOOLEAN, forgot' \in BOOLEAN,
         writer = None \/ writer = c \/ UNCHANGED <<treeRootCache, writer>>,
         CallOk(c)', CompOk(c)', SnapOk(c)', RootInv'
  PROVE  IInv'
<1>1. DOMAIN call' = Callers /\ call'[c] = q /\ \A d \in Callers : d # c => call'[d] = call[d]
  BY DEF IInv, TypeInv
<1>2. UNCHANGED <<db, past, snap, mixed, skewed>>
  BY DEF svars
<1>3. TypeInv'
  BY <1>1, <1>2 DEF IInv, TypeInv
<1>4. OthersStay(c)
  <2>1. \A d \in Callers : d # c => Stays(d)
    BY <1>1, <1>2 DEF Stays
  <2>2. Len(content') >= Len(content)
    BY DEF IInv, TypeInv
  <2>3. QED
    BY <2>1, <2>2 DEF OthersStay
<1>5. CountInv'
  <2>1. \A d \in Callers : call'[d].pc \in {"commit", "delete"} =>
           call[d].pc \in {"commit", "delete"} /\ snap'[d].count = snap[d].count
    BY <1>1, <1>2
  <2>2. QED
    BY <1>2, <2>1, CountStays DEF IInv
<1>6. QED
  BY <1>2, <1>3, <1>4, <1>5, OwnStep, DbStays DEF IInv

\* Whether its snapshot is right is not touched by most of these.
LEMMA OwnSnap ==
  ASSUME IInv, NEW c \in Callers, UNCHANGED <<trees, content, snap>>,
         call'[c].pc \notin {"answered", "commit"},
         call'[c].then = "snapshot" => call[c].then = "snapshot"
                                       /\ (call'[c].calm => call[c].calm)
  PROVE  SnapOk(c)'
BY DEF IInv, SnapInv, SnapOk

LEMMA InvalidateStep ==
  ASSUME IInv, NEW c \in Callers, InvalidateTreeRoot(c), UNCHANGED svars
  PROVE  IInv'
<1>1. /\ writer = None /\ call' = [call EXCEPT ![c] = NoCall] /\ globalRootDirty' = TRUE
      /\ forgot' = FALSE /\ UNCHANGED <<trees, content, budget, snap>>
  BY HoldingFacts DEF InvalidateTreeRoot, Returned, svars
<1>2. call'[c] = NoCall
  BY <1>1 DEF IInv, TypeInv
<1>3. CallOk(c)' /\ CompOk(c)'
  BY <1>2, NoCallFields DEF CallOk, CompOk
<1>4. SnapOk(c)'
  BY <1>1, <1>2, NoCallFields, OwnSnap
<1>5. RootInv'
  BY <1>1 DEF RootInv
<1>6. QED
  BY <1>1, <1>3, <1>4, <1>5, NoCallFields, OwnCall

-------------------------------------------------------------------------------
(* The global root is answered, or computed.                               *)

LEMMA SameRoots ==
  ASSUME NEW f, NEW g, DOMAIN f \subseteq Names, DOMAIN g = DOMAIN f,
         \A n \in DOMAIN f : g[n] = f[n]
  PROVE  RootsOf(g) = RootsOf(f)
<1> DEFINE names == Sorted(DOMAIN f)
<1>1. \A i \in DOMAIN names : names[i] \in DOMAIN f
  <2>1. names \in Seq(DOMAIN f)
    BY SortedNames
  <2> HIDE DEF names
  <2>2. QED
    BY <2>1
<1>2. RootsOf(f) = [i \in DOMAIN names |-> f[names[i]]]
  BY DEF RootsOf
<1>3. RootsOf(g) = [i \in DOMAIN names |-> g[names[i]]]
  BY DEF RootsOf
<1> HIDE DEF names
<1>4. \A i \in DOMAIN names : g[names[i]] = f[names[i]]
  BY <1>1
<1>5. QED
  BY <1>2, <1>3, <1>4

LEMMA NoRoots == ASSUME NEW f, DOMAIN f = {} PROVE MerkleRoot(RootsOf(f)) = Zero
<1> DEFINE names == Sorted(DOMAIN f)
<1>1. DOMAIN names = {}
  <2>1. Len(names) = Cardinality({}) /\ names \in Seq({})
    BY SortedNames
  <2>2. Cardinality({}) = 0
    BY FS_EmptySet
  <2> HIDE DEF names
  <2>3. DOMAIN names = 1 .. 0
    BY <2>1, <2>2
  <2>4. QED
    BY <2>3
<1>2. RootsOf(f) = [i \in DOMAIN names |-> f[names[i]]]
  BY DEF RootsOf
<1> HIDE DEF names
<1>3. DOMAIN RootsOf(f) = {} /\ RootsOf(f) = [i \in {} |-> f[names[i]]]
  BY <1>1, <1>2
<1>4. RootsOf(f) = <<>>
  BY <1>3
<1>5. QED
  BY <1>4 DEF MerkleRoot

\* If the cache answers, then with the root of the trees.
LEMMA CacheIsRight ==
  ASSUME TypeInv, RootInv, writer = None, CacheAnswers, ~forgot
  PROVE  globalRootCache = GlobalRoot
<1>1. ~globalRootDirty /\ \A n \in DOMAIN trees : n \in DOMAIN treeRootCache
                                               /\ treeRootCache[n] = Root(trees[n])
  BY DEF CacheAnswers
<1>2. PICK roots : Fits(roots)
  BY <1>1 DEF RootInv
<1>3. DOMAIN roots = DOMAIN trees /\ \A n \in DOMAIN trees : roots[n] = Root(trees[n])
  BY <1>1, <1>2 DEF Fits
<1> DEFINE now == [n \in DOMAIN trees |-> Root(trees[n])]
<1>4. RootsOf(now) = RootsOf(roots)
  <2>1. DOMAIN roots \subseteq Names /\ DOMAIN now = DOMAIN roots
        /\ \A n \in DOMAIN roots : now[n] = roots[n]
    BY <1>3 DEF TypeInv
  <2> HIDE DEF now
  <2>2. QED
    BY <2>1, SameRoots
<1>5. QED
  BY <1>2, <1>4 DEF Fits, GlobalRoot

\* The trees of a snapshot taken while none changed are the trees.
LEMMA CalmCapture ==
  ASSUME IInv, NEW c \in Callers, call[c].then = "snapshot", call[c].calm
  PROVE  MerkleRoot(RootsOf(Captured(c))) = GlobalRoot
<1>1. /\ DOMAIN snap[c].data = {} /\ DOMAIN snap[c].refs = DOMAIN trees
      /\ \A n \in DOMAIN trees : snap[c].refs[n] = trees[n]
  BY DEF IInv, SnapInv, SnapOk
<1>2. Captured(c) = [n \in DOMAIN trees |-> Root(trees[n])]
  BY <1>1 DEF Captured
<1>3. QED
  BY <1>2 DEF GlobalRoot

LEMMA AnswerStep ==
  ASSUME IInv, NEW c \in Callers, Answer(c, call[c], readers),
         UNCHANGED <<trees, content, budget>>, UNCHANGED svars,
         globalRootDirty' \in BOOLEAN, forgot' \in BOOLEAN,
         writer = None \/ writer = c, RootInv',
         call[c].then = "snapshot" /\ call[c].calm /\ ~forgot' =>
            globalRootCache' = MerkleRoot(RootsOf(Captured(c)))
  PROVE  IInv'
<1>1. CASE call' = Returned(c)
  <2>1. call' = [call EXCEPT ![c] = NoCall]
    BY <1>1 DEF Returned
  <2>2. call'[c] = NoCall
    BY <2>1 DEF IInv, TypeInv
  <2>3. CallOk(c)' /\ CompOk(c)'
    BY <2>2, NoCallFields DEF CallOk, CompOk
  <2>4. SnapOk(c)'
    BY <2>2, NoCallFields, OwnSnap DEF svars
  <2>5. QED
    BY <2>1, <2>3, <2>4, NoCallFields, OwnCall
<1>2. CASE call' # Returned(c)
  <2> DEFINE q == [NoCall EXCEPT !.pc = "answered", !.root = globalRootCache',
                                 !.calm = call[c].calm /\ ~forgot']
  <2>1. call[c].then = "snapshot" /\ call' = [call EXCEPT ![c] = q]
    BY <1>2 DEF Answer
  <2>2. /\ DOMAIN q = CallFields /\ q.calm \in BOOLEAN /\ q.pc = "answered" /\ q.then = ""
        /\ q.root = globalRootCache' /\ q.calm = (call[c].calm /\ ~forgot') /\ q.op = ""
    BY NoCallFields DEF CallFields
  <2> HIDE DEF q
  <2>3. call'[c] = q /\ snap' = snap
    BY <2>1 DEF IInv, TypeInv, svars
  <2>4. CallOk(c)' /\ CompOk(c)'
    BY <2>2, <2>3 DEF CallOk, CompOk
  <2>5. Captured(c)' = Captured(c)
    BY <2>3 DEF Captured, Root
  <2>6. SnapOk(c)'
    BY <2>1, <2>2, <2>3, <2>5 DEF IInv, SnapInv, SnapOk
  <2>7. QED
    BY <2>1, <2>2, <2>4, <2>6, OwnCall
<1>3. QED
  BY <1>1, <1>2

LEMMA CheckStep ==
  ASSUME IInv, NEW c \in Callers, CheckCache(c), UNCHANGED svars
  PROVE  IInv'
<1>1. /\ call[c].pc = "check" /\ writer = None
      /\ UNCHANGED <<treeRootCache, globalRootCache, globalRootDirty>>
      /\ UNCHANGED <<trees, content, writer, budget, forgot>>
  BY DEF CheckCache, MayRead, caches
<1>2. RootInv' /\ globalRootDirty' \in BOOLEAN /\ forgot' \in BOOLEAN
  BY <1>1, RootStays DEF IInv, TypeInv
<1>3. CASE CacheAnswers
  <2>1. Answer(c, call[c], readers)
    BY <1>3 DEF CheckCache
  <2>2. call[c].then = "snapshot" /\ call[c].calm /\ ~forgot' =>
           globalRootCache' = MerkleRoot(RootsOf(Captured(c)))
    BY <1>1, <1>3, CacheIsRight, CalmCapture DEF IInv
  <2>3. QED
    BY <1>1, <1>2, <2>1, <2>2, AnswerStep
<1>4. CASE ~CacheAnswers
  <2> DEFINE r == call[c]
             q == [r EXCEPT !.pc = "lock", !.op = "compute"]
  <2>1. call' = [call EXCEPT ![c] = q]
    BY <1>4 DEF CheckCache
  <2>2. DOMAIN r = CallFields /\ r.calm \in BOOLEAN
    BY DEF IInv, TypeInv
  <2> HIDE DEF r
  <2>3. /\ DOMAIN q = CallFields /\ q.calm = r.calm /\ q.pc = "lock" /\ q.then = r.then
        /\ q.op = "compute"
    BY <2>2 DEF CallFields
  <2> HIDE DEF q
  <2>4. call'[c] = q
    BY <2>1 DEF IInv, TypeInv
  <2>5. CallOk(c)' /\ CompOk(c)'
    BY <2>3, <2>4 DEF CallOk, CompOk
  <2>6. SnapOk(c)'
    BY <1>1, <2>3, <2>4, OwnSnap DEF r, svars
  <2>7. QED
    BY <1>1, <1>2, <2>1, <2>2, <2>3, <2>5, <2>6, OwnCall
<1>5. QED
  BY <1>3, <1>4

LEMMA StartStep ==
  ASSUME IInv, NEW c \in Callers, StartComputing(c), UNCHANGED svars
  PROVE  IInv'
<1>1. /\ call[c].pc = "lock" /\ call[c].op = "compute" /\ writer = None
      /\ UNCHANGED <<trees, content, treeRootCache, budget>>
  BY DEF StartComputing, Holding, MayWrite
<1>2. CASE /\ CacheAnswers /\ Answer(c, call[c], readers)
           /\ UNCHANGED <<globalRootCache, globalRootDirty, writer, forgot>>
  <2>1. RootInv' /\ globalRootDirty' \in BOOLEAN /\ forgot' \in BOOLEAN
    BY <1>1, <1>2, RootStays DEF IInv, TypeInv
  <2>2. call[c].then = "snapshot" /\ call[c].calm /\ ~forgot' =>
           globalRootCache' = MerkleRoot(RootsOf(Captured(c)))
    BY <1>1, <1>2, CacheIsRight, CalmCapture DEF IInv
  <2>3. QED
    BY <1>1, <1>2, <2>1, <2>2, AnswerStep
<1>3. CASE /\ trees = <<>> /\ Answer(c, call[c], readers) /\ UNCHANGED writer
           /\ globalRootCache' = Zero /\ globalRootDirty' = FALSE /\ forgot' = FALSE
  <2>1. DOMAIN trees = {} /\ DOMAIN trees' = {}
    <3>1. DOMAIN trees = {}
      BY <1>3
    <3>2. QED
      BY <1>1, <3>1
  <2>2. MerkleRoot(RootsOf(trees)) = Zero
    BY <2>1, NoRoots
  <2>3. Fits(trees)'
    BY <1>1, <1>3, <2>1, <2>2 DEF Fits
  <2>4. RootInv'
    BY <2>3 DEF RootInv
  <2>5. call[c].then = "snapshot" /\ call[c].calm =>
           globalRootCache' = MerkleRoot(RootsOf(Captured(c)))
    <3>1. GlobalRoot = Zero
      <4>1. DOMAIN [n \in DOMAIN trees |-> Root(trees[n])] = {}
        BY <2>1
      <4>2. QED
        BY <4>1, NoRoots DEF GlobalRoot
    <3>2. QED
      BY <1>3, <3>1, CalmCapture
  <2>6. QED
    BY <1>1, <1>3, <2>4, <2>5, AnswerStep
<1>4. CASE /\ writer' = c
           /\ call' = [call EXCEPT ![c].pc = "compute", ![c].roots = <<>>,
                                   ![c].names = Sorted(DOMAIN trees)]
           /\ UNCHANGED <<globalRootCache, globalRootDirty, readers, forgot, unproved>>
  <2> DEFINE r == call[c]
             names == Sorted(DOMAIN trees)
             q == [r EXCEPT !.pc = "compute", !.roots = <<>>, !.names = names]
  <2>1. call' = [call EXCEPT ![c] = q]
    BY <1>4
  <2>2. DOMAIN r = CallFields /\ r.calm \in BOOLEAN /\ r.op = "compute"
    BY <1>1 DEF IInv, TypeInv
  <2>2a. /\ names \in Seq(DOMAIN trees) /\ DOMAIN trees \subseteq Names
         /\ \A i, j \in 1 .. Len(names) : names[i] = names[j] => i = j
         /\ \A n \in DOMAIN trees : \E i \in 1 .. Len(names) : names[i] = n
    BY SortedNames DEF IInv, TypeInv
  <2> HIDE DEF r, names
  <2>3. /\ DOMAIN q = CallFields /\ q.calm = r.calm /\ q.pc = "compute" /\ q.then = r.then
        /\ q.op = r.op /\ q.names = names /\ q.roots = <<>>
    BY <2>2 DEF CallFields
  <2> HIDE DEF q
  <2>4. call'[c] = q
    BY <2>1 DEF IInv, TypeInv
  <2>5. CallOk(c)'
    BY <1>4, <2>2, <2>3, <2>4 DEF CallOk
  <2>6. CompOk(c)'
    <3>1. DOMAIN q.roots = {}
      BY <2>3
    <3>2. names \in Seq(Names) /\ \A i \in 1 .. Len(names) : names[i] \in DOMAIN trees
      BY <2>2a
    <3>3. call'[c].names = names /\ DOMAIN call'[c].roots = {} /\ trees' = trees
      BY <1>1, <2>3, <2>4, <3>1
    <3>4. \A n \in DOMAIN trees : \E i \in 1 .. Len(names) : names[i] = n
      BY <2>2a
    <3>5. \A i, j \in 1 .. Len(names) : names[i] = names[j] => i = j
      BY <2>2a
    <3>6. QED
      BY <3>2, <3>3, <3>4, <3>5 DEF CompOk
  <2>7. SnapOk(c)'
    BY <1>1, <2>3, <2>4, OwnSnap DEF r, svars
  <2>8. RootInv'
    BY <1>4, ManagerAssumption DEF RootInv
  <2>9. globalRootDirty' \in BOOLEAN /\ forgot' \in BOOLEAN
    BY <1>4 DEF IInv, TypeInv
  <2>10. QED
    BY <1>1, <2>1, <2>2, <2>3, <2>5, <2>6, <2>7, <2>8, <2>9, OwnCall
<1>5. QED
  BY <1>2, <1>3, <1>4 DEF StartComputing

LEMMA ReadStep ==
  ASSUME IInv, NEW c \in Callers, ReadRoot(c), UNCHANGED svars
  PROVE  IInv'
<1> DEFINE r == call[c]
           name == Head(r.names)
           root == Root(trees[name])
           names == Tail(r.names)
           roots == With(r.roots, name, root)
           q == [r EXCEPT !.names = names, !.roots = roots]
<1>1. /\ r.pc = "compute" /\ r.names # <<>> /\ call' = [call EXCEPT ![c] = q]
      /\ treeRootCache' = With(treeRootCache, name, root)
      /\ UNCHANGED <<trees, content, globalRootCache, globalRootDirty, writer, budget, forgot>>
  BY DEF ReadRoot, lock
<1>2. DOMAIN r = CallFields /\ r.calm \in BOOLEAN /\ CallOk(c) /\ writer = c
  BY <1>1 DEF IInv, TypeInv, CallInv, CallOk
<1>3. /\ r.names \in Seq(Names)
      /\ \A i, j \in 1 .. Len(r.names) : r.names[i] = r.names[j] => i = j
      /\ \A i \in 1 .. Len(r.names) : r.names[i] \in DOMAIN trees /\ r.names[i] \notin DOMAIN r.roots
      /\ \A n \in DOMAIN trees : n \in DOMAIN r.roots \/ \E i \in 1 .. Len(r.names) : r.names[i] = n
      /\ \A n \in DOMAIN r.roots : /\ n \in DOMAIN trees
                                   /\ n \in DOMAIN treeRootCache
                                   /\ treeRootCache[n] = r.roots[n]
                                   /\ r.calm => r.roots[n] = Root(trees[n])
  BY <1>1 DEF IInv, CompInv, CompOk
<1>4. /\ names \in Seq(Names) /\ Len(names) = Len(r.names) - 1
      /\ Len(r.names) \in Nat \ {0} /\ name = r.names[1]
      /\ \A i \in 1 .. Len(names) : names[i] = r.names[i + 1]
  <2> DEFINE s == r.names
  <2>1. s \in Seq(Names) /\ s # <<>>
    BY <1>1, <1>3
  <2> HIDE DEF r, s
  <2>2. /\ Tail(s) \in Seq(Names) /\ Len(Tail(s)) = Len(s) - 1
        /\ Len(s) \in Nat \ {0} /\ Head(s) = s[1]
        /\ \A i \in 1 .. Len(Tail(s)) : Tail(s)[i] = s[i + 1]
    BY <2>1
  <2>3. QED
    BY <2>2 DEF s
<1>5. name \in DOMAIN trees /\ name \notin DOMAIN r.roots
  <2>1. 1 \in 1 .. Len(r.names)
    BY <1>4
  <2>2. QED
    BY <1>3, <1>4, <2>1
<1>6. /\ DOMAIN roots = DOMAIN r.roots \cup {name} /\ roots[name] = root
      /\ \A n \in DOMAIN r.roots : roots[n] = r.roots[n]
      /\ DOMAIN treeRootCache' = DOMAIN treeRootCache \cup {name} /\ treeRootCache'[name] = root
      /\ \A n \in DOMAIN r.roots : treeRootCache'[n] = treeRootCache[n]
  BY <1>1, <1>3, <1>5 DEF With
<1>7. /\ \A i, j \in 1 .. Len(names) : names[i] = names[j] => i = j
      /\ \A i \in 1 .. Len(names) : names[i] \in DOMAIN trees /\ names[i] \notin DOMAIN roots
      /\ \A n \in DOMAIN trees : n \in DOMAIN roots \/ \E i \in 1 .. Len(names) : names[i] = n
  <2> DEFINE s == r.names
             had == DOMAIN r.roots
  <2>1. /\ \A i, j \in 1 .. Len(s) : s[i] = s[j] => i = j
        /\ \A i \in 1 .. Len(s) : s[i] \in DOMAIN trees /\ s[i] \notin had
        /\ \A n \in DOMAIN trees : n \in had \/ \E i \in 1 .. Len(s) : s[i] = n
    BY <1>3
  <2>2. /\ Len(names) = Len(s) - 1 /\ Len(s) \in Nat \ {0} /\ name = s[1]
        /\ \A i \in 1 .. Len(names) : names[i] = s[i + 1]
        /\ DOMAIN roots = had \cup {name}
    BY <1>4, <1>6
  <2> HIDE DEF r, s, had, names, name, roots
  <2>3. \A i \in 1 .. Len(names) : i + 1 \in 1 .. Len(s) /\ i + 1 # 1 /\ names[i] # name
    BY <2>1, <2>2
  <2>4. \A i \in 2 .. Len(s) : i - 1 \in 1 .. Len(names) /\ names[i - 1] = s[i]
    BY <2>2
  <2>5. \A i, j \in 1 .. Len(names) : names[i] = names[j] => i = j
    <3>1. \A i, j \in 1 .. Len(names) : names[i] = names[j] => i + 1 = j + 1
      BY <2>1, <2>2, <2>3
    <3>2. QED
      BY <2>2, <3>1
  <2>6. \A i \in 1 .. Len(names) : names[i] \in DOMAIN trees /\ names[i] \notin DOMAIN roots
    BY <2>1, <2>2, <2>3
  <2>7. ASSUME NEW n \in DOMAIN trees, n \notin DOMAIN roots
        PROVE  \E i \in 1 .. Len(names) : names[i] = n
    <3>1. PICK i \in 1 .. Len(s) : s[i] = n
      BY <2>1, <2>2, <2>7
    <3>2. i # 1
      BY <2>2, <2>7, <3>1
    <3>3. i \in 2 .. Len(s)
      BY <2>2, <3>1, <3>2
    <3>4. QED
      BY <2>4, <3>1, <3>3
  <2>8. QED
    BY <2>5, <2>6, <2>7
<1>8. \A n \in DOMAIN roots : /\ n \in DOMAIN trees
                              /\ n \in DOMAIN treeRootCache'
                              /\ treeRootCache'[n] = roots[n]
                              /\ r.calm => roots[n] = Root(trees[n])
  <2> HIDE DEF r, name, roots
  <2>1. QED
    BY <1>3, <1>5, <1>6
<1> HIDE DEF r, names, roots, root
<1>9. /\ DOMAIN q = CallFields /\ q.calm = r.calm /\ q.pc = r.pc /\ q.then = r.then
      /\ q.op = r.op /\ q.names = names /\ q.roots = roots /\ q.name = r.name /\ q.to = r.to
  BY <1>2 DEF CallFields
<1> HIDE DEF q
<1>10. call'[c] = q
  BY <1>1 DEF IInv, TypeInv
<1>11. CallOk(c)'
  BY <1>1, <1>2, <1>9, <1>10 DEF CallOk, r
<1>12. CompOk(c)'
  <2>1. \A n : Root(n)' = Root(n)
    BY <1>1 DEF Root
  <2>2. call'[c].names = names /\ call'[c].roots = roots /\ call'[c].calm = r.calm
        /\ trees' = trees /\ names \in Seq(Names)
    BY <1>1, <1>4, <1>9, <1>10
  <2>3. QED
    BY <1>7, <1>8, <2>1, <2>2 DEF CompOk
<1>13. SnapOk(c)'
  BY <1>1, <1>9, <1>10, OwnSnap DEF r, svars
<1>14. RootInv'
  BY <1>1, <1>2, ManagerAssumption DEF RootInv
<1>15. globalRootDirty' \in BOOLEAN /\ forgot' \in BOOLEAN
  BY <1>1 DEF IInv, TypeInv
<1>16. QED
  BY <1>1, <1>2, <1>9, <1>11, <1>12, <1>13, <1>14, <1>15, OwnCall

LEMMA PublishStep ==
  ASSUME IInv, NEW c \in Callers, Publish(c), UNCHANGED svars
  PROVE  IInv'
<1> DEFINE r == call[c]
<1>1. /\ r.pc = "compute" /\ r.names = <<>> /\ globalRootCache' = MerkleRoot(RootsOf(r.roots))
      /\ globalRootDirty' = FALSE /\ forgot' = FALSE /\ writer' = None
      /\ UNCHANGED <<trees, content, treeRootCache, budget>> /\ Answer(c, r, readers)
  BY DEF Publish, Unlock
<1>2. writer = c
  BY <1>1 DEF IInv, CallInv, CallOk
<1>3. /\ DOMAIN r.roots = DOMAIN trees
      /\ \A n \in DOMAIN r.roots : /\ n \in DOMAIN treeRootCache
                                   /\ treeRootCache[n] = r.roots[n]
                                   /\ r.calm => r.roots[n] = Root(trees[n])
  <2>1. Len(r.names) = 0
    BY <1>1
  <2>2. 1 .. Len(r.names) = {}
    BY <2>1
  <2>3. QED
    BY <1>1, <2>2 DEF IInv, CompInv, CompOk
<1>4. PICK roots : roots = r.roots
  OBVIOUS
<1>5. Fits(roots)'
  <2>1. /\ globalRootCache' = MerkleRoot(RootsOf(roots)) /\ DOMAIN roots = DOMAIN trees
        /\ \A n \in DOMAIN trees : treeRootCache[n] = roots[n]
    BY <1>1, <1>3, <1>4
  <2>2. trees' = trees /\ treeRootCache' = treeRootCache
    BY <1>1
  <2>3. QED
    BY <2>1, <2>2 DEF Fits
<1>6. RootInv'
  BY <1>5 DEF RootInv
<1>7. ASSUME r.then = "snapshot", r.calm
      PROVE  globalRootCache' = MerkleRoot(RootsOf(Captured(c)))
  <2> DEFINE now == [n \in DOMAIN trees |-> Root(trees[n])]
  <2>1. DOMAIN roots \subseteq Names /\ DOMAIN now = DOMAIN roots
        /\ \A n \in DOMAIN roots : now[n] = roots[n]
    BY <1>3, <1>4, <1>7 DEF IInv, TypeInv
  <2> HIDE DEF now
  <2>2. RootsOf(now) = RootsOf(roots)
    BY <2>1, SameRoots
  <2>3. GlobalRoot = MerkleRoot(RootsOf(roots))
    BY <2>2 DEF GlobalRoot, now
  <2>4. QED
    BY <1>1, <1>4, <1>7, <2>3, CalmCapture
<1>8. QED
  BY <1>1, <1>2, <1>6, <1>7, AnswerStep

LEMMA ProofStep ==
  ASSUME IInv, NEW c \in Callers, ReadProofRoot(c), UNCHANGED svars
  PROVE  IInv'
<1> DEFINE r == call[c]
           roots == With(r.roots, Head(r.names), Root(trees[Head(r.names)]))
           pc == IF Len(r.names) = 1 THEN "check" ELSE "prove"
           q == [r EXCEPT !.names = Tail(r.names), !.roots = roots, !.pc = pc]
<1>1. /\ r.pc = "prove" /\ call' = [call EXCEPT ![c] = q]
      /\ UNCHANGED <<trees, content, treeRootCache, globalRootCache, globalRootDirty, writer,
                     budget, forgot>>
  BY DEF ReadProofRoot, lock, caches
<1>2. DOMAIN r = CallFields /\ r.calm \in BOOLEAN /\ CallOk(c)
  BY DEF IInv, TypeInv, CallInv
<1>3. pc \in {"check", "prove"}
  OBVIOUS
<1> HIDE DEF r, roots, pc
<1>4. /\ DOMAIN q = CallFields /\ q.calm = r.calm /\ q.pc = pc /\ q.then = r.then
      /\ q.op = r.op /\ q.name = r.name /\ q.to = r.to
  BY <1>2 DEF CallFields
<1> HIDE DEF q
<1>5. call'[c] = q
  BY <1>1 DEF IInv, TypeInv
<1>6. CallOk(c)' /\ CompOk(c)'
  BY <1>1, <1>2, <1>3, <1>4, <1>5 DEF CallOk, CompOk, r
<1>7. SnapOk(c)'
  BY <1>1, <1>3, <1>4, <1>5, OwnSnap DEF r, svars
<1>8. RootInv' /\ globalRootDirty' \in BOOLEAN /\ forgot' \in BOOLEAN
  BY <1>1, RootStays DEF IInv, TypeInv
<1>9. QED
  BY <1>1, <1>2, <1>3, <1>4, <1>6, <1>7, <1>8, OwnCall

-------------------------------------------------------------------------------
(* Snapshots are made, stored, deleted and loaded.                         *)

LEMMA NoSnapshotOk ==
  ASSUME NEW c \in Callers, snap'[c] = NoSnapshot, call'[c].then # "snapshot",
         call'[c].pc \notin {"answered", "commit"}
  PROVE  SnapOk(c)'
<1>1. snap'[c].refs = <<>> /\ snap'[c].data = <<>> /\ snap'[c].names = {}
  BY NoCallFields
<1>2. DOMAIN snap'[c].refs = {} /\ DOMAIN snap'[c].data = {}
  BY <1>1
<1>3. QED
  BY <1>1, <1>2 DEF SnapOk

\* A step of a caller on its own snapshot.
LEMMA OwnSnapshot ==
  ASSUME IInv, NEW c \in Callers,
         NEW q, call' = [call EXCEPT ![c] = q], DOMAIN q = CallFields, q.calm \in BOOLEAN,
         NEW s, DOMAIN snap' = Callers, snap'[c] = s, DOMAIN s = SnapFields,
         \A d \in Callers : d # c => snap'[d] = snap[d],
         UNCHANGED <<ManagerVars, budget>>, skewed' \in BOOLEAN,
         CallOk(c)', CompOk(c)', SnapOk(c)'
  PROVE  TypeInv' /\ CallInv' /\ CompInv' /\ RootInv' /\ SnapInv'
<1>1. DOMAIN call' = Callers /\ call'[c] = q /\ \A d \in Callers : d # c => call'[d] = call[d]
  BY DEF IInv, TypeInv
<1>2. TypeInv'
  BY <1>1 DEF IInv, TypeInv, ManagerVars
<1>3. OthersStay(c)
  <2>1. \A d \in Callers : d # c => Stays(d)
    BY <1>1 DEF Stays
  <2>2. Len(content') >= Len(content)
    BY DEF IInv, TypeInv, ManagerVars
  <2>3. QED
    BY <2>1, <2>2 DEF OthersStay, ManagerVars
<1>4. RootInv'
  BY RootStays DEF IInv, ManagerVars
<1>5. QED
  BY <1>2, <1>3, <1>4, OwnStep DEF IInv

\* The items of a tree without holes are the tree.
LEMMA ItemsAreTree ==
  ASSUME NEW t \in Trees, t.holes = {}
  PROVE  Inserted(NoItems, t.items) = t
BY DEF Trees, Inserted, NoItems

LEMMA SerializeStep ==
  ASSUME IInv, NEW c \in Callers, NEW name \in Names, Serialize(c, name)
  PROVE  IInv'
<1> DEFINE s == snap[c]
           o == s.refs[name]
           refs == Without(s.refs, name)
           data == With(s.data, name, content[o].items)
           s2 == [s EXCEPT !.refs = refs, !.data = data]
           r == call[c]
           calm == r.calm /\ content[o].holes = {}
           q == [r EXCEPT !.calm = calm]
<1>1. /\ r.pc = "answered" /\ name \in DOMAIN s.refs
      /\ call' = [call EXCEPT ![c] = q] /\ snap' = [snap EXCEPT ![c] = s2]
      /\ UNCHANGED <<ManagerVars, budget>> /\ UNCHANGED <<db, past, mixed, skewed>>
  BY DEF Serialize, ManagerVars, caches, lock
<1>2. /\ DOMAIN r = CallFields /\ r.calm \in BOOLEAN /\ DOMAIN s = SnapFields
      /\ CallOk(c) /\ SnapOk(c) /\ skewed' \in BOOLEAN
  BY <1>1 DEF IInv, TypeInv, CallInv, SnapInv
<1>3. o \in 1 .. Len(content) /\ content[o] \in Trees
  BY <1>1, <1>2 DEF SnapOk, IInv, TypeInv
<1>4. /\ DOMAIN refs = DOMAIN s.refs \ {name} /\ \A n \in DOMAIN refs : refs[n] = s.refs[n]
      /\ DOMAIN data = DOMAIN s.data \cup {name} /\ data[name] = content[o].items
      /\ \A n \in DOMAIN s.data : n # name => data[n] = s.data[n]
  BY DEF Without, With, Restrict
<1>5. calm \in BOOLEAN
  BY <1>2
<1> HIDE DEF s, o, refs, data, r, calm
<1>6. /\ DOMAIN q = CallFields /\ q.calm = calm /\ q.pc = r.pc /\ q.op = r.op /\ q.name = r.name
      /\ q.to = r.to /\ q.then = r.then /\ q.root = r.root
  BY <1>2 DEF CallFields
<1>7. DOMAIN s2 = SnapFields /\ s2.refs = refs /\ s2.data = data /\ s2.names = s.names
  BY <1>2 DEF SnapFields
<1> HIDE DEF q, s2
<1>8. /\ call'[c] = q /\ DOMAIN snap' = Callers /\ snap'[c] = s2
      /\ \A d \in Callers : d # c => snap'[d] = snap[d]
      /\ \A d \in Callers : d # c => call'[d] = call[d]
  BY <1>1 DEF IInv, TypeInv
<1>9. CallOk(c)' /\ CompOk(c)'
  BY <1>1, <1>2, <1>6, <1>8 DEF CallOk, CompOk, r
<1>10. /\ DOMAIN s.refs \subseteq Names /\ DOMAIN s.data \subseteq Names /\ s.names \subseteq Names
       /\ \A n \in DOMAIN s.refs : s.refs[n] \in 1 .. Len(content)
       /\ \A n \in DOMAIN s.data : s.data[n] \in SUBSET Items
       /\ r.calm => r.root = MerkleRoot(RootsOf(Captured(c)))
       /\ DOMAIN s.refs \cap DOMAIN s.data = {}
       /\ r.then # "snapshot"
  BY <1>1, <1>2 DEF SnapOk, CallOk, s, r
<1>11. calm => Captured(c)' = Captured(c)
  <2> SUFFICES ASSUME calm PROVE Captured(c)' = Captured(c)
    OBVIOUS
  <2>1. Captured(c) = [n \in DOMAIN s.refs \cup DOMAIN s.data |->
                         IF n \in DOMAIN s.data THEN TreeRoot(Inserted(NoItems, s.data[n]))
                         ELSE TreeRoot(content[s.refs[n]])]
    BY DEF Captured, s, Root
  <2>2. Captured(c)' = [n \in DOMAIN refs \cup DOMAIN data |->
                          IF n \in DOMAIN data THEN TreeRoot(Inserted(NoItems, data[n]))
                          ELSE TreeRoot(content[refs[n]])]
    BY <1>1, <1>7, <1>8 DEF Captured, Root, ManagerVars
  <2>3. DOMAIN refs \cup DOMAIN data = DOMAIN s.refs \cup DOMAIN s.data
    BY <1>1, <1>4
  <2>4. Inserted(NoItems, data[name]) = content[s.refs[name]] /\ name \notin DOMAIN s.data
    BY <1>1, <1>3, <1>4, <1>10, ItemsAreTree DEF calm, o
  <2>5. \A n \in DOMAIN s.refs \cup DOMAIN s.data :
           (IF n \in DOMAIN data THEN TreeRoot(Inserted(NoItems, data[n]))
            ELSE TreeRoot(content[refs[n]]))
           = (IF n \in DOMAIN s.data THEN TreeRoot(Inserted(NoItems, s.data[n]))
              ELSE TreeRoot(content[s.refs[n]]))
    BY <1>4, <2>4
  <2>6. QED
    BY <2>1, <2>2, <2>3, <2>5
<1>12. SnapOk(c)'
  <2>1. content[o].items \in SUBSET Items
    BY <1>3 DEF Trees
  <2>2. \A n \in DOMAIN data : data[n] \in SUBSET Items
    BY <1>4, <1>10, <2>1
  <2>3. \A n \in DOMAIN refs : refs[n] \in 1 .. Len(content)
    BY <1>4, <1>10
  <2>4. DOMAIN refs \subseteq Names /\ DOMAIN data \subseteq Names
        /\ DOMAIN refs \cap DOMAIN data = {}
    BY <1>4, <1>10
  <2>5. snap'[c].refs = refs /\ snap'[c].data = data /\ snap'[c].names = s.names
        /\ content' = content
    BY <1>1, <1>7, <1>8 DEF ManagerVars
  <2>6. /\ call'[c].pc = "answered" /\ call'[c].then # "snapshot" /\ call'[c].root = r.root
        /\ call'[c].calm => calm /\ r.calm
    BY <1>1, <1>6, <1>8, <1>10 DEF calm
  <2>7. call'[c].calm => call'[c].root = MerkleRoot(RootsOf(Captured(c)'))
    BY <1>10, <1>11, <2>6
  <2>8. QED
    BY <1>10, <2>2, <2>3, <2>4, <2>5, <2>6, <2>7 DEF SnapOk
<1>13. TypeInv' /\ CallInv' /\ CompInv' /\ RootInv' /\ SnapInv'
  BY <1>1, <1>2, <1>5, <1>6, <1>7, <1>8, <1>9, <1>12, OwnSnapshot
<1>14. CountInv'
  <2>1. \A d \in Callers : call'[d].pc \in {"commit", "delete"} =>
           call[d].pc \in {"commit", "delete"} /\ snap'[d].count = snap[d].count
    BY <1>1, <1>6, <1>8
  <2>2. QED
    BY <1>1, <2>1, CountStays DEF IInv
<1>15. QED
  BY <1>1, <1>13, <1>14, DbStays DEF IInv

LEMMA SaveStep == ASSUME IInv, NEW c \in Callers, SaveSnapshot(c) PROVE IInv'
<1> DEFINE s == snap[c]
           s2 == [s EXCEPT !.first = db.first, !.count = db.count]
           r == call[c]
           q == [r EXCEPT !.pc = "commit"]
<1>1. /\ r.pc = "answered" /\ s.refs = <<>> /\ call' = [call EXCEPT ![c] = q]
      /\ ReadCount(c, s) /\ UNCHANGED <<ManagerVars, budget>> /\ UNCHANGED <<db, past, mixed>>
  BY DEF SaveSnapshot, ManagerVars, caches, lock
<1>2. /\ DOMAIN r = CallFields /\ r.calm \in BOOLEAN /\ DOMAIN s = SnapFields
      /\ CallOk(c) /\ SnapOk(c)
  BY DEF IInv, TypeInv, CallInv, SnapInv
<1>3. /\ DOMAIN snap' = Callers /\ snap'[c] = s2
      /\ \A d \in Callers : d # c => snap'[d] = snap[d]
  BY <1>1 DEF ReadCount
<1>4. call'[c] = q /\ \A d \in Callers : d # c => call'[d] = call[d]
  BY <1>1 DEF IInv, TypeInv
<1>5. CountInv' /\ skewed' \in BOOLEAN
  <2>1. \A d \in Callers : d # c => call'[d].pc = call[d].pc
    BY <1>4
  <2> HIDE DEF s
  <2>2. QED
    BY <1>1, <1>2, <2>1, CountRead
<1>6. DOMAIN s.refs = {}
  BY <1>1
<1> HIDE DEF s, r
<1>7. /\ DOMAIN q = CallFields /\ q.calm = r.calm /\ q.pc = "commit" /\ q.op = r.op
      /\ q.name = r.name /\ q.to = r.to /\ q.then = r.then /\ q.root = r.root
  BY <1>2 DEF CallFields
<1>8. DOMAIN s2 = SnapFields /\ s2.refs = s.refs /\ s2.data = s.data /\ s2.names = s.names
  BY <1>2 DEF SnapFields
<1> HIDE DEF q, s2
<1>9. r.then # "snapshot"
  BY <1>1, <1>2 DEF CallOk, r
<1>10. CallOk(c)' /\ CompOk(c)'
  BY <1>2, <1>4, <1>7, <1>9 DEF CallOk, CompOk, r
<1>11. Captured(c)' = Captured(c)
  BY <1>1, <1>3, <1>8 DEF Captured, Root, ManagerVars, s
<1>12. SnapOk(c)'
  <2>1. snap'[c].refs = s.refs /\ snap'[c].data = s.data /\ snap'[c].names = s.names
        /\ content' = content
    BY <1>1, <1>3, <1>8 DEF ManagerVars
  <2>2. /\ call'[c].pc = "commit" /\ call'[c].then # "snapshot" /\ call'[c].root = r.root
        /\ call'[c].calm = r.calm
    BY <1>4, <1>7, <1>9
  <2>3. r.calm => r.root = MerkleRoot(RootsOf(Captured(c)))
    BY <1>1, <1>2 DEF SnapOk, r
  <2>4. QED
    BY <1>2, <1>6, <1>11, <2>1, <2>2, <2>3 DEF SnapOk, s
<1>13. TypeInv' /\ CallInv' /\ CompInv' /\ RootInv' /\ SnapInv'
  BY <1>1, <1>2, <1>3, <1>5, <1>7, <1>8, <1>10, <1>12, OwnSnapshot
<1>14. QED
  BY <1>1, <1>5, <1>13, DbStays DEF IInv

\* A call that ends lets go of its snapshot.
LEMMA EndOfCall ==
  ASSUME IInv, NEW c \in Callers, call' = Returned(c), snap' = [snap EXCEPT ![c] = NoSnapshot],
         UNCHANGED <<ManagerVars, budget>>, skewed' \in BOOLEAN
  PROVE  /\ TypeInv' /\ CallInv' /\ CompInv' /\ RootInv' /\ SnapInv'
         /\ call'[c].pc = "idle"
         /\ \A d \in Callers : d # c => call'[d] = call[d] /\ snap'[d] = snap[d]
<1>1. /\ call' = [call EXCEPT ![c] = NoCall] /\ call'[c] = NoCall /\ snap'[c] = NoSnapshot
      /\ DOMAIN snap' = Callers
      /\ \A d \in Callers : d # c => call'[d] = call[d] /\ snap'[d] = snap[d]
  BY DEF Returned, IInv, TypeInv
<1>2. CallOk(c)' /\ CompOk(c)'
  BY <1>1, NoCallFields DEF CallOk, CompOk
<1>3. SnapOk(c)'
  BY <1>1, NoCallFields, NoSnapshotOk
<1>4. TypeInv' /\ CallInv' /\ CompInv' /\ RootInv' /\ SnapInv'
  BY <1>1, <1>2, <1>3, NoCallFields, OwnSnapshot
<1>5. QED
  BY <1>1, <1>4, NoCallFields

\* What is said of one state of the database.
DbOk(d, mix) ==
  /\ DOMAIN d = DbFields
  /\ \A k \in DOMAIN d.data : k = <<k[1], k[2]>> /\ k[2] \in Names /\ d.data[k] \in SUBSET Items
  /\ \A v \in d.metas \ mix : MerkleRoot(RootsOf(LoadedFrom(d, v))) = v

LEMMA DbOfEach == DbInv <=> \A d \in past \cup {db} : DbOk(d, mixed)
BY DEF DbInv, DbOk

\* The trees of a version, looked up.
LEMMA TreesAre ==
  ASSUME NEW d, \A k \in DOMAIN d.data : k = <<k[1], k[2]>>, NEW v
  PROVE  /\ \A n : n \in TreesOf(d, v) <=> <<v, n>> \in DOMAIN d.data
<1> SUFFICES ASSUME NEW n PROVE n \in TreesOf(d, v) <=> <<v, n>> \in DOMAIN d.data
  OBVIOUS
<1>1. CASE n \in TreesOf(d, v)
  <2>1. PICK k \in DOMAIN d.data : k[1] = v /\ n = k[2]
    BY <1>1 DEF TreesOf
  <2>2. k = <<v, n>>
    BY <2>1
  <2>3. QED
    BY <1>1, <2>1, <2>2
<1>2. CASE <<v, n>> \in DOMAIN d.data
  <2>1. <<v, n>>[1] = v /\ <<v, n>>[2] = n
    OBVIOUS
  <2>2. n \in TreesOf(d, v)
    BY <1>2, <2>1 DEF TreesOf
  <2>3. QED
    BY <1>2, <2>2
<1>3. QED
  BY <1>1, <1>2

\* Two states agree about a version that has the same trees in both.
LEMMA SameLoad ==
  ASSUME NEW d, \A k \in DOMAIN d.data : k = <<k[1], k[2]>>,
         NEW e, \A k \in DOMAIN e.data : k = <<k[1], k[2]>>, NEW v,
         \A n : <<v, n>> \in DOMAIN d.data <=> <<v, n>> \in DOMAIN e.data,
         \A n : <<v, n>> \in DOMAIN d.data => e.data[<<v, n>>] = d.data[<<v, n>>]
  PROVE  TreesOf(e, v) = TreesOf(d, v) /\ LoadedFrom(e, v) = LoadedFrom(d, v)
<1>1. TreesOf(e, v) = TreesOf(d, v)
  BY ZenonT(60), TreesAre
<1>2. \A n \in TreesOf(d, v) : e.data[<<v, n>>] = d.data[<<v, n>>]
  BY TreesAre
<1>3. LoadedFrom(e, v) = LoadedFrom(d, v)
  BY <1>1, <1>2 DEF LoadedFrom
<1>4. QED
  BY <1>1, <1>3

LEMMA CommitSaveStep == ASSUME IInv, NEW c \in Callers, CommitSave(c) PROVE IInv'
<1> DEFINE s == snap[c]
           r == call[c]
           v == r.root
           keys == {v} \X DOMAIN s.data
<1>1. /\ r.pc = "commit" /\ call' = Returned(c) /\ snap' = [snap EXCEPT ![c] = NoSnapshot]
      /\ UNCHANGED <<ManagerVars, budget>>
      /\ past' = past \cup {db} /\ skewed' = (skewed \/ v \in db.metas)
      /\ mixed' = IF r.calm /\ TreesOf(db, v) \subseteq DOMAIN s.data THEN mixed
                  ELSE mixed \cup {v}
  BY DEF CommitSave, ManagerVars, caches, lock
<1>2. /\ db'.metas = db.metas \cup {v} /\ db'.count = s.count + 1
      /\ DOMAIN db' = DbFields
      /\ DOMAIN db'.data = keys \cup DOMAIN db.data
      /\ \A k \in DOMAIN db'.data : db'.data[k] = IF k \in keys THEN s.data[k[2]] ELSE db.data[k]
  BY DEF CommitSave, DbFields
<1>3. SnapOk(c) /\ skewed' \in BOOLEAN
  BY <1>1 DEF IInv, SnapInv, TypeInv
<1>4. /\ DOMAIN s.refs = {} /\ DOMAIN s.data \subseteq Names
      /\ \A n \in DOMAIN s.data : s.data[n] \in SUBSET Items
      /\ r.calm => v = MerkleRoot(RootsOf(Captured(c)))
  BY <1>1, <1>3 DEF SnapOk
<1>5. /\ TypeInv' /\ CallInv' /\ CompInv' /\ RootInv' /\ SnapInv'
      /\ call'[c].pc = "idle"
      /\ \A d \in Callers : d # c => call'[d] = call[d] /\ snap'[d] = snap[d]
  BY <1>1, <1>3, EndOfCall
<1>6. \A d \in past \cup {db} : DbOk(d, mixed)
  BY DbOfEach DEF IInv
<1>7. Captured(c) = [n \in DOMAIN s.data |-> TreeRoot(Inserted(NoItems, s.data[n]))]
  BY <1>4 DEF Captured
<1> HIDE DEF s, r, v, keys
<1>8. \A d \in past \cup {db} : DbOk(d, mixed')
  BY <1>1, <1>6 DEF DbOk
<1>9. \A k \in keys : k = <<v, k[2]>> /\ k[1] = v /\ k[2] \in DOMAIN s.data
  BY DEF keys
<1>10. \A k \in DOMAIN db.data : /\ k = <<k[1], k[2]>> /\ k[2] \in Names
                                 /\ db.data[k] \in SUBSET Items
  BY <1>6 DEF DbOk
<1>11. \A k \in DOMAIN db'.data : /\ k = <<k[1], k[2]>> /\ k[2] \in Names
                                  /\ db'.data[k] \in SUBSET Items
  BY <1>2, <1>4, <1>9, <1>10
<1>12. ASSUME NEW w \in db'.metas \ mixed'
       PROVE  MerkleRoot(RootsOf(LoadedFrom(db', w))) = w
  <2>1. CASE w = v
    <3>1. r.calm /\ TreesOf(db, v) \subseteq DOMAIN s.data
      BY <1>1, <1>12, <2>1
    <3>2. \A n : n \in TreesOf(db', v) <=> <<v, n>> \in DOMAIN db'.data
      BY <1>11, TreesAre
    <3>3. \A n : <<v, n>> \in DOMAIN db.data => n \in DOMAIN s.data
      BY <1>10, <3>1, TreesAre
    <3>4. \A n \in DOMAIN s.data : <<v, n>> \in keys
      BY DEF keys
    <3>5. \A n : <<v, n>> \in keys => n \in DOMAIN s.data
      BY DEF keys
    <3>6. TreesOf(db', v) = DOMAIN s.data
      BY <1>2, <3>2, <3>3, <3>4, <3>5
    <3>7. \A n \in DOMAIN s.data : db'.data[<<v, n>>] = s.data[n]
      <4>1. ASSUME NEW n \in DOMAIN s.data PROVE db'.data[<<v, n>>] = s.data[n]
        <5>1. <<v, n>> \in keys /\ <<v, n>>[2] = n
          BY <3>4
        <5>2. QED
          BY <1>2, <5>1
      <4>2. QED
        BY <4>1
    <3>8. LoadedFrom(db', v) = Captured(c)
      BY <1>7, <3>6, <3>7 DEF LoadedFrom
    <3>9. QED
      BY <1>4, <2>1, <3>1, <3>8
  <2>2. CASE w # v
    <3>1. w \in db.metas \ mixed
      BY <1>1, <1>2, <1>12, <2>2
    <3>2. \A n : <<w, n>> \notin keys
      BY <2>2 DEF keys
    <3>3. /\ \A n : <<w, n>> \in DOMAIN db.data <=> <<w, n>> \in DOMAIN db'.data
          /\ \A n : <<w, n>> \in DOMAIN db.data => db'.data[<<w, n>>] = db.data[<<w, n>>]
      BY <1>2, <3>2
    <3>4. LoadedFrom(db', w) = LoadedFrom(db, w)
      BY <1>10, <1>11, <3>3, SameLoad
    <3>5. QED
      BY <1>6, <3>1, <3>4 DEF DbOk
  <2>3. QED
    BY <2>1, <2>2
<1>13. DbInv'
  <2>1. DbOk(db', mixed')
    BY <1>2, <1>11, <1>12 DEF DbOk
  <2>2. \A d \in past' \cup {db'} : DbOk(d, mixed')
    BY <1>1, <1>8, <2>1
  <2>3. QED
    BY <2>2 DEF DbInv, DbOk
<1>14. CountInv'
  <2> SUFFICES ASSUME ~skewed' PROVE CountInv'
    BY DEF CountInv
  <2>1. ~skewed /\ v \notin db.metas
    BY <1>1
  <2>2. /\ \A d \in past \cup {db} : IsFiniteSet(d.metas) /\ d.count = Cardinality(d.metas)
        /\ s.count = db.count
        /\ \A d \in Callers : call[d].pc \in {"commit", "delete"} => d = c
    BY <1>1, <2>1 DEF IInv, CountInv, r, s
  <2>3. IsFiniteSet(db'.metas) /\ db'.count = Cardinality(db'.metas)
    <3>1. IsFiniteSet(db.metas) /\ s.count = Cardinality(db.metas)
      BY <2>2
    <3>2. /\ IsFiniteSet(db.metas \cup {v})
          /\ Cardinality(db.metas \cup {v}) = Cardinality(db.metas) + 1
      BY <2>1, <3>1, FS_AddElement
    <3>3. QED
      BY <1>2, <3>1, <3>2
  <2>4. \A d \in Callers : call'[d].pc \notin {"commit", "delete"}
    BY <1>5, <2>2
  <2>5. QED
    BY <1>1, <2>2, <2>3, <2>4 DEF CountInv
<1>15. QED
  BY <1>5, <1>13, <1>14 DEF IInv

LEMMA CommitDeleteStep == ASSUME IInv, NEW c \in Callers, CommitDelete(c) PROVE IInv'
<1> DEFINE s == snap[c]
           v == s.version
           keys == {v} \X s.names
<1>1. /\ call[c].pc = "delete" /\ call' = Returned(c) /\ snap' = [snap EXCEPT ![c] = NoSnapshot]
      /\ UNCHANGED <<ManagerVars, budget>>
      /\ past' = {} /\ skewed' = (skewed \/ v \notin db.metas)
      /\ mixed' = IF TreesOf(db, v) \subseteq s.names THEN mixed ELSE mixed \cup {v}
  BY DEF CommitDelete, ManagerVars, caches, lock
<1>2. skewed' \in BOOLEAN
  BY <1>1 DEF IInv, TypeInv
<1>3. /\ TypeInv' /\ CallInv' /\ CompInv' /\ RootInv' /\ SnapInv'
      /\ call'[c].pc = "idle"
      /\ \A d \in Callers : d # c => call'[d] = call[d] /\ snap'[d] = snap[d]
  BY <1>1, <1>2, EndOfCall
<1>4. DbOk(db, mixed)
  BY DbOfEach DEF IInv
<1>5. /\ db'.metas = db.metas \ {v} /\ db'.count = Decremented(s.count)
      /\ DOMAIN db' = DbFields /\ DOMAIN db'.data = DOMAIN db.data \ keys
      /\ \A k \in DOMAIN db'.data : db'.data[k] = db.data[k]
  <2>1. DOMAIN db = DbFields
    BY <1>4 DEF DbOk
  <2> DEFINE data == Restrict(db.data, DOMAIN db.data \ keys)
  <2>2. db' = [db EXCEPT !.metas = db.metas \ {v}, !.data = data, !.count = Decremented(s.count)]
    BY DEF CommitDelete
  <2>3. DOMAIN data = DOMAIN db.data \ keys /\ \A k \in DOMAIN data : data[k] = db.data[k]
    BY DEF Restrict
  <2> HIDE DEF s, v, keys, data
  <2>4. /\ db'.metas = db.metas \ {v} /\ db'.count = Decremented(s.count) /\ db'.data = data
        /\ DOMAIN db' = DbFields
    BY <2>1, <2>2 DEF DbFields
  <2>5. QED
    BY <2>3, <2>4
<1> HIDE DEF s, v, keys
<1>6. \A k \in DOMAIN db.data : /\ k = <<k[1], k[2]>> /\ k[2] \in Names
                                /\ db.data[k] \in SUBSET Items
  BY <1>4 DEF DbOk
<1>7. \A k \in DOMAIN db'.data : /\ k = <<k[1], k[2]>> /\ k[2] \in Names
                                 /\ db'.data[k] \in SUBSET Items
  BY <1>5, <1>6
<1>8. ASSUME NEW w \in db'.metas \ mixed'
      PROVE  MerkleRoot(RootsOf(LoadedFrom(db', w))) = w
  <2>1. w \in db.metas \ mixed /\ w # v
    BY <1>1, <1>5, <1>8
  <2>2. \A n : <<w, n>> \notin keys
    BY <2>1 DEF keys
  <2>3. /\ \A n : <<w, n>> \in DOMAIN db.data <=> <<w, n>> \in DOMAIN db'.data
        /\ \A n : <<w, n>> \in DOMAIN db.data => db'.data[<<w, n>>] = db.data[<<w, n>>]
    BY <1>5, <2>2
  <2>4. LoadedFrom(db', w) = LoadedFrom(db, w)
    BY <1>6, <1>7, <2>3, SameLoad
  <2>5. QED
    BY <1>4, <2>1, <2>4 DEF DbOk
<1>9. DbInv'
  BY <1>1, <1>5, <1>7, <1>8 DEF DbInv
<1>10. CountInv'
  <2> SUFFICES ASSUME ~skewed' PROVE CountInv'
    BY DEF CountInv
  <2>1. ~skewed /\ v \in db.metas
    BY <1>1
  <2>2. /\ IsFiniteSet(db.metas) /\ db.count = Cardinality(db.metas)
        /\ s.count = db.count
        /\ \A d \in Callers : call[d].pc \in {"commit", "delete"} => d = c
    BY <1>1, <2>1 DEF IInv, CountInv, s
  <2>3. IsFiniteSet(db'.metas) /\ db'.count = Cardinality(db'.metas)
    <3>1. /\ IsFiniteSet(db.metas \ {v})
          /\ Cardinality(db.metas \ {v}) = Cardinality(db.metas) - 1
      BY <2>1, <2>2, FS_RemoveElement
    <3>2. Cardinality(db.metas) \in Nat /\ Cardinality(db.metas) # 0
      BY <2>1, <2>2, FS_CardinalityType, FS_EmptySet
    <3>3. Decremented(s.count) = Cardinality(db.metas) - 1
      BY <2>2, <3>2 DEF Decremented
    <3>4. QED
      BY <1>5, <3>1, <3>3
  <2>4. \A d \in Callers : call'[d].pc \notin {"commit", "delete"}
    BY <1>3, <2>2
  <2>5. QED
    BY <1>1, <2>3, <2>4 DEF CountInv
<1>11. QED
  BY <1>3, <1>9, <1>10 DEF IInv

LEMMA ReadTreesStep == ASSUME IInv, NEW c \in Callers, ReadTrees(c) PROVE IInv'
<1> DEFINE s == snap[c]
           r == call[c]
<1>1. /\ r.pc = "load" /\ UNCHANGED <<ManagerVars, budget>>
      /\ UNCHANGED <<db, past, mixed, skewed>>
  BY DEF ReadTrees, ManagerVars, caches, lock
<1>2. /\ DOMAIN r = CallFields /\ r.calm \in BOOLEAN /\ DOMAIN s = SnapFields
      /\ CallOk(c) /\ SnapOk(c) /\ skewed' \in BOOLEAN
  BY <1>1 DEF IInv, TypeInv, CallInv, SnapInv
<1>3. CASE /\ s.names \subseteq TreesOf(db, s.version)
           /\ snap' = [snap EXCEPT ![c].data = [n \in s.names |-> db.data[<<s.version, n>>]]]
           /\ call' = [call EXCEPT ![c].pc = "lock", ![c].op = "install"]
  <2> DEFINE data == [n \in s.names |-> db.data[<<s.version, n>>]]
             s2 == [s EXCEPT !.data = data]
             q == [r EXCEPT !.pc = "lock", !.op = "install"]
  <2>1. snap' = [snap EXCEPT ![c] = s2] /\ call' = [call EXCEPT ![c] = q]
    BY <1>3
  <2>2. \A n \in s.names : data[n] \in SUBSET Items
    <3>1. ASSUME NEW n \in s.names PROVE <<s.version, n>> \in DOMAIN db.data
      <4>1. n \in TreesOf(db, s.version)
        BY <1>3
      <4>2. \A k \in DOMAIN db.data : k = <<k[1], k[2]>>
        BY DEF IInv, DbInv
      <4> HIDE DEF s
      <4>3. QED
        BY <4>1, <4>2, TreesAre
    <3>2. QED
      BY <3>1 DEF IInv, DbInv
  <2>3. DOMAIN data = s.names
    OBVIOUS
  <2> HIDE DEF s, r, data
  <2>4. DOMAIN s2 = SnapFields /\ s2.data = data /\ s2.refs = s.refs /\ s2.names = s.names
    BY <1>2 DEF SnapFields
  <2>5. /\ DOMAIN q = CallFields /\ q.calm = r.calm /\ q.pc = "lock" /\ q.op = "install"
        /\ q.then = r.then
    BY <1>2 DEF CallFields
  <2> HIDE DEF s2, q
  <2>6. /\ call'[c] = q /\ DOMAIN snap' = Callers /\ snap'[c] = s2
        /\ \A d \in Callers : d # c => snap'[d] = snap[d] /\ call'[d] = call[d]
    BY <2>1 DEF IInv, TypeInv
  <2>7. r.then # "snapshot"
    BY <1>1, <1>2 DEF CallOk, r
  <2>8. CallOk(c)' /\ CompOk(c)'
    BY <2>5, <2>6, <2>7 DEF CallOk, CompOk
  <2>9. SnapOk(c)'
    <3>1. content' = content
      BY <1>1 DEF ManagerVars
    <3>2. /\ DOMAIN s.refs \subseteq Names /\ s.names \subseteq Names
          /\ \A n \in DOMAIN s.refs : s.refs[n] \in 1 .. Len(content)
      BY <1>2 DEF SnapOk, s
    <3>3. QED
      BY <2>2, <2>3, <2>4, <2>5, <2>6, <2>7, <3>1, <3>2 DEF SnapOk
  <2>10. TypeInv' /\ CallInv' /\ CompInv' /\ RootInv' /\ SnapInv'
    BY <1>1, <1>2, <2>1, <2>4, <2>5, <2>6, <2>8, <2>9, OwnSnapshot
  <2>11. CountInv'
    <3>1. \A d \in Callers : call'[d].pc \in {"commit", "delete"} =>
             call[d].pc \in {"commit", "delete"} /\ snap'[d].count = snap[d].count
      BY <2>5, <2>6
    <3>2. QED
      BY <1>1, <3>1, CountStays DEF IInv
  <2>12. QED
    BY <1>1, <2>10, <2>11, DbStays DEF IInv
<1>4. CASE snap' = [snap EXCEPT ![c] = NoSnapshot] /\ call' = Returned(c)
  <2>1. /\ TypeInv' /\ CallInv' /\ CompInv' /\ RootInv' /\ SnapInv'
        /\ call'[c].pc = "idle"
        /\ \A d \in Callers : d # c => call'[d] = call[d] /\ snap'[d] = snap[d]
    BY <1>1, <1>2, <1>4, EndOfCall
  <2>2. CountInv'
    <3>1. \A d \in Callers : call'[d].pc \in {"commit", "delete"} =>
             call[d].pc \in {"commit", "delete"} /\ snap'[d].count = snap[d].count
      BY <2>1
    <3>2. QED
      BY <1>1, <3>1, CountStays DEF IInv
  <2>3. QED
    BY <1>1, <2>1, <2>2, DbStays DEF IInv
<1>5. QED
  BY <1>3, <1>4 DEF ReadTrees

LEMMA InstallStep == ASSUME IInv, NEW c \in Callers, Install(c) PROVE IInv'
<1> DEFINE s == snap[c]
           S == DOMAIN s.data
           names == Sorted(S)
           newTrees == [n \in S |-> Len(content) + Cardinality({m \in S : m <= n})]
           built == [i \in DOMAIN names |-> Inserted(NoItems, s.data[names[i]])]
           newContent == content \o built
<1>1. /\ writer = None /\ Rearranged(c, newTrees, newContent, TRUE, FALSE)
      /\ snap' = [snap EXCEPT ![c] = NoSnapshot] /\ UNCHANGED <<db, past, mixed, skewed>>
  BY HoldingFacts DEF Install
<1>2. S \in SUBSET Names /\ \A n \in S : s.data[n] \in SUBSET Items
  BY DEF IInv, SnapInv, SnapOk
<1>3. content \in Seq(Trees) /\ Len(content) \in Nat
  BY DEF IInv, TypeInv
<1>4. /\ DOMAIN snap' = Callers /\ snap'[c] = NoSnapshot
      /\ \A d \in Callers : d # c => snap'[d] = snap[d]
  BY <1>1 DEF IInv, TypeInv
<1> HIDE DEF s, S
<1>5. /\ Cardinality(S) \in Nat /\ names \in Seq(S) /\ Len(names) = Cardinality(S)
      /\ \A n \in S : Cardinality({m \in S : m <= n}) \in 1 .. Cardinality(S)
  BY <1>2, SortedNames
<1> HIDE DEF names
<1>6. built \in Seq(Trees) /\ Len(built) = Cardinality(S)
  <2>1. DOMAIN names = 1 .. Cardinality(S) /\ \A i \in DOMAIN names : names[i] \in S
    BY <1>5
  <2>2. \A i \in DOMAIN names : Inserted(NoItems, s.data[names[i]]) \in Trees
    BY <1>2, <2>1, InsertedTree, NoItemsTree
  <2>3. built \in [1 .. Cardinality(S) -> Trees]
    BY <2>1, <2>2
  <2> HIDE DEF built
  <2>4. QED
    BY <1>5, <2>3
<1> HIDE DEF built
<1>7. newContent \in Seq(Trees) /\ Len(newContent) = Len(content) + Cardinality(S)
  BY <1>3, <1>6
<1> HIDE DEF newContent
<1>8. DOMAIN newTrees = S /\ \A n \in S : newTrees[n] \in 1 .. Len(newContent)
  <2>1. ASSUME NEW n \in S PROVE newTrees[n] \in 1 .. Len(newContent)
    <3> DEFINE k == Cardinality({m \in S : m <= n})
    <3>1. newTrees[n] = Len(content) + k /\ k \in 1 .. Cardinality(S)
      BY <1>5
    <3> HIDE DEF k, newTrees
    <3>2. QED
      BY <1>3, <1>5, <1>7, <3>1
  <2>2. QED
    BY <2>1
<1>9. Noticed(newTrees, TRUE, FALSE) /\ Len(newContent) >= Len(content)
  BY <1>3, <1>5, <1>7 DEF Noticed
<1> HIDE DEF newTrees
<1>10. QED
  BY <1>1, <1>2, <1>4, <1>7, <1>8, <1>9, RearrangedStep

-------------------------------------------------------------------------------
(* The process dies; all steps; the theorems.                              *)

\* A process that starts with the database as it is has nothing in hand.
LEMMA Restarted ==
  ASSUME call' = [c \in Callers |-> NoCall], snap' = [c \in Callers |-> NoSnapshot],
         trees' = <<>>, content' = <<>>, globalRootDirty' = TRUE, forgot' = FALSE,
         skewed' \in BOOLEAN, "names" \in DOMAIN budget', budget'.names \subseteq Names
  PROVE  /\ TypeInv' /\ CallInv' /\ CompInv' /\ RootInv' /\ SnapInv'
         /\ \A c \in Callers : call'[c].pc = "idle"
<1>1. \A c \in Callers : call'[c] = NoCall /\ snap'[c] = NoSnapshot
  OBVIOUS
<1>2. TypeInv'
  <2>1. DOMAIN trees' = {} /\ content' \in Seq(Trees)
    OBVIOUS
  <2>2. DOMAIN call' = Callers /\ DOMAIN snap' = Callers
    OBVIOUS
  <2>3. QED
    BY <1>1, <2>1, <2>2, NoCallFields DEF TypeInv
<1>3. CallInv' /\ CompInv' /\ RootInv'
  BY <1>1, NoCallFields DEF CallInv, CallOk, CompInv, CompOk, RootInv
<1>4. SnapInv'
  BY <1>1, NoCallFields, NoSnapshotOk DEF SnapInv
<1>5. QED
  BY <1>1, <1>2, <1>3, <1>4, NoCallFields

LEMMA CrashStep == ASSUME IInv, Crash PROVE IInv'
<1>1. /\ db' \in past \cup {db} /\ past' = {} /\ UNCHANGED <<mixed, skewed>>
      /\ budget' = [budget EXCEPT !.crash = budget.crash - 1]
  BY DEF Crash
<1>2. "names" \in DOMAIN budget' /\ budget'.names \subseteq Names /\ skewed' \in BOOLEAN
  BY <1>1 DEF IInv, TypeInv
<1>3. /\ TypeInv' /\ CallInv' /\ CompInv' /\ RootInv' /\ SnapInv'
      /\ \A c \in Callers : call'[c].pc = "idle"
  BY <1>2, Restarted DEF Crash
<1>4. past' \cup {db'} \subseteq past \cup {db}
  BY <1>1
<1>5. DbInv'
  BY <1>1, <1>4 DEF IInv, DbInv, LoadedFrom, TreesOf
<1>6. CountInv'
  BY <1>1, <1>3, <1>4 DEF IInv, CountInv
<1>7. QED
  BY <1>3, <1>5, <1>6 DEF IInv

LEMMA NothingChanges ==
  ASSUME IInv, UNCHANGED <<ManagerVars, call, budget>>, UNCHANGED <<db, snap, mixed, skewed>>,
         past' \subseteq past
  PROVE  IInv'
<1> USE DEF IInv, ManagerVars
<1>1. TypeInv' /\ CallInv'
  BY DEF TypeInv, CallInv, CallOk
<1>2. CompInv'
  BY DEF CompInv, CompOk, Root
<1>3. RootInv'
  BY RootStays
<1>4. SnapInv'
  BY DEF SnapInv, SnapOk, Captured, Root
<1>5. DbInv'
  BY DEF DbInv, LoadedFrom, TreesOf
<1>6. CountInv'
  BY DEF CountInv
<1>7. QED
  BY <1>1, <1>2, <1>3, <1>4, <1>5, <1>6

LEMMA StepsKeep ==
  ASSUME IInv, NEW c \in Callers, Steps(c), UNCHANGED svars
  PROVE  IInv'
BY CreateSteps, CloneStep, RenameStep, RemoveSteps, ChangeStep, InvalidateStep, CheckStep,
   StartStep, ReadStep, PublishStep, ProofStep DEF Steps

LEMMA InitIInv == SnapshotsInit => IInv
<1> SUFFICES ASSUME SnapshotsInit PROVE IInv
  OBVIOUS
<1>1. /\ trees = <<>> /\ content = <<>> /\ globalRootDirty = TRUE /\ forgot = FALSE
      /\ call = [c \in Callers |-> NoCall] /\ snap = [c \in Callers |-> NoSnapshot]
      /\ db = Empty /\ past = {} /\ skewed = FALSE /\ budget \in Budgets
  BY DEF SnapshotsInit, Init
<1>2. \A c \in Callers : call[c] = NoCall /\ snap[c] = NoSnapshot
  BY <1>1
<1>3. TypeInv
  <2>1. DOMAIN trees = {} /\ content \in Seq(Trees)
    BY <1>1
  <2>2. DOMAIN call = Callers /\ DOMAIN snap = Callers
    BY <1>1
  <2>3. "names" \in DOMAIN budget /\ budget.names \subseteq Names
    BY <1>1, ManagerAssumption
  <2>4. QED
    BY <1>1, <1>2, <2>1, <2>2, <2>3, NoCallFields DEF TypeInv
<1>4. CallInv /\ CompInv /\ RootInv
  BY <1>1, <1>2, NoCallFields DEF CallInv, CallOk, CompInv, CompOk, RootInv
<1>5. SnapInv
  <2>1. /\ DOMAIN NoSnapshot.refs = {} /\ DOMAIN NoSnapshot.data = {}
    <3>1. NoSnapshot.refs = <<>> /\ NoSnapshot.data = <<>>
      BY NoCallFields
    <3>2. QED
      BY <3>1
  <2>2. QED
    BY <1>2, <2>1, NoCallFields DEF SnapInv, SnapOk
<1>6. DbInv /\ CountInv
  <2>1. /\ past \cup {db} = {Empty} /\ Empty.metas = {} /\ Empty.count = 0 /\ Empty.data = <<>>
        /\ DOMAIN Empty = DbFields
    BY <1>1 DEF Empty, DbFields
  <2>2. DOMAIN Empty.data = {}
    BY <2>1
  <2>3. IsFiniteSet({}) /\ Cardinality({}) = 0
    BY FS_EmptySet
  <2>4. DbInv
    BY <2>1, <2>2 DEF DbInv
  <2>5. CountInv
    BY <1>2, <2>1, <2>3, NoCallFields DEF CountInv
  <2>6. QED
    BY <2>4, <2>5
<1>7. QED
  BY <1>3, <1>4, <1>5, <1>6 DEF IInv

LEMMA NextIInv == IInv /\ [SnapshotsNext]_allVars => IInv'
<1> SUFFICES ASSUME IInv, [SnapshotsNext]_allVars PROVE IInv'
  OBVIOUS
<1>1. CASE \E c \in Callers : (Calls(c) \/ Steps(c)) /\ UNCHANGED svars
  BY <1>1, PlainCalls, StepsKeep
<1>2. CASE \E c \in Callers : SnapshotCalls(c)
  BY <1>2, CaptureStep, DeleteStep, LoadStep DEF SnapshotCalls
<1>3. CASE \E c \in Callers : SnapshotSteps(c)
  BY <1>3, SerializeStep, SaveStep, CommitSaveStep, CommitDeleteStep, ReadTreesStep, InstallStep
     DEF SnapshotSteps
<1>4. CASE Flush
  BY <1>4, NothingChanges DEF Flush, vars, caches, lock, ManagerVars
<1>5. CASE Crash
  BY <1>5, CrashStep
<1>6. CASE UNCHANGED allVars
  <2>1. UNCHANGED <<ManagerVars, call, budget>> /\ UNCHANGED <<db, snap, mixed, skewed>>
        /\ UNCHANGED past
    BY <1>6 DEF allVars, svars, vars, caches, lock, ManagerVars
  <2>2. past' \subseteq past
    BY <2>1
  <2>3. QED
    BY <2>1, <2>2, NothingChanges
<1>7. QED
  BY <1>1, <1>2, <1>3, <1>4, <1>5, <1>6 DEF SnapshotsNext

LEMMA Inductive == SnapshotsSpec => []IInv
<1>1. QED
  BY InitIInv, NextIInv, PTL DEF SnapshotsSpec

\* However many callers make, change, rename and remove trees, load snapshots
\* or crash: a cached global root that ComputeGlobalRoot would return is that of
\* the trees, unless a call left cached roots of other trees behind.
THEOREM GlobalRootCurrent == SnapshotsSpec => []GlobalCurrent
<1>1. IInv => GlobalCurrent
  BY CacheIsRight DEF IInv, GlobalCurrent
<1>2. QED
  BY <1>1, Inductive, PTL

\* Every stored version loads into trees with that global root, and the stored
\* versions are counted, whatever was stored, deleted, lost or loaded before,
\* with the exceptions the histories note.
THEOREM SnapshotsAreTrue == SnapshotsSpec => []SnapshotTrue
<1>1. IInv => SnapshotTrue
  <2>1. \A v : Loaded(v) = LoadedFrom(db, v)
    BY DEF Loaded, LoadedFrom
  <2>2. QED
    BY <2>1 DEF IInv, DbInv, CountInv, SnapshotTrue
<1>2. QED
  BY <1>1, Inductive, PTL

===============================================================================
