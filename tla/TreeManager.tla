----------------------------- MODULE TreeManager -----------------------------
(***************************************************************************)
(* mt-manager/merkletree/manager.go and merkle_proof.go: named trees, the  *)
(* global root over their roots with its caches, and proofs that a tree is *)
(* in it, under one RWMutex.  Callers also keep the trees they got and     *)
(* change them directly, without the manager.                              *)
(*                                                                         *)
(* A tree is its items and the leaves deletions left behind, which stay in *)
(* its hash; computing its root is one step, and so is comparing the roots *)
(* with the cached ones (MerkleTree takes the first apart).  Hashes are    *)
(* injective: the hash of a tree stands for its contents, a pair of hashes *)
(* for the hash of both.  A call that wants the lock for writing first     *)
(* waits for it, which keeps new readers out.                              *)
(***************************************************************************)
EXTENDS Integers, Sequences, FiniteSets, SequencesExt

CONSTANTS
    Names,          \* names of trees, numbered in the order of the strings
    Items,
    Callers,
    Budgets,        \* bounds: the calls of each kind, how many at once, and
                    \* the names they are about
    None

\* The names a program uses; its bounds are about some of them.
ASSUME ManagerAssumption ==
    /\ Names \subseteq Nat /\ IsFiniteSet(Names)
    /\ \A b \in Budgets : "names" \in DOMAIN b /\ b.names \subseteq Names
    /\ None \notin Callers

VARIABLES
    trees,          \* TreeManager.trees: the number of each named tree
    content,        \* what is in every tree that was made
    treeRootCache, globalRootCache, globalRootDirty,
    readers,        \* how often each caller holds mu for reading
    writer,         \* who holds mu for writing over several steps, or None
    call,           \* what each caller is doing
    budget,         \* the calls that are left
    forgot,         \* history: the trees changed since the last computation,
                    \* by a call that left the cached global root valid
    unproved        \* history: a proof that nothing disturbed did not verify

caches == <<treeRootCache, globalRootCache, globalRootDirty>>
lock == <<readers, writer>>
vars == <<trees, content, caches, lock, call, budget, forgot, unproved>>

-----------------------------------------------------------------------------
(* Hashes *)

Zero == <<"zero">>
Pair(l, r) == <<"pair", l, r>>

NoItems == [items |-> {}, holes |-> {}]
Inserted(t, items) == [items |-> t.items \cup items, holes |-> t.holes \ items]
Deleted(t, items) == [items |-> t.items \ items, holes |-> t.holes \cup (t.items \cap items)]

TreeRoot(t) == IF t = NoItems THEN Zero ELSE <<"tree", t>>
Root(o) == TreeRoot(content[o])

At(level, i) == IF i <= Len(level) THEN level[i] ELSE Zero
HalfUp(n) == (n + 1) \div 2

\* The next level up: an odd hash is paired with the zero hash.
Up(level) == [i \in 1 .. HalfUp(Len(level)) |->
                    Pair(At(level, 2 * i - 1), At(level, 2 * i))]

\* All levels, from the hashes to the root.
Levels(hashes) ==
    FoldLeft(LAMBDA ls, i : IF Len(Last(ls)) <= 1 THEN ls ELSE Append(ls, Up(Last(ls))),
             <<hashes>>, hashes)

MerkleRoot(hashes) == IF hashes = <<>> THEN Zero ELSE Last(Levels(hashes))[1]

\* Mutant of Position: the index is not halved on the way up.
PositionKept(i, depth) == i

\* The position on each level of the hash that is at position i on the lowest.
Position(i, depth) == FoldLeft(LAMBDA p, d : HalfUp(p), i, [d \in 1 .. depth |-> d])

\* The siblings on the way up from position i, and whether we are left of them.
ProofPath(hashes, i) ==
    LET levels == Front(Levels(hashes))
    IN  [d \in 1 .. Len(levels) |->
            LET p == Position(i, d - 1)
            IN  [isLeft |-> p % 2 = 1,
                 hash |-> At(levels[d], IF p % 2 = 1 THEN p + 1 ELSE p - 1)]]

Verify(treeRoot, path, globalRoot) ==
    globalRoot = FoldLeft(LAMBDA h, step : IF step.isLeft THEN Pair(h, step.hash)
                                           ELSE Pair(step.hash, h),
                          treeRoot, path)

Sorted(names) ==
    [i \in 1 .. Cardinality(names) |->
        CHOOSE n \in names : Cardinality({m \in names : m <= n}) = i]
RootsOf(roots) ==
    LET names == Sorted(DOMAIN roots) IN [i \in DOMAIN names |-> roots[names[i]]]
GlobalRoot == MerkleRoot(RootsOf([n \in DOMAIN trees |-> Root(trees[n])]))

-----------------------------------------------------------------------------
(* Calls and the lock *)

\* then is what follows a computation of the global root: nothing, the rest of
\* a proof, or of a snapshot.  calm: no tree changed since the call began.
NoCall == [pc |-> "idle", op |-> "", name |-> None, to |-> None, tree |-> None,
           names |-> <<>>, roots |-> <<>>, root |-> Zero, then |-> "", calm |-> TRUE]

Active == {c \in Callers : call[c].pc # "idle"}

MayRead == writer = None /\ \A c \in Callers : call[c].pc # "lock"
MayWrite == writer = None /\ \A c \in Callers : readers[c] = 0

Without(f, x) == Restrict(f, DOMAIN f \ {x})
With(f, x, y) == [z \in DOMAIN f \cup {x} |-> IF z = x THEN y ELSE f[z]]

Begin(c, kind, r) ==
    /\ call[c].pc = "idle"
    /\ budget[kind] > 0
    /\ Cardinality(Active) < budget.crowd
    /\ budget' = [budget EXCEPT ![kind] = @ - 1]
    /\ call' = [call EXCEPT ![c] = r]

Init ==
    /\ trees = <<>> /\ content = <<>>
    /\ treeRootCache = <<>> /\ globalRootCache = Zero /\ globalRootDirty = TRUE
    /\ readers = [c \in Callers |-> 0] /\ writer = None
    /\ call = [c \in Callers |-> NoCall]
    /\ budget \in Budgets
    /\ forgot = FALSE /\ unproved = FALSE

-----------------------------------------------------------------------------
(* The calls that do all they do under the write lock *)

Wait(c, kind, op, name, to) ==
    /\ Begin(c, kind, [NoCall EXCEPT !.pc = "lock", !.op = op, !.name = name, !.to = to])
    /\ UNCHANGED <<trees, content, caches, lock, forgot, unproved>>

Holding(c, op) == call[c].pc = "lock" /\ call[c].op = op /\ MayWrite

\* The trees of all calls in progress but c have changed under them.
Disturb(cs) == [d \in Callers |-> [cs[d] EXCEPT !.calm = FALSE]]
Returned(c) == [call EXCEPT ![c] = NoCall]

\* Call c returns after it made newTrees of trees, newContent of content, and
\* marked the global root or forgot to.
Rearranged(c, newTrees, newContent, marked, stale) ==
    /\ trees' = newTrees
    /\ content' = newContent
    /\ globalRootDirty' = (globalRootDirty \/ marked)
    /\ forgot' = (~globalRootDirty' /\ (forgot \/ stale))
    /\ call' = IF <<newTrees, newContent>> = <<trees, content>> THEN Returned(c)
               ELSE Disturb(Returned(c))
    /\ UNCHANGED <<globalRootCache, lock, budget, unproved>>

NewTree(items) == Append(content, Inserted(NoItems, items))
Named(name) == With(trees, name, Len(content) + 1)

\* CreateTree and GetOrCreateTree mark the global root.
CreateTree(c) ==
    LET name == call[c].name
    IN  /\ Holding(c, "create")
        /\ IF name \in DOMAIN trees THEN Rearranged(c, trees, content, FALSE, FALSE)
           ELSE Rearranged(c, Named(name), NewTree({}), TRUE, FALSE)
        /\ UNCHANGED treeRootCache

\* CreateTreeWithConfig and CloneTree do not: the new tree is noticed because
\* it has no cached root, unless one was left over for its name.
CreateTreeWithConfig(c) ==
    LET name == call[c].name
    IN  /\ Holding(c, "createConfig")
        /\ IF name \in DOMAIN trees THEN Rearranged(c, trees, content, FALSE, FALSE)
           ELSE Rearranged(c, Named(name), NewTree({}), FALSE,
                           name \in DOMAIN treeRootCache)
        /\ UNCHANGED treeRootCache

CloneTree(c) ==
    LET name == call[c].name
        to == call[c].to
    IN  /\ Holding(c, "clone")
        /\ IF name \notin DOMAIN trees \/ to \in DOMAIN trees
           THEN Rearranged(c, trees, content, FALSE, FALSE)
           ELSE Rearranged(c, Named(to), NewTree(content[trees[name]].items), FALSE,
                           to \in DOMAIN treeRootCache)
        /\ UNCHANGED treeRootCache

\* RenameTree leaves the cached root under the old name.
RenameTree(c) ==
    LET name == call[c].name
        to == call[c].to
    IN  /\ Holding(c, "rename")
        /\ IF name \notin DOMAIN trees \/ to \in DOMAIN trees
           THEN Rearranged(c, trees, content, FALSE, FALSE)
           ELSE Rearranged(c, With(Without(trees, name), to, trees[name]),
                           content, FALSE, to \in DOMAIN treeRootCache)
        /\ UNCHANGED treeRootCache

RemoveTree(c) ==
    LET name == call[c].name
    IN  /\ Holding(c, "remove")
        /\ IF name \notin DOMAIN trees
           THEN Rearranged(c, trees, content, FALSE, FALSE) /\ UNCHANGED treeRootCache
           ELSE /\ Rearranged(c, Without(trees, name), content, TRUE, FALSE)
                /\ treeRootCache' = Without(treeRootCache, name)

\* RemoveAll neither marks the global root nor drops the cached roots.
RemoveAll(c) ==
    /\ Holding(c, "removeAll")
    /\ Rearranged(c, <<>>, content, FALSE, trees # <<>>)
    /\ UNCHANGED treeRootCache

ClearAll(c) ==
    /\ Holding(c, "clearAll")
    /\ Rearranged(c, trees, [o \in DOMAIN content |->
                        IF \E n \in DOMAIN trees : trees[n] = o THEN NoItems
                        ELSE content[o]],
                  FALSE, FALSE)
    /\ UNCHANGED treeRootCache

-----------------------------------------------------------------------------
(* InsertToTree and BatchInsertToTree; ClearTree; trees changed directly *)

\* GetTree, under the read lock.
GetTree(c, name, kind, op) ==
    /\ MayRead
    /\ name \in DOMAIN trees
    /\ Begin(c, kind, [NoCall EXCEPT !.pc = "change", !.op = op, !.name = name,
                                     !.tree = trees[name]])
    /\ UNCHANGED <<trees, content, caches, lock, forgot, unproved>>

\* The tree may no longer be the manager's.  Only the manager's own inserts
\* invalidate the cached root afterwards.
Change(c, items) ==
    LET r == call[c]
        t == content[r.tree]
    IN  /\ r.pc = "change"
        /\ \/ r.op \in {"insert", "direct"} /\ content' = [content EXCEPT ![r.tree] = Inserted(t, items)]
           \/ r.op = "direct" /\ content' = [content EXCEPT ![r.tree] = Deleted(t, items)]
           \/ r.op = "clear" /\ content' = [content EXCEPT ![r.tree] = NoItems]
        /\ call' = Disturb([call EXCEPT ![c] =
                IF r.op = "insert" THEN [r EXCEPT !.pc = "lock", !.op = "invalidate"]
                ELSE NoCall])
        /\ UNCHANGED <<trees, caches, lock, budget, forgot, unproved>>

InvalidateTreeRoot(c) ==
    /\ Holding(c, "invalidate")
    /\ treeRootCache' = Without(treeRootCache, call[c].name)
    /\ globalRootDirty' = TRUE
    /\ forgot' = FALSE
    /\ call' = Returned(c)
    /\ UNCHANGED <<trees, content, globalRootCache, lock, budget, unproved>>

-----------------------------------------------------------------------------
(* ComputeGlobalRoot *)

\* Mutant of CacheAnswers: only the names are looked at.
CacheAnswersUnseen ==
    /\ ~globalRootDirty
    /\ DOMAIN trees \subseteq DOMAIN treeRootCache

\* The cached global root is returned as it is: nothing is marked, and every
\* tree has the root it had.
CacheAnswers ==
    /\ ~globalRootDirty
    /\ \A n \in DOMAIN trees :
        n \in DOMAIN treeRootCache /\ treeRootCache[n] = Root(trees[n])

ComputeGlobalRoot(c) ==
    /\ Begin(c, "root", [NoCall EXCEPT !.pc = "check"])
    /\ UNCHANGED <<trees, content, caches, lock, forgot, unproved>>

\* Call r of c has the global root, under the locks rs: it returns, makes the
\* proof, or goes on with a snapshot.
Answer(c, r, rs) ==
    \/ /\ r.then = ""
       /\ call' = Returned(c)
       /\ readers' = rs
       /\ UNCHANGED unproved
    \/ /\ r.then = "proof"
       /\ call' = Returned(c)
       /\ readers' = [rs EXCEPT ![c] = @ - 1]
       /\ LET roots == RootsOf(r.roots)
              i == Cardinality({n \in DOMAIN r.roots : n <= r.name})
          IN  unproved' = (unproved \/
                /\ r.calm /\ ~forgot'
                /\ ~Verify(roots[i], ProofPath(roots, i), globalRootCache'))
    \/ /\ r.then = "snapshot"
       /\ call' = [call EXCEPT ![c] =
                [NoCall EXCEPT !.pc = "answered", !.root = globalRootCache',
                               !.calm = r.calm /\ ~forgot']]
       /\ readers' = rs
       /\ UNCHANGED unproved

\* Under the read lock, taken and given back: does the cache answer?
CheckCache(c) ==
    /\ call[c].pc = "check"
    /\ MayRead
    /\ UNCHANGED <<caches, trees, content, writer, budget, forgot>>
    /\ IF CacheAnswers THEN Answer(c, call[c], readers)
       ELSE /\ call' = [call EXCEPT ![c].pc = "lock", ![c].op = "compute"]
            /\ UNCHANGED <<readers, unproved>>

\* With the write lock it looks again.  (The roots that the second look puts
\* into the cache are put there again by the computation.)
StartComputing(c) ==
    /\ Holding(c, "compute")
    /\ UNCHANGED <<trees, content, treeRootCache, budget>>
    /\ \/ /\ CacheAnswers
          /\ UNCHANGED <<globalRootCache, globalRootDirty, writer, forgot>>
          /\ Answer(c, call[c], readers)
       \/ /\ ~CacheAnswers
          /\ trees = <<>>
          /\ globalRootCache' = Zero /\ globalRootDirty' = FALSE /\ forgot' = FALSE
          /\ UNCHANGED writer
          /\ Answer(c, call[c], readers)
       \/ /\ ~CacheAnswers
          /\ trees # <<>>
          /\ writer' = c
          /\ call' = [call EXCEPT ![c].pc = "compute", ![c].roots = <<>>,
                                  ![c].names = Sorted(DOMAIN trees)]
          /\ UNCHANGED <<globalRootCache, globalRootDirty, readers, forgot, unproved>>

\* The roots are read one after another, while the trees go on changing.
ReadRoot(c) ==
    LET name == Head(call[c].names)
        root == Root(trees[name])
    IN  /\ call[c].pc = "compute"
        /\ call[c].names # <<>>
        /\ treeRootCache' = With(treeRootCache, name, root)
        /\ call' = [call EXCEPT ![c].names = Tail(@), ![c].roots = With(@, name, root)]
        /\ UNCHANGED <<trees, content, globalRootCache, globalRootDirty, lock,
                       budget, forgot, unproved>>

\* Mutant of Unlock: the lock is kept.
UnlockForgotten == UNCHANGED writer

Unlock == writer' = None

Publish(c) ==
    /\ call[c].pc = "compute"
    /\ call[c].names = <<>>
    /\ globalRootCache' = MerkleRoot(RootsOf(call[c].roots))
    /\ globalRootDirty' = FALSE
    /\ forgot' = FALSE
    /\ Unlock
    /\ UNCHANGED <<trees, content, treeRootCache, budget>>
    /\ Answer(c, call[c], readers)

-----------------------------------------------------------------------------
(* GetMerkleProof, VerifyTreeInclusion: the read lock is kept throughout, *)
(* also while the global root is computed.                                *)

GetMerkleProof(c, name) ==
    /\ MayRead
    /\ name \in DOMAIN trees
    /\ Begin(c, "proof", [NoCall EXCEPT !.pc = "prove", !.name = name,
                                        !.names = Sorted(DOMAIN trees), !.then = "proof"])
    /\ readers' = [readers EXCEPT ![c] = @ + 1]
    /\ UNCHANGED <<trees, content, caches, writer, forgot, unproved>>

ReadProofRoot(c) ==
    LET r == call[c]
    IN  /\ r.pc = "prove"
        /\ call' = [call EXCEPT ![c] =
                [r EXCEPT !.names = Tail(@),
                          !.roots = With(@, Head(r.names), Root(trees[Head(r.names)])),
                          !.pc = IF Len(r.names) = 1 THEN "check" ELSE "prove"]]
        /\ UNCHANGED <<trees, content, caches, lock, budget, forgot, unproved>>

-----------------------------------------------------------------------------

Calls(c) ==
    \/ \E n \in budget.names :
        \/ Wait(c, "create", "create", n, None)
        \/ Wait(c, "move", "createConfig", n, None)
        \/ Wait(c, "remove", "remove", n, None)
        \/ GetTree(c, n, "insert", "insert")
        \/ GetTree(c, n, "direct", "clear")
        \/ GetTree(c, n, "direct", "direct")
        \/ GetMerkleProof(c, n)
    \/ \E n, m \in budget.names, op \in {"clone", "rename"} :
        n # m /\ Wait(c, "move", op, n, m)
    \/ Wait(c, "remove", "removeAll", None, None)
    \/ Wait(c, "direct", "clearAll", None, None)
    \/ ComputeGlobalRoot(c)

Steps(c) ==
    \/ CreateTree(c) \/ CreateTreeWithConfig(c) \/ CloneTree(c) \/ RenameTree(c)
    \/ RemoveTree(c) \/ RemoveAll(c) \/ ClearAll(c)
    \/ \E items \in SUBSET Items \ {{}} : Change(c, items)
    \/ InvalidateTreeRoot(c)
    \/ CheckCache(c) \/ StartComputing(c) \/ ReadRoot(c) \/ Publish(c)
    \/ ReadProofRoot(c)

Next == \E c \in Callers : Calls(c) \/ Steps(c)

\* A started call goes on when the lock lets it.
Fairness == \A c \in Callers : WF_vars(Steps(c))

Spec == Init /\ [][Next]_vars /\ Fairness

-----------------------------------------------------------------------------
(* Properties *)

\* A cached global root that ComputeGlobalRoot would return is the root of
\* the trees as they are, though most changes do not mark it and trees change
\* while it is computed; unless trees were removed, renamed or made by a call
\* that left cached roots of other trees behind.
GlobalCurrent ==
    writer = None /\ CacheAnswers /\ ~forgot => globalRootCache = GlobalRoot

\* A proof of inclusion made while no tree changed verifies, whatever the number
\* of trees and the position of the one it is about, unless the global root was
\* forgotten.
ProofsVerify == ~unproved

Proving(c) == call[c].then = "proof" /\ call[c].pc # "idle"

\* Every call returns, unless a proof is being made: its caller holds the lock
\* for reading and may have to wait for it for writing.
CallsReturn ==
    \A c \in Callers :
        call[c].pc # "idle" ~> call[c].pc = "idle" \/ \E d \in Callers : Proving(d)

=============================================================================
