------------------------ MODULE ConcurrentArena_proofs ------------------------
(***************************************************************************)
(* No node is handed out twice, for any number of goroutines, any size of  *)
(* the blocks and any number of allocations and resets, unless a block was *)
(* replaced under a goroutine that had an index and not yet its node, or   *)
(* an index was taken in the middle of a reset.                            *)
(***************************************************************************)
EXTENDS ConcurrentArena, TLAPS

ArenaTypeOK ==
    /\ block \in Nat
    /\ activeIndex \in Nat
    /\ alloc \in [Allocators ->
          [pc : {"idle", "block", "lock", "retake", "replace", "reindex", "reset", "panicked"},
           idx : Nat]]
    /\ nodesGiven \subseteq Nat \X Nat
    /\ straddled \in BOOLEAN

At(g, pc) == alloc[g].pc = pc

\* Who is past the lock holds it, and who replaces the block found it full:
\* the index only grows while he holds the lock.
LockHeld ==
    \A g \in Allocators :
        /\ alloc[g].pc \in {"retake", "replace", "reindex", "reset"} => arenaLock = g
        /\ alloc[g].pc \in {"replace", "reindex"} => activeIndex >= BlockSize

\* Nodes come from blocks there are, and from below the active index.
GivenBelow ==
    \A n \in nodesGiven : n[1] <= block /\ (n[1] = block => n[2] < activeIndex)

\* A new block whose index is not set yet has given nothing.
Replaced(g) == At(g, "reindex") \/ At(g, "reset")
NewBlockFull ==
    \A g \in Allocators : Replaced(g) => \A n \in nodesGiven : n[1] # block

\* The goroutines that have an index have different ones, of nodes that were
\* not given, and no block is replaced under them.
Claims ==
    /\ \A g \in Allocators :
          At(g, "block") => /\ alloc[g].idx < activeIndex
                            /\ <<block, alloc[g].idx>> \notin nodesGiven
                            /\ \A h \in Allocators : ~Replaced(h)
    /\ \A g, h \in Allocators :
          g # h /\ At(g, "block") /\ At(h, "block") => alloc[g].idx # alloc[h].idx

Safe == straddled \/ (GivenBelow /\ NewBlockFull /\ Claims /\ twice = {})

ArenaInv == ArenaTypeOK /\ activeIndex >= 1 /\ LockHeld /\ Safe

-------------------------------------------------------------------------------
LEMMA ArenaInitInv == ArenaInit => ArenaInv
<1> SUFFICES ASSUME ArenaInit PROVE ArenaInv
  OBVIOUS
<1> USE DEF ArenaInit, AtRest
<1>1. ArenaTypeOK /\ activeIndex >= 1
  <2>1. block \in Nat /\ activeIndex \in Nat /\ activeIndex >= 1
    OBVIOUS
  <2>2. alloc \in [Allocators ->
           [pc : {"idle", "block", "lock", "retake", "replace", "reindex", "reset", "panicked"},
            idx : Nat]]
    OBVIOUS
  <2>3. nodesGiven \subseteq Nat \X Nat /\ straddled \in BOOLEAN
    OBVIOUS
  <2> QED BY <2>1, <2>2, <2>3 DEF ArenaTypeOK
<1>2. LockHeld
  BY DEF LockHeld
<1>3. GivenBelow /\ NewBlockFull /\ Claims /\ twice = {}
  BY DEF GivenBelow, NewBlockFull, Claims, At, Replaced
<1> QED BY <1>1, <1>2, <1>3 DEF ArenaInv, Safe

LEMMA TakeIndexInv ==
  ASSUME ArenaInv, NEW g \in Allocators, TakeIndex(g) PROVE ArenaInv'
<1> USE ArenaAssumption DEF ArenaInv, TakeIndex, At, Replaced
<1>1. ArenaTypeOK' /\ (activeIndex >= 1)'
  BY DEF ArenaTypeOK
<1>2. LockHeld'
  BY DEF ArenaTypeOK, LockHeld
<1>3. CASE straddled'
  BY <1>1, <1>2, <1>3 DEF Safe
<1>4. CASE ~straddled'
  <2> USE <1>4
  <2>0. ~straddled /\ \A h \in Allocators : ~At(h, "reset")
    BY DEF ArenaTypeOK
  <2>1. GivenBelow'
    BY <2>0 DEF Safe, GivenBelow, ArenaTypeOK
  <2>2. NewBlockFull'
    BY <2>0 DEF Safe, NewBlockFull, ArenaTypeOK
  <2>3. Claims'
    <3>1. ASSUME NEW h \in Allocators, At(h, "block")'
          PROVE  /\ alloc'[h].idx < activeIndex'
                 /\ <<block', alloc'[h].idx>> \notin nodesGiven'
                 /\ \A k \in Allocators : ~Replaced(k)'
      <4>1. CASE h = g
        BY <2>0, <3>1, <4>1 DEF Safe, GivenBelow, LockHeld, ArenaTypeOK
      <4>2. CASE h # g
        BY <2>0, <3>1, <4>2 DEF Safe, Claims, ArenaTypeOK
      <4> QED BY <4>1, <4>2
    <3>2. ASSUME NEW h \in Allocators, NEW k \in Allocators, h # k,
                 At(h, "block")', At(k, "block")'
          PROVE  alloc'[h].idx # alloc'[k].idx
      <4>1. alloc'[g].idx = activeIndex
        BY DEF ArenaTypeOK
      <4>2. \A other \in Allocators \ {g} : alloc'[other] = alloc[other]
        BY DEF ArenaTypeOK
      <4>3. \A other \in Allocators : At(other, "block") => alloc[other].idx < activeIndex
        BY <2>0 DEF Safe, Claims
      <4>4. CASE h # g /\ k # g
        BY <2>0, <3>2, <4>2, <4>4 DEF Safe, Claims
      <4>5. CASE h = g \/ k = g
        BY <3>2, <4>1, <4>2, <4>3, <4>5 DEF ArenaTypeOK
      <4> QED BY <4>4, <4>5
    <3> QED BY <3>1, <3>2 DEF Claims
  <2> QED BY <1>1, <1>2, <2>0, <2>1, <2>2, <2>3 DEF Safe
<1> QED BY <1>3, <1>4

LEMMA ReadBlockInv ==
  ASSUME ArenaInv, NEW g \in Allocators, ReadBlock(g) PROVE ArenaInv'
<1> USE ArenaAssumption DEF ArenaInv, ReadBlock, Give, AtRest, At, Replaced
<1>1. ArenaTypeOK' /\ (activeIndex >= 1)'
  BY DEF ArenaTypeOK
<1>2. LockHeld'
  BY DEF ArenaTypeOK, LockHeld
<1>3. CASE straddled
  BY <1>1, <1>2, <1>3 DEF Safe
<1>4. CASE ~straddled
  <2>1. GivenBelow'
    BY <1>4 DEF Safe, GivenBelow, Claims, ArenaTypeOK
  <2>2. NewBlockFull'
    BY <1>4 DEF Safe, NewBlockFull, Claims, ArenaTypeOK
  <2>3. Claims'
    BY <1>4 DEF Safe, Claims, ArenaTypeOK
  <2>4. twice' = {}
    BY <1>4 DEF Safe, Claims
  <2> QED BY <1>1, <1>2, <2>1, <2>2, <2>3, <2>4 DEF Safe
<1> QED BY <1>3, <1>4

LEMMA CheckAgainInv ==
  ASSUME ArenaInv, NEW g \in Allocators, CheckAgain(g) PROVE ArenaInv'
<1> USE ArenaAssumption DEF ArenaInv, CheckAgain, At, Replaced
<1>1. ArenaTypeOK' /\ (activeIndex >= 1)'
  BY DEF ArenaTypeOK
<1>2. LockHeld'
  BY DEF ArenaTypeOK, LockHeld
<1>3. Safe'
  BY DEF Safe, GivenBelow, NewBlockFull, Claims, ArenaTypeOK
<1> QED BY <1>1, <1>2, <1>3

LEMMA RetakeInv ==
  ASSUME ArenaInv, NEW g \in Allocators, Retake(g) PROVE ArenaInv'
<1> USE ArenaAssumption DEF ArenaInv, Retake, Give, AtRest, At, Replaced
<1>1. ArenaTypeOK' /\ (activeIndex >= 1)'
  BY DEF ArenaTypeOK
<1>2. LockHeld'
  BY DEF ArenaTypeOK, LockHeld
<1>3. CASE straddled
  BY <1>1, <1>2, <1>3 DEF Safe
<1>4. CASE ~straddled
  <2>1. GivenBelow'
    BY <1>4 DEF Safe, GivenBelow, ArenaTypeOK
  <2>2. \A h \in Allocators : ~Replaced(h)
    BY DEF LockHeld, ArenaTypeOK
  <2>3. NewBlockFull'
    BY <2>2 DEF NewBlockFull, ArenaTypeOK
  <2>4. Claims'
    BY <1>4, <2>2 DEF Safe, Claims, ArenaTypeOK
  <2>5. twice' = {}
    BY <1>4 DEF Safe, GivenBelow, ArenaTypeOK
  <2> QED BY <1>1, <1>2, <2>1, <2>3, <2>4, <2>5 DEF Safe
<1> QED BY <1>3, <1>4

LEMMA NewBlockInv ==
  ASSUME ArenaInv, NEW g \in Allocators, NewBlock(g) PROVE ArenaInv'
<1> USE ArenaAssumption DEF ArenaInv, NewBlock, At, Replaced
<1>1. ArenaTypeOK' /\ (activeIndex >= 1)'
  BY DEF ArenaTypeOK
<1>2. LockHeld'
  BY DEF ArenaTypeOK, LockHeld
<1>3. CASE straddled'
  BY <1>1, <1>2, <1>3 DEF Safe
<1>4. CASE ~straddled'
  <2>1. ~straddled /\ \A h \in Allocators : alloc[h].pc # "block"
    BY <1>4 DEF ArenaTypeOK
  <2>2. GivenBelow'
    BY <2>1 DEF Safe, GivenBelow, ArenaTypeOK
  <2>3. NewBlockFull'
    BY <2>1 DEF Safe, GivenBelow, NewBlockFull, ArenaTypeOK
  <2>4. Claims'
    BY <2>1 DEF Claims, ArenaTypeOK
  <2>5. twice' = {}
    BY <2>1 DEF Safe
  <2> QED BY <1>1, <1>2, <2>2, <2>3, <2>4, <2>5 DEF Safe
<1> QED BY <1>3, <1>4

LEMMA NewIndexInv ==
  ASSUME ArenaInv, NEW g \in Allocators, NewIndex(g) PROVE ArenaInv'
<1> USE ArenaAssumption DEF ArenaInv, NewIndex, Give, AtRest, At, Replaced
<1>1. ArenaTypeOK' /\ (activeIndex >= 1)'
  BY DEF ArenaTypeOK
<1>2. LockHeld'
  BY DEF ArenaTypeOK, LockHeld
<1>3. CASE straddled
  BY <1>1, <1>2, <1>3 DEF Safe
<1>4. CASE ~straddled
  <2>1. \A n \in nodesGiven : n[1] # block
    BY <1>4 DEF Safe, NewBlockFull
  <2>2. \A h \in Allocators : alloc[h].pc # "block"
    BY <1>4 DEF Safe, Claims
  <2>3. \A h \in Allocators : ~Replaced(h)'
    BY DEF LockHeld, ArenaTypeOK
  <2>4. GivenBelow'
    BY <1>4, <2>1 DEF Safe, GivenBelow, ArenaTypeOK
  <2>5. NewBlockFull'
    BY <2>3 DEF NewBlockFull
  <2>6. Claims'
    BY <2>2 DEF Claims, ArenaTypeOK
  <2>7. twice' = {}
    BY <1>4, <2>1 DEF Safe
  <2> QED BY <1>1, <1>2, <2>4, <2>5, <2>6, <2>7 DEF Safe
<1> QED BY <1>3, <1>4

LEMMA ResetInv ==
  ASSUME ArenaInv, NEW g \in Allocators, Reset(g) PROVE ArenaInv'
<1> USE ArenaAssumption DEF ArenaInv, Reset, At, Replaced
<1>1. ArenaTypeOK' /\ (activeIndex >= 1)'
  BY DEF ArenaTypeOK
<1>2. LockHeld'
  BY DEF ArenaTypeOK, LockHeld
<1>3. CASE straddled'
  BY <1>1, <1>2, <1>3 DEF Safe
<1>4. CASE ~straddled'
  <2>1. ~straddled /\ \A h \in Allocators : alloc[h].pc # "block"
    BY <1>4 DEF ArenaTypeOK
  <2>2. GivenBelow'
    BY <2>1 DEF Safe, GivenBelow, ArenaTypeOK
  <2>3. NewBlockFull'
    BY <2>1 DEF Safe, GivenBelow, NewBlockFull, ArenaTypeOK
  <2>4. Claims'
    BY <2>1 DEF Claims, ArenaTypeOK
  <2>5. twice' = {}
    BY <2>1 DEF Safe
  <2> QED BY <1>1, <1>2, <2>2, <2>3, <2>4, <2>5 DEF Safe
<1> QED BY <1>3, <1>4

LEMMA ResetEndInv ==
  ASSUME ArenaInv, NEW g \in Allocators, ResetEnd(g) PROVE ArenaInv'
<1> USE ArenaAssumption DEF ArenaInv, ResetEnd, AtRest, At, Replaced
<1>1. ArenaTypeOK' /\ (activeIndex >= 1)'
  BY DEF ArenaTypeOK
<1>2. LockHeld'
  BY DEF ArenaTypeOK, LockHeld
<1>3. CASE straddled
  BY <1>1, <1>2, <1>3 DEF Safe
<1>4. CASE ~straddled
  <2>1. \A n \in nodesGiven : n[1] # block
    BY <1>4 DEF Safe, NewBlockFull
  <2>2. \A h \in Allocators : alloc[h].pc # "block"
    BY <1>4 DEF Safe, Claims
  <2>3. \A h \in Allocators : ~Replaced(h)'
    BY DEF LockHeld, ArenaTypeOK
  <2>4. GivenBelow'
    BY <1>4, <2>1 DEF Safe, GivenBelow, ArenaTypeOK
  <2>5. NewBlockFull'
    BY <2>3 DEF NewBlockFull
  <2>6. Claims'
    BY <2>2 DEF Claims, ArenaTypeOK
  <2> QED BY <1>1, <1>2, <1>4, <2>4, <2>5, <2>6 DEF Safe
<1> QED BY <1>3, <1>4

LEMMA ArenaStepInv == ArenaInv /\ [ArenaNext]_arenaVars => ArenaInv'
<1> SUFFICES ASSUME ArenaInv, [ArenaNext]_arenaVars PROVE ArenaInv'
  OBVIOUS
<1>1. ASSUME NEW g \in Allocators, TakeIndex(g) PROVE ArenaInv'
  BY <1>1, TakeIndexInv
<1>2. ASSUME NEW g \in Allocators, AllocStep(g) PROVE ArenaInv'
  BY <1>2, ReadBlockInv, CheckAgainInv, RetakeInv, NewBlockInv, NewIndexInv,
     ResetEndInv DEF AllocStep
<1>3. CASE UNCHANGED arenaVars
  BY <1>3 DEF arenaVars, ArenaInv, ArenaTypeOK, LockHeld, Safe, GivenBelow, NewBlockFull,
              Claims, At, Replaced
<1>4. ASSUME NEW g \in Allocators, Reset(g) PROVE ArenaInv'
  BY <1>4, ResetInv
<1> QED BY <1>1, <1>2, <1>3, <1>4 DEF ArenaNext

\* arena_concurrent.go: alloc never returns a node that it has returned before,
\* unless a block was replaced between the two lines of the fast path of
\* another goroutine, or reset was called while nodes were being allocated.
THEOREM ArenaNodesDistinct == ArenaSpec => []NodesDistinct
<1>1. ArenaInv => NodesDistinct
  BY DEF ArenaInv, Safe, NodesDistinct
<1> QED BY <1>1, ArenaInitInv, ArenaStepInv, PTL DEF ArenaSpec
===============================================================================
