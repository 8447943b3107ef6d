--------------------------- MODULE ConcurrentArena ---------------------------
(***************************************************************************)
(* arena_concurrent.go: where MerkleTree's nodes come from.  alloc takes   *)
(* an index without a lock and then reads which block is active; a full    *)
(* block is replaced under a lock.  reset, which Tree.Clear calls, starts  *)
(* over with a new block.  A step is one access to an atomic, to           *)
(* activeBlock, or what happens under the lock between two of them.        *)
(***************************************************************************)
EXTENDS Integers, FiniteSets

CONSTANTS
    Allocators,     \* the goroutines
    BlockSize,      \* NodeBlockSize
    Allocations,    \* bounds on the calls of alloc and reset
    Free            \* of arenaLock: nobody holds it

ASSUME ArenaAssumption ==
    /\ BlockSize \in Nat \ {0, 1}
    /\ Allocations \subseteq Nat
    /\ Free \notin Allocators

VARIABLES
    block,          \* the number of the active block
    activeIndex,
    arenaLock,
    alloc,          \* what each goroutine is doing
    nodesGiven,     \* history: nodes that were handed out: block and index
    twice,          \* history: nodes that were handed out again
    straddled,      \* history: a block was replaced while a goroutine had an
                    \* index and not yet the node, or a goroutine took an
                    \* index in the middle of a reset
    left            \* calls that are left

arenaVars == <<block, activeIndex, arenaLock, alloc, nodesGiven, twice,
               straddled, left>>

AtRest == [pc |-> "idle", idx |-> 0]

ArenaInit ==
    /\ block = 1 /\ activeIndex = 1
    /\ arenaLock = Free
    /\ alloc = [g \in Allocators |-> AtRest]
    /\ nodesGiven = {} /\ twice = {} /\ straddled = FALSE
    /\ left \in Allocations

\* Goroutine g gets &activeBlock[idx].
Give(g, idx) ==
    /\ nodesGiven' = nodesGiven \cup {<<block', idx>>}
    /\ twice' = twice \cup (nodesGiven \cap {<<block', idx>>})
    /\ alloc' = [alloc EXCEPT ![g] = AtRest]

\* activeIndex.Add(1) - 1.
TakeIndex(g) ==
    /\ alloc[g].pc = "idle"
    /\ left > 0
    /\ left' = left - 1
    /\ activeIndex' = activeIndex + 1
    /\ alloc' = [alloc EXCEPT ![g] =
                    [pc |-> IF activeIndex < BlockSize THEN "block" ELSE "lock",
                     idx |-> activeIndex]]
    /\ straddled' = (straddled \/ \E h \in Allocators : alloc[h].pc = "reset")
    /\ UNCHANGED <<block, arenaLock, nodesGiven, twice>>

ReadBlock(g) ==
    /\ alloc[g].pc = "block"
    /\ UNCHANGED <<block, activeIndex, arenaLock, straddled, left>>
    /\ Give(g, alloc[g].idx)

\* Under the lock: has another goroutine replaced the block meanwhile?
CheckAgain(g) ==
    /\ alloc[g].pc = "lock"
    /\ arenaLock = Free
    /\ arenaLock' = g
    /\ alloc' = [alloc EXCEPT ![g].pc =
                    IF activeIndex < BlockSize THEN "retake" ELSE "replace"]
    /\ UNCHANGED <<block, activeIndex, nodesGiven, twice, straddled, left>>

\* The index taken now may be past the end of the block: the code panics.
Retake(g) ==
    /\ alloc[g].pc = "retake"
    /\ activeIndex' = activeIndex + 1
    /\ arenaLock' = Free
    /\ UNCHANGED <<block, straddled, left>>
    /\ IF activeIndex < BlockSize
       THEN Give(g, activeIndex)
       ELSE /\ alloc' = [alloc EXCEPT ![g].pc = "panicked"]
            /\ UNCHANGED <<nodesGiven, twice>>

\* allocNewBlock stores the block, then the index.
NewBlock(g) ==
    /\ alloc[g].pc = "replace"
    /\ block' = block + 1
    /\ straddled' = (straddled \/ \E h \in Allocators : alloc[h].pc = "block")
    /\ alloc' = [alloc EXCEPT ![g].pc = "reindex"]
    /\ UNCHANGED <<activeIndex, arenaLock, nodesGiven, twice, left>>

\* Mutant of NewIndex: the index begins at the node that was just given.
NewIndexZero(g) ==
    /\ alloc[g].pc = "reindex"
    /\ activeIndex' = 0
    /\ arenaLock' = Free
    /\ UNCHANGED <<block, straddled, left>>
    /\ Give(g, 0)

NewIndex(g) ==
    /\ alloc[g].pc = "reindex"
    /\ activeIndex' = 1
    /\ arenaLock' = Free
    /\ UNCHANGED <<block, straddled, left>>
    /\ Give(g, 0)

\* reset stores a new block under the lock, full or not, then the index.
Reset(g) ==
    /\ alloc[g].pc = "idle"
    /\ left > 0
    /\ left' = left - 1
    /\ arenaLock = Free
    /\ arenaLock' = g
    /\ block' = block + 1
    /\ straddled' = (straddled \/ \E h \in Allocators : alloc[h].pc = "block")
    /\ alloc' = [alloc EXCEPT ![g].pc = "reset"]
    /\ UNCHANGED <<activeIndex, nodesGiven, twice>>

ResetEnd(g) ==
    /\ alloc[g].pc = "reset"
    /\ activeIndex' = 1
    /\ arenaLock' = Free
    /\ alloc' = [alloc EXCEPT ![g] = AtRest]
    /\ UNCHANGED <<block, nodesGiven, twice, straddled, left>>

AllocStep(g) ==
    ReadBlock(g) \/ CheckAgain(g) \/ Retake(g) \/ NewBlock(g) \/ NewIndex(g)
        \/ ResetEnd(g)

ArenaNext == \E g \in Allocators : TakeIndex(g) \/ Reset(g) \/ AllocStep(g)

ArenaSpec == ArenaInit /\ [][ArenaNext]_arenaVars

-----------------------------------------------------------------------------
(* Properties *)

\* No node is handed out twice, to be two nodes of a tree at once, unless a
\* goroutine had an index of one block and took its node from the next, or
\* took its index while the arena was reset.
NodesDistinct == straddled \/ twice = {}
=============================================================================
