------------------------------- MODULE VerkleTree -------------------------------
(***************************************************************************)
(* The first Verkle tree, v2-verkle-tree-test/verkle_tree.go: batches are  *)
(* inserted under mu, and the commitments are recomputed by the caller or, *)
(* in the asynchronous mode, by workers that hold no lock.                 *)
(*                                                                         *)
(* An inner node is named by its path, and so is the place of a leaf,      *)
(* Levels steps below the root.  A commitment stands for the users whose   *)
(* leaves entered it: a leaf commits to its user only, never to the data.  *)
(* mu is not reentrant, so a call that locks it again waits for itself;    *)
(* expandDepth does that wherever it is called, and therefore the depth    *)
(* of the tree never changes.                                              *)
(***************************************************************************)
EXTENDS Integers, Sequences, FiniteSets, SequencesExt, FiniteSetsExt, TLC

CONSTANTS
    Width,          \* NodeWidth
    Levels,
    MaxLevels,
    Members,        \* user ids
    PathOf,         \* the path of each to its leaf, from the hash of its id
    Contents,       \* data
    Updates,        \* what CommitBatch is called with: functions from users to data
    Clients, Committers, \* goroutines: callers and commitWorkers
    MinNodesForParallel, \* as many nodes are worth a goroutine each (4)
    TaskLimit,      \* capacity of commitQueue (10)
    Orders          \* which calls are made, how often, and by whom

ASSUME VerkleTreeAssumption ==
    /\ Width \in Nat \ {0} /\ Levels \in Nat \ {0} /\ MaxLevels \in Nat
    /\ PathOf \in [Members -> [1 .. Levels -> 0 .. Width - 1]]
    /\ \A b \in Updates : DOMAIN b \subseteq Members /\ Range(b) \subseteq Contents
    /\ MinNodesForParallel \in Nat /\ TaskLimit \in Nat \ {0}

VARIABLES
    autoGrow,       \* config.AutoGrowDepth
    stored,         \* is there a data store?
    orders,         \* calls still to be made
    inner,          \* the inner nodes: their commitment and dirty mark
    leaves,         \* the leaves
    nodeIndex,      \* the place of each user's leaf
    dataStore,
    lock,           \* who holds mu for writing
    shared,         \* how often each client holds mu for reading
    asyncMode, parallel,
    taskQueue,      \* tasks in commitQueue
    queueDone,      \* is commitQueue closed?
    pendingTasks,   \* commitWG
    commitInProgress,
    results,        \* results on their way to the root, each with its goroutine
    thread,         \* the goroutines
    failed,         \* how the program ended, if it did
    latest,         \* history: the data last committed for each user
    missed,         \* history: users inserted while somebody recomputed, or by a
                    \* batch that failed
    stale           \* history: an older root has replaced a newer one

nodeVars  == <<inner, leaves, nodeIndex, missed, stale>>
dataVars  == <<dataStore, latest>>
asyncVars == <<asyncMode, parallel, taskQueue, queueDone, pendingTasks,
               commitInProgress, results>>
muVars    == <<lock, shared>>
treeState == <<autoGrow, stored, orders, nodeVars, dataVars, asyncVars, muVars, thread,
               failed>>

Threads == Clients \cup Committers
Free    == "free"
NotYet  == {}   \* no commitment, or one to nothing: 32 zero bytes

AtRest(op) == [pc |-> "idle", op |-> op, todo |-> <<>>, stack |-> <<>>,
               before |-> {}, misled |-> FALSE, answer |-> NotYet]

TreeInit ==
    /\ autoGrow \in BOOLEAN /\ stored \in BOOLEAN /\ orders \in Orders
    /\ inner = (<<>> :> [commitment |-> NotYet, dirty |-> TRUE])
    /\ leaves = <<>> /\ nodeIndex = <<>> /\ dataStore = <<>>
    /\ lock = Free /\ shared = [c \in Clients |-> 0]
    /\ asyncMode = FALSE /\ parallel = TRUE
    /\ taskQueue = 0 /\ queueDone = FALSE /\ pendingTasks = 0
    /\ commitInProgress = FALSE /\ results = <<>>
    /\ thread = [a \in Threads |-> AtRest(IF a \in Clients THEN "none" ELSE "off")]
    /\ failed = "no" /\ latest = <<>> /\ missed = {} /\ stale = FALSE

-----------------------------------------------------------------------------
(* Calls and the lock.  A client at "lock" waits in mu.Lock, and a waiting  *)
(* writer lets no new reader in.                                            *)

Goes(a, pc)  == thread' = [thread EXCEPT ![a].pc = pc]
Returns(c)   == thread' = [thread EXCEPT ![c] = AtRest("none")]
Readers      == {c \in Clients : shared[c] > 0}
MayLock      == lock = Free /\ Readers = {}
WriterWaits  == (\E c \in Clients : thread[c].pc = "lock") \/ (\E i \in DOMAIN results : results[i].waiting)
MayShare     == lock = Free /\ ~WriterWaits

Root == inner[<<>>]
Owners == {leaves[p].owner : p \in DOMAIN leaves}

Committing == \E c \in Clients : thread[c].op = "commit" /\ thread[c].pc # "lock"

Call(c, op, pc, todo) ==
    /\ thread[c].pc = "idle" /\ c \in orders["callers"] /\ orders[op] > 0
    /\ orders' = [orders EXCEPT ![op] = @ - 1]
    /\ thread' = [thread EXCEPT ![c] = [AtRest(op) EXCEPT !.pc = pc, !.todo = todo,
                      !.before = IF op # "final" \/ Committing THEN {} ELSE DOMAIN latest]]
    /\ UNCHANGED <<autoGrow, stored, nodeVars, dataVars, asyncVars, muVars, failed>>

StartCommitBatch(c) == \E b \in Updates : Call(c, "commit", "lock", b)
StartEnable(c)      == Call(c, "enable", "lock", <<>>)
StartDisable(c)     == Call(c, "disable", "lock", <<>>)
StartLevel(c)       == Call(c, "level", "lock", <<>>)
StartParallel(c)    == \E on \in BOOLEAN : Call(c, "parallel", "lock", <<on>>)
StartFinalRoot(c)   == Call(c, "final", "check", <<>>)
StartDiff(c)        == Call(c, "diff", "share", <<>>)
StartSave(c)        == stored /\ Call(c, "save", "share", <<>>)

Lock(c, op) == thread[c].op = op /\ thread[c].pc = "lock" /\ MayLock

\* Every level changes the parallel mode with the lock in hand.
SetOptimizationLevel(c) ==
    /\ Lock(c, "level")
    /\ lock' = c /\ Goes(c, "itself")
    /\ UNCHANGED <<autoGrow, stored, orders, nodeVars, dataVars, asyncVars, shared, failed>>

EnableParallelCommits(c) ==
    /\ Lock(c, "parallel")
    /\ parallel' = Head(thread[c].todo) /\ Returns(c)
    /\ UNCHANGED <<autoGrow, stored, orders, nodeVars, dataVars, asyncMode, taskQueue,
                   queueDone, pendingTasks, commitInProgress, results, muVars, failed>>

EnableAsyncCommit(c) ==
    /\ Lock(c, "enable")
    /\ asyncMode' = TRUE
    /\ thread' = [a \in Threads |->
            IF a = c THEN AtRest("none")
            ELSE IF a \in Committers /\ ~asyncMode THEN [thread[a] EXCEPT !.op = "work"]
            ELSE thread[a]]
    /\ UNCHANGED <<autoGrow, stored, orders, nodeVars, dataVars, parallel, taskQueue,
                   queueDone, pendingTasks, commitInProgress, results, muVars, failed>>

DisableAsyncCommit(c) ==
    /\ Lock(c, "disable")
    /\ asyncMode' = FALSE
    /\ IF asyncMode THEN Goes(c, "close") ELSE Returns(c)
    /\ UNCHANGED <<autoGrow, stored, orders, nodeVars, dataVars, parallel, taskQueue,
                   queueDone, pendingTasks, commitInProgress, results, muVars, failed>>

\* A channel closed twice is a panic too.
CloseCommitQueue(c) ==
    /\ thread[c].pc = "close"
    /\ queueDone' = TRUE
    /\ failed' = IF queueDone THEN "panic" ELSE failed
    /\ Goes(c, "wait")
    /\ UNCHANGED <<autoGrow, stored, orders, nodeVars, dataVars, asyncMode, parallel,
                   taskQueue, pendingTasks, commitInProgress, results, muVars>>

WaitForCommit(c) ==
    /\ thread[c].pc = "wait" /\ pendingTasks = 0
    /\ IF thread[c].op = "final" THEN Goes(c, "share") ELSE Returns(c)
    /\ UNCHANGED <<autoGrow, stored, orders, nodeVars, dataVars, asyncVars, muVars, failed>>

\* GetFinalRoot waits only if it finds a commit in progress.
CheckProgress(c) ==
    /\ thread[c].pc = "check"
    /\ thread' = [thread EXCEPT ![c].pc = IF commitInProgress THEN "wait" ELSE "share",
                                ![c].misled = ~commitInProgress /\ pendingTasks > 0]
    /\ UNCHANGED <<autoGrow, stored, orders, nodeVars, dataVars, asyncVars, muVars, failed>>

\* RLock in GetFinalRoot, GetDiff and SaveToDisk.
Share(c) ==
    /\ thread[c].pc = "share" /\ MayShare
    /\ shared' = [shared EXCEPT ![c] = 1]
    /\ thread' = [thread EXCEPT ![c].pc = IF thread[c].op = "final" THEN "unshare" ELSE "again",
                                ![c].answer = Root.commitment]
    /\ UNCHANGED <<autoGrow, stored, orders, nodeVars, dataVars, asyncVars, lock, failed>>

\* GetDiff and SaveToDisk call GetRoot, which locks for reading once more.
ShareAgain(c) ==
    /\ thread[c].pc = "again" /\ MayShare
    /\ Goes(c, "unshare")
    /\ UNCHANGED <<autoGrow, stored, orders, nodeVars, dataVars, asyncVars, muVars, failed>>

Unshare(c) ==
    /\ thread[c].pc = "unshare"
    /\ shared' = [shared EXCEPT ![c] = 0]
    /\ Returns(c)
    /\ UNCHANGED <<autoGrow, stored, orders, nodeVars, dataVars, asyncVars, lock, failed>>

-----------------------------------------------------------------------------
(* CommitBatch: inserting.                                                  *)

Children(p) == {i \in 0 .. Width - 1 : Append(p, i) \in DOMAIN inner \cup DOMAIN leaves}
MayGrow == autoGrow /\ Levels < MaxLevels
NeedsDepthExpansion == MayGrow /\ Cardinality(Children(<<>>)) >= (Width * 80) \div 100

BeginCommit(c) ==
    /\ Lock(c, "commit")
    /\ lock' = c
    /\ Goes(c, IF NeedsDepthExpansion THEN "itself" ELSE "insert")
    /\ UNCHANGED <<autoGrow, stored, orders, nodeVars, dataVars, asyncVars, shared, failed>>

\* The updates are a map, in no order.
Take(c, u) == [thread EXCEPT ![c].todo = Restrict(@, DOMAIN @ \ {u})]

Parent(u) == SubSeq(PathOf[u], 1, Levels - 1)
Recomputing == {a \in Threads : thread[a].pc = "compute"}

\* The store refuses the data: the batch ends here, half inserted.
PutFails(c) ==
    /\ thread[c].pc = "insert" /\ thread[c].todo # <<>> /\ stored
    /\ orders["fail"] > 0 /\ orders' = [orders EXCEPT !["fail"] = @ - 1]
    /\ missed' = missed \cup {u \in Owners : leaves[nodeIndex[u]].dirty}
    /\ lock' = Free /\ Returns(c)
    /\ UNCHANGED <<autoGrow, stored, inner, leaves, nodeIndex, stale, dataVars, asyncVars,
                   shared, failed>>

\* The place is taken by another user.
Collides(u) == PathOf[u] \in DOMAIN leaves /\ leaves[PathOf[u]].owner # u
ShouldExpandLeaf(u) == Cardinality(Children(Parent(u))) >= (Width + 1) \div 2

Insert(c, u) ==
    LET p == PathOf[u]
        new == [owner |-> u, data |-> thread[c].todo[u], dirty |-> TRUE, commitment |-> NotYet]
        path == {SubSeq(p, 1, n) : n \in 0 .. Levels - 1} \ DOMAIN inner
    IN  /\ inner' = [n \in path |-> [commitment |-> NotYet, dirty |-> TRUE]] @@ inner
        /\ leaves' = IF p \in DOMAIN leaves
                     THEN [leaves EXCEPT ![p].data = new.data, ![p].dirty = TRUE]
                     ELSE (p :> new) @@ leaves
        /\ nodeIndex' = IF p \in DOMAIN leaves THEN nodeIndex ELSE (u :> p) @@ nodeIndex
        /\ thread' = [Take(c, u) EXCEPT ![c].pc = "mark",
                          ![c].stack = [n \in 1 .. Levels |-> SubSeq(p, 1, n - 1)]]

\* Put, then insert.  expandLeaf wants a deeper tree: either expandDepth, which
\* waits for the lock, or nothing is done and insert calls itself for ever.
InsertNext(c) ==
    /\ thread[c].pc = "insert"
    /\ \E u \in DOMAIN thread[c].todo :
        LET data == thread[c].todo[u]
            expand == Collides(u) /\ ShouldExpandLeaf(u)
        IN  /\ dataStore' = IF stored THEN (u :> data) @@ dataStore ELSE dataStore
            /\ IF expand
               THEN /\ Goes(c, IF MayGrow THEN "itself" ELSE "insert")
                    /\ failed' = IF MayGrow THEN "no" ELSE "overflow"
                    /\ UNCHANGED <<nodeVars, latest>>
               ELSE /\ Insert(c, u)
                    /\ latest' = (u :> data) @@ latest
                    /\ missed' = IF Recomputing = {} THEN missed \ {u} ELSE missed \cup {u}
                    /\ UNCHANGED <<stale, failed>>
    /\ UNCHANGED <<autoGrow, stored, orders, asyncVars, muVars>>

\* Mutant of MarkDirty: the root alone is marked.
MarkDirtyRoot(c) ==
    /\ thread[c].pc = "mark"
    /\ inner' = [inner EXCEPT ![<<>>].dirty = TRUE]
    /\ thread' = [thread EXCEPT ![c].stack = Tail(@),
                      ![c].pc = IF Len(thread[c].stack) = 1 THEN "insert" ELSE "mark"]
    /\ UNCHANGED <<autoGrow, stored, orders, leaves, nodeIndex, missed, stale, dataVars,
                   asyncVars, muVars, failed>>

\* markDirtyPath, from the root down.
MarkDirty(c) ==
    /\ thread[c].pc = "mark"
    /\ inner' = [inner EXCEPT ![Head(thread[c].stack)].dirty = TRUE]
    /\ thread' = [thread EXCEPT ![c].stack = Tail(@),
                      ![c].pc = IF Len(thread[c].stack) = 1 THEN "insert" ELSE "mark"]
    /\ missed' = IF Recomputing = {} THEN missed
                ELSE missed \cup {u \in Owners : Last(thread[c].stack) = Parent(u)}
    /\ UNCHANGED <<autoGrow, stored, orders, leaves, nodeIndex, stale, dataVars, asyncVars,
                   muVars, failed>>

\* The recomputation of a node, with the children still to be visited.  For a
\* caller they are those that are there; a worker looks at one after the other,
\* and meanwhile new ones may come.
Frame(node, left) == [node |-> node, left |-> left, dirty |-> {}, again |-> {},
                value |-> NotYet, pc |-> "visit"]
Enter(a, p) == Frame(p, IF a \in Clients THEN Children(p) ELSE 0 .. Width - 1)

\* All are inserted: the caller recomputes, or leaves it to the workers.
Recompute(a) ==
    thread' = [thread EXCEPT ![a].pc = "compute", ![a].stack = <<Enter(a, <<>>)>>]

RecomputeHere(c) ==
    /\ thread[c].pc = "insert" /\ thread[c].todo = <<>> /\ ~asyncMode
    /\ Recompute(c)
    /\ UNCHANGED <<autoGrow, stored, orders, nodeVars, dataVars, asyncVars, muVars, failed>>

Enqueue(c) ==
    /\ thread[c].pc = "insert" /\ thread[c].todo = <<>> /\ asyncMode
    /\ IF queueDone
       THEN /\ failed' = "panic" /\ UNCHANGED <<taskQueue, pendingTasks, commitInProgress, lock, thread>>
       ELSE IF taskQueue < TaskLimit
       THEN /\ taskQueue' = taskQueue + 1 /\ pendingTasks' = pendingTasks + 1
            /\ commitInProgress' = TRUE
            /\ lock' = Free /\ Returns(c) /\ UNCHANGED failed
       ELSE /\ commitInProgress' = FALSE
            /\ Recompute(c) /\ UNCHANGED <<taskQueue, pendingTasks, lock, failed>>
    /\ UNCHANGED <<autoGrow, stored, orders, nodeVars, dataVars, asyncMode, parallel,
                   queueDone, results, shared>>

-----------------------------------------------------------------------------
(* recomputeCommitments and its parallel variant, by the caller or a        *)
(* worker: depth first, with a frame for each node being processed.  The    *)
(* parallel variant takes the inner children in any order, if they are many.*)

Parallel(a)   == parallel /\ a \in Clients
Top(a)        == Last(thread[a].stack)
InParallel(a) ==
    /\ Parallel(a)
    /\ Cardinality({i \in Children(Top(a).node) : Append(Top(a).node, i) \in DOMAIN inner})
          >= MinNodesForParallel
Replace(a, f) == thread' = [thread EXCEPT ![a].stack = Append(Front(@), f)]
In(a, pc)     == thread[a].pc = "compute" /\ thread[a].stack # <<>> /\ Top(a).pc = pc

\* A child is skipped, collected (a dirty leaf) or descended into.
Visit(a) ==
    /\ In(a, "visit") /\ Top(a).left # {}
    /\ \E i \in Top(a).left :
        LET f == [Top(a) EXCEPT !.left = @ \ {i}]
            p == Append(f.node, i)
        IN  /\ InParallel(a) \/ \A j \in Top(a).left : i <= j
            /\ IF p \in DOMAIN inner
               THEN thread' = [thread EXCEPT ![a].stack = Append(Front(@), f) \o <<Enter(a, p)>>]
               ELSE Replace(a, IF p \in DOMAIN leaves /\ leaves[p].dirty
                               THEN [f EXCEPT !.dirty = @ \cup {p}] ELSE f)
    /\ UNCHANGED <<autoGrow, stored, orders, nodeVars, dataVars, asyncVars, muVars, failed>>

CommitLeaf(a) ==
    /\ In(a, "visit") /\ Top(a).left = {} /\ Top(a).dirty # {}
    /\ LET p == CHOOSE q \in Top(a).dirty : TRUE
       IN  /\ leaves' = [leaves EXCEPT ![p].commitment = {leaves[p].owner}, ![p].dirty = FALSE]
           /\ Replace(a, [Top(a) EXCEPT !.dirty = @ \ {p}])
    /\ UNCHANGED <<autoGrow, stored, orders, inner, nodeIndex, missed, stale, dataVars,
                   asyncVars, muVars, failed>>

\* Inner children that were found dirty after they had been processed.
CommitAgain(a) ==
    /\ In(a, "visit") /\ Top(a).left = {} /\ Top(a).dirty = {} /\ Top(a).again # {}
    /\ LET p == CHOOSE q \in Top(a).again : TRUE
       IN  thread' = [thread EXCEPT ![a].stack =
               Append(Front(@), [Top(a) EXCEPT !.again = @ \ {p}])
                   \o <<Frame(p, {})>>]
    /\ UNCHANGED <<autoGrow, stored, orders, nodeVars, dataVars, asyncVars, muVars, failed>>

ChildHash(p) ==
    IF p \in DOMAIN inner THEN inner[p].commitment
    ELSE IF p \in DOMAIN leaves THEN leaves[p].commitment ELSE NotYet

\* Commit: the hashes of the children are read, the commitment is set, the
\* mark is cleared.
ReadNode(a) ==
    /\ In(a, "visit") /\ Top(a).left = {} /\ Top(a).dirty = {} /\ Top(a).again = {}
    /\ Replace(a, IF inner[Top(a).node].dirty
                  THEN [Top(a) EXCEPT !.pc = "write",
                            !.value = UNION {ChildHash(Append(Top(a).node, i)) : i \in 0 .. Width - 1}]
                  ELSE [Top(a) EXCEPT !.pc = "pop"])
    /\ UNCHANGED <<autoGrow, stored, orders, nodeVars, dataVars, asyncVars, muVars, failed>>

WriteNode(a) ==
    /\ In(a, "write")
    /\ inner' = [inner EXCEPT ![Top(a).node].commitment = Top(a).value]
    /\ stale' = (stale /\ Top(a).node # <<>>)
    /\ Replace(a, [Top(a) EXCEPT !.pc = "clear"])
    /\ UNCHANGED <<autoGrow, stored, orders, leaves, nodeIndex, missed, dataVars, asyncVars,
                   muVars, failed>>

ClearNode(a) ==
    /\ In(a, "clear")
    /\ inner' = [inner EXCEPT ![Top(a).node].dirty = FALSE]
    /\ Replace(a, [Top(a) EXCEPT !.pc = "pop"])
    /\ UNCHANGED <<autoGrow, stored, orders, leaves, nodeIndex, missed, stale, dataVars,
                   asyncVars, muVars, failed>>

\* Back to the parent, which looks at the child's mark unless it is parallel.
PopNode(a) ==
    /\ In(a, "pop")
    /\ LET below == Front(thread[a].stack)
           dirty == inner[Top(a).node].dirty /\ ~Parallel(a)
       IN  thread' = [thread EXCEPT
               ![a].stack = IF below = <<>> THEN <<>>
                            ELSE [below EXCEPT ![Len(below)].again =
                                      IF dirty THEN @ \cup {Top(a).node} ELSE @],
               ![a].pc = IF below = <<>> THEN "computed" ELSE @]
    /\ UNCHANGED <<autoGrow, stored, orders, nodeVars, dataVars, asyncVars, muVars, failed>>

\* A caller unlocks and returns.
CommitReturns(c) ==
    /\ thread[c].pc = "computed"
    /\ lock' = Free /\ Returns(c)
    /\ UNCHANGED <<autoGrow, stored, orders, nodeVars, dataVars, asyncVars, shared, failed>>

-----------------------------------------------------------------------------
(* Workers, and the goroutine that puts a result into the root.             *)

TakeCommit(w) ==
    /\ thread[w].op = "work" /\ thread[w].pc = "idle" /\ taskQueue > 0
    /\ taskQueue' = taskQueue - 1
    /\ thread' = [thread EXCEPT ![w].pc = "compute", ![w].stack = <<Enter(w, <<>>)>>]
    /\ UNCHANGED <<autoGrow, stored, orders, nodeVars, dataVars, asyncMode, parallel,
                   queueDone, pendingTasks, commitInProgress, results, muVars, failed>>

Report(w) ==
    /\ thread[w].pc = "computed"
    /\ results' = Append(results, [root |-> Root.commitment, waiting |-> FALSE])
    /\ Goes(w, "done")
    /\ UNCHANGED <<autoGrow, stored, orders, nodeVars, dataVars, asyncMode, parallel,
                   taskQueue, queueDone, pendingTasks, commitInProgress, muVars, failed>>

\* Mutant of CommitDone: the worker goes on without Done.
CommitDoneUncounted(w) ==
    /\ thread[w].pc = "done"
    /\ Goes(w, "idle")
    /\ UNCHANGED <<autoGrow, stored, orders, nodeVars, dataVars, asyncVars, muVars, failed>>

CommitDone(w) ==
    /\ thread[w].pc = "done"
    /\ pendingTasks' = pendingTasks - 1
    /\ Goes(w, "idle")
    /\ UNCHANGED <<autoGrow, stored, orders, nodeVars, dataVars, asyncMode, parallel,
                   taskQueue, queueDone, commitInProgress, results, muVars, failed>>

WorkerExits(w) ==
    /\ thread[w].op = "work" /\ thread[w].pc = "idle" /\ taskQueue = 0 /\ queueDone
    /\ thread' = [thread EXCEPT ![w] = AtRest("off")]
    /\ UNCHANGED <<autoGrow, stored, orders, nodeVars, dataVars, asyncVars, muVars, failed>>

ResultWaits(i) ==
    /\ ~MayLock /\ ~results[i].waiting
    /\ results' = [results EXCEPT ![i].waiting = TRUE]
    /\ UNCHANGED <<autoGrow, stored, orders, nodeVars, dataVars, asyncMode, parallel,
                   taskQueue, queueDone, pendingTasks, commitInProgress, muVars, thread, failed>>

\* The worker has set the root itself; this may put an older one back.
ApplyResult(i) ==
    /\ MayLock
    /\ inner' = [inner EXCEPT ![<<>>].commitment = results[i].root]
    /\ stale' = (stale \/ results[i].root # Root.commitment)
    /\ commitInProgress' = FALSE
    /\ results' = RemoveAt(results, i)
    /\ UNCHANGED <<autoGrow, stored, orders, leaves, nodeIndex, missed, dataVars, asyncMode,
                   parallel, taskQueue, queueDone, pendingTasks, muVars, thread, failed>>

-----------------------------------------------------------------------------
StartCall(c) ==
    StartCommitBatch(c) \/ StartEnable(c) \/ StartDisable(c) \/ StartLevel(c)
    \/ StartParallel(c) \/ StartFinalRoot(c) \/ StartDiff(c) \/ StartSave(c)

ClientStep(c) ==
    \/ SetOptimizationLevel(c) \/ EnableParallelCommits(c) \/ EnableAsyncCommit(c)
    \/ DisableAsyncCommit(c) \/ CloseCommitQueue(c) \/ WaitForCommit(c)
    \/ CheckProgress(c) \/ Share(c) \/ ShareAgain(c) \/ Unshare(c)
    \/ BeginCommit(c) \/ InsertNext(c) \/ MarkDirty(c) \/ RecomputeHere(c) \/ Enqueue(c)
    \/ CommitReturns(c)

ComputeStep(a) ==
    \/ Visit(a) \/ CommitLeaf(a) \/ CommitAgain(a)
    \/ ReadNode(a) \/ WriteNode(a) \/ ClearNode(a) \/ PopNode(a)

WorkerStep(w) == TakeCommit(w) \/ Report(w) \/ CommitDone(w) \/ WorkerExits(w)

ThreadStep(a) ==
    /\ failed = "no"
    /\ \/ ComputeStep(a)
       \/ a \in Clients /\ ClientStep(a)
       \/ a \in Committers /\ WorkerStep(a)

ResultStep == failed = "no" /\ \E i \in DOMAIN results : ResultWaits(i) \/ ApplyResult(i)

TreeNext ==
    \/ failed = "no" /\ \E c \in Clients : StartCall(c) \/ PutFails(c)
    \/ \E a \in Threads : ThreadStep(a)
    \/ ResultStep

\* Goroutines run on; nobody has to make a call, and no Put has to fail.
TreeFairness == (\A a \in Threads : WF_treeState(ThreadStep(a))) /\ WF_treeState(ResultStep)
TreeSpec == TreeInit /\ [][TreeNext]_treeState /\ TreeFairness

-----------------------------------------------------------------------------
(* Properties.                                                              *)

\* Get: the user's leaf is found in nodeIndex, its data in memory or the store.
Readable(u) == u \in DOMAIN nodeIndex
Get(u)      == IF stored THEN dataStore[u] ELSE leaves[nodeIndex[u]].data

\* generateProof: the commitments from the root to the leaf's parent.
ProofPath(u) == {inner[SubSeq(PathOf[u], 1, n)].commitment : n \in 0 .. Levels - 1}

Alone(u)   == \A v \in Members \ {u} : PathOf[v] # PathOf[u]
Covered(u) == \A seen \in ProofPath(u) : u \in seen
Calm == /\ failed = "no" /\ taskQueue = 0 /\ results = <<>>
        /\ \A a \in Threads : thread[a].pc \in {"idle", "lock", "share"}

\* When no batch is under way and no task is left, every user in the tree is
\* read with the data committed last and stands in the root and in each
\* commitment of the proof for it, whatever the batches were, whoever
\* recomputed and in which order the marks were set.  GetFinalRoot returns a
\* root with every user committed before the call.  Not so for users that
\* share a place, users inserted while a worker recomputed without the lock,
\* and after a result has put an older root back.
TreeHolds ==
    /\ Calm => \A u \in DOMAIN latest :
            Alone(u) => /\ Readable(u) /\ Get(u) = latest[u]
                        /\ stale \/ u \in missed \/ Covered(u)
    /\ \A c \in Clients :
            thread[c].op = "final" /\ thread[c].pc = "unshare" /\ ~stale /\ ~thread[c].misled
            => \A u \in thread[c].before : Alone(u) => u \in missed \cup thread[c].answer

\* Every call returns and every task is done, unless a call waits for the lock
\* it holds (SetOptimizationLevel and growing the tree; GetDiff and SaveToDisk when
\* a writer comes between their two RLocks) or the program has ended.
Wedged == \E c \in Clients :
    thread[c].pc = "itself" \/ (thread[c].pc = "again" /\ WriterWaits)
AllDone == taskQueue = 0 /\ pendingTasks = 0 /\ results = <<>>
           /\ \A c \in Clients : thread[c].pc = "idle"
CommitsEnd == ~AllDone ~> (AllDone \/ Wedged \/ failed # "no")
=============================================================================
