----------------------------- MODULE VerkleCommits -----------------------------
(***************************************************************************)
(* The deferred commitments of v2-verkle-tree-test/optimized: calls insert *)
(* leaves under treeMu and queue a task; workers take mu, hash the         *)
(* children of the root and commit to the hashes.  Children keep their     *)
(* hash until they are marked dirty, and marking holds treeMu, not mu.     *)
(*                                                                         *)
(* The seven levels of inner nodes below the root are one level here: a    *)
(* group is a child of the root with all its leaves.  The hash of a leaf   *)
(* is the hash of its user alone, so the hash of a group is the set of its *)
(* users.  The configuration is that of NewConfig: AsyncMode, not HashOnly.*)
(*                                                                         *)
(* Nodes are read and written without synchronisation between the two      *)
(* locks; the reads and writes of a field are single steps in any order    *)
(* the locks allow.                                                        *)
(***************************************************************************)
EXTENDS Integers, Sequences, FiniteSets, SequencesExt

CONSTANTS
  Users,
  Groups,       \* children of the root, 1 .. NodeWidth (128)
  GroupOf,      \* the child below which the leaf of a user stands
  Batches,      \* what CommitBatch is called with: sequences of users
  Callers,
  Workers,      \* commitWorker goroutines
  QueueCap,     \* capacity of commitQueue (100)
  MaxCalls      \* bound on the calls

Actors == Callers \cup Workers
Nobody == "nobody"

ASSUME VerkleAssumption ==
  /\ IsFiniteSet(Groups) /\ Groups = 1 .. Cardinality(Groups)
  /\ GroupOf \in [Users -> Groups]
  /\ Batches \subseteq Seq(Users) \ {<<>>}
  /\ IsFiniteSet(Workers) /\ Callers \cap Workers = {} /\ Nobody \notin Actors
  /\ QueueCap \in Nat \ {0}
  /\ MaxCalls \in Nat

Unset  == [kind |-> "unset"]

VARIABLES
  members,      \* the users with a leaf below each child of the root
  created,      \* the children of the root that exist
  hash,         \* commitment of each child: the users it covers, or Unset
  commitment,   \* root.commitment: Unset, a Blake3 hash or a KZG commitment
  dirty,        \* root.dirty
  treeMu,       \* who holds treeMu
  mu, readers,  \* who holds mu for writing and for reading
  queued,       \* tasks in commitQueue
  closed,       \* is commitQueue closed?
  commitWG,
  calls,        \* how many calls were made
  actor,        \* the call or task each actor is in
  overtaken     \* history: groups whose hash was being computed when a leaf came

treeVars == <<members, created, hash, commitment, dirty, overtaken>>
lockVars == <<treeMu, mu, readers>>
taskVars == <<queued, closed, commitWG, calls>>
vars     == <<treeVars, lockVars, taskVars, actor>>

\* pc: where the actor is; todo: users to insert; values: the child hashes it
\* has; seen: the users it read below the child it is hashing; answer: what
\* GetFinalRoot returned; crossed (history): was an insert under way meanwhile?
Begun(kind) == [pc |-> "idle", kind |-> kind, todo |-> <<>>, values |-> <<>>,
                seen |-> {}, answer |-> Unset, crossed |-> FALSE]
Resting(a)  == Begun(IF a \in Workers THEN "work" ELSE "none")

Init ==
  /\ members = [g \in Groups |-> {}] /\ created = {}
  /\ hash = [g \in Groups |-> Unset]
  /\ commitment = Unset /\ dirty = TRUE
  /\ treeMu = Nobody /\ mu = Nobody /\ readers = {}
  /\ queued = 0 /\ closed = FALSE /\ commitWG = 0 /\ calls = 0
  /\ actor = [a \in Actors |-> Resting(a)]
  /\ overtaken = {}

Goto(a, pc)     == actor' = [actor EXCEPT ![a] = IF pc = "idle" THEN Resting(a)
                                                 ELSE [@ EXCEPT !.pc = pc]]
Idle(a)         == actor[a].pc = "idle"

-----------------------------------------------------------------------------
(* Starting a call.                                                         *)

Inserts == {"insert", "batch"}

Start(c, kind, todo, pc) ==
  /\ Idle(c) /\ ~closed /\ calls < MaxCalls
  /\ calls' = calls + 1
  /\ actor' = [a \in Actors |->
       IF a = c
       THEN [Begun(kind) EXCEPT !.pc = pc, !.todo = todo,
               !.crossed = kind = "final" /\ \E d \in Callers : actor[d].kind \in Inserts]
       ELSE [actor[a] EXCEPT !.crossed = @ \/ (actor[a].kind = "final" /\ kind \in Inserts)]]
  /\ UNCHANGED <<treeVars, lockVars, queued, closed, commitWG>>

StartInsert(c)   == \E u \in Users : Start(c, "insert", <<u>>, "lock")
StartBatch(c)    == \E us \in Batches : Start(c, "batch", us, "lock")
StartGetRoot(c)  == Start(c, "root", <<>>, "rlock")
StartGetFinal(c) == Start(c, "final", <<>>, "wait")
\* Close comes last, when nobody uses the tree any more.
StartClose(c)    == (\A d \in Callers : Idle(d)) /\ Start(c, "close", <<>>, "wait")

-----------------------------------------------------------------------------
(* insert, under treeMu.                                                    *)

LockTree(c) ==
  /\ actor[c].pc = "lock" /\ treeMu = Nobody
  /\ treeMu' = c
  /\ Goto(c, "descend")
  /\ UNCHANGED <<treeVars, mu, readers, taskVars>>

Group(c) == GroupOf[Head(actor[c].todo)]

\* The root is marked on the way down, before the leaf is there.
Descend(c) ==
  /\ actor[c].pc = "descend"
  /\ created' = created \cup {Group(c)}
  /\ dirty' = TRUE /\ commitment' = Unset
  /\ Goto(c, "leaf")
  /\ UNCHANGED <<members, hash, overtaken, lockVars, taskVars>>

\* Is somebody between reading the leaves of g and keeping their hash?
Reading(g) ==
  \E a \in Actors : actor[a].pc = "keep" /\ Len(actor[a].values) + 1 = g

SetLeaf(c) ==
  /\ actor[c].pc = "leaf"
  /\ members' = [members EXCEPT ![Group(c)] = @ \cup {Head(actor[c].todo)}]
  /\ overtaken' = IF Reading(Group(c)) THEN overtaken \cup {Group(c)} ELSE overtaken
  /\ Goto(c, "markroot")
  /\ UNCHANGED <<created, hash, commitment, dirty, lockVars, taskVars>>

\* markDirtyPath: the root first, then the nodes below it.
MarkRoot(c) ==
  /\ actor[c].pc = "markroot"
  /\ dirty' = TRUE /\ commitment' = Unset
  /\ Goto(c, "markchild")
  /\ UNCHANGED <<members, created, hash, overtaken, lockVars, taskVars>>

\* Mutant of MarkChild: the child is marked dirty but keeps its hash.
MarkChildKept(c) ==
  /\ actor[c].pc = "markchild"
  /\ actor' = [actor EXCEPT ![c].todo = Tail(@),
                            ![c].pc = IF Len(actor[c].todo) > 1 THEN "descend"
                                      ELSE IF actor[c].kind = "insert" THEN "unlock"
                                      ELSE "remark"]
  /\ UNCHANGED <<treeVars, lockVars, taskVars>>

MarkChild(c) ==
  /\ actor[c].pc = "markchild"
  /\ hash' = [hash EXCEPT ![Group(c)] = Unset]
  /\ actor' = [actor EXCEPT ![c].todo = Tail(@),
                            ![c].pc = IF Len(actor[c].todo) > 1 THEN "descend"
                                      ELSE IF actor[c].kind = "insert" THEN "unlock"
                                      ELSE "remark"]
  /\ UNCHANGED <<members, created, commitment, dirty, overtaken, lockVars, taskVars>>

\* CommitBatch marks the root once more.
RemarkRoot(c) ==
  /\ actor[c].pc = "remark"
  /\ dirty' = TRUE /\ commitment' = Unset
  /\ Goto(c, "send")
  /\ UNCHANGED <<members, created, hash, overtaken, lockVars, taskVars>>

\* Insert queues its task after it unlocked, CommitBatch returns unlocking.
UnlockTree(c) ==
  /\ actor[c].pc = "unlock"
  /\ treeMu' = Nobody
  /\ Goto(c, IF actor[c].kind = "insert" THEN "send" ELSE "idle")
  /\ UNCHANGED <<treeVars, mu, readers, taskVars>>

AfterSend(c) == IF actor[c].kind = "insert" THEN "idle" ELSE "unlock"

Send(c) ==
  /\ actor[c].pc = "send" /\ queued < QueueCap
  /\ queued' = queued + 1 /\ commitWG' = commitWG + 1
  /\ Goto(c, AfterSend(c))
  /\ UNCHANGED <<treeVars, lockVars, closed, calls>>

\* The queue is full: the count is taken back and the caller commits.
SendFull(c) ==
  /\ actor[c].pc = "send" /\ queued = QueueCap
  /\ Goto(c, "lockmu")
  /\ UNCHANGED <<treeVars, lockVars, taskVars>>

-----------------------------------------------------------------------------
(* computeKZGForRoot under mu, and root.Hash in GetRoot under mu for        *)
(* reading.                                                                 *)

LockMu(a) ==
  /\ actor[a].pc = "lockmu" /\ mu = Nobody /\ readers = {}
  /\ mu' = a
  /\ actor' = [actor EXCEPT ![a].pc = "child", ![a].values = <<>>]
  /\ UNCHANGED <<treeVars, treeMu, readers, taskVars>>

NextChild(a) == Len(actor[a].values) + 1
Keep(a, value, pc) ==
  actor' = [actor EXCEPT ![a].values = Append(@, value), ![a].pc = pc, ![a].seen = {}]

\* A child that does not exist counts as zero; one that kept its hash has it.
TakeChild(a) ==
  /\ actor[a].pc = "child" /\ NextChild(a) \in Groups
  /\ NextChild(a) \in created => hash[NextChild(a)] # Unset
  /\ Keep(a, IF NextChild(a) \in created THEN hash[NextChild(a)].users ELSE {}, "child")
  /\ UNCHANGED <<treeVars, lockVars, taskVars>>

\* Hash: the leaves are read and then the hash of them is kept.
ReadChild(a) ==
  /\ actor[a].pc = "child" /\ NextChild(a) \in created
  /\ hash[NextChild(a)] = Unset
  /\ actor' = [actor EXCEPT ![a].seen = members[NextChild(a)], ![a].pc = "keep"]
  /\ UNCHANGED <<treeVars, lockVars, taskVars>>

KeepChild(a) ==
  /\ actor[a].pc = "keep"
  /\ hash' = [hash EXCEPT ![NextChild(a)] = [kind |-> "blake3", users |-> actor[a].seen]]
  /\ Keep(a, actor[a].seen, "child")
  /\ UNCHANGED <<members, created, commitment, dirty, overtaken, lockVars, taskVars>>

Over(values) == UNION Range(values)

SetCommitment(a) ==
  /\ actor[a].pc = "child" /\ NextChild(a) \notin Groups
  /\ commitment' = [kind  |-> IF actor[a].kind = "root" THEN "blake3" ELSE "kzg",
                    users |-> Over(actor[a].values)]
  /\ actor' = [actor EXCEPT ![a].values = <<>>, ![a].pc = "clear"]
  /\ UNCHANGED <<members, created, hash, dirty, overtaken, lockVars, taskVars>>

ClearDirty(a) ==
  /\ actor[a].pc = "clear"
  /\ dirty' = FALSE
  /\ Goto(a, IF actor[a].kind = "root" THEN "runlock" ELSE "unlockmu")
  /\ UNCHANGED <<members, created, hash, commitment, overtaken, lockVars, taskVars>>

UnlockMu(a) ==
  /\ actor[a].pc = "unlockmu"
  /\ mu' = Nobody
  /\ Goto(a, CASE actor[a].kind = "work"  -> "done"
               [] actor[a].kind = "final" -> "rlock2"
               [] OTHER                   -> AfterSend(a))
  /\ UNCHANGED <<treeVars, treeMu, readers, taskVars>>

-----------------------------------------------------------------------------
(* GetRoot, GetFinalRoot, Close, and the workers.                           *)

\* commitWG.Wait in GetFinalRoot and Close.
Waited(c) ==
  /\ actor[c].pc = "wait" /\ commitWG = 0
  /\ IF actor[c].kind = "close"
     THEN Goto(c, "idle") /\ closed' = TRUE
     ELSE Goto(c, "rlock") /\ UNCHANGED closed
  /\ UNCHANGED <<treeVars, lockVars, queued, commitWG, calls>>

RLock(c, pc) ==
  /\ actor[c].pc = pc /\ mu = Nobody
  /\ readers' = readers \cup {c}
  /\ UNCHANGED <<treeVars, treeMu, mu, taskVars>>

\* GetRoot hashes when there is no commitment.
CheckCommitment(c) ==
  /\ actor[c].kind = "root"
  /\ RLock(c, "rlock")
  /\ Goto(c, IF commitment = Unset THEN "child" ELSE "runlock")

\* GetFinalRoot gives up the lock for reading before it takes that for writing.
CheckDirty(c) ==
  /\ actor[c].kind = "final"
  /\ IF dirty
     THEN /\ actor[c].pc = "rlock" /\ mu = Nobody
          /\ Goto(c, "lockmu")
          /\ UNCHANGED <<treeVars, lockVars, taskVars>>
     ELSE RLock(c, "rlock") /\ Goto(c, "read")

RLockAgain(c) == RLock(c, "rlock2") /\ Goto(c, "read")

ReadFinal(c) ==
  /\ actor[c].pc = "read"
  /\ actor' = [actor EXCEPT ![c].answer = commitment, ![c].pc = "runlock"]
  /\ UNCHANGED <<treeVars, lockVars, taskVars>>

RUnlock(c) ==
  /\ actor[c].pc = "runlock"
  /\ readers' = readers \ {c}
  /\ Goto(c, "idle")
  /\ UNCHANGED <<treeVars, treeMu, mu, taskVars>>

TakeTask(w) ==
  /\ Idle(w) /\ queued > 0
  /\ queued' = queued - 1
  /\ Goto(w, "lockmu")
  /\ UNCHANGED <<treeVars, lockVars, closed, commitWG, calls>>

\* Mutant of TaskDone: the worker leaves without Done.
TaskDoneUncounted(w) ==
  /\ actor[w].pc = "done"
  /\ Goto(w, "idle")
  /\ UNCHANGED <<treeVars, lockVars, taskVars>>

TaskDone(w) ==
  /\ actor[w].pc = "done"
  /\ commitWG' = commitWG - 1
  /\ Goto(w, "idle")
  /\ UNCHANGED <<treeVars, lockVars, queued, closed, calls>>

-----------------------------------------------------------------------------
Begin(c) ==
  StartInsert(c) \/ StartBatch(c) \/ StartGetRoot(c) \/ StartGetFinal(c) \/ StartClose(c)

Compute(a) ==
  LockMu(a) \/ TakeChild(a) \/ ReadChild(a) \/ KeepChild(a) \/ SetCommitment(a)
  \/ ClearDirty(a) \/ UnlockMu(a)

Inserting(c) ==
  LockTree(c) \/ Descend(c) \/ SetLeaf(c) \/ MarkRoot(c) \/ MarkChild(c)
  \/ RemarkRoot(c) \/ UnlockTree(c) \/ Send(c) \/ SendFull(c)

Asking(c) ==
  Waited(c) \/ CheckCommitment(c) \/ CheckDirty(c) \/ RLockAgain(c) \/ ReadFinal(c)
  \/ RUnlock(c)

Work(w) == TakeTask(w) \/ TaskDone(w)

Step(a) ==
  \/ Compute(a)
  \/ a \in Callers /\ (Inserting(a) \/ Asking(a))
  \/ a \in Workers /\ Work(a)

Next == (\E c \in Callers : Begin(c)) \/ (\E a \in Actors : Step(a))

Spec == Init /\ [][Next]_vars

\* Goroutines run on.
Fairness == \A a \in Actors : WF_vars(Step(a))
FairSpec == Spec /\ Fairness

-----------------------------------------------------------------------------
(* Properties.                                                              *)

AllUsers == UNION {members[g] : g \in Groups}
Quiet == commitWG = 0 /\ \A c \in Callers : Idle(c)

\* A root that is right for every group whose hash no insert overtook.
Exact(root) ==
  /\ root.kind = "kzg"
  /\ \A u \in AllUsers : GroupOf[u] \in overtaken \/ u \in root.users

\* When all calls have returned and the WaitGroup is at zero, the root is a
\* KZG commitment to every user inserted, and so is what GetFinalRoot returns
\* if no insert was under way during the call: never the temporary Blake3 hash
\* that GetRoot leaves, whatever order the tasks were taken in and whoever
\* hashed meanwhile.  The exception is the race of Hash with insert: a leaf that
\* comes between reading a child and keeping its hash.
RootsCover ==
  AllUsers # {} =>
    /\ Quiet => Exact(commitment)
    /\ \A c \in Callers :
         actor[c].kind = "final" /\ actor[c].pc = "runlock" /\ ~actor[c].crossed
           => Exact(actor[c].answer)

\* Calls that overlap all return and the WaitGroup comes down to zero: the
\* locks are taken in one order, a full queue is no reason to wait, and every
\* count is taken back once.
ComesToRest == ~Quiet ~> Quiet
=============================================================================
