------------------------- MODULE VerkleCommits_proofs -------------------------
(***************************************************************************)
(* Whatever the calls and the order of their steps, for any number of       *)
(* callers, workers, users and children of the root and any capacity of the *)
(* queue: once all is quiet the root commits to every user, and so does     *)
(* what GetFinalRoot returns, but for the groups whose hash an insert       *)
(* overtook.                                                                *)
(***************************************************************************)
EXTENDS VerkleCommits, FiniteSetTheorems, SequenceTheorems, TLAPS

Kinds == {"none", "work", "insert", "batch", "root", "final", "close"}
Sending == {"lock", "descend", "leaf", "markroot", "markchild", "remark", "send"}
Places == Sending \cup {"idle", "unlock", "lockmu", "child", "keep", "clear", "unlockmu",
                        "wait", "rlock", "rlock2", "read", "runlock", "done"}

Hashes      == {Unset} \cup [kind : {"blake3"}, users : SUBSET Users]
Commitments == {Unset} \cup [kind : {"blake3", "kzg"}, users : SUBSET Users]

ActorRecords ==
  [pc : Places, kind : Kinds, todo : Seq(Users), values : Seq(SUBSET Users),
   seen : SUBSET Users, answer : Commitments, crossed : BOOLEAN]

TypeInv ==
  /\ members \in [Groups -> SUBSET Users] /\ created \in SUBSET Groups
  /\ hash \in [Groups -> Hashes]
  /\ commitment \in Commitments
  /\ queued \in Nat /\ commitWG \in Nat
  /\ actor \in [Actors -> ActorRecords]
  /\ \A g \in Groups : \A u \in members[g] : GroupOf[u] = g

\* Where a call or a task of each kind can be.
PlaceInv ==
  \A a \in Actors :
    /\ actor[a].kind = "work" <=> a \in Workers
    /\ actor[a].pc = "idle" => actor[a].kind \in {"none", "work"}
    /\ actor[a].pc \in Sending \cup {"unlock"} => actor[a].kind \in Inserts
    /\ actor[a].pc \in {"lockmu", "unlockmu"} => actor[a].kind \in Inserts \cup {"final", "work"}
    /\ actor[a].pc \in {"rlock", "runlock"} => actor[a].kind \in {"root", "final"}
    /\ actor[a].pc \in {"rlock2", "read"} => actor[a].kind = "final"
    /\ actor[a].pc \in {"child", "keep", "clear"} =>
         actor[a].kind \in Inserts \cup {"final", "work", "root"}
    /\ actor[a].pc = "wait" => actor[a].kind \in {"final", "close"}
    /\ actor[a].pc = "done" => actor[a].kind = "work"
    /\ actor[a].pc \in Sending \ {"remark", "send"} => actor[a].todo # <<>>

\* mu excludes: one who commits holds it alone, the others share it.
LockInv ==
  /\ \A a \in Actors :
       /\ actor[a].kind # "root" /\ actor[a].pc \in {"child", "keep", "clear"} => mu = a
       /\ actor[a].pc = "unlockmu" => mu = a
       /\ actor[a].kind = "root" /\ actor[a].pc \in {"child", "keep", "clear"} => a \in readers
       /\ actor[a].pc \in {"read", "runlock"} => a \in readers
  /\ readers # {} => mu = Nobody

\* The WaitGroup counts the tasks in the queue and those the workers are at.
Busy == {w \in Workers : ~Idle(w)}
CountInv == commitWG = queued + Cardinality(Busy)

\* The hash kept of a child is that of its leaves, unless the insert that came
\* since is about to mark the child or has overtaken the hashing.
Marking(c, g) == actor[c].pc \in {"markroot", "markchild"} /\ Group(c) = g
HashInv ==
  /\ \A g \in Groups : members[g] # {} => g \in created
  /\ \A c \in Callers : actor[c].pc = "leaf" => Group(c) \in created
  /\ \A g \in Groups \ overtaken : hash[g] # Unset =>
       members[g] \subseteq hash[g].users \/ \E c \in Callers : Marking(c, g)
  /\ \A a \in Actors : actor[a].pc = "keep" =>
       /\ NextChild(a) \in Groups
       /\ NextChild(a) \in overtaken \/ members[NextChild(a)] \subseteq actor[a].seen

\* Is a commitment still to be begun for what was inserted?
WillSend(c) ==
  /\ actor[c].kind \in Inserts
  /\ \/ actor[c].pc \in Sending \cup {"lockmu"}
     \/ actor[c].kind = "insert" /\ actor[c].pc = "unlock"
Owed ==
  \/ queued > 0
  \/ \E w \in Workers : actor[w].pc = "lockmu"
  \/ \E c \in Callers : WillSend(c)

Hashing(a)    == actor[a].pc \in {"child", "keep"}
Commits(a) == Hashing(a) /\ actor[a].kind # "root"
Good(a) == \A g \in DOMAIN actor[a].values :
             g \in Groups \ overtaken => members[g] \subseteq actor[a].values[g]

\* When no commitment is owed, the last one or the one under way covers all;
\* GetRoot hashes only while one is owed.
CoverInv ==
  /\ ~Owed => \A a \in Actors : Commits(a) => Good(a)
  /\ ~Owed /\ AllUsers # {} => Exact(commitment) \/ \E a \in Actors : Commits(a)
  /\ \A a \in Actors : Hashing(a) /\ actor[a].kind = "root" => Owed \/ AllUsers = {}

\* A GetFinalRoot beside no insert waited until all was committed.
FinalInv ==
  \A c \in Callers : actor[c].kind = "final" /\ ~actor[c].crossed =>
    /\ \A d \in Callers : actor[d].kind \notin Inserts
    /\ actor[c].pc # "wait" => commitWG = 0
    /\ actor[c].pc = "runlock" /\ AllUsers # {} => Exact(actor[c].answer)

VerkleInv ==
  TypeInv /\ PlaceInv /\ LockInv /\ CountInv /\ HashInv /\ CoverInv /\ FinalInv

-----------------------------------------------------------------------------
(* What a step does to the records of the actors.                           *)

Same(a) ==
  /\ actor'[a].kind = actor[a].kind /\ actor'[a].todo = actor[a].todo
  /\ actor'[a].values = actor[a].values /\ actor'[a].seen = actor[a].seen
  /\ actor'[a].answer = actor[a].answer /\ actor'[a].crossed = actor[a].crossed

\* A step that only moves an actor on.
LEMMA GotoNext ==
  ASSUME TypeInv, NEW a \in Actors, NEW pc \in Places \ {"idle"}, Goto(a, pc)
  PROVE  /\ actor' \in [Actors -> ActorRecords]
         /\ \A b \in Actors \ {a} : actor'[b] = actor[b]
         /\ actor'[a].pc = pc /\ Same(a)
<1>1. actor' = [actor EXCEPT ![a] = [actor[a] EXCEPT !.pc = pc]]
  BY DEF Goto
<1>2. actor[a] \in ActorRecords
  BY DEF TypeInv
<1>3. [actor[a] EXCEPT !.pc = pc] \in ActorRecords
  BY <1>2 DEF ActorRecords
<1> QED BY <1>1, <1>2, <1>3 DEF TypeInv, Same, ActorRecords

\* Setting a field to a value of its type.
LEMMA RecordType ==
  ASSUME NEW r \in ActorRecords, NEW pc \in Places
  PROVE  /\ \A todo \in Seq(Users) : [r EXCEPT !.todo = todo, !.pc = pc] \in ActorRecords
         /\ \A seen \in SUBSET Users : [r EXCEPT !.seen = seen, !.pc = pc] \in ActorRecords
         /\ \A values \in Seq(SUBSET Users) :
              /\ [r EXCEPT !.pc = pc, !.values = values] \in ActorRecords
              /\ [r EXCEPT !.values = values, !.pc = pc] \in ActorRecords
              /\ [r EXCEPT !.values = values, !.pc = pc, !.seen = {}] \in ActorRecords
         /\ \A answer \in Commitments :
              [r EXCEPT !.answer = answer, !.pc = pc] \in ActorRecords
BY DEF ActorRecords

\* Some places and values the steps set.
LEMMA PlaceTypes ==
  /\ {"child", "keep", "descend", "unlock", "remark", "clear", "runlock"} \subseteq Places
  /\ <<>> \in Seq(SUBSET Users) /\ {} \in SUBSET Users
BY DEF Places, Sending

\* An idle actor's record.
LEMMA RestingType == ASSUME NEW a \in Actors PROVE Resting(a) \in ActorRecords
BY DEF Resting, Begun, ActorRecords, Places, Sending, Kinds, Commitments

\* A step that ends a call or a task.
LEMMA GotoIdle ==
  ASSUME TypeInv, NEW a \in Actors, Goto(a, "idle")
  PROVE  /\ actor' \in [Actors -> ActorRecords]
         /\ \A b \in Actors \ {a} : actor'[b] = actor[b]
         /\ actor'[a].pc = "idle"
         /\ actor'[a].kind = IF a \in Workers THEN "work" ELSE "none"
<1>1. actor' = [actor EXCEPT ![a] = Resting(a)]
  BY DEF Goto
<1>2. Resting(a).pc = "idle" /\ Resting(a).kind = IF a \in Workers THEN "work" ELSE "none"
  BY DEF Resting, Begun
<1> QED BY <1>1, <1>2, RestingType DEF TypeInv

\* The workers at a task can be counted.
LEMMA BusyType == IsFiniteSet(Busy) /\ Cardinality(Busy) \in Nat
BY VerkleAssumption, FS_Subset, FS_CardinalityType DEF Busy

\* The same after a step.
LEMMA BusyPrime == IsFiniteSet(Busy') /\ Cardinality(Busy') \in Nat
BY VerkleAssumption, FS_Subset, FS_CardinalityType DEF Busy

\* A step that starts and ends no task leaves the busy workers alone.
LEMMA SameBusy ==
  ASSUME \A w \in Workers : actor'[w].pc = "idle" <=> actor[w].pc = "idle"
  PROVE  Busy' = Busy
BY DEF Busy, Idle

\* An insert that is on its way has a user to insert.
LEMMA TodoType ==
  ASSUME TypeInv, PlaceInv, NEW c \in Callers, actor[c].pc \in Sending \ {"remark", "send"}
  PROVE  Head(actor[c].todo) \in Users /\ Group(c) \in Groups
BY VerkleAssumption DEF TypeInv, ActorRecords, PlaceInv, Actors, Group

\* A step that gives an actor another record.
LEMMA SetActor ==
  ASSUME TypeInv, NEW a \in Actors, NEW r \in ActorRecords, actor' = [actor EXCEPT ![a] = r]
  PROVE  /\ actor' \in [Actors -> ActorRecords]
         /\ \A b \in Actors \ {a} : actor'[b] = actor[b]
         /\ actor'[a] = r
BY DEF TypeInv

\* The record of an actor.
LEMMA ActorType == ASSUME TypeInv, NEW a \in Actors PROVE actor[a] \in ActorRecords
BY DEF TypeInv

\* The tail of a sequence of two or more is not empty.
LEMMA TailRemains ==
  ASSUME NEW S, NEW s \in Seq(S), Len(s) > 1 PROVE Tail(s) # <<>>
<1>1. Len(Tail(s)) = Len(s) - 1 /\ Len(s) \in Nat /\ Tail(s) \in Seq(S)
  OBVIOUS
<1>2. Len(Tail(s)) # 0
  BY <1>1
<1> QED BY <1>1, <1>2, EmptySeq

\* What is in a sequence with one more element.
LEMMA Appended ==
  ASSUME NEW S, NEW s \in Seq(S), NEW v \in S, NEW g \in DOMAIN Append(s, v)
  PROVE  \/ g \in DOMAIN s /\ Append(s, v)[g] = s[g]
         \/ g = Len(s) + 1 /\ Append(s, v)[g] = v
OBVIOUS

-----------------------------------------------------------------------------
(* One lemma per action.                                                    *)

LEMMA LockTreeInv == ASSUME VerkleInv, NEW c \in Callers, LockTree(c) PROVE VerkleInv'
<1> USE VerkleAssumption DEF VerkleInv, LockTree, Actors, treeVars, lockVars, taskVars
<1>0. /\ actor' \in [Actors -> ActorRecords] /\ actor[c] \in ActorRecords
      /\ \A b \in Actors \ {c} : actor'[b] = actor[b]
      /\ actor'[c].pc = "descend" /\ Same(c)
  BY GotoNext DEF TypeInv, Places, Sending
<1>1. TypeInv'
  BY <1>0 DEF TypeInv, Hashes, Commitments, Unset
<1>2. PlaceInv'
  BY <1>0 DEF TypeInv, PlaceInv, Same, Inserts, Sending
<1>3. LockInv'
  BY <1>0 DEF TypeInv, PlaceInv, LockInv, Same, Inserts, Sending
<1>4. CountInv'
  BY <1>0, SameBusy DEF CountInv, PlaceInv, Sending
<1>5. HashInv'
  BY <1>0 DEF TypeInv, PlaceInv, LockInv, HashInv, Marking, Group, NextChild, Same,
     Inserts, Sending
<1>6. CoverInv'
  BY <1>0 DEF TypeInv, PlaceInv, LockInv, CoverInv, Owed, WillSend, Commits, Hashing,
     Good, AllUsers, Exact, Same, Inserts, Sending
<1>7. FinalInv'
  BY <1>0 DEF TypeInv, PlaceInv, FinalInv, Exact, AllUsers, Same, Inserts, Sending
<1> QED BY <1>1, <1>2, <1>3, <1>4, <1>5, <1>6, <1>7

LEMMA DescendInv == ASSUME VerkleInv, NEW c \in Callers, Descend(c) PROVE VerkleInv'
<1> USE VerkleAssumption DEF VerkleInv, Descend, Actors, treeVars, lockVars, taskVars
<1>0. /\ actor' \in [Actors -> ActorRecords] /\ actor[c] \in ActorRecords
      /\ \A b \in Actors \ {c} : actor'[b] = actor[b]
      /\ actor'[c].pc = "leaf" /\ Same(c)
  BY GotoNext DEF TypeInv, Places, Sending
<1>todo. Head(actor[c].todo) \in Users /\ Group(c) \in Groups
  BY TodoType DEF Sending
<1>1. TypeInv'
  BY <1>0, <1>todo DEF TypeInv, Commitments
<1>2. PlaceInv'
  BY <1>0 DEF TypeInv, PlaceInv, Same, Inserts, Sending
<1>3. LockInv'
  BY <1>0 DEF TypeInv, PlaceInv, LockInv, Same, Inserts, Sending
<1>4. CountInv'
  BY <1>0, SameBusy DEF CountInv, PlaceInv, Sending
<1>5. HashInv'
  BY <1>0 DEF TypeInv, PlaceInv, LockInv, HashInv, Marking, Group, NextChild, Same,
     Inserts, Sending
<1>6. CoverInv'
  BY <1>0 DEF TypeInv, PlaceInv, LockInv, CoverInv, Owed, WillSend, Commits, Hashing,
     Good, AllUsers, Exact, Same, Inserts, Sending
<1>7. FinalInv'
  BY <1>0 DEF TypeInv, PlaceInv, FinalInv, Exact, AllUsers, Same, Inserts, Sending
<1> QED BY <1>1, <1>2, <1>3, <1>4, <1>5, <1>6, <1>7

LEMMA SetLeafInv == ASSUME VerkleInv, NEW c \in Callers, SetLeaf(c) PROVE VerkleInv'
<1> USE VerkleAssumption DEF VerkleInv, SetLeaf, Actors, treeVars, lockVars, taskVars
<1>0. /\ actor' \in [Actors -> ActorRecords] /\ actor[c] \in ActorRecords
      /\ \A b \in Actors \ {c} : actor'[b] = actor[b]
      /\ actor'[c].pc = "markroot" /\ Same(c)
  BY GotoNext DEF TypeInv, Places, Sending
<1>todo. Head(actor[c].todo) \in Users /\ Group(c) \in Groups
  BY TodoType DEF Sending
<1>1. TypeInv'
  BY <1>0, <1>todo DEF TypeInv, Group
<1>2. PlaceInv'
  BY <1>0 DEF TypeInv, PlaceInv, Same, Inserts, Sending
<1>3. LockInv'
  BY <1>0 DEF TypeInv, PlaceInv, LockInv, Same, Inserts, Sending
<1>4. CountInv'
  BY <1>0, SameBusy DEF CountInv, PlaceInv, Sending
<1>5. HashInv'
  <2>1. \A b \in Actors : actor'[b].pc = "keep" => actor[b].pc = "keep" /\ actor'[b] = actor[b]
    BY <1>0
  <2>2. \A g \in Groups \ {Group(c)} : members'[g] = members[g]
    BY <1>todo DEF TypeInv
  <2>3. Group(c)' = Group(c) /\ Marking(c, Group(c))' /\ Group(c) \in created
    BY <1>0 DEF Group, Same, Marking, HashInv
  <2>4. \A d \in Callers \ {c}, g \in Groups : Marking(d, g)' = Marking(d, g)
    BY <1>0 DEF Marking, Group
  <2>5. ~Marking(c, Group(c)) /\ \A g \in Groups \ {Group(c)} : ~Marking(c, g)
    BY DEF Marking
  <2>6. \A g \in Groups : members'[g] # {} => g \in created'
    BY <2>2, <2>3 DEF HashInv
  <2>7. \A d \in Callers : actor'[d].pc = "leaf" => Group(d)' \in created'
    BY <1>0 DEF HashInv, Group
  <2>8. \A g \in Groups \ overtaken' : hash'[g] # Unset =>
          members'[g] \subseteq hash'[g].users \/ \E d \in Callers : Marking(d, g)'
    BY <2>2, <2>3, <2>4, <2>5 DEF HashInv
  <2>9. ASSUME NEW b \in Actors, actor'[b].pc = "keep"
        PROVE  /\ NextChild(b)' \in Groups
               /\ NextChild(b)' \in overtaken' \/ members'[NextChild(b)'] \subseteq actor'[b].seen
    <3>1. NextChild(b)' = NextChild(b) /\ actor[b].pc = "keep" /\ actor'[b].seen = actor[b].seen
      BY <2>1, <2>9 DEF NextChild
    <3>2. NextChild(b) = Group(c) => Group(c) \in overtaken'
      BY <3>1 DEF Reading, NextChild
    <3> QED BY <2>2, <3>1, <3>2 DEF HashInv
  <2> QED BY <2>6, <2>7, <2>8, <2>9 DEF HashInv
<1>6. CoverInv'
  BY <1>0 DEF TypeInv, PlaceInv, LockInv, CoverInv, Owed, WillSend, Commits, Hashing,
     Good, AllUsers, Exact, Same, Inserts, Sending
<1>7. FinalInv'
  BY <1>0 DEF TypeInv, PlaceInv, FinalInv, Exact, AllUsers, Same, Inserts, Sending
<1> QED BY <1>1, <1>2, <1>3, <1>4, <1>5, <1>6, <1>7

LEMMA MarkRootInv == ASSUME VerkleInv, NEW c \in Callers, MarkRoot(c) PROVE VerkleInv'
<1> USE VerkleAssumption DEF VerkleInv, MarkRoot, Actors, treeVars, lockVars, taskVars
<1>0. /\ actor' \in [Actors -> ActorRecords] /\ actor[c] \in ActorRecords
      /\ \A b \in Actors \ {c} : actor'[b] = actor[b]
      /\ actor'[c].pc = "markchild" /\ Same(c)
  BY GotoNext DEF TypeInv, Places, Sending
<1>1. TypeInv'
  BY <1>0 DEF TypeInv, Hashes, Commitments, Unset
<1>2. PlaceInv'
  BY <1>0 DEF TypeInv, PlaceInv, Same, Inserts, Sending
<1>3. LockInv'
  BY <1>0 DEF TypeInv, PlaceInv, LockInv, Same, Inserts, Sending
<1>4. CountInv'
  BY <1>0, SameBusy DEF CountInv, PlaceInv, Sending
<1>5. HashInv'
  BY <1>0 DEF TypeInv, PlaceInv, LockInv, HashInv, Marking, Group, NextChild, Same,
     Inserts, Sending
<1>6. CoverInv'
  BY <1>0 DEF TypeInv, PlaceInv, LockInv, CoverInv, Owed, WillSend, Commits, Hashing,
     Good, AllUsers, Exact, Same, Inserts, Sending
<1>7. FinalInv'
  BY <1>0 DEF TypeInv, PlaceInv, FinalInv, Exact, AllUsers, Same, Inserts, Sending
<1> QED BY <1>1, <1>2, <1>3, <1>4, <1>5, <1>6, <1>7

LEMMA RemarkRootInv == ASSUME VerkleInv, NEW c \in Callers, RemarkRoot(c) PROVE VerkleInv'
<1> USE VerkleAssumption DEF VerkleInv, RemarkRoot, Actors, treeVars, lockVars, taskVars
<1>0. /\ actor' \in [Actors -> ActorRecords] /\ actor[c] \in ActorRecords
      /\ \A b \in Actors \ {c} : actor'[b] = actor[b]
      /\ actor'[c].pc = "send" /\ Same(c)
  BY GotoNext DEF TypeInv, Places, Sending
<1>1. TypeInv'
  BY <1>0 DEF TypeInv, Hashes, Commitments, Unset
<1>2. PlaceInv'
  BY <1>0 DEF TypeInv, PlaceInv, Same, Inserts, Sending
<1>3. LockInv'
  BY <1>0 DEF TypeInv, PlaceInv, LockInv, Same, Inserts, Sending
<1>4. CountInv'
  BY <1>0, SameBusy DEF CountInv, PlaceInv, Sending
<1>5. HashInv'
  BY <1>0 DEF TypeInv, PlaceInv, LockInv, HashInv, Marking, Group, NextChild, Same,
     Inserts, Sending
<1>6. CoverInv'
  BY <1>0 DEF TypeInv, PlaceInv, LockInv, CoverInv, Owed, WillSend, Commits, Hashing,
     Good, AllUsers, Exact, Same, Inserts, Sending
<1>7. FinalInv'
  BY <1>0 DEF TypeInv, PlaceInv, FinalInv, Exact, AllUsers, Same, Inserts, Sending
<1> QED BY <1>1, <1>2, <1>3, <1>4, <1>5, <1>6, <1>7

LEMMA SendFullInv == ASSUME VerkleInv, NEW c \in Callers, SendFull(c) PROVE VerkleInv'
<1> USE VerkleAssumption DEF VerkleInv, SendFull, Actors, treeVars, lockVars, taskVars
<1>0. /\ actor' \in [Actors -> ActorRecords] /\ actor[c] \in ActorRecords
      /\ \A b \in Actors \ {c} : actor'[b] = actor[b]
      /\ actor'[c].pc = "lockmu" /\ Same(c)
  BY GotoNext DEF TypeInv, Places, Sending
<1>1. TypeInv'
  BY <1>0 DEF TypeInv, Hashes, Commitments, Unset
<1>2. PlaceInv'
  BY <1>0 DEF TypeInv, PlaceInv, Same, Inserts, Sending
<1>3. LockInv'
  BY <1>0 DEF TypeInv, PlaceInv, LockInv, Same, Inserts, Sending
<1>4. CountInv'
  BY <1>0, SameBusy DEF CountInv, PlaceInv, Sending
<1>5. HashInv'
  BY <1>0 DEF TypeInv, PlaceInv, LockInv, HashInv, Marking, Group, NextChild, Same,
     Inserts, Sending
<1>6. CoverInv'
  BY <1>0 DEF TypeInv, PlaceInv, LockInv, CoverInv, Owed, WillSend, Commits, Hashing,
     Good, AllUsers, Exact, Same, Inserts, Sending
<1>7. FinalInv'
  BY <1>0 DEF TypeInv, PlaceInv, FinalInv, Exact, AllUsers, Same, Inserts, Sending
<1> QED BY <1>1, <1>2, <1>3, <1>4, <1>5, <1>6, <1>7

LEMMA ClearDirtyInv == ASSUME VerkleInv, NEW a \in Actors, ClearDirty(a) PROVE VerkleInv'
<1> USE VerkleAssumption DEF VerkleInv, ClearDirty, Actors, treeVars, lockVars, taskVars
<1>0. /\ actor' \in [Actors -> ActorRecords] /\ actor[a] \in ActorRecords
      /\ \A b \in Actors \ {a} : actor'[b] = actor[b]
      /\ actor'[a].pc = (IF actor[a].kind = "root" THEN "runlock" ELSE "unlockmu") /\ Same(a)
  BY GotoNext DEF TypeInv, Places, Sending
<1>1. TypeInv'
  BY <1>0 DEF TypeInv, Hashes, Commitments, Unset
<1>2. PlaceInv'
  BY <1>0 DEF TypeInv, PlaceInv, Same, Inserts, Sending
<1>3. LockInv'
  BY <1>0 DEF TypeInv, PlaceInv, LockInv, Same, Inserts, Sending
<1>4. CountInv'
  BY <1>0, SameBusy DEF CountInv, PlaceInv, Sending
<1>5. HashInv'
  BY <1>0 DEF TypeInv, PlaceInv, LockInv, HashInv, Marking, Group, NextChild, Same,
     Inserts, Sending
<1>6. CoverInv'
  BY <1>0 DEF TypeInv, PlaceInv, LockInv, CoverInv, Owed, WillSend, Commits, Hashing,
     Good, AllUsers, Exact, Same, Inserts, Sending
<1>7. FinalInv'
  BY <1>0 DEF TypeInv, PlaceInv, FinalInv, Exact, AllUsers, Same, Inserts, Sending
<1> QED BY <1>1, <1>2, <1>3, <1>4, <1>5, <1>6, <1>7

LEMMA RLockAgainInv == ASSUME VerkleInv, NEW c \in Callers, RLockAgain(c) PROVE VerkleInv'
<1> USE VerkleAssumption DEF VerkleInv, RLockAgain, RLock, Actors, treeVars, lockVars, taskVars
<1>0. /\ actor' \in [Actors -> ActorRecords] /\ actor[c] \in ActorRecords
      /\ \A b \in Actors \ {c} : actor'[b] = actor[b]
      /\ actor'[c].pc = "read" /\ Same(c)
  BY GotoNext DEF TypeInv, Places, Sending
<1>1. TypeInv'
  BY <1>0 DEF TypeInv, Hashes, Commitments, Unset
<1>2. PlaceInv'
  BY <1>0 DEF TypeInv, PlaceInv, Same, Inserts, Sending
<1>3. LockInv'
  BY <1>0 DEF TypeInv, PlaceInv, LockInv, Same, Inserts, Sending
<1>4. CountInv'
  BY <1>0, SameBusy DEF CountInv, PlaceInv, Sending
<1>5. HashInv'
  BY <1>0 DEF TypeInv, PlaceInv, LockInv, HashInv, Marking, Group, NextChild, Same,
     Inserts, Sending
<1>6. CoverInv'
  BY <1>0 DEF TypeInv, PlaceInv, LockInv, CoverInv, Owed, WillSend, Commits, Hashing,
     Good, AllUsers, Exact, Same, Inserts, Sending
<1>7. FinalInv'
  BY <1>0 DEF TypeInv, PlaceInv, FinalInv, Exact, AllUsers, Same, Inserts, Sending
<1> QED BY <1>1, <1>2, <1>3, <1>4, <1>5, <1>6, <1>7

LEMMA RUnlockInv == ASSUME VerkleInv, NEW c \in Callers, RUnlock(c) PROVE VerkleInv'
<1> USE VerkleAssumption DEF VerkleInv, RUnlock, Actors, treeVars, lockVars, taskVars
<1>0. /\ actor' \in [Actors -> ActorRecords] /\ actor[c] \in ActorRecords
      /\ \A b \in Actors \ {c} : actor'[b] = actor[b]
      /\ actor'[c].pc = "idle" /\ actor'[c].kind = IF c \in Workers THEN "work" ELSE "none"
  BY GotoIdle DEF TypeInv, Places, Sending
<1>1. TypeInv'
  BY <1>0 DEF TypeInv, Hashes, Commitments, Unset
<1>2. PlaceInv'
  BY <1>0 DEF TypeInv, PlaceInv, Same, Inserts, Sending
<1>3. LockInv'
  BY <1>0 DEF TypeInv, PlaceInv, LockInv, Same, Inserts, Sending
<1>4. CountInv'
  BY <1>0, SameBusy DEF CountInv, PlaceInv, Sending
<1>5. HashInv'
  BY <1>0 DEF TypeInv, PlaceInv, LockInv, HashInv, Marking, Group, NextChild, Same,
     Inserts, Sending
<1>6. CoverInv'
  BY <1>0 DEF TypeInv, PlaceInv, LockInv, CoverInv, Owed, WillSend, Commits, Hashing,
     Good, AllUsers, Exact, Same, Inserts, Sending
<1>7. FinalInv'
  BY <1>0 DEF TypeInv, PlaceInv, FinalInv, Exact, AllUsers, Same, Inserts, Sending
<1> QED BY <1>1, <1>2, <1>3, <1>4, <1>5, <1>6, <1>7

LEMMA TakeTaskInv == ASSUME VerkleInv, NEW w \in Workers, TakeTask(w) PROVE VerkleInv'
<1> USE VerkleAssumption DEF VerkleInv, TakeTask, Idle, Actors, treeVars, lockVars, taskVars
<1>0. /\ actor' \in [Actors -> ActorRecords] /\ actor[w] \in ActorRecords
      /\ \A b \in Actors \ {w} : actor'[b] = actor[b]
      /\ actor'[w].pc = "lockmu" /\ Same(w)
  BY GotoNext DEF TypeInv, Places, Sending
<1>1. TypeInv'
  BY <1>0 DEF TypeInv, Hashes, Commitments, Unset
<1>2. PlaceInv'
  BY <1>0 DEF TypeInv, PlaceInv, Same, Inserts, Sending
<1>3. LockInv'
  BY <1>0 DEF TypeInv, PlaceInv, LockInv, Same, Inserts, Sending
<1>4. CountInv'
  <2>1. Busy' = Busy \cup {w} /\ w \notin Busy
    BY <1>0 DEF Busy, Idle
  <2>2. Cardinality(Busy') = Cardinality(Busy) + 1
    BY <2>1, BusyType, FS_AddElement
  <2> QED BY <2>2, BusyType DEF CountInv, TypeInv
<1>5. HashInv'
  BY <1>0 DEF TypeInv, PlaceInv, LockInv, HashInv, Marking, Group, NextChild, Same,
     Inserts, Sending
<1>6. CoverInv'
  BY <1>0 DEF TypeInv, PlaceInv, LockInv, CoverInv, Owed, WillSend, Commits, Hashing,
     Good, AllUsers, Exact, Same, Inserts, Sending
<1>7. FinalInv'
  BY <1>0 DEF TypeInv, PlaceInv, FinalInv, Exact, AllUsers, Same, Inserts, Sending
<1> QED BY <1>1, <1>2, <1>3, <1>4, <1>5, <1>6, <1>7

LEMMA TaskDoneInv == ASSUME VerkleInv, NEW w \in Workers, TaskDone(w) PROVE VerkleInv'
<1> USE VerkleAssumption DEF VerkleInv, TaskDone, Actors, treeVars, lockVars, taskVars
<1>0. /\ actor' \in [Actors -> ActorRecords] /\ actor[w] \in ActorRecords
      /\ \A b \in Actors \ {w} : actor'[b] = actor[b]
      /\ actor'[w].pc = "idle" /\ actor'[w].kind = IF w \in Workers THEN "work" ELSE "none"
  BY GotoIdle DEF TypeInv, Places, Sending
<1>busy. Cardinality(Busy') = Cardinality(Busy) - 1 /\ commitWG > 0
  <2>1. Busy' = Busy \ {w} /\ w \in Busy
    BY <1>0 DEF Busy, Idle
  <2>2. Cardinality(Busy') = Cardinality(Busy) - 1
    BY <2>1, BusyType, FS_RemoveElement
  <2> QED BY <2>2, BusyType, BusyPrime DEF CountInv, TypeInv
<1>1. TypeInv'
  BY <1>0, <1>busy DEF TypeInv
<1>2. PlaceInv'
  BY <1>0 DEF TypeInv, PlaceInv, Same, Inserts, Sending
<1>3. LockInv'
  BY <1>0 DEF TypeInv, PlaceInv, LockInv, Same, Inserts, Sending
<1>4. CountInv'
  BY <1>busy, BusyType DEF CountInv, TypeInv
<1>5. HashInv'
  BY <1>0 DEF TypeInv, PlaceInv, LockInv, HashInv, Marking, Group, NextChild, Same,
     Inserts, Sending
<1>6. CoverInv'
  BY <1>0 DEF TypeInv, PlaceInv, LockInv, CoverInv, Owed, WillSend, Commits, Hashing,
     Good, AllUsers, Exact, Same, Inserts, Sending
<1>7. FinalInv'
  BY <1>0, <1>busy DEF TypeInv, PlaceInv, FinalInv, Exact, AllUsers, Same, Inserts, Sending
<1> QED BY <1>1, <1>2, <1>3, <1>4, <1>5, <1>6, <1>7

LEMMA SendInv == ASSUME VerkleInv, NEW c \in Callers, Send(c) PROVE VerkleInv'
<1> USE VerkleAssumption DEF VerkleInv, Send, Actors, treeVars, lockVars, taskVars
<1>0. /\ actor' \in [Actors -> ActorRecords] /\ actor[c] \in ActorRecords
      /\ \A b \in Actors \ {c} : actor'[b] = actor[b]
      /\ actor[c].kind \in Inserts /\ c \notin Workers
      /\ actor[c].kind = "insert" => actor'[c].pc = "idle" /\ actor'[c].kind = "none"
      /\ actor[c].kind = "batch" => actor'[c].pc = "unlock" /\ Same(c)
  <2>1. actor[c].kind \in Inserts /\ actor[c] \in ActorRecords /\ c \notin Workers
    BY DEF TypeInv, PlaceInv, Sending
  <2>2. CASE actor[c].kind = "insert"
    BY <2>1, <2>2, GotoIdle DEF AfterSend
  <2>3. CASE actor[c].kind = "batch"
    BY <2>1, <2>3, GotoNext DEF AfterSend, Places
  <2> QED BY <2>1, <2>2, <2>3 DEF Inserts
<1>1. TypeInv'
  BY <1>0 DEF TypeInv, Hashes, Commitments, Unset
<1>2. PlaceInv'
  BY <1>0 DEF TypeInv, PlaceInv, Same, Inserts, Sending
<1>3. LockInv'
  BY <1>0 DEF TypeInv, PlaceInv, LockInv, Same, Inserts, Sending
<1>4. CountInv'
  BY SMTT(60), <1>0, SameBusy, BusyType DEF CountInv, PlaceInv, TypeInv, Sending
<1>5. HashInv'
  BY <1>0 DEF TypeInv, PlaceInv, LockInv, HashInv, Marking, Group, NextChild, Same,
     Inserts, Sending
<1>6. CoverInv'
  BY <1>0 DEF TypeInv, PlaceInv, LockInv, CoverInv, Owed, WillSend, Commits, Hashing,
     Good, AllUsers, Exact, Same, Inserts, Sending
<1>7. FinalInv'
  BY <1>0 DEF TypeInv, PlaceInv, FinalInv, Exact, AllUsers, Same, Inserts, Sending
<1> QED BY <1>1, <1>2, <1>3, <1>4, <1>5, <1>6, <1>7

LEMMA UnlockTreeInv == ASSUME VerkleInv, NEW c \in Callers, UnlockTree(c) PROVE VerkleInv'
<1> USE VerkleAssumption DEF VerkleInv, UnlockTree, Actors, treeVars, lockVars, taskVars
<1>0. /\ actor' \in [Actors -> ActorRecords] /\ actor[c] \in ActorRecords
      /\ \A b \in Actors \ {c} : actor'[b] = actor[b]
      /\ actor[c].kind \in Inserts /\ c \notin Workers
      /\ actor[c].kind = "batch" => actor'[c].pc = "idle" /\ actor'[c].kind = "none"
      /\ actor[c].kind = "insert" => actor'[c].pc = "send" /\ Same(c)
  <2>1. actor[c].kind \in Inserts /\ actor[c] \in ActorRecords /\ c \notin Workers
    BY DEF TypeInv, PlaceInv, Sending
  <2>2. CASE actor[c].kind = "batch"
    BY <2>1, <2>2, GotoIdle
  <2>3. CASE actor[c].kind = "insert"
    BY <2>1, <2>3, GotoNext  DEF Places, Sending
  <2> QED BY <2>1, <2>2, <2>3 DEF Inserts
<1>1. TypeInv'
  BY <1>0 DEF TypeInv, Hashes, Commitments, Unset
<1>2. PlaceInv'
  BY <1>0 DEF TypeInv, PlaceInv, Same, Inserts, Sending
<1>3. LockInv'
  BY <1>0 DEF TypeInv, PlaceInv, LockInv, Same, Inserts, Sending
<1>4. CountInv'
  BY <1>0, SameBusy DEF CountInv, PlaceInv, Sending
<1>5. HashInv'
  BY <1>0 DEF TypeInv, PlaceInv, LockInv, HashInv, Marking, Group, NextChild, Same,
     Inserts, Sending
<1>6. CoverInv'
  BY <1>0 DEF TypeInv, PlaceInv, LockInv, CoverInv, Owed, WillSend, Commits, Hashing,
     Good, AllUsers, Exact, Same, Inserts, Sending
<1>7. FinalInv'
  BY <1>0 DEF TypeInv, PlaceInv, FinalInv, Exact, AllUsers, Same, Inserts, Sending
<1> QED BY <1>1, <1>2, <1>3, <1>4, <1>5, <1>6, <1>7

LEMMA LockMuInv == ASSUME VerkleInv, NEW a \in Actors, LockMu(a) PROVE VerkleInv'
<1>r. actor[a] \in ActorRecords /\ a \in Actors
  BY ActorType DEF VerkleInv, Actors
<1>e. [actor[a] EXCEPT !.pc = "child", !.values = <<>>] \in ActorRecords
  BY <1>r, RecordType, PlaceTypes
<1>s. actor' = [actor EXCEPT ![a] = [actor[a] EXCEPT !.pc = "child", !.values = <<>>]]
  BY DEF LockMu
<1>0. /\ actor' \in [Actors -> ActorRecords] /\ actor[a] \in ActorRecords
      /\ \A b \in Actors \ {a} : actor'[b] = actor[b]
      /\ actor'[a].pc = "child" /\ actor'[a].kind = actor[a].kind
      /\ actor'[a].crossed = actor[a].crossed
      /\ actor'[a].values = <<>>
  BY <1>r, <1>e, <1>s, SetActor DEF VerkleInv, ActorRecords
<1> USE VerkleAssumption DEF VerkleInv, LockMu, Actors, treeVars, lockVars, taskVars
<1>1. TypeInv'
  BY <1>0 DEF TypeInv, Hashes, Commitments, Unset
<1>2. PlaceInv'
  BY <1>0 DEF TypeInv, PlaceInv, Same, Inserts, Sending
<1>3. LockInv'
  BY <1>0 DEF TypeInv, PlaceInv, LockInv, Same, Inserts, Sending
<1>4. CountInv'
  BY <1>0, SameBusy DEF CountInv, PlaceInv, Sending
<1>5. HashInv'
  BY <1>0 DEF TypeInv, PlaceInv, LockInv, HashInv, Marking, Group, NextChild, Same,
     Inserts, Sending
<1>6. CoverInv'
  BY SMTT(30), <1>0 DEF TypeInv, PlaceInv, LockInv, CoverInv, Owed, WillSend, Commits, Hashing,
     Good, AllUsers, Exact, Same, Inserts, Sending
<1>7. FinalInv'
  BY <1>0 DEF TypeInv, PlaceInv, FinalInv, Exact, AllUsers, Same, Inserts, Sending
<1> QED BY <1>1, <1>2, <1>3, <1>4, <1>5, <1>6, <1>7

LEMMA ReadChildInv == ASSUME VerkleInv, NEW a \in Actors, ReadChild(a) PROVE VerkleInv'
<1>r. actor[a] \in ActorRecords /\ a \in Actors
  BY ActorType DEF VerkleInv, Actors
<1>e. [actor[a] EXCEPT !.seen = members[NextChild(a)], !.pc = "keep"] \in ActorRecords
  <2>1. members[NextChild(a)] \in SUBSET Users
    BY DEF VerkleInv, ReadChild, TypeInv
  <2> QED BY <1>r, <2>1, RecordType, PlaceTypes
<1>s. actor' = [actor EXCEPT ![a] = [actor[a] EXCEPT !.seen = members[NextChild(a)], !.pc = "keep"]]
  BY DEF ReadChild
<1>0. /\ actor' \in [Actors -> ActorRecords] /\ actor[a] \in ActorRecords
      /\ \A b \in Actors \ {a} : actor'[b] = actor[b]
      /\ actor'[a].pc = "keep" /\ actor'[a].kind = actor[a].kind
      /\ actor'[a].crossed = actor[a].crossed
      /\ actor'[a].values = actor[a].values /\ actor'[a].seen = members[NextChild(a)]
  BY <1>r, <1>e, <1>s, SetActor DEF VerkleInv, ActorRecords
<1> USE VerkleAssumption DEF VerkleInv, ReadChild, Actors, treeVars, lockVars, taskVars
<1>1. TypeInv'
  BY <1>0 DEF TypeInv, Hashes, Commitments, Unset
<1>2. PlaceInv'
  BY <1>0 DEF TypeInv, PlaceInv, Same, Inserts, Sending
<1>3. LockInv'
  BY <1>0 DEF TypeInv, PlaceInv, LockInv, Same, Inserts, Sending
<1>4. CountInv'
  BY <1>0, SameBusy DEF CountInv, PlaceInv, Sending
<1>5. HashInv'
  <2>1. NextChild(a)' = NextChild(a) /\ NextChild(a) \in Groups
    BY <1>0 DEF NextChild, TypeInv
  <2>2. \A b \in Actors : b # a => actor'[b] = actor[b] /\ NextChild(b)' = NextChild(b)
    BY <1>0 DEF NextChild
  <2>3. \A d \in Callers, g \in Groups : Marking(d, g)' = Marking(d, g)
    BY <1>0 DEF Marking, Group
  <2>4. \A d \in Callers : actor'[d].pc = "leaf" => actor[d].pc = "leaf" /\ Group(d)' = Group(d)
    BY <1>0 DEF Group
  <2> QED BY <1>0, <2>1, <2>2, <2>3, <2>4 DEF HashInv
<1>6. CoverInv'
  BY SMTT(30), <1>0 DEF TypeInv, PlaceInv, LockInv, CoverInv, Owed, WillSend, Commits, Hashing,
     Good, AllUsers, Exact, Same, Inserts, Sending
<1>7. FinalInv'
  BY <1>0 DEF TypeInv, PlaceInv, FinalInv, Exact, AllUsers, Same, Inserts, Sending
<1> QED BY <1>1, <1>2, <1>3, <1>4, <1>5, <1>6, <1>7

\* Where MarkChild leads.
After(c) == IF Len(actor[c].todo) > 1 THEN "descend"
            ELSE IF actor[c].kind = "insert" THEN "unlock" ELSE "remark"

LEMMA MarkChildInv == ASSUME VerkleInv, NEW c \in Callers, MarkChild(c) PROVE VerkleInv'
<1>r. actor[c] \in ActorRecords /\ c \in Actors
  BY ActorType DEF VerkleInv, Actors
<1>tail. actor[c].todo # <<>> /\ Tail(actor[c].todo) \in Seq(Users)
  <2>1. actor[c].pc = "markchild"
    BY DEF MarkChild
  <2>2. actor[c].todo # <<>>
    BY <1>r, <2>1 DEF VerkleInv, PlaceInv, Sending
  <2> QED BY <1>r, <2>2 DEF ActorRecords
<1>after. After(c) \in Places
  BY PlaceTypes DEF After
<1>e. [actor[c] EXCEPT !.todo = Tail(actor[c].todo), !.pc = After(c)] \in ActorRecords
  BY <1>r, <1>tail, <1>after, RecordType
<1>s. actor' = [actor EXCEPT ![c] = [actor[c] EXCEPT !.todo = Tail(actor[c].todo), !.pc = After(c)]]
  BY DEF MarkChild, After
<1>0. /\ actor' \in [Actors -> ActorRecords] /\ actor[c] \in ActorRecords
      /\ \A b \in Actors \ {c} : actor'[b] = actor[b]
      /\ actor'[c].kind = actor[c].kind /\ actor'[c].crossed = actor[c].crossed
      /\ actor'[c].todo = Tail(actor[c].todo) /\ actor'[c].pc = After(c)
  BY <1>r, <1>e, <1>s, SetActor DEF VerkleInv, ActorRecords
<1> USE VerkleAssumption DEF VerkleInv, MarkChild, Actors, treeVars, lockVars, taskVars
<1>todo. Head(actor[c].todo) \in Users /\ Group(c) \in Groups
  BY TodoType DEF Sending
<1>next. /\ actor[c].kind \in Inserts /\ actor'[c].pc \in {"descend", "unlock", "remark"}
         /\ actor'[c].pc = "descend" => actor'[c].todo # <<>>
         /\ actor'[c].pc = "unlock" => actor[c].kind = "insert"
  <2>1. actor[c].kind \in Inserts
    BY DEF PlaceInv, Sending
  <2>2. Len(actor[c].todo) > 1 => Tail(actor[c].todo) # <<>>
    BY <1>0, TailRemains DEF ActorRecords
  <2> QED BY <1>0, <2>1, <2>2 DEF After, Inserts
<1>1. TypeInv'
  BY <1>0, <1>todo DEF TypeInv, Hashes
<1>2. PlaceInv'
  BY <1>0, <1>next DEF TypeInv, PlaceInv, Inserts, Sending
<1>3. LockInv'
  BY <1>0, <1>next DEF TypeInv, PlaceInv, LockInv, Inserts, Sending
<1>4. CountInv'
  BY <1>0, <1>next, SameBusy DEF CountInv, PlaceInv, Sending
<1>5. HashInv'
  <2>1. \A b \in Actors : actor'[b].pc \in {"leaf", "keep", "markroot", "markchild"} =>
          b # c /\ actor'[b] = actor[b]
    BY <1>0, <1>next
  <2>2. hash'[Group(c)] = Unset /\ \A g \in Groups \ {Group(c)} : hash'[g] = hash[g]
    BY <1>todo DEF TypeInv
  <2>3. \A d \in Callers \ {c}, g \in Groups : Marking(d, g)' = Marking(d, g)
    BY <1>0 DEF Marking, Group
  <2>4. \A g \in Groups \ {Group(c)} : ~Marking(c, g)
    BY DEF Marking
  <2>5. ASSUME NEW g \in Groups \ overtaken, hash'[g] # Unset
        PROVE  members[g] \subseteq hash'[g].users \/ \E d \in Callers : Marking(d, g)'
    BY <2>2, <2>3, <2>4, <2>5 DEF HashInv
  <2>6. ASSUME NEW b \in Actors, actor'[b].pc = "keep"
        PROVE  actor'[b] = actor[b] /\ NextChild(b)' = NextChild(b)
    BY <2>1, <2>6 DEF NextChild
  <2>7. \A d \in Callers : actor'[d].pc = "leaf" => actor[d].pc = "leaf" /\ Group(d)' = Group(d)
    BY <2>1 DEF Group
  <2> QED BY <2>5, <2>6, <2>7 DEF HashInv
<1>6. CoverInv'
  BY SMTT(60), <1>0, <1>next DEF CoverInv, Owed, WillSend, Commits, Hashing, Good, AllUsers,
     Inserts, Sending
<1>7. FinalInv'
  BY <1>0, <1>next DEF TypeInv, PlaceInv, FinalInv
<1> QED BY <1>1, <1>2, <1>3, <1>4, <1>5, <1>6, <1>7

\* A step on the way through the children keeps who holds mu and whose
\* GetFinalRoot waited.
LEMMA HashingOn ==
  ASSUME PlaceInv, LockInv, FinalInv, NEW a \in Actors,
         UNCHANGED <<members, overtaken, mu, readers, commitWG>>,
         \A b \in Actors \ {a} : actor'[b] = actor[b],
         actor[a].pc \in {"child", "keep"}, actor'[a].pc \in {"child", "keep"},
         actor'[a].kind = actor[a].kind, actor'[a].crossed = actor[a].crossed
  PROVE  PlaceInv' /\ LockInv' /\ FinalInv'
<1>1. /\ actor[a].kind = "work" <=> a \in Workers
      /\ actor[a].kind \in Inserts \cup {"final", "work", "root"}
  BY DEF PlaceInv
<1>2. PlaceInv'
  <2>1. \A b \in Actors : b # a => actor'[b] = actor[b]
    OBVIOUS
  <2>2. QED
    BY ONLY PlaceInv, <1>1, <2>1, a \in Actors, actor'[a].pc \in {"child", "keep"},
       actor'[a].kind = actor[a].kind DEF PlaceInv, Sending
<1>3. LockInv'
  <2>1. \A b \in Actors : b # a => actor'[b] = actor[b]
    OBVIOUS
  <2>2. mu' = mu /\ readers' = readers
    OBVIOUS
  <2>3. QED
    BY ONLY LockInv, <2>1, <2>2, a \in Actors, actor[a].pc \in {"child", "keep"},
       actor'[a].pc \in {"child", "keep"}, actor'[a].kind = actor[a].kind DEF LockInv
<1>4. FinalInv'
  <2>1. AllUsers' = AllUsers
    BY DEF AllUsers
  <2>2. ASSUME NEW c \in Callers, actor'[c].kind = "final", ~actor'[c].crossed
        PROVE  /\ \A d \in Callers : actor'[d].kind \notin Inserts
               /\ actor'[c].pc # "wait" => commitWG' = 0
               /\ actor'[c].pc = "runlock" /\ AllUsers' # {} => Exact(actor[c].answer)'
    <3>1. actor[c].kind = "final" /\ ~actor[c].crossed
      BY <2>2 DEF Actors
    <3>2. \A d \in Callers : actor'[d].kind = actor[d].kind
      BY DEF Actors
    <3>3. actor'[c].pc # "wait" => actor[c].pc # "wait"
      BY DEF Actors
    <3>4. actor'[c].pc = "runlock" => actor'[c] = actor[c]
      BY DEF Actors
    <3>5. actor'[c].answer = actor[c].answer => (Exact(actor[c].answer)' <=> Exact(actor[c].answer))
      BY DEF Exact, AllUsers
    <3> QED BY <2>1, <3>1, <3>2, <3>3, <3>4, <3>5 DEF FinalInv
  <2> QED BY <2>2 DEF FinalInv
<1> QED BY <1>2, <1>3, <1>4

\* What TakeChild adds to the values.
Known(a) == IF NextChild(a) \in created THEN hash[NextChild(a)].users ELSE {}

LEMMA TakeChildInv == ASSUME VerkleInv, NEW a \in Actors, TakeChild(a) PROVE VerkleInv'
<1>r. actor[a] \in ActorRecords /\ a \in Actors
  BY ActorType DEF VerkleInv, Actors
<1>v. Known(a) \in SUBSET Users
  BY DEF VerkleInv, TypeInv, TakeChild, Known, Hashes
<1>a. Append(actor[a].values, Known(a)) \in Seq(SUBSET Users)
  BY <1>r, <1>v DEF ActorRecords
<1>e. [actor[a] EXCEPT !.values = Append(actor[a].values, Known(a)),
                   !.pc = "child", !.seen = {}] \in ActorRecords
  BY <1>r, <1>a, RecordType, PlaceTypes
<1>s. actor' = [actor EXCEPT ![a] = [actor[a] EXCEPT !.values = Append(actor[a].values, Known(a)),
                   !.pc = "child", !.seen = {}]]
  BY DEF TakeChild, Keep, Known
<1>0. /\ actor' \in [Actors -> ActorRecords] /\ actor[a] \in ActorRecords
      /\ \A b \in Actors \ {a} : actor'[b] = actor[b]
      /\ actor'[a].pc = "child" /\ actor'[a].kind = actor[a].kind
      /\ actor'[a].crossed = actor[a].crossed
      /\ actor'[a].values = Append(actor[a].values, Known(a))
  BY <1>r, <1>e, <1>s, SetActor DEF VerkleInv, ActorRecords
<1> USE VerkleAssumption DEF VerkleInv, TakeChild, Keep, Actors, treeVars, lockVars, taskVars
<1>good. ASSUME Good(a), NextChild(a) \notin overtaken => members[NextChild(a)] \subseteq Known(a)
        PROVE  Good(a)'
  <2>1. actor[a].values \in Seq(SUBSET Users) /\ Known(a) \in SUBSET Users
    BY <1>0, <1>v DEF ActorRecords
  <2>2. ASSUME NEW g \in DOMAIN Append(actor[a].values, Known(a)), g \in Groups \ overtaken
        PROVE  members[g] \subseteq Append(actor[a].values, Known(a))[g]
    <3>1. CASE /\ g \in DOMAIN actor[a].values
               /\ Append(actor[a].values, Known(a))[g] = actor[a].values[g]
      BY <1>good, <2>2, <3>1 DEF Good
    <3>2. CASE g = NextChild(a) /\ Append(actor[a].values, Known(a))[g] = Known(a)
      BY <1>good, <2>2, <3>2
    <3> QED BY <2>1, <2>2, <3>1, <3>2, Appended DEF NextChild
  <2> QED BY <1>0, <2>2 DEF Good
<1>known. NextChild(a) \notin overtaken =>
            members[NextChild(a)] \subseteq Known(a) \/ \E c \in Callers : Marking(c, NextChild(a))
  BY DEF HashInv, Known
<1>1. TypeInv'
  BY <1>0 DEF TypeInv, Hashes, Commitments, Unset
<1>on. PlaceInv' /\ LockInv' /\ FinalInv'
  <2>1. actor[a].pc \in {"child", "keep"} /\ UNCHANGED <<members, overtaken, mu, readers, commitWG>>
    OBVIOUS
  <2> QED BY <1>0, <2>1, HashingOn
<1>2. PlaceInv'
  BY <1>on
<1>3. LockInv'
  BY <1>on
<1>4. CountInv'
  BY <1>0, SameBusy DEF CountInv, PlaceInv, Sending
<1>5. HashInv'
  <2>2. \A b \in Actors : b # a => actor'[b] = actor[b] /\ NextChild(b)' = NextChild(b)
    BY <1>0 DEF NextChild
  <2>3. \A d \in Callers, g \in Groups : Marking(d, g)' = Marking(d, g)
    BY <1>0 DEF Marking, Group
  <2>4. \A d \in Callers : actor'[d].pc = "leaf" => actor[d].pc = "leaf" /\ Group(d)' = Group(d)
    BY <1>0 DEF Group
  <2>5. \A b \in Actors : actor'[b].pc = "keep" => b # a
    BY <1>0
  <2> QED BY ZenonT(60), <2>2, <2>3, <2>4, <2>5 DEF HashInv
<1>6. CoverInv'
  <2>1. Owed' <=> Owed
    BY <1>0 DEF Owed, WillSend, Sending
  <2>2. \A b \in Actors : (Commits(b)' <=> Commits(b)) /\ (Hashing(b)' <=> Hashing(b))
    BY <1>0 DEF Commits, Hashing
  <2>3. \A b \in Actors \ {a} : Good(b)' <=> Good(b)
    BY <1>0 DEF Good
  <2>4. \A c \in Callers, g \in Groups : Marking(c, g) => Owed
    BY DEF Owed, WillSend, Marking, PlaceInv, Sending
  <2>5. ~Owed /\ Commits(a) => Good(a)'
    BY <1>good, <1>known, <2>4 DEF CoverInv
  <2> QED BY <1>0, <2>1, <2>2, <2>3, <2>5 DEF CoverInv, AllUsers, Exact
<1>7. FinalInv'
  BY <1>on
<1> QED BY <1>1, <1>2, <1>3, <1>4, <1>5, <1>6, <1>7

LEMMA KeepChildInv == ASSUME VerkleInv, NEW a \in Actors, KeepChild(a) PROVE VerkleInv'
<1>r. actor[a] \in ActorRecords /\ a \in Actors
  BY ActorType DEF VerkleInv, Actors
<1>a. Append(actor[a].values, actor[a].seen) \in Seq(SUBSET Users)
  BY <1>r DEF ActorRecords
<1>e. [actor[a] EXCEPT !.values = Append(actor[a].values, actor[a].seen),
                   !.pc = "child", !.seen = {}] \in ActorRecords
  BY <1>r, <1>a, RecordType, PlaceTypes
<1>s. actor' = [actor EXCEPT ![a] = [actor[a] EXCEPT !.values = Append(actor[a].values, actor[a].seen),
                   !.pc = "child", !.seen = {}]]
  BY DEF KeepChild, Keep
<1>0. /\ actor' \in [Actors -> ActorRecords] /\ actor[a] \in ActorRecords
      /\ \A b \in Actors \ {a} : actor'[b] = actor[b]
      /\ actor'[a].pc = "child" /\ actor'[a].kind = actor[a].kind
      /\ actor'[a].crossed = actor[a].crossed
      /\ actor'[a].values = Append(actor[a].values, actor[a].seen)
  BY <1>r, <1>e, <1>s, SetActor DEF VerkleInv, ActorRecords
<1> USE VerkleAssumption DEF VerkleInv, KeepChild, Keep, Actors, treeVars, lockVars, taskVars
<1>v. actor[a].seen \in SUBSET Users
  BY <1>0 DEF ActorRecords
<1>good. ASSUME Good(a), NextChild(a) \notin overtaken => members[NextChild(a)] \subseteq actor[a].seen
        PROVE  Good(a)'
  <2>1. actor[a].values \in Seq(SUBSET Users) /\ actor[a].seen \in SUBSET Users
    BY <1>0, <1>v DEF ActorRecords
  <2>2. ASSUME NEW g \in DOMAIN Append(actor[a].values, actor[a].seen), g \in Groups \ overtaken
        PROVE  members[g] \subseteq Append(actor[a].values, actor[a].seen)[g]
    <3>1. CASE /\ g \in DOMAIN actor[a].values
               /\ Append(actor[a].values, actor[a].seen)[g] = actor[a].values[g]
      BY <1>good, <2>2, <3>1 DEF Good
    <3>2. CASE g = NextChild(a) /\ Append(actor[a].values, actor[a].seen)[g] = actor[a].seen
      BY <1>good, <2>2, <3>2
    <3> QED BY <2>1, <2>2, <3>1, <3>2, Appended DEF NextChild
  <2> QED BY <1>0, <2>2 DEF Good
<1>1. TypeInv'
  <2>1. [kind |-> "blake3", users |-> actor[a].seen] \in Hashes
    BY <1>v DEF Hashes
  <2> QED BY <1>0, <2>1 DEF TypeInv
<1>on. PlaceInv' /\ LockInv' /\ FinalInv'
  <2>1. actor[a].pc \in {"child", "keep"} /\ UNCHANGED <<members, overtaken, mu, readers, commitWG>>
    OBVIOUS
  <2> QED BY <1>0, <2>1, HashingOn
<1>2. PlaceInv'
  BY <1>on
<1>3. LockInv'
  BY <1>on
<1>4. CountInv'
  BY <1>0, SameBusy DEF CountInv, PlaceInv, Sending
<1>5. HashInv'
  <2>2. \A b \in Actors : b # a => actor'[b] = actor[b] /\ NextChild(b)' = NextChild(b)
    BY <1>0 DEF NextChild
  <2>3. \A d \in Callers, g \in Groups : Marking(d, g)' = Marking(d, g)
    BY <1>0 DEF Marking, Group
  <2>4. \A d \in Callers : actor'[d].pc = "leaf" => actor[d].pc = "leaf" /\ Group(d)' = Group(d)
    BY <1>0 DEF Group
  <2>5. \A b \in Actors : actor'[b].pc = "keep" => b # a
    BY <1>0
  <2>6. \A g \in Groups \ {NextChild(a)} : hash'[g] = hash[g]
    BY DEF TypeInv
  <2>7. NextChild(a) \in Groups /\ hash'[NextChild(a)].users = actor[a].seen
    BY DEF TypeInv, HashInv
  <2>8. \A g \in Groups \ overtaken : hash'[g] # Unset =>
          members[g] \subseteq hash'[g].users \/ \E d \in Callers : Marking(d, g)'
    BY <2>3, <2>6, <2>7 DEF HashInv
  <2> QED BY <2>2, <2>4, <2>5, <2>8 DEF HashInv
<1>6. CoverInv'
  <2>1. Owed' <=> Owed
    BY <1>0 DEF Owed, WillSend, Sending
  <2>2. \A b \in Actors : (Commits(b)' <=> Commits(b)) /\ (Hashing(b)' <=> Hashing(b))
    BY <1>0 DEF Commits, Hashing
  <2>3. \A b \in Actors \ {a} : Good(b)' <=> Good(b)
    BY <1>0 DEF Good
  <2>4. ~Owed /\ Commits(a) => Good(a)'
    BY <1>good DEF CoverInv, HashInv
  <2> QED BY <1>0, <2>1, <2>2, <2>3, <2>4 DEF CoverInv, AllUsers, Exact
<1>7. FinalInv'
  BY <1>on
<1> QED BY <1>1, <1>2, <1>3, <1>4, <1>5, <1>6, <1>7

LEMMA SetCommitmentInv == ASSUME VerkleInv, NEW a \in Actors, SetCommitment(a) PROVE VerkleInv'
<1>r. actor[a] \in ActorRecords /\ a \in Actors
  BY ActorType DEF VerkleInv, Actors
<1>e. [actor[a] EXCEPT !.values = <<>>, !.pc = "clear"] \in ActorRecords
  BY <1>r, RecordType, PlaceTypes
<1>s. actor' = [actor EXCEPT ![a] = [actor[a] EXCEPT !.values = <<>>, !.pc = "clear"]]
  BY DEF SetCommitment
<1>0. /\ actor' \in [Actors -> ActorRecords] /\ actor[a] \in ActorRecords
      /\ \A b \in Actors \ {a} : actor'[b] = actor[b]
      /\ actor'[a].pc = "clear" /\ actor'[a].kind = actor[a].kind
      /\ actor'[a].crossed = actor[a].crossed
  BY <1>r, <1>e, <1>s, SetActor DEF VerkleInv, ActorRecords
<1> USE VerkleAssumption DEF VerkleInv, SetCommitment, Actors, treeVars, lockVars, taskVars
<1>new. commitment' \in Commitments
  <2>1. Over(actor[a].values) \subseteq Users
    BY <1>0 DEF ActorRecords, Over, Range
  <2> QED BY <2>1 DEF Commitments
<1>1. TypeInv'
  BY <1>0, <1>new DEF TypeInv
<1>2. PlaceInv'
  BY <1>0 DEF TypeInv, PlaceInv, Same, Inserts, Sending
<1>3. LockInv'
  BY <1>0 DEF TypeInv, PlaceInv, LockInv, Same, Inserts, Sending
<1>4. CountInv'
  BY <1>0, SameBusy DEF CountInv, PlaceInv, Sending
<1>5. HashInv'
  BY <1>0 DEF TypeInv, PlaceInv, LockInv, HashInv, Marking, Group, NextChild, Same,
     Inserts, Sending
<1>6. CoverInv'
  <2>1. Owed' <=> Owed
    BY <1>0 DEF Owed, WillSend, Sending
  <2>2. \A b \in Actors \ {a} : (Commits(b)' <=> Commits(b)) /\ (Hashing(b)' <=> Hashing(b))
                               /\ (Good(b)' <=> Good(b))
    BY <1>0 DEF Commits, Hashing, Good
  <2>3. ~Hashing(a)' /\ Hashing(a)
    BY <1>0 DEF Hashing
  <2>4. ASSUME actor[a].kind # "root", ~Owed PROVE Exact(commitment)'
    <3>1. Good(a)
      BY <2>3, <2>4 DEF CoverInv, Commits
    <3>2. \A g \in Groups : g \in DOMAIN actor[a].values
      <4>1. actor[a].values \in Seq(SUBSET Users) /\ Len(actor[a].values) \in Nat
        BY <1>0 DEF ActorRecords
      <4>2. Cardinality(Groups) \in Nat
        BY FS_CardinalityType
      <4>3. Len(actor[a].values) + 1 \notin 1 .. Cardinality(Groups)
        BY DEF NextChild
      <4> QED BY <4>1, <4>2, <4>3
    <3>3. ASSUME NEW g \in Groups, NEW u \in members[g], g \notin overtaken
          PROVE  u \in Over(actor[a].values)
      BY <3>1, <3>2, <3>3 DEF Good, Over, Range
    <3>4. commitment'.kind = "kzg" /\ commitment'.users = Over(actor[a].values)
      BY <2>4
    <3> QED BY <3>3, <3>4 DEF Exact, AllUsers, TypeInv
  <2>5. ASSUME actor[a].kind = "root", ~Owed PROVE AllUsers = {}
    BY <2>3, <2>5 DEF CoverInv
  <2>6. AllUsers' = AllUsers
    BY DEF AllUsers
  <2> QED BY <1>0, <2>1, <2>2, <2>3, <2>4, <2>5, <2>6 DEF CoverInv, Commits
<1>7. FinalInv'
  BY <1>0 DEF TypeInv, PlaceInv, FinalInv, Exact, AllUsers, Same, Inserts, Sending
<1> QED BY <1>1, <1>2, <1>3, <1>4, <1>5, <1>6, <1>7

LEMMA UnlockMuInv == ASSUME VerkleInv, NEW a \in Actors, UnlockMu(a) PROVE VerkleInv'
<1> USE VerkleAssumption DEF VerkleInv, UnlockMu, Actors, treeVars, lockVars, taskVars
<1>0. /\ actor' \in [Actors -> ActorRecords] /\ actor[a] \in ActorRecords
      /\ \A b \in Actors \ {a} : actor'[b] = actor[b]
      /\ actor[a].kind \in Inserts \cup {"final", "work"} /\ mu = a
      /\ actor[a].kind = "work" => actor'[a].pc = "done" /\ Same(a)
      /\ actor[a].kind = "final" => actor'[a].pc = "rlock2" /\ Same(a)
      /\ actor[a].kind = "insert" => actor'[a].pc = "idle" /\ actor'[a].kind = "none"
      /\ actor[a].kind = "batch" => actor'[a].pc = "unlock" /\ Same(a)
  <2>1. /\ actor[a].kind \in Inserts \cup {"final", "work"} /\ actor[a] \in ActorRecords
        /\ a \in Workers <=> actor[a].kind = "work"
        /\ mu = a
    BY DEF TypeInv, PlaceInv, LockInv
  <2>2. CASE actor[a].kind = "insert"
    BY <2>1, <2>2, GotoIdle DEF AfterSend
  <2>3. CASE actor[a].kind = "batch"
    BY <2>1, <2>3, GotoNext DEF AfterSend, Places
  <2>4. CASE actor[a].kind = "work"
    BY <2>1, <2>4, GotoNext DEF Places
  <2>5. CASE actor[a].kind = "final"
    BY <2>1, <2>5, GotoNext DEF Places
  <2> QED BY <2>1, <2>2, <2>3, <2>4, <2>5 DEF Inserts
<1>1. TypeInv'
  BY <1>0 DEF TypeInv, Hashes, Commitments, Unset
<1>2. PlaceInv'
  BY <1>0 DEF TypeInv, PlaceInv, Same, Inserts, Sending
<1>3. LockInv'
  BY <1>0 DEF TypeInv, PlaceInv, LockInv, Same, Inserts, Sending
<1>4. CountInv'
  BY <1>0, SameBusy DEF CountInv, PlaceInv, Sending
<1>5. HashInv'
  BY <1>0 DEF TypeInv, PlaceInv, LockInv, HashInv, Marking, Group, NextChild, Same,
     Inserts, Sending
<1>6. CoverInv'
  BY <1>0 DEF TypeInv, PlaceInv, LockInv, CoverInv, Owed, WillSend, Commits, Hashing,
     Good, AllUsers, Exact, Same, Inserts, Sending
<1>7. FinalInv'
  BY <1>0 DEF TypeInv, PlaceInv, FinalInv, Exact, AllUsers, Same, Inserts, Sending
<1> QED BY <1>1, <1>2, <1>3, <1>4, <1>5, <1>6, <1>7

LEMMA WaitedInv == ASSUME VerkleInv, NEW c \in Callers, Waited(c) PROVE VerkleInv'
<1> USE VerkleAssumption DEF VerkleInv, Waited, Actors, treeVars, lockVars, taskVars
<1>0. /\ actor' \in [Actors -> ActorRecords] /\ actor[c] \in ActorRecords
      /\ \A b \in Actors \ {c} : actor'[b] = actor[b]
      /\ actor[c].kind \in {"final", "close"} /\ c \notin Workers
      /\ actor[c].kind = "close" => actor'[c].pc = "idle" /\ actor'[c].kind = "none"
      /\ actor[c].kind = "final" => actor'[c].pc = "rlock" /\ Same(c)
  <2>1. /\ actor[c].kind \in {"final", "close"} /\ actor[c] \in ActorRecords /\ c \notin Workers
    BY DEF TypeInv, PlaceInv
  <2>2. CASE actor[c].kind = "close"
    BY <2>1, <2>2, GotoIdle
  <2>3. CASE actor[c].kind = "final"
    BY <2>1, <2>3, GotoNext DEF Places
  <2> QED BY <2>1, <2>2, <2>3
<1>1. TypeInv'
  BY <1>0 DEF TypeInv, Hashes, Commitments, Unset
<1>2. PlaceInv'
  BY <1>0 DEF TypeInv, PlaceInv, Same, Inserts, Sending
<1>3. LockInv'
  BY <1>0 DEF TypeInv, PlaceInv, LockInv, Same, Inserts, Sending
<1>4. CountInv'
  BY <1>0, SameBusy DEF CountInv, PlaceInv, Sending
<1>5. HashInv'
  BY <1>0 DEF TypeInv, PlaceInv, LockInv, HashInv, Marking, Group, NextChild, Same,
     Inserts, Sending
<1>6. CoverInv'
  BY <1>0 DEF TypeInv, PlaceInv, LockInv, CoverInv, Owed, WillSend, Commits, Hashing,
     Good, AllUsers, Exact, Same, Inserts, Sending
<1>7. FinalInv'
  BY <1>0 DEF TypeInv, PlaceInv, FinalInv, Exact, AllUsers, Same, Inserts, Sending
<1> QED BY <1>1, <1>2, <1>3, <1>4, <1>5, <1>6, <1>7

LEMMA CheckCommitmentInv == ASSUME VerkleInv, NEW c \in Callers, CheckCommitment(c) PROVE VerkleInv'
<1> USE VerkleAssumption DEF VerkleInv, CheckCommitment, RLock, Actors, treeVars, lockVars, taskVars
<1>0. /\ actor' \in [Actors -> ActorRecords] /\ actor[c] \in ActorRecords
      /\ \A b \in Actors \ {c} : actor'[b] = actor[b]
      /\ actor'[c].pc = IF commitment = Unset THEN "child" ELSE "runlock"
      /\ Same(c)
  <2>1. CASE commitment = Unset
    BY <2>1, GotoNext DEF TypeInv, Places
  <2>2. CASE commitment # Unset
    BY <2>2, GotoNext DEF TypeInv, Places
  <2> QED BY <2>1, <2>2
<1>1. TypeInv'
  BY <1>0 DEF TypeInv, Hashes, Commitments, Unset
<1>2. PlaceInv'
  BY <1>0 DEF TypeInv, PlaceInv, Same, Inserts, Sending
<1>3. LockInv'
  BY <1>0 DEF TypeInv, PlaceInv, LockInv, Same, Inserts, Sending
<1>4. CountInv'
  BY <1>0, SameBusy DEF CountInv, PlaceInv, Sending
<1>5. HashInv'
  BY SMTT(30), <1>0 DEF TypeInv, PlaceInv, LockInv, HashInv, Marking, Group, NextChild, Same,
     Inserts, Sending
<1>6. CoverInv'
  <2>1. Owed' <=> Owed
    BY <1>0 DEF Owed, WillSend, Sending, Same, PlaceInv, Inserts
  <2>2. \A b \in Actors \ {c} : (Commits(b)' <=> Commits(b)) /\ (Hashing(b)' <=> Hashing(b))
                               /\ (Good(b)' <=> Good(b))
    BY <1>0 DEF Commits, Hashing, Good
  <2>3. ~Commits(c)' /\ ~Commits(c)
    BY <1>0 DEF Commits, Same
  <2>4. \A b \in Actors : ~Commits(b)
    BY DEF Commits, Hashing, LockInv
  <2>5. commitment = Unset => ~Exact(commitment)
    BY DEF Exact, Unset
  <2>6. commitment = Unset => Owed \/ AllUsers = {}
    BY <2>4, <2>5 DEF CoverInv
  <2>7. AllUsers' = AllUsers /\ Exact(commitment)' = Exact(commitment)
    BY DEF AllUsers, Exact
  <2>8. Hashing(c)' => commitment = Unset
    BY <1>0 DEF Hashing
  <2> QED BY <1>0, <2>1, <2>2, <2>3, <2>4, <2>6, <2>7, <2>8 DEF CoverInv
<1>7. FinalInv'
  BY <1>0 DEF TypeInv, PlaceInv, FinalInv, Exact, AllUsers, Same, Inserts, Sending
<1> QED BY <1>1, <1>2, <1>3, <1>4, <1>5, <1>6, <1>7

LEMMA CheckDirtyInv == ASSUME VerkleInv, NEW c \in Callers, CheckDirty(c) PROVE VerkleInv'
<1> USE VerkleAssumption DEF VerkleInv, CheckDirty, RLock, Actors, treeVars, lockVars, taskVars
<1>0. /\ actor' \in [Actors -> ActorRecords] /\ actor[c] \in ActorRecords
      /\ \A b \in Actors \ {c} : actor'[b] = actor[b]
      /\ actor'[c].pc = IF dirty THEN "lockmu" ELSE "read"
      /\ Same(c)
  <2>1. CASE dirty
    BY <2>1, GotoNext DEF TypeInv, Places
  <2>2. CASE ~dirty
    BY <2>2, GotoNext DEF TypeInv, Places
  <2> QED BY <2>1, <2>2
<1>1. TypeInv'
  BY <1>0 DEF TypeInv, Hashes, Commitments, Unset
<1>2. PlaceInv'
  BY <1>0 DEF TypeInv, PlaceInv, Same, Inserts, Sending
<1>3. LockInv'
  BY <1>0 DEF TypeInv, PlaceInv, LockInv, Same, Inserts, Sending
<1>4. CountInv'
  BY <1>0, SameBusy DEF CountInv, PlaceInv, Sending
<1>5. HashInv'
  BY <1>0 DEF TypeInv, PlaceInv, LockInv, HashInv, Marking, Group, NextChild, Same,
     Inserts, Sending
<1>6. CoverInv'
  BY <1>0 DEF TypeInv, PlaceInv, LockInv, CoverInv, Owed, WillSend, Commits, Hashing,
     Good, AllUsers, Exact, Same, Inserts, Sending
<1>7. FinalInv'
  BY <1>0 DEF TypeInv, PlaceInv, FinalInv, Exact, AllUsers, Same, Inserts, Sending
<1> QED BY <1>1, <1>2, <1>3, <1>4, <1>5, <1>6, <1>7

\* With nothing left to commit and nobody committing, the root is right.
LEMMA Settled ==
  ASSUME VerkleInv, commitWG = 0, \A c \in Callers : ~WillSend(c),
         \A a \in Actors : ~Commits(a), AllUsers # {}
  PROVE  Exact(commitment)
<1>1. queued = 0 /\ Cardinality(Busy) = 0
  BY BusyType DEF VerkleInv, TypeInv, CountInv
<1>2. Busy = {}
  BY <1>1, BusyType, FS_EmptySet
<1>3. ~Owed
  BY <1>1, <1>2 DEF Owed, Busy, Idle
<1> QED BY <1>3 DEF VerkleInv, CoverInv

LEMMA ReadFinalInv == ASSUME VerkleInv, NEW c \in Callers, ReadFinal(c) PROVE VerkleInv'
<1>c. c \in Actors /\ actor[c] \in ActorRecords /\ commitment \in Commitments
  BY DEF VerkleInv, TypeInv, Actors
<1>e. [actor[c] EXCEPT !.answer = commitment, !.pc = "runlock"] \in ActorRecords
  BY <1>c, RecordType, PlaceTypes
<1>s. actor' = [actor EXCEPT ![c] = [actor[c] EXCEPT !.answer = commitment, !.pc = "runlock"]]
  BY DEF ReadFinal
<1>0. /\ actor' \in [Actors -> ActorRecords] /\ actor[c] \in ActorRecords
      /\ \A b \in Actors \ {c} : actor'[b] = actor[b]
      /\ actor'[c].pc = "runlock" /\ actor'[c].kind = actor[c].kind
      /\ actor'[c].crossed = actor[c].crossed /\ actor'[c].answer = commitment
  BY <1>c, <1>e, <1>s, SetActor DEF VerkleInv, ActorRecords
<1> USE VerkleAssumption DEF VerkleInv, ReadFinal, Actors, treeVars, lockVars, taskVars
<1>1. TypeInv'
  BY <1>0 DEF TypeInv, Hashes, Commitments, Unset
<1>2. PlaceInv'
  BY <1>0 DEF TypeInv, PlaceInv, Same, Inserts, Sending
<1>3. LockInv'
  BY <1>0 DEF TypeInv, PlaceInv, LockInv, Same, Inserts, Sending
<1>4. CountInv'
  BY <1>0, SameBusy DEF CountInv, PlaceInv, Sending
<1>5. HashInv'
  BY <1>0 DEF TypeInv, PlaceInv, LockInv, HashInv, Marking, Group, NextChild, Same,
     Inserts, Sending
<1>6. CoverInv'
  BY <1>0 DEF TypeInv, PlaceInv, LockInv, CoverInv, Owed, WillSend, Commits, Hashing,
     Good, AllUsers, Exact, Same, Inserts, Sending
<1>7. FinalInv'
  <2>1. ASSUME ~actor[c].crossed, AllUsers # {} PROVE Exact(commitment)
    <3>1. actor[c].kind = "final" /\ c \in readers
      BY DEF PlaceInv, LockInv
    <3>2. commitWG = 0 /\ \A d \in Callers : ~WillSend(d)
      BY <2>1, <3>1 DEF FinalInv, WillSend
    <3>3. \A a \in Actors : ~Commits(a)
      BY <3>1 DEF LockInv, Commits, Hashing
    <3> QED BY <2>1, <3>2, <3>3, Settled
  <2>2. AllUsers' = AllUsers /\ \A root : Exact(root)' = Exact(root)
    BY DEF AllUsers, Exact
  <2> QED BY <1>0, <2>1, <2>2 DEF FinalInv
<1> QED BY <1>1, <1>2, <1>3, <1>4, <1>5, <1>6, <1>7

\* Whatever a start leaves of the other actors.
SameCall(a) ==
  /\ actor'[a].kind = actor[a].kind /\ actor'[a].todo = actor[a].todo
  /\ actor'[a].values = actor[a].values /\ actor'[a].seen = actor[a].seen
  /\ actor'[a].answer = actor[a].answer

\* A call begins; one that inserts crosses every GetFinalRoot under way.
LEMMA StartInv ==
  ASSUME VerkleInv, NEW c \in Callers, NEW kind \in Kinds \ {"none", "work"},
         NEW todo \in Seq(Users), NEW pc \in {"lock", "rlock", "wait"},
         kind \in Inserts => pc = "lock" /\ todo # <<>>,
         kind = "root" => pc = "rlock", kind \in {"final", "close"} => pc = "wait",
         Start(c, kind, todo, pc)
  PROVE  VerkleInv'
<1>1. /\ c \in Actors /\ c \notin Workers /\ actor \in [Actors -> ActorRecords]
      /\ actor[c].pc = "idle" /\ actor[c].kind = "none"
  BY VerkleAssumption DEF VerkleInv, TypeInv, PlaceInv, Start, Idle, Actors
<1>2. UNCHANGED <<treeVars, lockVars, queued, closed, commitWG>>
  BY DEF Start
<1>3. \E crossed \in BOOLEAN :
        /\ crossed <=> kind = "final" /\ \E d \in Callers : actor[d].kind \in Inserts
        /\ actor'[c] = [Begun(kind) EXCEPT !.pc = pc, !.todo = todo, !.crossed = crossed]
  BY <1>1 DEF Start
<1>4. /\ actor'[c] \in ActorRecords
      /\ actor'[c].pc = pc /\ actor'[c].kind = kind /\ actor'[c].todo = todo
      /\ actor'[c].values = <<>>
      /\ actor'[c].crossed <=> kind = "final" /\ \E d \in Callers : actor[d].kind \in Inserts
  <2>1. Begun(kind) \in ActorRecords
    BY DEF Begun, ActorRecords, Places, Sending, Commitments
  <2>2. pc \in Places
    BY DEF Places, Sending
  <2> QED BY <1>3, <2>1, <2>2 DEF Begun, ActorRecords
<1>5. ASSUME NEW b \in Actors, b # c
      PROVE  /\ actor'[b] \in ActorRecords
             /\ actor'[b].pc = actor[b].pc /\ SameCall(b)
             /\ actor'[b].crossed <=> actor[b].crossed \/ (actor[b].kind = "final" /\ kind \in Inserts)
  <2>1. actor[b] \in ActorRecords
    BY <1>1
  <2>2. \E crossed \in BOOLEAN :
          /\ crossed <=> actor[b].crossed \/ (actor[b].kind = "final" /\ kind \in Inserts)
          /\ actor'[b] = [actor[b] EXCEPT !.crossed = crossed]
    BY <1>5, <2>1 DEF Start, ActorRecords
  <2> QED BY <2>1, <2>2 DEF SameCall, ActorRecords
<1>6. actor' \in [Actors -> ActorRecords]
  <2>1. \A b \in Actors : actor'[b] \in ActorRecords
    BY <1>4, <1>5
  <2>2. actor' = [b \in Actors |-> actor'[b]]
    BY DEF Start
  <2> QED BY <2>1, <2>2
<1> HIDE DEF Start
<1> USE DEF VerkleInv, treeVars, lockVars
<1>7. TypeInv'
  BY <1>2, <1>6 DEF TypeInv
<1>8. PlaceInv'
  <2>1. ASSUME NEW b \in Actors, b # c
        PROVE  actor'[b].pc = actor[b].pc /\ actor'[b].kind = actor[b].kind /\ actor'[b].todo = actor[b].todo
    BY <1>5, <2>1 DEF SameCall
  <2>2. kind \in {"root", "final", "close"} \/ kind \in Inserts
    BY DEF Kinds, Inserts
  <2> QED BY <1>1, <1>4, <2>1, <2>2 DEF PlaceInv, Inserts, Sending
<1>9. LockInv'
  BY <1>1, <1>2, <1>4, <1>5 DEF LockInv, SameCall
<1>10. CountInv'
  BY <1>1, <1>2, <1>5, SameBusy DEF CountInv, Actors
<1>11. HashInv'
  <2>1. \A d \in Actors : actor'[d].pc \in {"leaf", "keep", "markroot", "markchild"} <=>
                         actor[d].pc \in {"leaf", "keep", "markroot", "markchild"}
    BY <1>1, <1>4, <1>5
  <2>2. \A d \in Actors \ {c} : Group(d)' = Group(d) /\ NextChild(d)' = NextChild(d)
    BY <1>5 DEF Group, NextChild, SameCall
  <2>3. \A d \in Callers, g \in Groups : Marking(d, g)' = Marking(d, g)
    BY <1>1, <1>4, <1>5, <2>2 DEF Marking, Actors
  <2> QED BY <1>1, <1>2, <1>4, <1>5, <2>2, <2>3 DEF HashInv, SameCall, Actors
<1>12. CoverInv'
  <2>1. Owed => Owed'
    <3>1. ~WillSend(c)
      BY <1>1 DEF WillSend, Sending
    <3>2. \A d \in Callers \ {c} : WillSend(d)' <=> WillSend(d)
      BY <1>5 DEF WillSend, SameCall, Actors
    <3>3. \A w \in Workers : actor'[w].pc = actor[w].pc
      BY <1>1, <1>5 DEF Actors
    <3> QED BY <1>2, <3>1, <3>2, <3>3 DEF Owed
  <2>2. \A b \in Actors :
          /\ Commits(b)' <=> Commits(b)
          /\ Hashing(b)' <=> Hashing(b)
          /\ Hashing(b) => (Good(b)' <=> Good(b)) /\ actor'[b].kind = actor[b].kind
    <3>1. ~Hashing(c) /\ ~Hashing(c)'
      BY <1>1, <1>4 DEF Hashing
    <3>2. \A b \in Actors \ {c} :
            /\ Hashing(b)' <=> Hashing(b)
            /\ actor'[b].kind = actor[b].kind
            /\ Good(b)' <=> Good(b)
      BY <1>2, <1>5 DEF Hashing, Good, SameCall
    <3>3. \A b \in Actors \ {c} : Commits(b)' <=> Commits(b)
      BY <3>2 DEF Commits
    <3>4. ~Commits(c) /\ ~Commits(c)'
      BY <3>1 DEF Commits
    <3> QED BY <3>1, <3>2, <3>3, <3>4
  <2>3. AllUsers' = AllUsers /\ (Exact(commitment)' <=> Exact(commitment))
    BY <1>2 DEF AllUsers, Exact
  <2>4. \A b \in Actors : Commits(b) => Hashing(b)
    BY DEF Commits
  <2>5. ~Owed' => \A b \in Actors : Commits(b)' => Good(b)'
    BY <2>1, <2>2, <2>4 DEF CoverInv
  <2>6. ~Owed' /\ AllUsers' # {} => Exact(commitment)' \/ \E b \in Actors : Commits(b)'
    BY <2>1, <2>2, <2>3 DEF CoverInv
  <2>7. \A b \in Actors : Hashing(b)' /\ actor'[b].kind = "root" => Owed' \/ AllUsers' = {}
    BY <2>1, <2>2, <2>3 DEF CoverInv
  <2> QED BY <2>5, <2>6, <2>7 DEF CoverInv
<1>13. FinalInv'
  <2>1. AllUsers' = AllUsers /\ \A root : Exact(root)' = Exact(root)
    BY <1>2 DEF AllUsers, Exact
  <2>2. ASSUME NEW d \in Callers, actor'[d].kind = "final", ~actor'[d].crossed
        PROVE  /\ \A e \in Callers : actor'[e].kind \notin Inserts
               /\ actor'[d].pc # "wait" => commitWG' = 0
               /\ actor'[d].pc = "runlock" /\ AllUsers # {} => Exact(actor'[d].answer)
    <3>1. CASE d = c
      BY <1>1, <1>4, <1>5, <2>2, <3>1 DEF SameCall, Actors, Inserts
    <3>2. CASE d # c
      <4>1. actor[d].kind = "final" /\ ~actor[d].crossed /\ kind \notin Inserts /\ d \in Actors
        BY <1>5, <2>2, <3>2 DEF SameCall, Actors
      <4> QED BY <1>1, <1>2, <1>4, <1>5, <3>2, <4>1 DEF FinalInv, SameCall, Actors
    <3> QED BY <3>1, <3>2
  <2> QED BY <2>1, <2>2 DEF FinalInv
<1> QED BY <1>7, <1>8, <1>9, <1>10, <1>11, <1>12, <1>13

\* Every start of a call is one of StartInv.
LEMMA BeginInv == ASSUME VerkleInv, NEW c \in Callers, Begin(c) PROVE VerkleInv'
<1>1. {"insert", "batch", "root", "final", "close"} \subseteq Kinds \ {"none", "work"}
  BY DEF Kinds
<1>2. <<>> \in Seq(Users) /\ \A u \in Users : <<u>> \in Seq(Users) /\ <<u>> # <<>>
  OBVIOUS
<1>3. \A us \in Batches : us \in Seq(Users) /\ us # <<>>
  BY VerkleAssumption
<1>4. CASE StartInsert(c)
  BY <1>1, <1>2, <1>4, StartInv DEF StartInsert, Inserts
<1>5. CASE StartBatch(c)
  BY <1>1, <1>3, <1>5, StartInv DEF StartBatch, Inserts
<1>6. CASE StartGetRoot(c)
  BY <1>1, <1>2, <1>6, StartInv DEF StartGetRoot, Inserts
<1>7. CASE StartGetFinal(c)
  BY <1>1, <1>2, <1>7, StartInv DEF StartGetFinal, Inserts
<1>8. CASE StartClose(c)
  BY <1>1, <1>2, <1>8, StartInv DEF StartClose, Inserts
<1> QED BY <1>4, <1>5, <1>6, <1>7, <1>8 DEF Begin

-----------------------------------------------------------------------------
(* The invariant of the specification.                                      *)

\* The invariant holds at the start.
LEMMA InitialInv == ASSUME Init PROVE VerkleInv
<1> USE VerkleAssumption DEF Init
<1>1. \A a \in Actors :
        /\ actor[a] \in ActorRecords /\ actor[a].pc = "idle"
        /\ actor[a].kind = IF a \in Workers THEN "work" ELSE "none"
  BY RestingType DEF Resting, Begun
<1>2. TypeInv
  BY <1>1 DEF TypeInv, Hashes, Commitments
<1>3. Busy = {}
  BY <1>1 DEF Busy, Idle, Actors
<1>4. PlaceInv /\ LockInv /\ HashInv /\ FinalInv
  BY <1>1 DEF PlaceInv, LockInv, HashInv, FinalInv, Sending, Inserts, Actors
<1>5. CountInv
  BY <1>3, FS_EmptySet DEF CountInv
<1>6. AllUsers = {}
  BY DEF AllUsers
<1>7. CoverInv
  BY <1>1, <1>6 DEF CoverInv, Commits, Hashing
<1> QED BY <1>2, <1>4, <1>5, <1>7 DEF VerkleInv

\* Every step of a call or a task.
LEMMA StepInv == ASSUME VerkleInv, NEW a \in Actors, Step(a) PROVE VerkleInv'
<1>1. CASE Compute(a)
  BY <1>1, LockMuInv, TakeChildInv, ReadChildInv, KeepChildInv, SetCommitmentInv,
     ClearDirtyInv, UnlockMuInv DEF Compute
<1>2. CASE a \in Callers /\ Inserting(a)
  BY <1>2, LockTreeInv, DescendInv, SetLeafInv, MarkRootInv, MarkChildInv, RemarkRootInv,
     UnlockTreeInv, SendInv, SendFullInv DEF Inserting
<1>3. CASE a \in Callers /\ Asking(a)
  BY <1>3, WaitedInv, CheckCommitmentInv, CheckDirtyInv, RLockAgainInv, ReadFinalInv,
     RUnlockInv DEF Asking
<1>4. CASE a \in Workers /\ Work(a)
  BY <1>4, TakeTaskInv, TaskDoneInv DEF Work
<1> QED BY <1>1, <1>2, <1>3, <1>4 DEF Step

\* A step that changes nothing.
LEMMA StutterInv == ASSUME VerkleInv, UNCHANGED vars PROVE VerkleInv'
<1> USE DEF vars, treeVars, lockVars, taskVars
<1>1. TypeInv' /\ PlaceInv' /\ LockInv' /\ CountInv'
  BY DEF VerkleInv, TypeInv, PlaceInv, LockInv, CountInv, Busy, Idle
<1>2. HashInv'
  BY DEF VerkleInv, HashInv, Marking, Group, NextChild
<1>3. CoverInv'
  BY DEF VerkleInv, CoverInv, Owed, WillSend, Commits, Hashing, Good, AllUsers, Exact
<1>4. FinalInv'
  BY DEF VerkleInv, FinalInv, AllUsers, Exact
<1> QED BY <1>1, <1>2, <1>3, <1>4 DEF VerkleInv

\* The inductive invariant holds of every behaviour.
THEOREM VerkleInvariant == Spec => []VerkleInv
<1>1. Init => VerkleInv
  BY InitialInv
<1>2. VerkleInv /\ [Next]_vars => VerkleInv'
  BY BeginInv, StepInv, StutterInv DEF Next
<1> QED BY <1>1, <1>2, PTL DEF Spec

\* When all calls have returned and no task is left the root is a KZG
\* commitment to every user inserted, and an uncrossed GetFinalRoot returned
\* such a root, but for the groups whose hash an insert overtook.
THEOREM RootsAreCovered == Spec => []RootsCover
<1>1. VerkleInv => RootsCover
  <2> SUFFICES ASSUME VerkleInv, AllUsers # {} PROVE
        /\ Quiet => Exact(commitment)
        /\ \A c \in Callers :
             actor[c].kind = "final" /\ actor[c].pc = "runlock" /\ ~actor[c].crossed
               => Exact(actor[c].answer)
    BY DEF RootsCover
  <2>1. ASSUME Quiet PROVE Exact(commitment)
    <3>1. \A c \in Callers : actor[c].kind = "none" \/ actor[c].kind = "work"
      BY <2>1 DEF Quiet, Idle, VerkleInv, PlaceInv, Actors
    <3>2. commitWG = 0 /\ \A c \in Callers : ~WillSend(c)
      BY <2>1, <3>1 DEF Quiet, WillSend, Inserts
    <3>3. Busy = {}
      <4>1. Cardinality(Busy) = 0
        BY <3>2, BusyType DEF VerkleInv, TypeInv, CountInv
      <4> QED BY <4>1, BusyType, FS_EmptySet
    <3>4. \A a \in Actors : ~Commits(a)
      BY <2>1, <3>3 DEF Busy, Quiet, Idle, Commits, Hashing, Actors
    <3> QED BY <3>2, <3>4, Settled
  <2>2. \A c \in Callers :
          actor[c].kind = "final" /\ actor[c].pc = "runlock" /\ ~actor[c].crossed
            => Exact(actor[c].answer)
    BY DEF VerkleInv, FinalInv
  <2> QED BY <2>1, <2>2
<1> QED BY <1>1, VerkleInvariant, PTL
=============================================================================
