-------------------------- MODULE StateStore_proofs --------------------------
(***************************************************************************)
(* Type correctness of StateStore, and its two safety properties about     *)
(* roots, for every set of ids, capacity and batch size and any number of  *)
(* calls, crashes and restarts.                                            *)
(***************************************************************************)
EXTENDS StateStore, TLAPS

\* While a root is being published, all that changed since was missed.
\* The root that is still to be saved is the one in memory.
PublishInv ==
  /\ calc.pc = "publish" => changed \subseteq missed
  /\ calc.pc = "save" => currentRoot = calc.root

StoreInv == TypeOK /\ RootStored /\ RootMissesOnly /\ PublishInv

LEMMA LastType ==
  ASSUME NEW S, NEW q \in Seq(S), q # <<>>
  PROVE  Last(q) \in S /\ Last(q) = q[Len(q)]
BY DEF Last

LEMMA LastAppend ==
  ASSUME NEW S, NEW q \in Seq(S), NEW e \in S
  PROVE  /\ Append(q, e) \in Seq(S)
         /\ Append(q, e) # <<>>
         /\ Last(Append(q, e)) = e
BY DEF Last

LEMMA LastSingle ==
  ASSUME NEW e
  PROVE  Last(<<e>>) = e
BY DEF Last

\* A commit changes the orders of the stored content only.
LEMMA CommittedType ==
  ASSUME NEW c \in Content, NEW tasks
  PROVE  /\ [c EXCEPT !.orders = Apply(@, tasks)] \in Content
         /\ [c EXCEPT !.orders = Apply(@, tasks)].root = c.root
<1>1. Apply(c.orders, tasks) \in SUBSET Ids
  BY DEF Apply
<1>2. QED
  BY <1>1 DEF Content

LEMMA RootType ==
  ASSUME NEW S \in SUBSET Ids, NEW T
  PROVE  [id \in S |-> id \in T] \in Roots
<1>1. [id \in S |-> id \in T] \in [S -> BOOLEAN]
  OBVIOUS
<1>2. QED
  BY <1>1 DEF Roots

LEMMA EmptyType == NoRoot \in Roots /\ Empty \in Content
<1>1. NoRoot \in [{} -> BOOLEAN]
  BY DEF NoRoot
<1>2. NoRoot \in Roots
  BY <1>1 DEF Roots
<1>3. QED
  BY <1>2 DEF Empty, Content

LEMMA StoreInit == Init => StoreInv
<1> SUFFICES ASSUME Init
             PROVE  StoreInv
  OBVIOUS
<1>1. TypeOK
  BY EmptyType, StoreAssumption DEF Init, TypeOK
<1>2. RootStored
  BY LastSingle DEF Init, RootStored, Stored, Empty
<1>3. QED
  BY <1>1, <1>2 DEF Init, StoreInv, RootMissesOnly, PublishInv

\* How the database changes: not at all, by a commit, by saving a root, or by
\* losing what was not synced.
LEMMA DiskStep ==
  ASSUME TypeOK, RootStored, NEW c \in Content, c.root = Stored.root
  PROVE  /\ disk' = <<c>> \/ disk' = Append(disk, c)
              => /\ disk' \in Seq(Content)
                 /\ disk' # <<>>
                 /\ Stored' = c
                 /\ \A i \in DOMAIN disk' : disk'[i].root = c.root
<1>1. disk \in Seq(Content) /\ disk # <<>>
  BY DEF TypeOK
<1>2. CASE disk' = <<c>>
  BY <1>2, LastSingle DEF Stored
<1>3. CASE disk' = Append(disk, c)
  <2>1. disk' \in Seq(Content) /\ disk' # <<>> /\ Stored' = c
    BY <1>1, <1>3, LastAppend DEF Stored
  <2>2. \A i \in DOMAIN disk' : disk'[i] = c \/ (i \in DOMAIN disk /\ disk'[i] = disk[i])
    BY <1>1, <1>3
  <2>3. QED
    BY <2>1, <2>2 DEF RootStored
<1>4. QED
  BY <1>2, <1>3

LEMMA StoreStep == StoreInv /\ [Next]_vars => StoreInv'
<1> SUFFICES ASSUME TypeOK, RootStored, RootMissesOnly, PublishInv, [Next]_vars
             PROVE  StoreInv'
  BY DEF StoreInv
<1> USE StoreAssumption
<1>1. Stored \in Content
  BY LastType DEF Stored, TypeOK
<1>2. ASSUME NEW id \in Ids, NEW live \in BOOLEAN, Change(id, live),
             orders' \in SUBSET Ids
      PROVE  StoreInv'
  <2>1. TypeOK'
    BY <1>2 DEF Change, TypeOK, Tasks
  <2>2. RootStored'
    BY <1>2 DEF Change, RootStored, Stored, Running
  <2>3. RootMissesOnly' /\ PublishInv'
    BY <1>2 DEF Change, RootMissesOnly, PublishInv, Running
  <2>4. QED
    BY <2>1, <2>2, <2>3 DEF StoreInv
<1>3. ASSUME NEW id \in Ids, SetOrder(id)
      PROVE  StoreInv'
  BY <1>2, <1>3 DEF SetOrder, TypeOK
<1>4. ASSUME NEW id \in Ids, CancelOrder(id)
      PROVE  StoreInv'
  BY <1>2, <1>4 DEF CancelOrder, TypeOK
<1>5. ASSUME NEW s \in senders, Send(s)
      PROVE  StoreInv'
  BY <1>5 DEF Send, StoreInv, TypeOK, RootStored, Stored, Running, RootMissesOnly,
       PublishInv, memVars, histVars
<1>6. ASSUME WriterTake
      PROVE  StoreInv'
  <2> DEFINE b == Append(batch, Head(writeCh))
  <2>1. b \in Seq(Tasks) /\ Tail(writeCh) \in Seq(Tasks)
    BY <1>6 DEF WriterTake, TypeOK
  <2> HIDE DEF b
  <2>2. Committed(b) \in Content /\ Committed(b).root = Stored.root
    BY <1>1, CommittedType DEF Committed
  <2>3. disk' = disk \/ disk' = Append(disk, Committed(b))
    BY <1>6 DEF WriterTake, b
  <2>4. /\ disk' \in Seq(Content) /\ disk' # <<>>
        /\ Stored'.root = Stored.root
        /\ \A i \in DOMAIN disk' : disk'[i].root = Stored.root
    <3>1. CASE disk' = disk
      BY <3>1 DEF TypeOK, RootStored, Stored
    <3>2. CASE disk' = Append(disk, Committed(b))
      BY <2>2, <3>2, DiskStep
    <3>3. QED
      BY <2>3, <3>1, <3>2
  <2>5. batch' \in Seq(Tasks)
    BY <1>6, <2>1 DEF WriterTake, b
  <2>6. TypeOK'
    BY <1>6, <2>1, <2>4, <2>5 DEF WriterTake, TypeOK, memVars, histVars
  <2>7. RootStored'
    BY <1>6, <2>4 DEF WriterTake, RootStored, Running, memVars
  <2>8. RootMissesOnly' /\ PublishInv'
    BY <1>6 DEF WriterTake, RootMissesOnly, PublishInv, Running, memVars, histVars
  <2>9. QED
    BY <2>6, <2>7, <2>8 DEF StoreInv
<1>7. ASSUME WriterTick
      PROVE  StoreInv'
  <2>1. Committed(batch) \in Content /\ Committed(batch).root = Stored.root
    BY <1>1, CommittedType DEF Committed
  <2>2. /\ disk' \in Seq(Content) /\ disk' # <<>>
        /\ Stored'.root = Stored.root
        /\ \A i \in DOMAIN disk' : disk'[i].root = Stored.root
    BY <1>7, <2>1, DiskStep DEF WriterTick
  <2>3. TypeOK'
    BY <1>7, <2>2 DEF WriterTick, TypeOK, memVars, histVars
  <2>4. RootStored'
    BY <1>7, <2>2 DEF WriterTick, RootStored, Running, memVars
  <2>5. RootMissesOnly' /\ PublishInv'
    BY <1>7 DEF WriterTick, RootMissesOnly, PublishInv, Running, memVars, histVars
  <2>6. QED
    BY <2>3, <2>4, <2>5 DEF StoreInv
<1>8. ASSUME WriterStop
      PROVE  StoreInv'
  BY <1>8 DEF WriterStop, StoreInv, TypeOK, RootStored, Stored, Running, RootMissesOnly,
       PublishInv, memVars, histVars
<1>9. ASSUME CalcCollect
      PROVE  StoreInv'
  <2>1. [id \in dirty |-> id \in orders] \in Roots
    BY RootType DEF TypeOK
  <2>2. TypeOK'
    BY <1>9, <2>1 DEF CalcCollect, TypeOK, memVars, writeVars
  <2>3. RootStored'
    BY <1>9 DEF CalcCollect, RootStored, Stored, Running, memVars
  <2>4. RootMissesOnly' /\ PublishInv'
    BY <1>9 DEF CalcCollect, RootMissesOnly, PublishInv, Running, memVars
  <2>5. QED
    BY <2>2, <2>3, <2>4 DEF StoreInv
<1>10. ASSUME CalcPublish
       PROVE  StoreInv'
  <2>1. TypeOK'
    BY SMTT(30), <1>10 DEF CalcPublish, TypeOK, writeVars, histVars
  <2>2. RootStored'
    BY <1>10 DEF CalcPublish, RootStored, Stored, TypeOK
  <2>3. RootMissesOnly' /\ PublishInv'
    BY <1>10 DEF CalcPublish, RootMissesOnly, PublishInv, TypeOK, histVars
  <2>4. QED
    BY <2>1, <2>2, <2>3 DEF StoreInv
<1>11. ASSUME CalcSave
       PROVE  StoreInv'
  <2> DEFINE c == [Stored EXCEPT !.root = calc.root]
  <2>1. c \in Content /\ c.root = calc.root
    BY <1>1 DEF Content, TypeOK
  <2>2. disk' = <<c>>
    BY <1>11 DEF CalcSave
  <2> HIDE DEF c
  <2>3. /\ disk' \in Seq(Content) /\ disk' # <<>> /\ Stored' = c
        /\ \A i \in DOMAIN disk' : disk'[i] = c
    BY <2>1, <2>2, LastSingle DEF Stored
  <2>4. TypeOK'
    BY <1>11, <2>3, EmptyType DEF CalcSave, TypeOK, memVars, writeVars, histVars
  <2>5. RootStored'
    BY <1>11, <2>1, <2>3 DEF CalcSave, RootStored, PublishInv, memVars
  <2>6. RootMissesOnly' /\ PublishInv'
    BY <1>11 DEF CalcSave, RootMissesOnly, PublishInv, Running, memVars, histVars
  <2>7. QED
    BY <2>4, <2>5, <2>6 DEF StoreInv
<1>12. ASSUME CalcStop
       PROVE  StoreInv'
  BY <1>12 DEF CalcStop, StoreInv, TypeOK, RootStored, Stored, Running, RootMissesOnly,
       PublishInv, memVars, writeVars, histVars
<1>13. ASSUME Close
       PROVE  StoreInv'
  BY <1>13 DEF Close, StoreInv, TypeOK, RootStored, Stored, Running, RootMissesOnly,
       PublishInv, memVars, writeVars, histVars
<1>14. ASSUME CloseDB
       PROVE  StoreInv'
  <2>1. /\ disk' \in Seq(Content) /\ disk' # <<>>
        /\ Stored'.root = Stored.root
        /\ \A i \in DOMAIN disk' : disk'[i].root = Stored.root
    BY <1>1, <1>14, DiskStep DEF CloseDB
  <2>2. TypeOK'
    BY <1>14, <2>1 DEF CloseDB, TypeOK, memVars, writeVars, histVars
  <2>3. RootStored'
    BY <2>1, <1>14 DEF CloseDB, RootStored, Running
  <2>4. RootMissesOnly' /\ PublishInv'
    BY <1>14 DEF CloseDB, RootMissesOnly, PublishInv, Running, memVars, histVars
  <2>5. QED
    BY <2>2, <2>3, <2>4 DEF StoreInv
<1>15. ASSUME Crash
       PROVE  StoreInv'
  <2>1. PICK i \in DOMAIN disk : disk' = <<disk[i]>>
    BY <1>15 DEF Crash
  <2>2. disk[i] \in Content /\ disk[i].root = Stored.root
    BY DEF TypeOK, RootStored
  <2>3. /\ disk' \in Seq(Content) /\ disk' # <<>>
        /\ Stored'.root = Stored.root
        /\ \A j \in DOMAIN disk' : disk'[j].root = Stored.root
    BY <2>1, <2>2, DiskStep
  <2>4. TypeOK'
    BY <1>15, <2>3 DEF Crash, TypeOK, memVars, writeVars, histVars
  <2>5. RootStored'
    BY <1>15, <2>3 DEF Crash, RootStored, Running
  <2>6. RootMissesOnly' /\ PublishInv'
    BY <1>15 DEF Crash, RootMissesOnly, PublishInv, Running, memVars, histVars
  <2>7. QED
    BY <2>4, <2>5, <2>6 DEF StoreInv
<1>16. ASSUME Restart
       PROVE  StoreInv'
  <2>1. TypeOK'
    BY <1>1, <1>16, EmptyType DEF Restart, TypeOK, Content
  <2>2. RootStored'
    BY <1>16 DEF Restart, RootStored, Stored
  <2>3. RootMissesOnly' /\ PublishInv'
    BY <1>16 DEF Restart, RootMissesOnly, PublishInv
  <2>4. QED
    BY <2>1, <2>2, <2>3 DEF StoreInv
<1>17. CASE UNCHANGED vars
  BY <1>17 DEF vars, StoreInv, TypeOK, RootStored, Stored, Running, RootMissesOnly,
       PublishInv, memVars, writeVars, histVars
<1>18. QED
  BY <1>3, <1>4, <1>5, <1>6, <1>7, <1>8, <1>9, <1>10, <1>11, <1>12, <1>13, <1>14,
     <1>15, <1>16, <1>17 DEF Next

LEMMA StoreInvariant == Spec => []StoreInv
  BY StoreInit, StoreStep, PTL DEF Spec

\* Type correctness: maps, channel, batch and database stay well formed
\* through every interleaving, crash and restart.
THEOREM TypeCorrect == Spec => []TypeOK
<1>1. StoreInv => TypeOK
  BY DEF StoreInv
<1>2. QED
  BY <1>1, StoreInvariant, PTL

\* GetRoot and the stored root agree through every crash and restart, except
\* between publishing and saving a root; no crash brings an older root back.
THEOREM RootIsStored == Spec => []RootStored
<1>1. StoreInv => RootStored
  BY DEF StoreInv
<1>2. QED
  BY <1>1, StoreInvariant, PTL

\* A change escapes the roots only if it is made while one is being hashed.
THEOREM OnlyRacingChangesMissed == Spec => []RootMissesOnly
<1>1. StoreInv => RootMissesOnly
  BY DEF StoreInv
<1>2. QED
  BY <1>1, StoreInvariant, PTL
===============================================================================
