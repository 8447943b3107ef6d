----------------------- MODULE ProposerPipeline_proofs -----------------------
(***************************************************************************)
(* Theorems about ProposerPipeline: type correctness, that only verified   *)
(* transactions reach the later stages, and that the nonces of a user are  *)
(* dispatched in strictly increasing order.  The second part rests on      *)
(* where a transaction can be: the WaitGroup counts the transactions that  *)
(* are still inside, every market keeps its order, the newest transaction  *)
(* of a user is never lost, and the pipeline implements NonceLog.          *)
(***************************************************************************)
EXTENDS ProposerPipeline, FiniteSetTheorems, TLAPS

\* What a verifier has passed on is valid and recorded as verified.
Cleared(t) == Valid(t) /\ t \in verified

\* The strengthening under which TypeOK and OnlyVerified are inductive.
ClearedInv ==
  /\ \A v \in Verifiers : verifier[v].pc = "send" => Cleared(verifier[v].tx)
  /\ \A w \in Preparers : \A i \in DOMAIN prepareChans[w] : Cleared(prepareChans[w][i])
  /\ \A w \in Preparers : \A u \in Users : \A i \in DOMAIN pendingBuffers[w][u] :
       Cleared(pendingBuffers[w][u][i])
  /\ \A x \in Executors : \A i \in DOMAIN execChans[x] : Cleared(execChans[x][i])
  /\ \A x \in Executors : executor[x].pc = "run" => Cleared(executor[x].tx)
  /\ \A i \in DOMAIN committed : Cleared(committed[i])

\* A prepare worker buffers only the transaction it is working on: between
\* two jobs all its buffers are empty, so the drained queue has one element.
DrainInv ==
  \A w \in Preparers :
    /\ \A u \in Users :
         preparer[w].pc = "idle" \/ u # preparer[w].uid => pendingBuffers[w][u] = <<>>
    /\ preparer[w].pc # "idle" =>
         /\ Len(PendingQueue(w)) = 1
         /\ PendingQueue(w)[1].uid = preparer[w].uid
    /\ preparer[w].processed \in {0, 1}
    /\ preparer[w].pc = "store" => preparer[w].processed = 0
    /\ preparer[w].pc = "drain" /\ preparer[w].processed = 0
         => PendingQueue(w)[1].nonce >= preparer[w].expected

PipeInv == TypeOK /\ ClearedInv /\ DrainInv

LEMMA RouteType ==
  ASSUME NEW t \in Txs
  PROVE  TxRoute(t) \in Preparers /\ ExecRoute(t) \in Executors
<1>1. t.uid \in Nat /\ t.market \in Nat
  BY PipelineAssumption DEF Tx
<1>2. TxRoute(t) \in Preparers
  <2>1. CASE t.uid \in DOMAIN ManualRoutes
    <3>1. ManualRoutes[t.uid] \in Nat
      BY <2>1, PipelineAssumption
    <3>2. QED
      BY <2>1, <3>1, PipelineAssumption DEF TxRoute, Preparers
  <2>2. CASE t.uid \notin DOMAIN ManualRoutes
    BY <1>1, <2>2, PipelineAssumption DEF TxRoute, Preparers
  <2>3. QED
    BY <2>1, <2>2
<1>3. ExecRoute(t) \in Executors
  BY <1>1, PipelineAssumption DEF ExecRoute, Executors
<1>4. QED
  BY <1>2, <1>3

LEMMA AddType ==
  ASSUME NEW q \in Seq(Txs), NEW t \in Txs
  PROVE  BufferAdd(q, t) \in Seq(Txs)
<1> DEFINE S == {i \in DOMAIN q : q[i].nonce <= t.nonce}
<1>1. IsFiniteSet(S) /\ Cardinality(S) \in Nat /\ Cardinality(S) <= Len(q)
  <2>1. IsFiniteSet(1..Len(q)) /\ Cardinality(1..Len(q)) = Len(q)
    <3>1. Len(q) \in Nat
      OBVIOUS
    <3>2. QED
      BY <3>1, FS_Interval
  <2>2. S \subseteq 1..Len(q)
    OBVIOUS
  <2>3. QED
    BY <2>1, <2>2, FS_Subset, FS_CardinalityType
<1> HIDE DEF S
<1>2. SubSeq(q, 1, Cardinality(S)) \in Seq(Txs)
  BY <1>1
<1>3. SubSeq(q, Cardinality(S) + 1, Len(q)) \in Seq(Txs)
  BY <1>1
<1>4. QED
  BY <1>2, <1>3 DEF BufferAdd, S

LEMMA BusyJob ==
  ASSUME NEW L, NEW j \in Job(L), j.pc # "idle"
  PROVE  j \in [pc : L, tx : Txs] /\ j.tx \in Txs
BY DEF Job, Idle

LEMMA MoveJob ==
  ASSUME NEW L, NEW j \in Job(L), j.pc # "idle", NEW l \in L
  PROVE  [j EXCEPT !.pc = l] \in Job(L)
BY BusyJob DEF Job

LEMMA ElementType ==
  ASSUME NEW q \in Seq(Txs), NEW k \in Nat, k < Len(q)
  PROVE  q[k + 1] \in Txs
OBVIOUS

LEMMA AddOne ==
  ASSUME NEW t \in Txs
  PROVE  BufferAdd(<<>>, t) = <<t>>
<1> DEFINE S == {i \in DOMAIN <<>> : <<>>[i].nonce <= t.nonce}
<1>1. S = {}
  OBVIOUS
<1>2. Cardinality(S) = 0
  BY <1>1, FS_EmptySet
<1> HIDE DEF S
<1>3. BufferAdd(<<>>, t) = SubSeq(<<>>, 1, 0) \o <<t>> \o SubSeq(<<>>, 1, Len(<<>>))
  BY <1>2 DEF BufferAdd, S
<1>4. QED
  BY <1>3

LEMMA NextNonceType ==
  ASSUME NEW u \in Users, nonce[u] \in Nonces
  PROVE  NextNonce(u) \in Nonces
BY PipelineAssumption DEF NextNonce, Nonces

-------------------------------------------------------------------------------
(* Type correctness.                                                       *)

LEMMA TypeInit == Init => TypeOK
  BY PipelineAssumption DEF Init, TypeOK, At, Idle, IdlePreparer, Job, Users, Nonces

LEMMA TypeStep == PipeInv /\ [Next]_vars => TypeOK'
<1> SUFFICES ASSUME TypeOK, ClearedInv, DrainInv, [Next]_vars
             PROVE  TypeOK'
  BY DEF PipeInv
<1> USE PipelineAssumption
<1>1. ASSUME NEW t \in Txs, PushRefused(t)
      PROVE  TypeOK'
  BY <1>1
     DEF PushRefused, TypeOK, SigPut, decodeVars, verifyVars, prepareVars,
         executeVars
<1>2. ASSUME NEW t \in Txs, PushAccepted(t)
      PROVE  TypeOK'
  BY <1>2
     DEF PushAccepted, TypeOK, At, SigPut, decodeVars, verifyVars, prepareVars,
         executeVars
<1>3. ASSUME PushSend
      PROVE  TypeOK'
  BY <1>3 DEF PushSend, TypeOK, At, Idle, Job, verifyVars, prepareVars, executeVars
<1>4. ASSUME WaitReturns
      PROVE  TypeOK'
  BY <1>4
     DEF WaitReturns, TypeOK, At, Idle, Job, decodeVars, verifyVars, prepareVars,
         executeVars
<1>5. ASSUME NEW d \in Decoders, DecoderTake(d)
      PROVE  TypeOK'
  BY <1>5
     DEF DecoderTake, TypeOK, At, Idle, Job, inputVars, verifyVars, prepareVars,
         executeVars
<1>6. ASSUME NEW d \in Decoders, DecoderDiscard(d)
      PROVE  TypeOK'
  BY <1>6
     DEF DecoderDiscard, TypeOK, At, Idle, Job, inputVars, verifyVars, prepareVars,
         executeVars
<1>7. ASSUME NEW d \in Decoders, DecoderForget(d)
      PROVE  TypeOK'
  BY <1>7
     DEF DecoderForget, TypeOK, At, Idle, Job, inputVars, verifyVars, prepareVars,
         executeVars
<1>8. ASSUME NEW d \in Decoders, DecoderPass(d)
      PROVE  TypeOK'
  <2>1. decoder[d] \in Job({"check", "send"})
    BY DEF TypeOK
  <2>2. decoder' \in [Decoders -> Job({"check", "send"})]
    BY <1>8, <2>1, MoveJob DEF DecoderPass, TypeOK
  <2>3. decoder[d].tx \in Txs
    BY <1>8, <2>1, BusyJob DEF DecoderPass
  <2>4. QED
    BY <1>8, <2>2, <2>3
       DEF DecoderPass, TypeOK, inputVars, verifyVars, prepareVars, executeVars
<1>9. ASSUME NEW d \in Decoders, DecoderSend(d)
      PROVE  TypeOK'
  BY <1>9 DEF DecoderSend, TypeOK, At, Idle, Job, inputVars, prepareVars, executeVars
<1>10. ASSUME NEW v \in Verifiers, VerifierTake(v)
      PROVE  TypeOK'
  BY <1>10
     DEF VerifierTake, TypeOK, At, Idle, Job, inputVars, decodeVars, prepareVars,
         executeVars
<1>11. ASSUME NEW v \in Verifiers, VerifierReject(v)
      PROVE  TypeOK'
  <2>1. verifier[v] \in Job({"check", "report", "close", "send"})
    BY DEF TypeOK
  <2>2. verifier' \in [Verifiers -> Job({"check", "report", "close", "send"})]
    BY <1>11, <2>1, MoveJob DEF VerifierReject, TypeOK
  <2>3. verifier[v].tx \in Txs
    BY <1>11, <2>1, BusyJob DEF VerifierReject
  <2>4. QED
    BY SMTT(30), <1>11, <2>2, <2>3
       DEF VerifierReject, TypeOK, inputVars, decodeVars, prepareVars, executeVars
<1>12. ASSUME NEW v \in Verifiers, VerifierReport(v)
      PROVE  TypeOK'
  BY <1>12
     DEF VerifierReport, TypeOK, At, Idle, Job, Result, inputVars, decodeVars,
         prepareVars, executeVars
<1>13. ASSUME NEW v \in Verifiers, VerifierKeyError(v)
      PROVE  TypeOK'
  <2>1. verifier[v] \in Job({"check", "report", "close", "send"})
    BY DEF TypeOK
  <2>2. verifier' \in [Verifiers -> Job({"check", "report", "close", "send"})]
    BY <1>13, <2>1, MoveJob DEF VerifierKeyError, TypeOK
  <2>3. verifier[v].tx \in Txs
    BY <1>13, <2>1, BusyJob DEF VerifierKeyError
  <2>4. QED
    BY SMTT(30), <1>13, <2>2, <2>3
       DEF VerifierKeyError, TypeOK, Result, inputVars, decodeVars, prepareVars,
           executeVars
<1>14. ASSUME NEW v \in Verifiers, VerifierClose(v)
      PROVE  TypeOK'
  BY <1>14
     DEF VerifierClose, TypeOK, At, Idle, Job, inputVars, decodeVars, prepareVars,
         executeVars
<1>15. ASSUME NEW v \in Verifiers, VerifierAccept(v)
      PROVE  TypeOK'
  <2>1. verifier[v] \in Job({"check", "report", "close", "send"})
    BY DEF TypeOK
  <2>2. verifier' \in [Verifiers -> Job({"check", "report", "close", "send"})]
    BY <1>15, <2>1, MoveJob DEF VerifierAccept, TypeOK
  <2>3. verifier[v].tx \in Txs
    BY <1>15, <2>1, BusyJob DEF VerifierAccept
  <2>4. QED
    BY <1>15, <2>2, <2>3
       DEF VerifierAccept, TypeOK, SigPut, decodeVars, prepareVars, executeVars
<1>16. ASSUME NEW v \in Verifiers, VerifierSend(v)
      PROVE  TypeOK'
  <2>1. verifier[v] \in Job({"check", "report", "close", "send"})
    BY DEF TypeOK
  <2>2. verifier[v].tx \in Txs
    BY <1>16, <2>1, BusyJob DEF VerifierSend
  <2>3. TxRoute(verifier[v].tx) \in Preparers
    BY <2>2, RouteType
  <2>4. prepareChans' \in [Preparers -> Seq(Txs)]
    BY <1>16, <2>2, <2>3 DEF VerifierSend, TypeOK
  <2>5. verifier' \in [Verifiers -> Job({"check", "report", "close", "send"})]
    BY <1>16 DEF VerifierSend, TypeOK, Job, Idle
  <2>6. QED
    BY <1>16, <2>4, <2>5 DEF VerifierSend, TypeOK, inputVars, decodeVars, executeVars
<1>17. ASSUME NEW w \in Preparers, PrepareDrop(w)
      PROVE  TypeOK'
  BY <1>17
     DEF PrepareDrop, TypeOK, At, Idle, Job, inputVars, decodeVars, verifyVars,
         executeVars
<1>18. ASSUME NEW w \in Preparers, PrepareAdmit(w)
      PROVE  TypeOK'
  <2> DEFINE t == Head(prepareChans[w])
  <2>1. t \in Txs /\ Tail(prepareChans[w]) \in Seq(Txs)
    BY <1>18 DEF PrepareAdmit, TypeOK
  <2>2. Cleared(t)
    BY <1>18 DEF PrepareAdmit, TypeOK, ClearedInv
  <2>3. t.uid \in Users
    BY <2>2 DEF Cleared, Valid, Registered
  <2> HIDE DEF t
  <2>4. pendingBuffers[w][t.uid] \in Seq(Txs) /\ nonce[t.uid] \in Nonces
    BY <2>3 DEF TypeOK
  <2>5. BufferAdd(pendingBuffers[w][t.uid], t) \in Seq(Txs)
    BY <2>1, <2>4, AddType
  <2>6. pendingBuffers' \in [Preparers -> [Users -> Seq(Txs)]]
    BY <1>18, <2>3, <2>5 DEF PrepareAdmit, TypeOK, t
  <2>7. NextNonce(t.uid) \in Nonces
    BY <2>3, <2>4, NextNonceType
  <2>8. preparer' \in [Preparers -> [pc : {"idle", "drain", "store"}, uid : Users,
                                    expected : Nonces, processed : Nat]]
    BY <1>18, <2>3, <2>7 DEF PrepareAdmit, TypeOK, t
  <2>9. QED
    BY <1>18, <2>1, <2>6, <2>8
       DEF PrepareAdmit, TypeOK, t, inputVars, decodeVars, verifyVars, executeVars
<1>19. ASSUME NEW w \in Preparers, PrepareSend(w)
      PROVE  TypeOK'
  <2> DEFINE t == NextPending(w)
  <2>1. PendingQueue(w) \in Seq(Txs)
    BY DEF TypeOK, PendingQueue
  <2>2. preparer[w].processed \in Nat
    BY DEF TypeOK
  <2>3. t \in Txs
    BY <1>19, <2>1, <2>2, ElementType DEF PrepareSend, CanDrain, NextPending
  <2>4. ExecRoute(t) \in Executors
    BY <2>3, RouteType
  <2>5. execChans' \in [Executors -> Seq(Txs)] /\ dispatched' \in Seq(Txs)
    BY <1>19, <2>3, <2>4 DEF PrepareSend, TypeOK
  <2>6. preparer' \in [Preparers -> [pc : {"idle", "drain", "store"}, uid : Users,
                                    expected : Nonces, processed : Nat]]
    <3>1. preparer' = [preparer EXCEPT ![w].pc = "store"]
      BY <1>19 DEF PrepareSend
    <3>2. preparer \in [Preparers -> [pc : {"idle", "drain", "store"}, uid : Users,
                                      expected : Nonces, processed : Nat]]
      BY DEF TypeOK
    <3>3. QED
      BY <3>1, <3>2
  <2>7. QED
    BY <1>19, <2>5, <2>6 DEF PrepareSend, TypeOK, inputVars, decodeVars, verifyVars
<1>20. ASSUME NEW w \in Preparers, PrepareStore(w)
      PROVE  TypeOK'
  <2>1. preparer[w].uid \in Users /\ preparer[w].processed = 0
    BY <1>20 DEF PrepareStore, TypeOK, DrainInv
  <2>2. PendingQueue(w) \in Seq(Txs) /\ Len(PendingQueue(w)) = 1
    BY <1>20, <2>1 DEF PrepareStore, TypeOK, DrainInv, PendingQueue
  <2>3. NextPending(w) \in Txs
    BY <2>1, <2>2, ElementType DEF NextPending
  <2>4. NextPending(w).nonce \in Nonces
    BY <2>3 DEF Tx
  <2>5. nonce' \in [Users -> Nonces]
    BY <1>20, <2>1, <2>4 DEF PrepareStore, TypeOK
  <2>6. preparer' \in [Preparers -> [pc : {"idle", "drain", "store"}, uid : Users,
                                    expected : Nonces, processed : Nat]]
    BY <1>20, <2>1, <2>4 DEF PrepareStore, TypeOK
  <2>7. QED
    BY <1>20, <2>5, <2>6
       DEF PrepareStore, TypeOK, inputVars, decodeVars, verifyVars, executeVars
<1>21. ASSUME NEW w \in Preparers, PrepareFinish(w)
      PROVE  TypeOK'
  <2>1. preparer[w].uid \in Users /\ preparer[w].processed \in Nat
    BY DEF TypeOK
  <2>2. PICK q \in Seq(Txs) : q = pendingBuffers[w][preparer[w].uid]
    BY <2>1 DEF TypeOK
  <2>3. SubSeq(q, preparer[w].processed + 1, Len(q)) \in Seq(Txs)
    BY <2>1
  <2>4. pendingBuffers' \in [Preparers -> [Users -> Seq(Txs)]]
    BY <1>21, <2>1, <2>2, <2>3 DEF PrepareFinish, TypeOK
  <2>5. preparer' \in [Preparers -> [pc : {"idle", "drain", "store"}, uid : Users,
                                    expected : Nonces, processed : Nat]]
    BY <1>21 DEF PrepareFinish, TypeOK, IdlePreparer, Users, Nonces
  <2>6. QED
    BY <1>21, <2>4, <2>5
       DEF PrepareFinish, TypeOK, inputVars, decodeVars, verifyVars, executeVars
<1>22. ASSUME NEW x \in Executors, ExecTake(x)
      PROVE  TypeOK'
  BY <1>22
     DEF ExecTake, TypeOK, At, Idle, Job, inputVars, decodeVars, verifyVars,
         prepareVars
<1>23. ASSUME NEW x \in Executors, ExecCommit(x)
      PROVE  TypeOK'
  <2>1. executor[x] \in Job({"run", "close"})
    BY DEF TypeOK
  <2>2. executor' \in [Executors -> Job({"run", "close"})]
    BY <1>23, <2>1, MoveJob DEF ExecCommit, TypeOK
  <2>3. executor[x].tx \in Txs
    BY <1>23, <2>1, BusyJob DEF ExecCommit
  <2>4. output' \in Seq(Result) /\ committed' \in Seq(Txs)
    BY <1>23, <2>3 DEF ExecCommit, TypeOK, Result
  <2>5. QED
    BY <1>23, <2>2, <2>4
       DEF ExecCommit, TypeOK, inputVars, decodeVars, verifyVars, prepareVars
<1>24. ASSUME NEW x \in Executors, ExecDone(x)
      PROVE  TypeOK'
  BY <1>24
     DEF ExecDone, TypeOK, At, Idle, Job, inputVars, decodeVars, verifyVars,
         prepareVars
<1>25. ASSUME Consume
      PROVE  TypeOK'
  BY <1>25
     DEF Consume, TypeOK, At, Idle, Job, Result, inputVars, decodeVars, verifyVars,
         prepareVars, executeVars
<1>26. CASE UNCHANGED vars
  BY <1>26 DEF vars, TypeOK, inputVars, decodeVars, verifyVars, prepareVars, executeVars
<1>27. QED
  BY <1>1, <1>2, <1>3, <1>4, <1>5, <1>6, <1>7, <1>8, <1>9, <1>10, <1>11, <1>12,
     <1>13, <1>14, <1>15, <1>16, <1>17, <1>18, <1>19, <1>20, <1>21, <1>22, <1>23,
     <1>24, <1>25, <1>26
     DEF Next, DecoderStep, VerifierStep, PrepareStep, ExecStep

-------------------------------------------------------------------------------
(* What reaches the later stages is verified.                              *)

LEMMA ClearedInit == Init => ClearedInv
  BY DEF Init, ClearedInv, Idle

LEMMA ClearedStep == PipeInv /\ [Next]_vars => ClearedInv'
<1> SUFFICES ASSUME TypeOK, ClearedInv, DrainInv, [Next]_vars
             PROVE  ClearedInv'
  BY DEF PipeInv
<1>1. ASSUME NEW t \in Txs, PushRefused(t)
      PROVE  ClearedInv'
  BY <1>1
     DEF PushRefused, ClearedInv, Cleared, decodeVars, verifyVars, prepareVars,
         executeVars
<1>2. ASSUME NEW t \in Txs, PushAccepted(t)
      PROVE  ClearedInv'
  BY <1>2
     DEF PushAccepted, ClearedInv, Cleared, decodeVars, verifyVars, prepareVars,
         executeVars
<1>3. ASSUME PushSend
      PROVE  ClearedInv'
  BY <1>3 DEF PushSend, ClearedInv, Cleared, verifyVars, prepareVars, executeVars
<1>4. ASSUME WaitReturns
      PROVE  ClearedInv'
  BY <1>4
     DEF WaitReturns, ClearedInv, Cleared, decodeVars, verifyVars, prepareVars,
         executeVars
<1>5. ASSUME NEW d \in Decoders, DecoderTake(d)
      PROVE  ClearedInv'
  BY <1>5
     DEF DecoderTake, ClearedInv, Cleared, inputVars, verifyVars, prepareVars,
         executeVars
<1>6. ASSUME NEW d \in Decoders, DecoderDiscard(d)
      PROVE  ClearedInv'
  BY <1>6
     DEF DecoderDiscard, ClearedInv, Cleared, inputVars, verifyVars, prepareVars,
         executeVars
<1>7. ASSUME NEW d \in Decoders, DecoderForget(d)
      PROVE  ClearedInv'
  BY <1>7
     DEF DecoderForget, ClearedInv, Cleared, inputVars, verifyVars, prepareVars,
         executeVars
<1>8. ASSUME NEW d \in Decoders, DecoderPass(d)
      PROVE  ClearedInv'
  BY <1>8
     DEF DecoderPass, ClearedInv, Cleared, inputVars, verifyVars, prepareVars,
         executeVars
<1>9. ASSUME NEW d \in Decoders, DecoderSend(d)
      PROVE  ClearedInv'
  BY <1>9 DEF DecoderSend, ClearedInv, Cleared, inputVars, prepareVars, executeVars
<1>10. ASSUME NEW v \in Verifiers, VerifierTake(v)
      PROVE  ClearedInv'
  BY <1>10
     DEF VerifierTake, ClearedInv, Cleared, TypeOK, At, Idle, inputVars, decodeVars,
         prepareVars, executeVars
<1>11. ASSUME NEW v \in Verifiers, VerifierReject(v)
      PROVE  ClearedInv'
  BY <1>11
     DEF VerifierReject, ClearedInv, Cleared, TypeOK, At, Idle, inputVars,
         decodeVars, prepareVars, executeVars
<1>12. ASSUME NEW v \in Verifiers, VerifierReport(v)
      PROVE  ClearedInv'
  BY <1>12
     DEF VerifierReport, ClearedInv, Cleared, TypeOK, At, Idle, inputVars,
         decodeVars, prepareVars, executeVars
<1>13. ASSUME NEW v \in Verifiers, VerifierKeyError(v)
      PROVE  ClearedInv'
  BY <1>13
     DEF VerifierKeyError, ClearedInv, Cleared, TypeOK, At, Idle, inputVars,
         decodeVars, prepareVars, executeVars
<1>14. ASSUME NEW v \in Verifiers, VerifierClose(v)
      PROVE  ClearedInv'
  BY <1>14
     DEF VerifierClose, ClearedInv, Cleared, TypeOK, At, Idle, inputVars,
         decodeVars, prepareVars, executeVars
<1>15. ASSUME NEW v \in Verifiers, VerifierAccept(v)
      PROVE  ClearedInv'
  <2>1. verifier[v] \in Job({"check", "report", "close", "send"})
    BY DEF TypeOK
  <2>2. verifier[v].pc = "check" /\ verifier'[v].tx = verifier[v].tx
    BY <1>15, <2>1 DEF VerifierAccept, TypeOK
  <2>3. Valid(verifier[v].tx) /\ verifier[v].tx \in verified'
    BY <1>15 DEF VerifierAccept, Unverifiable, Valid
  <2>4. verified \subseteq verified'
    BY <1>15 DEF VerifierAccept
  <2>5. \A y \in Verifiers : verifier'[y].pc = "send" =>
          Valid(verifier'[y].tx) /\ verifier'[y].tx \in verified'
    BY <1>15, <2>2, <2>3, <2>4 DEF VerifierAccept, ClearedInv, Cleared, TypeOK
  <2>6. QED
    BY <1>15, <2>4, <2>5
       DEF VerifierAccept, ClearedInv, Cleared, decodeVars, prepareVars, executeVars
<1>16. ASSUME NEW v \in Verifiers, VerifierSend(v)
      PROVE  ClearedInv'
  <2> DEFINE t == verifier[v].tx
             r == TxRoute(t)
  <2>1. t \in Txs
    BY <1>16, BusyJob DEF VerifierSend, TypeOK
  <2>2. r \in Preparers /\ prepareChans[r] \in Seq(Txs)
    BY <2>1, RouteType DEF TypeOK
  <2>3. Cleared(t)
    BY <1>16 DEF VerifierSend, ClearedInv
  <2>4. prepareChans' = [prepareChans EXCEPT ![r] = Append(@, t)]
    BY <1>16 DEF VerifierSend
  <2>5. \A y \in Verifiers : verifier'[y].pc = "send" => Cleared(verifier'[y].tx)
    BY <1>16 DEF VerifierSend, ClearedInv, TypeOK, Idle
  <2> HIDE DEF t, r
  <2>6. \A w \in Preparers : \A i \in DOMAIN prepareChans'[w] : Cleared(prepareChans'[w][i])
    BY <2>1, <2>2, <2>3, <2>4 DEF ClearedInv, TypeOK
  <2>7. QED
    BY <1>16, <2>5, <2>6
       DEF VerifierSend, ClearedInv, Cleared, inputVars, decodeVars, executeVars
<1>17. ASSUME NEW w \in Preparers, PrepareDrop(w)
      PROVE  ClearedInv'
  <2>1. prepareChans[w] \in Seq(Txs) /\ prepareChans[w] # <<>>
    BY <1>17 DEF PrepareDrop, TypeOK
  <2>2. \A y \in Preparers : \A i \in DOMAIN prepareChans'[y] : Cleared(prepareChans'[y][i])
    BY SMTT(30), <1>17, <2>1 DEF PrepareDrop, TypeOK, ClearedInv
  <2>3. QED
    BY <1>17, <2>2
       DEF PrepareDrop, ClearedInv, Cleared, inputVars, decodeVars, verifyVars,
           executeVars
<1>18. ASSUME NEW w \in Preparers, PrepareAdmit(w)
      PROVE  ClearedInv'
  <2> DEFINE t == Head(prepareChans[w])
  <2>1. prepareChans[w] \in Seq(Txs) /\ prepareChans[w] # <<>>
    BY <1>18 DEF PrepareAdmit, TypeOK
  <2>2. t \in Txs /\ Cleared(t)
    BY <1>18, <2>1 DEF PrepareAdmit, ClearedInv
  <2>3. \A y \in Preparers : \A i \in DOMAIN prepareChans'[y] : Cleared(prepareChans'[y][i])
    BY SMTT(30), <1>18, <2>1 DEF PrepareAdmit, TypeOK, ClearedInv
  <2>4. t.uid \in Users
    BY <2>2 DEF Cleared, Valid, Registered
  <2>5. pendingBuffers[w][t.uid] = <<>>
    BY <1>18, <2>4 DEF PrepareAdmit, DrainInv
  <2> HIDE DEF t
  <2>6. pendingBuffers' = [pendingBuffers EXCEPT ![w][t.uid] = <<t>>]
    BY <1>18, <2>2, <2>5, AddOne DEF PrepareAdmit, t
  <2>7. \A y \in Preparers : \A u \in Users : \A i \in DOMAIN pendingBuffers'[y][u] :
          Cleared(pendingBuffers'[y][u][i])
    BY SMTT(30), <2>2, <2>4, <2>6 DEF TypeOK, ClearedInv
  <2>8. QED
    BY <1>18, <2>3, <2>7
       DEF PrepareAdmit, ClearedInv, Cleared, inputVars, decodeVars, verifyVars,
           executeVars
<1>19. ASSUME NEW w \in Preparers, PrepareSend(w)
      PROVE  ClearedInv'
  <2> DEFINE t == NextPending(w)
             r == ExecRoute(t)
  <2>1. PendingQueue(w) \in Seq(Txs) /\ preparer[w].processed \in Nat
    BY DEF TypeOK, PendingQueue
  <2>2. t \in Txs
    BY <1>19, <2>1, ElementType DEF PrepareSend, CanDrain, NextPending
  <2>3. Cleared(t)
    <3>1. preparer[w].uid \in Users
      BY DEF TypeOK
    <3>2. preparer[w].processed + 1 \in DOMAIN PendingQueue(w)
      BY <1>19, <2>1 DEF PrepareSend, CanDrain
    <3>3. QED
      BY <3>1, <3>2 DEF ClearedInv, PendingQueue, NextPending
  <2>4. r \in Executors /\ execChans[r] \in Seq(Txs)
    BY <2>2, RouteType DEF TypeOK
  <2>5. execChans' = [execChans EXCEPT ![r] = Append(@, t)]
    BY <1>19 DEF PrepareSend
  <2> HIDE DEF t, r
  <2>6. \A x \in Executors : \A i \in DOMAIN execChans'[x] : Cleared(execChans'[x][i])
    BY SMTT(30), <2>2, <2>3, <2>4, <2>5 DEF ClearedInv, TypeOK
  <2>7. QED
    BY <1>19, <2>6
       DEF PrepareSend, ClearedInv, Cleared, inputVars, decodeVars, verifyVars
<1>20. ASSUME NEW w \in Preparers, PrepareStore(w)
      PROVE  ClearedInv'
  BY <1>20
     DEF PrepareStore, ClearedInv, Cleared, inputVars, decodeVars, verifyVars,
         executeVars
<1>21. ASSUME NEW w \in Preparers, PrepareFinish(w)
      PROVE  ClearedInv'
  <2> DEFINE q == PendingQueue(w)
             k == preparer[w].processed
  <2>1. q \in Seq(Txs) /\ k \in Nat /\ preparer[w].uid \in Users
    BY DEF TypeOK, PendingQueue
  <2>2. pendingBuffers' = [pendingBuffers EXCEPT ![w][preparer[w].uid] = SubSeq(q, k + 1, Len(q))]
    BY <1>21, <2>1 DEF PrepareFinish, PendingQueue, TypeOK
  <2>3. \A i \in DOMAIN q : Cleared(q[i])
    BY <2>1 DEF ClearedInv, PendingQueue
  <2> HIDE DEF q, k
  <2>4. \A i \in DOMAIN SubSeq(q, k + 1, Len(q)) : Cleared(SubSeq(q, k + 1, Len(q))[i])
    BY <2>1, <2>3
  <2>5. \A y \in Preparers : \A u \in Users : \A i \in DOMAIN pendingBuffers'[y][u] :
          Cleared(pendingBuffers'[y][u][i])
    BY <2>2, <2>4 DEF TypeOK, ClearedInv
  <2>6. QED
    BY <1>21, <2>5
       DEF PrepareFinish, ClearedInv, Cleared, inputVars, decodeVars, verifyVars,
           executeVars
<1>22. ASSUME NEW x \in Executors, ExecTake(x)
      PROVE  ClearedInv'
  <2>1. execChans[x] \in Seq(Txs) /\ execChans[x] # <<>>
    BY <1>22 DEF ExecTake, TypeOK
  <2>2. \A y \in Executors : \A i \in DOMAIN execChans'[y] : Cleared(execChans'[y][i])
    BY <1>22, <2>1 DEF ExecTake, TypeOK, ClearedInv
  <2>3. Cleared(Head(execChans[x]))
    BY <2>1 DEF ClearedInv
  <2>4. \A y \in Executors : executor'[y].pc = "run" => Cleared(executor'[y].tx)
    BY <1>22, <2>3 DEF ExecTake, TypeOK, ClearedInv, At
  <2>5. QED
    BY <1>22, <2>2, <2>4
       DEF ExecTake, ClearedInv, Cleared, inputVars, decodeVars, verifyVars,
           prepareVars
<1>23. ASSUME NEW x \in Executors, ExecCommit(x)
      PROVE  ClearedInv'
  <2>1. executor[x].tx \in Txs /\ Cleared(executor[x].tx)
    BY <1>23, BusyJob DEF ExecCommit, TypeOK, ClearedInv
  <2>2. \A i \in DOMAIN committed' : Cleared(committed'[i])
    BY <1>23, <2>1 DEF ExecCommit, TypeOK, ClearedInv
  <2>3. \A y \in Executors : executor'[y].pc = "run" => Cleared(executor'[y].tx)
    BY <1>23 DEF ExecCommit, TypeOK, ClearedInv
  <2>4. QED
    BY <1>23, <2>2, <2>3
       DEF ExecCommit, ClearedInv, Cleared, inputVars, decodeVars, verifyVars,
           prepareVars
<1>24. ASSUME NEW x \in Executors, ExecDone(x)
      PROVE  ClearedInv'
  BY <1>24
     DEF ExecDone, ClearedInv, Cleared, TypeOK, Idle, inputVars, decodeVars,
         verifyVars, prepareVars
<1>25. ASSUME Consume
      PROVE  ClearedInv'
  BY <1>25
     DEF Consume, ClearedInv, Cleared, inputVars, decodeVars, verifyVars,
         prepareVars, executeVars
<1>26. CASE UNCHANGED vars
  BY <1>26
     DEF vars, ClearedInv, Cleared, inputVars, decodeVars, verifyVars, prepareVars,
         executeVars
<1>27. QED
  BY <1>1, <1>2, <1>3, <1>4, <1>5, <1>6, <1>7, <1>8, <1>9, <1>10, <1>11, <1>12,
     <1>13, <1>14, <1>15, <1>16, <1>17, <1>18, <1>19, <1>20, <1>21, <1>22, <1>23,
     <1>24, <1>25, <1>26
     DEF Next, DecoderStep, VerifierStep, PrepareStep, ExecStep

\* Only the steps of a prepare worker change its local state.
LEMMA OtherSteps ==
  ASSUME [Next]_vars, \A w \in Preparers : ~PrepareStep(w)
  PROVE  /\ UNCHANGED <<preparer, pendingBuffers, nonce, dispatched>>
         /\ \/ UNCHANGED prepareChans
            \/ \E v \in Verifiers : VerifierSend(v)
BY
   DEF Next, vars, inputVars, decodeVars, verifyVars, prepareVars, executeVars,
       PushRefused, PushAccepted, PushSend, WaitReturns, DecoderStep, DecoderTake,
       DecoderDiscard, DecoderForget, DecoderPass, DecoderSend, VerifierStep,
       VerifierTake, VerifierReject, VerifierReport, VerifierKeyError,
       VerifierClose, VerifierAccept, VerifierSend, ExecStep, ExecTake, ExecCommit,
       ExecDone, Consume

LEMMA DrainInit == Init => DrainInv
  BY DEF Init, DrainInv, IdlePreparer

\* The buffer of the only user a prepare worker is busy with holds one
\* transaction, which is sent before the loop can end.
LEMMA DrainStep == PipeInv /\ [Next]_vars => DrainInv'
<1> SUFFICES ASSUME TypeOK, ClearedInv, DrainInv, [Next]_vars
             PROVE  DrainInv'
  BY DEF PipeInv
<1>1. ASSUME NEW w \in Preparers, PrepareDrop(w)
      PROVE  DrainInv'
  BY <1>1 DEF PrepareDrop, DrainInv, PendingQueue
<1>2. ASSUME NEW w \in Preparers, PrepareAdmit(w)
      PROVE  DrainInv'
  <2> DEFINE t == Head(prepareChans[w])
  <2>1. t \in Txs /\ t.uid \in Users
    BY <1>2 DEF PrepareAdmit, TypeOK, ClearedInv, Cleared, Valid, Registered
  <2>2. \A u \in Users : pendingBuffers[w][u] = <<>>
    BY <1>2 DEF PrepareAdmit, DrainInv
  <2>3. t.nonce >= NextNonce(t.uid)
    BY <1>2 DEF PrepareAdmit, Admissible
  <2> HIDE DEF t
  <2>4. pendingBuffers' = [pendingBuffers EXCEPT ![w][t.uid] = <<t>>]
    BY <1>2, <2>1, <2>2, AddOne DEF PrepareAdmit, t
  <2>5. preparer' = [preparer EXCEPT ![w] = [pc |-> "drain", uid |-> t.uid,
                       expected |-> NextNonce(t.uid), processed |-> 0]]
    BY <1>2 DEF PrepareAdmit, t
  <2>6. QED
    BY <2>1, <2>2, <2>3, <2>4, <2>5 DEF TypeOK, DrainInv, PendingQueue
<1>3. ASSUME NEW w \in Preparers, PrepareSend(w)
      PROVE  DrainInv'
  <2>1. preparer[w].processed = 0
    <3>1. preparer[w].pc = "drain" /\ preparer[w].processed < Len(PendingQueue(w))
      BY <1>3 DEF PrepareSend, CanDrain
    <3>2. Len(PendingQueue(w)) = 1 /\ preparer[w].processed \in {0, 1}
      BY <3>1 DEF DrainInv
    <3>3. QED
      BY <3>1, <3>2
  <2>2. QED
    BY SMTT(30), <1>3, <2>1 DEF PrepareSend, TypeOK, DrainInv, PendingQueue
<1>4. ASSUME NEW w \in Preparers, PrepareStore(w)
      PROVE  DrainInv'
  BY <1>4 DEF PrepareStore, TypeOK, DrainInv, PendingQueue
<1>5. ASSUME NEW w \in Preparers, PrepareFinish(w)
      PROVE  DrainInv'
  <2> DEFINE q == PendingQueue(w)
  <2>1. q \in Seq(Txs) /\ Len(q) = 1 /\ preparer[w].uid \in Users
    BY <1>5 DEF PrepareFinish, DrainInv, TypeOK, PendingQueue
  <2>2. preparer[w].processed = 1
    BY <1>5, <2>1 DEF PrepareFinish, CanDrain, NextPending, DrainInv
  <2>3. SubSeq(q, preparer[w].processed + 1, Len(q)) = <<>>
    BY <2>1, <2>2
  <2>4. pendingBuffers' = [pendingBuffers EXCEPT ![w][preparer[w].uid] = <<>>]
    BY <1>5, <2>1, <2>3 DEF PrepareFinish, PendingQueue, TypeOK
  <2>5. QED
    BY SMTT(30), <1>5, <2>1, <2>4 DEF PrepareFinish, IdlePreparer, DrainInv, TypeOK, PendingQueue
<1>6. CASE \A w \in Preparers : ~PrepareStep(w)
  BY <1>6, OtherSteps DEF DrainInv, PendingQueue
<1>7. QED
  BY <1>1, <1>2, <1>3, <1>4, <1>5, <1>6 DEF PrepareStep

LEMMA PipeInvariant == Spec => []PipeInv
<1>1. Init => PipeInv
  BY TypeInit, ClearedInit, DrainInit DEF PipeInv
<1>2. PipeInv /\ [Next]_vars => PipeInv'
  BY TypeStep, ClearedStep, DrainStep DEF PipeInv
<1>3. QED
  BY <1>1, <1>2, PTL DEF Spec

\* Type correctness of the whole pipeline, for every number of users, workers
\* and transactions and all channel capacities.
THEOREM TypeCorrect == Spec => []TypeOK
<1>1. PipeInv => TypeOK
  BY DEF PipeInv
<1>2. QED
  BY <1>1, PipeInvariant, PTL

\* Every transaction waiting for or past the prepare and the execution stage
\* is signed by a registered user and was found valid by a verifier.
THEOREM VerifiedOnly == Spec => []OnlyVerified
<1>1. PipeInv => OnlyVerified
  <2> SUFFICES ASSUME TypeOK, ClearedInv
               PROVE  OnlyVerified
    BY DEF PipeInv
  <2> DEFINE Waiting == {Range(prepareChans[w]) : w \in Preparers}
             Running == {Range(execChans[x]) : x \in Executors}
  <2>1. \A s \in Waiting : \A t \in s : Cleared(t)
    BY DEF ClearedInv, Range
  <2>2. \A s \in Running : \A t \in s : Cleared(t)
    BY DEF ClearedInv, Range
  <2>3. \A t \in Range(committed) : Cleared(t)
    BY DEF ClearedInv, Range
  <2>4. \A t \in (UNION Waiting) \cup (UNION Running) \cup Range(committed) : Cleared(t)
    <3> HIDE DEF Waiting, Running
    <3> QED
      BY <2>1, <2>2, <2>3
  <2>5. QED
    BY <2>4 DEF OnlyVerified, Cleared
<1>2. QED
  BY <1>1, PipeInvariant, PTL

-------------------------------------------------------------------------------
(* The order of nonces.                                                    *)

\* No transaction carries the largest nonce, so NextNonce never wraps.
NoTopNonce == \A t \in Txs : t.nonce < NonceModulus - 1

\* The transactions at a prepare worker are those TxRouter sends there.
RoutedInv ==
  \A w \in Preparers :
    /\ \A i \in DOMAIN prepareChans[w] : TxRoute(prepareChans[w][i]) = w
    /\ preparer[w].pc # "idle" => TxRoute(PendingQueue(w)[1]) = w

\* A user's nonce covers all his dispatched transactions, except one that is
\* sent and whose nonce is about to be stored; the next one lies above it.
Storing(p, u) == p.pc = "store" /\ p.uid = u
CoverInv ==
  /\ \A u \in Users : nonce[u] < NonceModulus - 1
  /\ \A i \in DOMAIN dispatched :
       /\ dispatched[i].uid \in Users
       /\ \/ dispatched[i].nonce <= nonce[dispatched[i].uid]
          \/ \E w \in Preparers : /\ Storing(preparer[w], dispatched[i].uid)
                                  /\ dispatched[i].nonce <= PendingQueue(w)[1].nonce
  /\ \A w \in Preparers :
       preparer[w].pc # "idle" /\ preparer[w].processed = 0
         => PendingQueue(w)[1].nonce > nonce[preparer[w].uid]

NonceInv == RoutedInv /\ CoverInv /\ NonceOrder

LEMMA RouteByUser ==
  ASSUME NEW t, NEW s, t.uid = s.uid
  PROVE  TxRoute(t) = TxRoute(s)
BY DEF TxRoute

\* Two busy prepare workers never work for the same user.
LEMMA OneWorkerPerUser ==
  ASSUME DrainInv, RoutedInv, NEW w \in Preparers, NEW y \in Preparers,
         preparer[w].pc # "idle", preparer[y].pc # "idle",
         preparer[w].uid = preparer[y].uid
  PROVE  w = y
BY RouteByUser DEF DrainInv, RoutedInv

LEMMA NonceInit == Init => NonceInv
  BY PipelineAssumption
     DEF Init, NonceInv, RoutedInv, CoverInv, NonceOrder, IdlePreparer

LEMMA RoutedStep == PipeInv /\ RoutedInv /\ [Next]_vars => RoutedInv'
<1> SUFFICES ASSUME TypeOK, ClearedInv, DrainInv, RoutedInv, [Next]_vars
             PROVE  RoutedInv'
  BY DEF PipeInv
<1>1. ASSUME NEW w \in Preparers, PrepareDrop(w)
      PROVE  RoutedInv'
  <2>1. prepareChans[w] \in Seq(Txs) /\ prepareChans[w] # <<>>
    BY <1>1 DEF PrepareDrop, TypeOK
  <2>2. QED
    BY SMTT(30), <1>1, <2>1 DEF PrepareDrop, RoutedInv, TypeOK, PendingQueue
<1>2. ASSUME NEW w \in Preparers, PrepareAdmit(w)
      PROVE  RoutedInv'
  <2> DEFINE t == Head(prepareChans[w])
  <2>1. prepareChans[w] \in Seq(Txs) /\ prepareChans[w] # <<>>
    BY <1>2 DEF PrepareAdmit, TypeOK
  <2>2. t \in Txs /\ t.uid \in Users /\ TxRoute(t) = w
    BY <1>2, <2>1 DEF PrepareAdmit, ClearedInv, Cleared, Valid, Registered, RoutedInv
  <2>3. \A y \in Preparers : \A i \in DOMAIN prepareChans'[y] : TxRoute(prepareChans'[y][i]) = y
    BY SMTT(30), <1>2, <2>1 DEF PrepareAdmit, RoutedInv, TypeOK
  <2>4. pendingBuffers[w][t.uid] = <<>>
    BY <1>2, <2>2 DEF PrepareAdmit, DrainInv
  <2> HIDE DEF t
  <2>5. pendingBuffers' = [pendingBuffers EXCEPT ![w][t.uid] = <<t>>]
    BY <1>2, <2>2, <2>4, AddOne DEF PrepareAdmit, t
  <2>6. preparer' = [preparer EXCEPT ![w] = [pc |-> "drain", uid |-> t.uid,
                       expected |-> NextNonce(t.uid), processed |-> 0]]
    BY <1>2 DEF PrepareAdmit, t
  <2>7. QED
    BY <2>2, <2>3, <2>5, <2>6 DEF RoutedInv, TypeOK, PendingQueue
<1>3. ASSUME NEW w \in Preparers, PrepareSend(w)
      PROVE  RoutedInv'
  BY <1>3 DEF PrepareSend, RoutedInv, TypeOK, PendingQueue
<1>4. ASSUME NEW w \in Preparers, PrepareStore(w)
      PROVE  RoutedInv'
  BY <1>4 DEF PrepareStore, RoutedInv, TypeOK, PendingQueue
<1>5. ASSUME NEW w \in Preparers, PrepareFinish(w)
      PROVE  RoutedInv'
  BY <1>5 DEF PrepareFinish, RoutedInv, TypeOK, PendingQueue, IdlePreparer
<1>6. ASSUME NEW v \in Verifiers, VerifierSend(v)
      PROVE  RoutedInv'
  <2> DEFINE t == verifier[v].tx
             r == TxRoute(t)
  <2>1. t \in Txs
    BY <1>6, BusyJob DEF VerifierSend, TypeOK
  <2>2. r \in Preparers /\ prepareChans[r] \in Seq(Txs)
    BY <2>1, RouteType DEF TypeOK
  <2>3. prepareChans' = [prepareChans EXCEPT ![r] = Append(@, t)]
    BY <1>6 DEF VerifierSend
  <2>4. TxRoute(t) = r
    OBVIOUS
  <2> HIDE DEF t, r
  <2>5. \A w \in Preparers : \A i \in DOMAIN prepareChans'[w] : TxRoute(prepareChans'[w][i]) = w
    BY SMTT(30), <2>1, <2>2, <2>3, <2>4 DEF RoutedInv, TypeOK
  <2>6. QED
    BY <1>6, <2>5 DEF VerifierSend, RoutedInv, PendingQueue
<1>7. CASE (\A w \in Preparers : ~PrepareStep(w)) /\ UNCHANGED prepareChans
  BY <1>7, OtherSteps DEF RoutedInv, PendingQueue
<1>8. QED
  BY <1>1, <1>2, <1>3, <1>4, <1>5, <1>6, <1>7, OtherSteps DEF PrepareStep

LEMMA CoverStep ==
  NoTopNonce /\ PipeInv /\ NonceInv /\ [Next]_vars => CoverInv' /\ NonceOrder'
<1> SUFFICES ASSUME NoTopNonce, TypeOK, ClearedInv, DrainInv, RoutedInv, CoverInv,
                    NonceOrder, [Next]_vars
             PROVE  CoverInv' /\ NonceOrder'
  BY DEF PipeInv, NonceInv
<1>1. ASSUME NEW w \in Preparers, PrepareDrop(w)
      PROVE  CoverInv' /\ NonceOrder'
  BY <1>1 DEF PrepareDrop, CoverInv, NonceOrder, Storing, PendingQueue
<1>2. ASSUME NEW w \in Preparers, PrepareAdmit(w)
      PROVE  CoverInv' /\ NonceOrder'
  <2> DEFINE t == Head(prepareChans[w])
  <2>1. t \in Txs /\ t.uid \in Users
    BY <1>2 DEF PrepareAdmit, TypeOK, ClearedInv, Cleared, Valid, Registered
  <2>2. pendingBuffers[w][t.uid] = <<>> /\ preparer[w].pc = "idle"
    BY <1>2, <2>1 DEF PrepareAdmit, DrainInv
  <2>3. t.nonce > nonce[t.uid]
    <3>1. nonce[t.uid] \in Nat /\ nonce[t.uid] < NonceModulus - 1
      BY <2>1 DEF CoverInv, TypeOK, Nonces
    <3>2. NextNonce(t.uid) = nonce[t.uid] + 1
      BY <3>1, PipelineAssumption DEF NextNonce
    <3>3. t.nonce \in Nat /\ t.nonce >= NextNonce(t.uid)
      BY <1>2, <2>1, PipelineAssumption DEF PrepareAdmit, Admissible, Tx, Nonces
    <3>4. QED
      BY <3>1, <3>2, <3>3
  <2> HIDE DEF t
  <2>4. pendingBuffers' = [pendingBuffers EXCEPT ![w][t.uid] = <<t>>]
    BY <1>2, <2>1, <2>2, AddOne DEF PrepareAdmit, t
  <2>5. preparer' = [preparer EXCEPT ![w] = [pc |-> "drain", uid |-> t.uid,
                       expected |-> NextNonce(t.uid), processed |-> 0]]
    BY <1>2 DEF PrepareAdmit, t
  <2>6. UNCHANGED <<nonce, dispatched>>
    BY <1>2 DEF PrepareAdmit
  <2>7. \A y \in Preparers : y # w => preparer'[y] = preparer[y] /\ PendingQueue(y)' = PendingQueue(y)
    BY <2>4, <2>5 DEF TypeOK, PendingQueue
  <2>8. preparer'[w].pc = "drain" /\ preparer'[w].uid = t.uid /\ PendingQueue(w)' = <<t>>
    BY <2>1, <2>4, <2>5 DEF TypeOK, PendingQueue
  <2>9. QED
    BY <2>2, <2>3, <2>6, <2>7, <2>8 DEF CoverInv, NonceOrder, Storing
<1>3. ASSUME NEW w \in Preparers, PrepareSend(w)
      PROVE  CoverInv' /\ NonceOrder'
  <2> DEFINE t == PendingQueue(w)[1]
             u == preparer[w].uid
  <2>1. preparer[w].pc = "drain" /\ preparer[w].processed = 0
    <3>1. preparer[w].pc = "drain" /\ preparer[w].processed < Len(PendingQueue(w))
      BY <1>3 DEF PrepareSend, CanDrain
    <3>2. Len(PendingQueue(w)) = 1 /\ preparer[w].processed \in {0, 1}
      BY <3>1 DEF DrainInv
    <3>3. QED
      BY <3>1, <3>2
  <2>2. PendingQueue(w) \in Seq(Txs) /\ Len(PendingQueue(w)) = 1 /\ u \in Users
    BY <2>1 DEF TypeOK, PendingQueue, DrainInv
  <2>3. t \in Txs /\ t.uid = u
    BY <2>1, <2>2 DEF DrainInv
  <2>4. t.nonce > nonce[u]
    BY <2>1 DEF CoverInv
  <2>5. dispatched' = Append(dispatched, t)
    BY <1>3, <2>1 DEF PrepareSend, NextPending
  <2>6. preparer' = [preparer EXCEPT ![w].pc = "store"] /\ UNCHANGED <<pendingBuffers, nonce>>
    BY <1>3 DEF PrepareSend
  <2>7. \A y \in Preparers : y # w => preparer'[y] = preparer[y] /\ PendingQueue(y)' = PendingQueue(y)
    BY <2>6 DEF TypeOK, PendingQueue
  <2>8. /\ preparer'[w].pc = "store" /\ preparer'[w].uid = u /\ PendingQueue(w)' = PendingQueue(w)
        /\ preparer'[w].processed = 0
    BY <2>1, <2>6 DEF TypeOK, PendingQueue
  <2>9. \A i \in DOMAIN dispatched : dispatched[i].uid = u => dispatched[i].nonce <= nonce[u]
    <3>1. \A y \in Preparers : ~Storing(preparer[y], u)
      BY <2>1, OneWorkerPerUser DEF Storing
    <3>2. QED
      BY <3>1 DEF CoverInv
  <2>10. dispatched \in Seq(Txs) /\ t.nonce \in Nat /\ nonce[u] \in Nat
    BY <2>2, <2>3, PipelineAssumption DEF TypeOK, Tx, Nonces
  <2>11. \A i \in DOMAIN dispatched : dispatched[i].nonce \in Nat
    BY <2>10, PipelineAssumption DEF Tx, Nonces
  <2> HIDE DEF t, u
  <2>12. NonceOrder'
    BY SMTT(30), <2>3, <2>4, <2>5, <2>9, <2>10, <2>11 DEF NonceOrder
  <2>13. CoverInv'
    <3>1. \A i \in DOMAIN dispatched' :
            \/ i \in DOMAIN dispatched /\ dispatched'[i] = dispatched[i]
            \/ dispatched'[i] = t
      BY <2>3, <2>5, <2>10
    <3>2. Storing(preparer'[w], u)
      BY <2>8 DEF Storing
    <3>3. \A y \in Preparers, x \in Users : Storing(preparer[y], x) => y # w /\ Storing(preparer'[y], x)
      BY <2>1, <2>7 DEF Storing
    <3>4. PendingQueue(w)'[1] = t
      BY <2>8 DEF t
    <3>5. \A i \in DOMAIN dispatched' :
            /\ dispatched'[i].uid \in Users
            /\ \/ dispatched'[i].nonce <= nonce'[dispatched'[i].uid]
               \/ \E y \in Preparers : /\ Storing(preparer'[y], dispatched'[i].uid)
                                       /\ dispatched'[i].nonce <= PendingQueue(y)'[1].nonce
      BY SMTT(30), <2>2, <2>3, <2>6, <2>7, <2>10, <3>1, <3>2, <3>3, <3>4 DEF CoverInv, u
    <3>6. \A y \in Preparers :
            preparer'[y].pc # "idle" /\ preparer'[y].processed = 0
              => PendingQueue(y)'[1].nonce > nonce'[preparer'[y].uid]
      BY <2>4, <2>6, <2>7, <2>8, <3>4 DEF CoverInv
    <3>7. QED
      BY <2>6, <3>5, <3>6 DEF CoverInv, Storing
  <2>14. QED
    BY <2>12, <2>13
<1>4. ASSUME NEW w \in Preparers, PrepareStore(w)
      PROVE  CoverInv' /\ NonceOrder'
  <2> DEFINE t == PendingQueue(w)[1]
             u == preparer[w].uid
  <2>1. preparer[w].pc = "store" /\ preparer[w].processed = 0
    BY <1>4 DEF PrepareStore, DrainInv
  <2>2. PendingQueue(w) \in Seq(Txs) /\ Len(PendingQueue(w)) = 1 /\ u \in Users
    BY <2>1 DEF TypeOK, PendingQueue, DrainInv
  <2>3. t \in Txs /\ t.uid = u /\ t.nonce > nonce[u]
    BY <2>1, <2>2 DEF DrainInv, CoverInv
  <2>4. nonce' = [nonce EXCEPT ![u] = t.nonce]
    BY <1>4, <2>1 DEF PrepareStore, NextPending
  <2>5. /\ preparer' = [preparer EXCEPT ![w] = [pc |-> "drain", uid |-> u,
                          expected |-> t.nonce, processed |-> 1]]
        /\ UNCHANGED <<pendingBuffers, dispatched>>
    BY <1>4, <2>1 DEF PrepareStore, NextPending
  <2>6. \A y \in Preparers : y # w => preparer'[y] = preparer[y] /\ PendingQueue(y)' = PendingQueue(y)
    BY <2>5 DEF TypeOK, PendingQueue
  <2>7. preparer'[w].pc = "drain" /\ preparer'[w].processed = 1
    BY <2>5 DEF TypeOK
  <2>8. \A y \in Preparers : y # w /\ preparer[y].pc # "idle" => preparer[y].uid # u
    BY <2>1, OneWorkerPerUser
  <2>9. t.nonce \in Nat /\ nonce[u] \in Nat /\ t.nonce < NonceModulus - 1
    BY <2>2, <2>3, PipelineAssumption DEF TypeOK, Tx, Nonces, NoTopNonce
  <2>10. dispatched \in Seq(Txs) /\ \A i \in DOMAIN dispatched : dispatched[i].nonce \in Nat
    BY PipelineAssumption DEF TypeOK, Tx, Nonces
  <2>11. \A y \in Preparers, x \in Users : Storing(preparer[y], x) =>
           (y = w /\ x = u) \/ (Storing(preparer'[y], x) /\ PendingQueue(y)' = PendingQueue(y))
    BY <2>6 DEF Storing
  <2>12. nonce \in [Users -> Nonces]
    BY DEF TypeOK
  <2> HIDE DEF t, u
  <2>13. \A x \in Users : nonce'[x] < NonceModulus - 1
    BY <2>4, <2>9, <2>12 DEF CoverInv
  <2>14. \A i \in DOMAIN dispatched :
           /\ dispatched[i].uid \in Users
           /\ \/ dispatched[i].nonce <= nonce'[dispatched[i].uid]
              \/ \E y \in Preparers : /\ Storing(preparer'[y], dispatched[i].uid)
                                      /\ dispatched[i].nonce <= PendingQueue(y)'[1].nonce
    <3> SUFFICES ASSUME NEW i \in DOMAIN dispatched
                 PROVE  /\ dispatched[i].uid \in Users
                        /\ \/ dispatched[i].nonce <= nonce'[dispatched[i].uid]
                           \/ \E y \in Preparers : /\ Storing(preparer'[y], dispatched[i].uid)
                                      /\ dispatched[i].nonce <= PendingQueue(y)'[1].nonce
      OBVIOUS
    <3>1. dispatched[i].uid \in Users /\ dispatched[i].nonce \in Nat
      BY <2>10 DEF CoverInv
    <3>2. CASE dispatched[i].nonce <= nonce[dispatched[i].uid]
      BY <2>2, <2>3, <2>4, <2>9, <2>12, <3>1, <3>2
    <3>3. ASSUME NEW y \in Preparers, Storing(preparer[y], dispatched[i].uid),
                 dispatched[i].nonce <= PendingQueue(y)[1].nonce
          PROVE  \/ dispatched[i].nonce <= nonce'[dispatched[i].uid]
                 \/ \E z \in Preparers : /\ Storing(preparer'[z], dispatched[i].uid)
                                         /\ dispatched[i].nonce <= PendingQueue(z)'[1].nonce
      <4>1. CASE y = w /\ dispatched[i].uid = u
        BY <2>2, <2>4, <2>12, <3>3, <4>1 DEF t
      <4>2. CASE Storing(preparer'[y], dispatched[i].uid) /\ PendingQueue(y)' = PendingQueue(y)
        BY <3>3, <4>2
      <4>3. QED
        BY <2>11, <3>1, <3>3, <4>1, <4>2
    <3>4. QED
      BY <3>1, <3>2, <3>3 DEF CoverInv
  <2>15. \A y \in Preparers :
           preparer'[y].pc # "idle" /\ preparer'[y].processed = 0
             => PendingQueue(y)'[1].nonce > nonce'[preparer'[y].uid]
    <3> SUFFICES ASSUME NEW y \in Preparers, preparer'[y].pc # "idle",
                        preparer'[y].processed = 0
                 PROVE  PendingQueue(y)'[1].nonce > nonce'[preparer'[y].uid]
      OBVIOUS
    <3>1. y # w /\ preparer[y].uid \in Users
      BY <2>7 DEF TypeOK
    <3>2. preparer'[y] = preparer[y] /\ PendingQueue(y)' = PendingQueue(y)
      BY <2>6, <3>1
    <3>3. preparer[y].uid # u
      BY <2>8, <3>1, <3>2
    <3>4. nonce'[preparer[y].uid] = nonce[preparer[y].uid]
      BY <2>4, <2>12, <3>1, <3>3
    <3>5. PendingQueue(y)[1].nonce > nonce[preparer[y].uid]
      BY <3>2 DEF CoverInv
    <3>6. QED
      BY <3>2, <3>4, <3>5
  <2>16. CoverInv'
    BY <2>5, <2>13, <2>14, <2>15 DEF CoverInv, Storing
  <2>17. NonceOrder'
    BY <2>5 DEF NonceOrder
  <2>18. QED
    BY <2>16, <2>17
<1>5. ASSUME NEW w \in Preparers, PrepareFinish(w)
      PROVE  CoverInv' /\ NonceOrder'
  <2>1. UNCHANGED <<nonce, dispatched>> /\ preparer'[w].pc = "idle" /\ preparer[w].pc = "drain"
    BY <1>5 DEF PrepareFinish, TypeOK, IdlePreparer
  <2>2. \A y \in Preparers : y # w => preparer'[y] = preparer[y] /\ PendingQueue(y)' = PendingQueue(y)
    BY <1>5 DEF PrepareFinish, TypeOK, PendingQueue
  <2>3. QED
    BY <2>1, <2>2 DEF CoverInv, NonceOrder, Storing
<1>6. CASE \A w \in Preparers : ~PrepareStep(w)
  BY <1>6, OtherSteps DEF CoverInv, NonceOrder, Storing, PendingQueue
<1>7. QED
  BY <1>1, <1>2, <1>3, <1>4, <1>5, <1>6 DEF PrepareStep

\* No replay and no reordering: if no transaction carries the largest
\* nonce, each user's transactions are dispatched to execution with strictly
\* increasing nonces, however decoders and verifiers interleave.
THEOREM NoncesIncrease == NoTopNonce => (Spec => []NonceOrder)
<1> SUFFICES ASSUME NoTopNonce
             PROVE  Spec => []NonceOrder
  OBVIOUS
<1>1. Init => NonceInv
  BY NonceInit
<1>2. PipeInv /\ NonceInv /\ [Next]_vars => NonceInv'
  BY RoutedStep, CoverStep DEF NonceInv
<1>3. NonceInv => NonceOrder
  BY DEF NonceInv
<1>4. QED
  BY <1>1, <1>2, <1>3, PipeInvariant, PTL DEF Spec

-------------------------------------------------------------------------------
(* Counting the open transactions.                                         *)

\* What has not passed the decoder was let in by Push.
KnownInv ==
  /\ main.pc = "send" => main.tx \in accepted
  /\ \A i \in DOMAIN decoderJobs : decoderJobs[i] \in accepted
  /\ \A d \in Decoders : decoder[d].pc = "check" => decoder[d].tx \in accepted

\* The counter; after Wait has returned it does not rise again.
CountInv ==
  /\ IsFiniteSet(Open)
  /\ wg >= Cardinality(Open)
  /\ AllRegistered => wg = Cardinality(Open)
  /\ main.pc = "end" => wg <= 0

Leaves(S, T, x)   == x \in S /\ T = S \ {x}
Enters(S, T, y)   == y \notin S /\ T = S \cup {y}
Moves(S, T, x, y) == x \in S /\ y \notin S /\ T = (S \ {x}) \cup {y}

\* What each of them does to the number of elements.
LEMMA CountLeave ==
  ASSUME NEW S, NEW T, NEW x, IsFiniteSet(S), Leaves(S, T, x)
  PROVE  IsFiniteSet(T) /\ Cardinality(T) = Cardinality(S) - 1
BY FS_RemoveElement DEF Leaves

LEMMA CountEnter ==
  ASSUME NEW S, NEW T, NEW y, IsFiniteSet(S), Enters(S, T, y)
  PROVE  IsFiniteSet(T) /\ Cardinality(T) = Cardinality(S) + 1
BY FS_AddElement DEF Enters

LEMMA CountMove ==
  ASSUME NEW S, NEW T, NEW x, NEW y, IsFiniteSet(S), Moves(S, T, x, y)
  PROVE  IsFiniteSet(T) /\ Cardinality(T) = Cardinality(S)
<1>1. Leaves(S, S \ {x}, x) /\ Enters(S \ {x}, T, y)
  BY DEF Leaves, Enters, Moves
<1>2. IsFiniteSet(S \ {x}) /\ Cardinality(S \ {x}) = Cardinality(S) - 1
  BY <1>1, CountLeave
<1>3. IsFiniteSet(T) /\ Cardinality(T) = Cardinality(S \ {x}) + 1
  BY <1>1, <1>2, CountEnter
<1>4. Cardinality(S) \in Nat
  BY FS_CardinalityType
<1>5. QED
  BY <1>2, <1>3, <1>4

\* A channel gets an element, or loses its first.
LEMMA QueuedAppend ==
  ASSUME NEW where, NEW whose, NEW q \in Seq(Txs), NEW t \in Txs
  PROVE  Enters(Queued(where, whose, q), Queued(where, whose, Append(q, t)),
                <<where, whose, Len(q) + 1>>)
<1>1. Len(q) \in Nat /\ DOMAIN q = 1..Len(q) /\ DOMAIN Append(q, t) = 1..(Len(q) + 1)
  OBVIOUS
<1>2. \A i \in DOMAIN q : <<where, whose, i>> # <<where, whose, Len(q) + 1>>
  BY <1>1
<1>3. DOMAIN Append(q, t) = DOMAIN q \cup {Len(q) + 1}
  BY <1>1
<1>4. QED
  BY <1>2, <1>3 DEF Enters, Queued

LEMMA QueuedTail ==
  ASSUME NEW where, NEW whose, NEW q \in Seq(Txs), q # <<>>
  PROVE  Leaves(Queued(where, whose, q), Queued(where, whose, Tail(q)),
                <<where, whose, Len(q)>>)
<1>1. Len(q) \in Nat /\ Len(q) > 0 /\ DOMAIN q = 1..Len(q)
  OBVIOUS
<1>2. Tail(q) \in Seq(Txs) /\ Len(Tail(q)) = Len(q) - 1
  OBVIOUS
<1>3. DOMAIN Tail(q) = DOMAIN q \ {Len(q)} /\ Len(q) \in DOMAIN q
  BY <1>1, <1>2
<1>4. \A i \in DOMAIN q : <<where, whose, i>> = <<where, whose, Len(q)>> <=> i = Len(q)
  OBVIOUS
<1>5. QED
  BY <1>3, <1>4 DEF Leaves, Queued

\* A worker begins to hold a job, stops, or goes on.
LEMMA HeldChange ==
  ASSUME NEW where, NEW job, NEW new, NEW workers, NEW labels, NEW p \in workers,
         \A q \in workers \ {p} : new[q].pc = job[q].pc
  PROVE  /\ job[p].pc \notin labels /\ new[p].pc \in labels
              => Enters(Held(where, job, workers, labels), Held(where, new, workers,
                  labels),
                        <<where, p, 0>>)
         /\ job[p].pc \in labels /\ new[p].pc \notin labels
              => Leaves(Held(where, job, workers, labels), Held(where, new, workers,
                  labels),
                        <<where, p, 0>>)
         /\ (job[p].pc \in labels <=> new[p].pc \in labels)
              => Held(where, new, workers, labels) = Held(where, job, workers, labels)
<1>1. \A q \in workers : <<where, q, 0>> = <<where, p, 0>> <=> q = p
  OBVIOUS
<1>2. QED
  BY <1>1 DEF Held, Enters, Leaves

\* One of several channels, or one of several buffers.
Queues(where, chans) == UNION {Queued(where, w, chans[w]) : w \in DOMAIN chans}

LEMMA QueuesAppend ==
  ASSUME NEW where, NEW I, NEW c \in [I -> Seq(Txs)], NEW w \in I, NEW t \in Txs, NEW d,
         d = [c EXCEPT ![w] = Append(@, t)]
  PROVE  Enters(Queues(where, c), Queues(where, d), <<where, w, Len(c[w]) + 1>>)
<1> DEFINE y == <<where, w, Len(c[w]) + 1>>
<1>1. Enters(Queued(where, w, c[w]), Queued(where, w, d[w]), y)
  BY QueuedAppend
<1>2. \A v \in I : v # w => d[v] = c[v]
  OBVIOUS
<1>3. \A v \in I : \A p \in Queued(where, v, c[v]) : p[2] = v
  BY DEF Queued
<1>4. y[2] = w
  OBVIOUS
<1>5. DOMAIN c = I /\ DOMAIN d = I
  OBVIOUS
<1> HIDE DEF y
<1>6. y \notin Queues(where, c)
  BY <1>1, <1>3, <1>4, <1>5 DEF Queues, Enters
<1>7. \A v \in I : \A p : p \in Queued(where, v, d[v]) <=>
        p \in Queued(where, v, c[v]) \/ (v = w /\ p = y)
  BY <1>1, <1>2 DEF Enters
<1>8. \A p : p \in Queues(where, c) <=> \E v \in I : p \in Queued(where, v, c[v])
  BY <1>5 DEF Queues
<1>9. \A p : p \in Queues(where, d) <=> \E v \in I : p \in Queued(where, v, d[v])
  BY <1>5 DEF Queues
<1>10. \A p : p \in Queues(where, d) <=> p \in Queues(where, c) \/ p = y
  BY <1>7, <1>8, <1>9
<1>11. QED
  BY <1>6, <1>10 DEF Enters, y

LEMMA QueuesTail ==
  ASSUME NEW where, NEW I, NEW c \in [I -> Seq(Txs)], NEW w \in I, c[w] # <<>>, NEW d,
         d = [c EXCEPT ![w] = Tail(@)]
  PROVE  Leaves(Queues(where, c), Queues(where, d), <<where, w, Len(c[w])>>)
<1> DEFINE x == <<where, w, Len(c[w])>>
<1>1. Leaves(Queued(where, w, c[w]), Queued(where, w, d[w]), x)
  BY QueuedTail
<1>2. \A v \in I : v # w => d[v] = c[v]
  OBVIOUS
<1>3. \A v \in I : \A p \in Queued(where, v, c[v]) : p[2] = v
  BY DEF Queued
<1>4. x[2] = w
  OBVIOUS
<1>5. DOMAIN c = I /\ DOMAIN d = I
  OBVIOUS
<1> HIDE DEF x
<1>6. x \in Queues(where, c)
  BY <1>1, <1>5 DEF Queues, Leaves
<1>7. \A v \in I : \A p : p \in Queued(where, v, d[v]) <=>
        p \in Queued(where, v, c[v]) /\ p # x
  BY <1>1, <1>2, <1>3, <1>4 DEF Leaves
<1>8. \A p : p \in Queues(where, c) <=> \E v \in I : p \in Queued(where, v, c[v])
  BY <1>5 DEF Queues
<1>9. \A p : p \in Queues(where, d) <=> \E v \in I : p \in Queued(where, v, d[v])
  BY <1>5 DEF Queues
<1>10. \A p : p \in Queues(where, d) <=> p \in Queues(where, c) /\ p # x
  BY <1>7, <1>8, <1>9
<1>11. QED
  BY <1>6, <1>10 DEF Leaves, x

\* The part of the prepare stage that is in the buffers: one transaction for
\* each worker that has still to send it.
Unsent == {w \in Preparers : preparer[w].pc = "drain" /\ preparer[w].processed = 0}
Buffered == {<<"pending", <<w, preparer[w].uid>>, 1>> : w \in Unsent}

LEMMA PendingPlaces ==
  ASSUME TypeOK, DrainInv, NEW w \in Preparers, NEW u \in Users
  PROVE  Pending(w, u) = IF w \in Unsent /\ u = preparer[w].uid THEN {1} ELSE {}
<1>1. /\ preparer[w].pc \in {"idle", "drain", "store"} /\ preparer[w].processed \in {0, 1}
      /\ pendingBuffers[w][u] \in Seq(Txs)
  BY DEF TypeOK, DrainInv
<1>2. CASE pendingBuffers[w][u] = <<>>
  <2>1. Pending(w, u) = {}
    BY <1>2 DEF Pending
  <2>2. ~(w \in Unsent /\ u = preparer[w].uid)
    BY <1>2 DEF Unsent, DrainInv, PendingQueue
  <2>3. QED
    BY <2>1, <2>2
<1>3. CASE pendingBuffers[w][u] # <<>>
  <2>1. preparer[w].pc # "idle" /\ u = preparer[w].uid /\
            PendingQueue(w) = pendingBuffers[w][u]
    BY <1>3 DEF DrainInv, PendingQueue
  <2>2. DOMAIN pendingBuffers[w][u] = {1}
    <3>1. Len(pendingBuffers[w][u]) = 1
      BY <2>1 DEF DrainInv
    <3>2. DOMAIN pendingBuffers[w][u] = 1..Len(pendingBuffers[w][u])
      BY <1>1
    <3>3. QED
      BY <3>1, <3>2
  <2>3. Pending(w, u) = {i \in {1} : i > Sent(w)}
    BY <2>1, <2>2 DEF Pending
  <2>4. CASE w \in Unsent
    <3>1. Sent(w) = 0
      BY <2>4 DEF Unsent, Sent
    <3>2. QED
      BY <2>1, <2>3, <2>4, <3>1
  <2>5. CASE w \notin Unsent
    <3>1. Sent(w) = 1
      BY <1>1, <2>1, <2>5 DEF Unsent, Sent, DrainInv
    <3>2. QED
      BY <2>1, <2>3, <2>5, <3>1
  <2>6. QED
    BY <2>4, <2>5
<1>4. QED
  BY <1>2, <1>3

\* The open transactions in nine parts.
InDecoderJobs  == Queued("decoderJobs", 0, decoderJobs)
InDecoders     == Held("decoder", decoder, Decoders, {"check", "send"})
InVerifierJobs == Queued("verifierJobs", 0, verifierJobs)
InVerifiers    == Held("verifier", verifier, Verifiers, {"check", "close", "send"})
InPrepareChans == Queues("prepareChans", prepareChans)
InExecChans    == Queues("execChans", execChans)
InExecutors    == Held("executor", executor, Executors, {"run", "close"})
Parts ==
  OpenAtMain \cup InDecoderJobs \cup InDecoders \cup InVerifierJobs \cup InVerifiers
    \cup InPrepareChans \cup Buffered \cup InExecChans \cup InExecutors

LEMMA OpenInParts == TypeOK /\ DrainInv => Open = Parts
<1> SUFFICES ASSUME TypeOK, DrainInv
             PROVE  Open = Parts
  OBVIOUS
<1>1. DOMAIN prepareChans = Preparers /\ DOMAIN execChans = Executors
  BY DEF TypeOK
<1>2. \A w \in Preparers : preparer[w].uid \in Users
  BY DEF TypeOK
<1>3. OpenInBuffers \subseteq Buffered
  <2>1. ASSUME NEW w \in Preparers, NEW u \in Users, NEW i \in Pending(w, u)
        PROVE  <<"pending", <<w, u>>, i>> \in Buffered
    BY <2>1, PendingPlaces DEF Buffered
  <2>2. QED
    BY <2>1 DEF OpenInBuffers
<1>4. Buffered \subseteq OpenInBuffers
  <2>1. ASSUME NEW w \in Unsent
        PROVE  w \in Preparers /\ preparer[w].uid \in Users /\ 1 \in Pending(w,
                   preparer[w].uid)
    BY <1>2, PendingPlaces DEF Unsent
  <2>2. ASSUME NEW w \in Unsent
        PROVE  <<"pending", <<w, preparer[w].uid>>, 1>> \in OpenInBuffers
    <3>1. PICK u \in Users : u = preparer[w].uid
      BY <2>1
    <3> DEFINE places == {<<"pending", <<w, u>>, i>> : i \in Pending(w, u)}
    <3>2. <<"pending", <<w, u>>, 1>> \in places
      BY <2>1, <3>1
    <3>3. places \in {{<<"pending", <<y, x>>, i>> : i \in Pending(y, x)} :
                        y \in Preparers, x \in Users}
      BY <2>1
    <3> HIDE DEF places
    <3>4. QED
      BY <3>1, <3>2, <3>3 DEF OpenInBuffers
  <2>3. QED
    BY <2>2 DEF Buffered
<1>6. OpenInPrepare = Queues("prepareChans", prepareChans) \cup Buffered
  <2>1. Queues("prepareChans", prepareChans)
          = UNION {Queued("prepareChans", w, prepareChans[w]) : w \in Preparers}
    BY <1>1, Zenon DEF Queues
  <2>2. QED
    BY <1>3, <1>4, <2>1, Zenon DEF OpenInPrepare
<1>7. OpenInExecute = Queues("execChans", execChans)
                      \cup Held("executor", executor, Executors, {"run", "close"})
  <2>1. Queues("execChans", execChans)
          = UNION {Queued("execChans", x, execChans[x]) : x \in Executors}
    BY <1>1, Zenon DEF Queues
  <2>2. QED
    BY <2>1, Zenon DEF OpenInExecute
<1>8. QED
  BY <1>6, <1>7 DEF Parts, Open, OpenInDecode, OpenInVerify, InDecoderJobs, InDecoders,
                    InVerifierJobs, InVerifiers, InPrepareChans, InExecChans, InExecutors

\* The first component of a place tells the part.
LEMMA Labels ==
  /\ \A p \in OpenAtMain     : p[1] = "main"
  /\ \A p \in InDecoderJobs  : p[1] = "decoderJobs"
  /\ \A p \in InDecoders     : p[1] = "decoder"
  /\ \A p \in InVerifierJobs : p[1] = "verifierJobs"
  /\ \A p \in InVerifiers    : p[1] = "verifier"
  /\ \A p \in InPrepareChans : p[1] = "prepareChans"
  /\ \A p \in Buffered       : p[1] = "pending"
  /\ \A p \in InExecChans    : p[1] = "execChans"
  /\ \A p \in InExecutors    : p[1] = "executor"
<1>1. \A where, whose, q : \A p \in Queued(where, whose, q) : p[1] = where
  BY DEF Queued
<1>2. \A where, job, workers, labels : \A p \in Held(where, job, workers, labels) :
          p[1] = where
  BY DEF Held
<1>3. \A where, chans : \A p \in Queues(where, chans) : p[1] = where
  BY <1>1 DEF Queues
<1>4. \A p \in OpenAtMain : p[1] = "main"
  BY DEF OpenAtMain
<1>5. \A p \in Buffered : p[1] = "pending"
  BY DEF Buffered
<1>6. QED
  BY <1>1, <1>2, <1>3, <1>4, <1>5
     DEF InDecoderJobs, InDecoders, InVerifierJobs, InVerifiers, InPrepareChans,
         InExecChans, InExecutors

\* A part changes only when its variable does.
LEMMA SameParts ==
  /\ UNCHANGED main         => UNCHANGED OpenAtMain
  /\ UNCHANGED decoderJobs  => UNCHANGED InDecoderJobs
  /\ UNCHANGED decoder      => UNCHANGED InDecoders
  /\ UNCHANGED verifierJobs => UNCHANGED InVerifierJobs
  /\ UNCHANGED verifier     => UNCHANGED InVerifiers
  /\ UNCHANGED prepareChans => UNCHANGED InPrepareChans
  /\ UNCHANGED preparer     => UNCHANGED Buffered
  /\ UNCHANGED execChans    => UNCHANGED InExecChans
  /\ UNCHANGED executor     => UNCHANGED InExecutors
BY DEF OpenAtMain, InDecoderJobs, InDecoders, InVerifierJobs, InVerifiers, InPrepareChans,
       Buffered, Unsent, InExecChans, InExecutors

\* Every step changes the counter by what it changes the number of places, with
\* one exception: DecoderForget.
Balanced ==
  \/ wg' = wg /\ (UNCHANGED Parts \/ \E x, y : Moves(Parts, Parts', x, y))
  \/ wg' = wg + 1 /\ \E y : Enters(Parts, Parts', y)
  \/ wg' = wg - 1 /\ \E x : Leaves(Parts, Parts', x)

LEMMA PushBalanced ==
  ASSUME TypeOK, NEW t \in Txs, PushRefused(t) \/ PushAccepted(t) \/ PushSend
  PROVE  Balanced
<1>1. CASE PushRefused(t)
  <2>1. wg' = wg /\ UNCHANGED <<main, decodeVars, verifyVars, prepareVars, executeVars>>
    BY <1>1 DEF PushRefused
  <2>2. QED
    BY <2>1, SameParts
       DEF Balanced, Parts, decodeVars, verifyVars, prepareVars, executeVars
<1>2. CASE PushAccepted(t)
  <2> DEFINE y == <<"main", 0, 0>>
  <2>1. OpenAtMain = {} /\ OpenAtMain' = {y}
    BY <1>2 DEF PushAccepted, OpenAtMain, At
  <2>2. y[1] = "main"
    OBVIOUS
  <2>3. wg' = wg + 1 /\ UNCHANGED <<decodeVars, verifyVars, prepareVars, executeVars>>
    BY <1>2 DEF PushAccepted
  <2> HIDE DEF y
  <2>4. y \notin Parts
    BY <2>1, <2>2, Labels DEF Parts
  <2>5. Parts' = Parts \cup {y}
    BY <2>1, <2>3, SameParts DEF Parts, decodeVars, verifyVars, prepareVars, executeVars
  <2>6. QED
    BY <2>3, <2>4, <2>5 DEF Balanced, Enters
<1>3. CASE PushSend
  <2> DEFINE x == <<"main", 0, 0>>
             y == <<"decoderJobs", 0, Len(decoderJobs) + 1>>
  <2>1. OpenAtMain = {x} /\ OpenAtMain' = {} /\ main.tx \in Txs
    BY <1>3 DEF PushSend, OpenAtMain, At, TypeOK
  <2>2. Enters(InDecoderJobs, InDecoderJobs', y)
    BY <1>3, <2>1, QueuedAppend DEF PushSend, TypeOK, InDecoderJobs
  <2>3. x[1] = "main" /\ y[1] = "decoderJobs"
    OBVIOUS
  <2>4. wg' = wg /\ UNCHANGED <<decoder, verifyVars, prepareVars, executeVars>>
    BY <1>3 DEF PushSend
  <2> HIDE DEF x, y
  <2>5. Moves(Parts, Parts', x, y)
    BY <2>1, <2>2, <2>3, <2>4, SameParts, Labels
       DEF Parts, Enters, Moves, verifyVars, prepareVars, executeVars
  <2>6. QED
    BY <2>4, <2>5 DEF Balanced
<1>4. QED
  BY <1>1, <1>2, <1>3

LEMMA DecoderBalanced ==
  ASSUME TypeOK, NEW d \in Decoders, DecoderStep(d), ~DecoderForget(d)
  PROVE  Balanced
<1> DEFINE h == <<"decoder", d, 0>>
<1>1. h[1] = "decoder"
  OBVIOUS
<1>2. DOMAIN decoder = Decoders /\ decoderJobs \in Seq(Txs) /\ verifierJobs \in Seq(Txs)
  BY DEF TypeOK
<1>3. \A e \in Decoders \ {d} : decoder'[e].pc = decoder[e].pc
  BY <1>2 DEF DecoderStep, DecoderTake, DecoderDiscard, DecoderForget, DecoderPass,
         DecoderSend
<1>4. UNCHANGED <<inputVars, prepareVars, executeVars>>
  BY DEF DecoderStep, DecoderTake, DecoderDiscard, DecoderForget, DecoderPass, DecoderSend
<1>5. /\ decoder[d].pc \notin {"check", "send"} /\ decoder'[d].pc \in {"check", "send"}
           => Enters(InDecoders, InDecoders', h)
      /\ decoder[d].pc \in {"check", "send"} /\ decoder'[d].pc \notin {"check", "send"}
           => Leaves(InDecoders, InDecoders', h)
      /\ (decoder[d].pc \in {"check", "send"} <=> decoder'[d].pc \in {"check", "send"})
           => UNCHANGED InDecoders
  BY <1>3, HeldChange DEF InDecoders
<1>6. UNCHANGED <<OpenAtMain, InPrepareChans, Buffered, InExecChans, InExecutors>>
  BY <1>4, SameParts DEF inputVars, prepareVars, executeVars
<1> HIDE DEF h
<1>7. CASE DecoderTake(d)
  <2> DEFINE x == <<"decoderJobs", 0, Len(decoderJobs)>>
  <2>1. x[1] = "decoderJobs"
    OBVIOUS
  <2>2. Leaves(InDecoderJobs, InDecoderJobs', x)
    BY <1>2, <1>7, QueuedTail DEF DecoderTake, InDecoderJobs
  <2>3. decoder[d].pc = "idle" /\ decoder'[d].pc = "check"
    BY <1>2, <1>7 DEF DecoderTake, At
  <2>4. wg' = wg /\ UNCHANGED <<InVerifierJobs, InVerifiers>>
    BY <1>7, SameParts DEF DecoderTake, verifyVars
  <2> HIDE DEF x
  <2>5. Enters(InDecoders, InDecoders', h)
    BY <1>5, <2>3
  <2>6. Moves(Parts, Parts', x, h)
    BY <1>1, <1>6, <2>1, <2>2, <2>4, <2>5, Labels DEF Parts, Leaves, Enters, Moves
  <2>7. QED
    BY <2>4, <2>6 DEF Balanced
<1>8. CASE DecoderDiscard(d)
  <2>1. decoder[d].pc = "check" /\ decoder'[d].pc = "idle"
    BY <1>2, <1>8 DEF DecoderDiscard, Idle
  <2>2. wg' = wg - 1 /\ UNCHANGED <<InDecoderJobs, InVerifierJobs, InVerifiers>>
    BY <1>8, SameParts DEF DecoderDiscard, verifyVars
  <2>3. Leaves(InDecoders, InDecoders', h)
    BY <1>5, <2>1
  <2>4. Leaves(Parts, Parts', h)
    BY <1>1, <1>6, <2>2, <2>3, Labels DEF Parts, Leaves
  <2>5. QED
    BY <2>2, <2>4 DEF Balanced
<1>9. CASE DecoderPass(d)
  <2>1. decoder[d].pc = "check" /\ decoder'[d].pc = "send"
    BY <1>2, <1>9 DEF DecoderPass
  <2>2. wg' = wg /\ UNCHANGED <<InDecoderJobs, InVerifierJobs, InVerifiers>>
    BY <1>9, SameParts DEF DecoderPass, verifyVars
  <2>3. UNCHANGED Parts
    BY <1>5, <1>6, <2>1, <2>2 DEF Parts
  <2>4. QED
    BY <2>2, <2>3 DEF Balanced
<1>10. CASE DecoderSend(d)
  <2> DEFINE y == <<"verifierJobs", 0, Len(verifierJobs) + 1>>
  <2>1. y[1] = "verifierJobs"
    OBVIOUS
  <2>2. decoder[d].tx \in Txs
    BY <1>10, BusyJob DEF DecoderSend, TypeOK
  <2>3. Enters(InVerifierJobs, InVerifierJobs', y)
    BY <1>2, <1>10, <2>2, QueuedAppend DEF DecoderSend, InVerifierJobs
  <2>4. decoder[d].pc = "send" /\ decoder'[d].pc = "idle"
    BY <1>2, <1>10 DEF DecoderSend, Idle
  <2>5. wg' = wg /\ UNCHANGED <<InDecoderJobs, InVerifiers>>
    BY <1>10, SameParts DEF DecoderSend
  <2> HIDE DEF y
  <2>6. Leaves(InDecoders, InDecoders', h)
    BY <1>5, <2>4
  <2>7. Moves(Parts, Parts', h, y)
    BY <1>1, <1>6, <2>1, <2>3, <2>5, <2>6, Labels DEF Parts, Leaves, Enters, Moves
  <2>8. QED
    BY <2>5, <2>7 DEF Balanced
<1>11. QED
  BY <1>7, <1>8, <1>9, <1>10 DEF DecoderStep

\* DecoderForget takes a transaction out and leaves its count.
LEMMA ForgetLeaks ==
  ASSUME TypeOK, NEW d \in Decoders, DecoderForget(d)
  PROVE  wg' = wg /\ \E x : Leaves(Parts, Parts', x)
<1> DEFINE h == <<"decoder", d, 0>>
<1>1. h[1] = "decoder"
  OBVIOUS
<1>2. DOMAIN decoder = Decoders
  BY DEF TypeOK
<1>3. \A e \in Decoders \ {d} : decoder'[e].pc = decoder[e].pc
  BY <1>2 DEF DecoderForget
<1>4. decoder[d].pc = "check" /\ decoder'[d].pc = "idle"
  BY <1>2 DEF DecoderForget, Idle
<1>5. Leaves(InDecoders, InDecoders', h)
  BY <1>3, <1>4, HeldChange DEF InDecoders
<1>6. wg' = wg /\ UNCHANGED <<decoderJobs, inputVars, verifyVars, prepareVars,
          executeVars>>
  BY DEF DecoderForget
<1> HIDE DEF h
<1>7. Leaves(Parts, Parts', h)
  BY <1>1, <1>5, <1>6, SameParts, Labels
     DEF Parts, Leaves, inputVars, verifyVars, prepareVars, executeVars
<1>8. QED
  BY <1>6, <1>7

LEMMA VerifierBalanced ==
  ASSUME TypeOK, NEW v \in Verifiers, VerifierStep(v)
  PROVE  Balanced
<1> DEFINE h == <<"verifier", v, 0>>
<1>1. h[1] = "verifier"
  OBVIOUS
<1>2. DOMAIN verifier = Verifiers /\ verifierJobs \in Seq(Txs)
  BY DEF TypeOK
<1>3. /\ \A e \in Verifiers \ {v} : verifier'[e].pc = verifier[e].pc
      /\ UNCHANGED <<main, decodeVars, preparer, executeVars>>
  <2>1. CASE VerifierTake(v)
    BY <1>2, <2>1 DEF VerifierTake, inputVars, prepareVars
  <2>2. CASE VerifierReject(v)
    BY <1>2, <2>2 DEF VerifierReject, inputVars, prepareVars
  <2>3. CASE VerifierReport(v)
    BY <1>2, <2>3 DEF VerifierReport, inputVars, prepareVars
  <2>4. CASE VerifierKeyError(v)
    BY <1>2, <2>4 DEF VerifierKeyError, inputVars, prepareVars
  <2>5. CASE VerifierClose(v)
    BY <1>2, <2>5 DEF VerifierClose, inputVars, prepareVars
  <2>6. CASE VerifierAccept(v)
    BY <1>2, <2>6 DEF VerifierAccept, prepareVars
  <2>7. CASE VerifierSend(v)
    BY <1>2, <2>7 DEF VerifierSend, inputVars
  <2>8. QED
    BY <2>1, <2>2, <2>3, <2>4, <2>5, <2>6, <2>7 DEF VerifierStep
<1>4. /\ verifier[v].pc \notin {"check", "close",
          "send"} /\ verifier'[v].pc \in {"check", "close", "send"}
           => Enters(InVerifiers, InVerifiers', h)
      /\ verifier[v].pc \in {"check", "close",
             "send"} /\ verifier'[v].pc \notin {"check", "close", "send"}
           => Leaves(InVerifiers, InVerifiers', h)
      /\ (verifier[v].pc \in {"check", "close", "send"} <=> verifier'[v].pc \in {"check",
             "close", "send"})
           => UNCHANGED InVerifiers
  BY <1>3, HeldChange DEF InVerifiers
<1>5. UNCHANGED <<OpenAtMain, InDecoderJobs, InDecoders, Buffered, InExecChans,
          InExecutors>>
  BY <1>3, SameParts DEF decodeVars, executeVars
<1> HIDE DEF h
<1>6. CASE VerifierTake(v)
  <2> DEFINE x == <<"verifierJobs", 0, Len(verifierJobs)>>
  <2>1. x[1] = "verifierJobs"
    OBVIOUS
  <2>2. Leaves(InVerifierJobs, InVerifierJobs', x)
    BY <1>2, <1>6, QueuedTail DEF VerifierTake, InVerifierJobs
  <2>3. verifier[v].pc = "idle" /\ verifier'[v].pc = "check"
    BY <1>2, <1>6 DEF VerifierTake, At
  <2>4. wg' = wg /\ UNCHANGED InPrepareChans
    BY <1>6, SameParts DEF VerifierTake, prepareVars
  <2> HIDE DEF x
  <2>5. Enters(InVerifiers, InVerifiers', h)
    BY <1>4, <2>3
  <2>6. Moves(Parts, Parts', x, h)
    BY <1>1, <1>5, <2>1, <2>2, <2>4, <2>5, Labels DEF Parts, Leaves, Enters, Moves
  <2>7. QED
    BY <2>4, <2>6 DEF Balanced
<1>7. CASE VerifierReject(v)
  <2>1. verifier[v].pc = "check" /\ verifier'[v].pc = "report"
    BY <1>2, <1>7 DEF VerifierReject
  <2>2. wg' = wg - 1 /\ UNCHANGED <<InVerifierJobs, InPrepareChans>>
    BY <1>7, SameParts DEF VerifierReject, prepareVars
  <2>3. Leaves(InVerifiers, InVerifiers', h)
    BY <1>4, <2>1
  <2>4. Leaves(Parts, Parts', h)
    BY <1>1, <1>5, <2>2, <2>3, Labels DEF Parts, Leaves
  <2>5. QED
    BY <2>2, <2>4 DEF Balanced
<1>8. CASE VerifierClose(v)
  <2>1. verifier[v].pc = "close" /\ verifier'[v].pc = "idle"
    BY <1>2, <1>8 DEF VerifierClose, Idle
  <2>2. wg' = wg - 1 /\ UNCHANGED <<InVerifierJobs, InPrepareChans>>
    BY <1>8, SameParts DEF VerifierClose, prepareVars
  <2>3. Leaves(InVerifiers, InVerifiers', h)
    BY <1>4, <2>1
  <2>4. Leaves(Parts, Parts', h)
    BY <1>1, <1>5, <2>2, <2>3, Labels DEF Parts, Leaves
  <2>5. QED
    BY <2>2, <2>4 DEF Balanced
<1>9. CASE VerifierReport(v)
  <2>1. verifier[v].pc = "report" /\ verifier'[v].pc = "idle"
    BY <1>2, <1>9 DEF VerifierReport, Idle
  <2>2. wg' = wg /\ UNCHANGED <<InVerifierJobs, InPrepareChans>>
    BY <1>9, SameParts DEF VerifierReport, prepareVars
  <2>3. UNCHANGED Parts
    BY <1>4, <1>5, <2>1, <2>2 DEF Parts
  <2>4. QED
    BY <2>2, <2>3 DEF Balanced
<1>10. CASE VerifierKeyError(v) \/ VerifierAccept(v)
  <2>1. verifier[v].pc = "check" /\ verifier'[v].pc \in {"close", "send"}
    <3>1. CASE VerifierKeyError(v)
      BY <1>2, <3>1 DEF VerifierKeyError
    <3>2. CASE VerifierAccept(v)
      BY <1>2, <3>2 DEF VerifierAccept
    <3>3. QED
      BY <1>10, <3>1, <3>2
  <2>2. wg' = wg /\ UNCHANGED <<InVerifierJobs, InPrepareChans>>
    BY <1>10, SameParts DEF VerifierKeyError, VerifierAccept, prepareVars
  <2>3. UNCHANGED Parts
    BY <1>4, <1>5, <2>1, <2>2 DEF Parts
  <2>4. QED
    BY <2>2, <2>3 DEF Balanced
<1>11. CASE VerifierSend(v)
  <2> DEFINE w == TxRoute(verifier[v].tx)
             y == <<"prepareChans", w, Len(prepareChans[w]) + 1>>
  <2>1. y[1] = "prepareChans"
    OBVIOUS
  <2>2. verifier[v].tx \in Txs
    BY <1>11, BusyJob DEF VerifierSend, TypeOK
  <2>3. w \in Preparers
    BY <2>2, RouteType
  <2>4. /\ prepareChans \in [Preparers -> Seq(Txs)]
        /\ prepareChans' = [prepareChans EXCEPT ![w] = Append(@, verifier[v].tx)]
    BY <1>11 DEF VerifierSend, TypeOK
  <2> HIDE DEF w
  <2>5. Enters(InPrepareChans, InPrepareChans', y)
    BY <2>2, <2>3, <2>4, QueuesAppend DEF InPrepareChans
  <2>6. verifier[v].pc = "send" /\ verifier'[v].pc = "idle"
    BY <1>2, <1>11 DEF VerifierSend, Idle
  <2>7. wg' = wg /\ UNCHANGED InVerifierJobs
    BY <1>11, SameParts DEF VerifierSend
  <2> HIDE DEF y
  <2>8. Leaves(InVerifiers, InVerifiers', h)
    BY <1>4, <2>6
  <2>9. Moves(Parts, Parts', h, y)
    BY <1>1, <1>5, <2>1, <2>5, <2>7, <2>8, Labels DEF Parts, Leaves, Enters, Moves
  <2>10. QED
    BY <2>7, <2>9 DEF Balanced
<1>12. QED
  BY <1>6, <1>7, <1>8, <1>9, <1>10, <1>11 DEF VerifierStep

\* A prepare worker begins or ends to owe the dispatch of its transaction.
LEMMA BufferedChange ==
  ASSUME NEW w \in Preparers, \A y \in Preparers \ {w} : preparer'[y] = preparer[y]
  PROVE  /\ w \notin Unsent /\ w \in Unsent' => Enters(Buffered, Buffered', <<"pending",
             <<w, preparer'[w].uid>>, 1>>)
         /\ w \in Unsent /\ w \notin Unsent' => Leaves(Buffered, Buffered', <<"pending",
                <<w, preparer[w].uid>>, 1>>)
         /\ w \notin Unsent /\ w \notin Unsent' => UNCHANGED Buffered
<1>1. \A y \in Preparers \ {w} : y \in Unsent <=> y \in Unsent'
  BY DEF Unsent
<1>2. Unsent \subseteq Preparers /\ Unsent' \subseteq Preparers
  BY DEF Unsent
<1>3. \A y \in Preparers \ {w} : preparer'[y].uid = preparer[y].uid
  OBVIOUS
<1>4. \A u, n : \A y \in Preparers \ {w} : <<"pending", <<y, n>>, 1>> # <<"pending", <<w,
          u>>, 1>>
  OBVIOUS
<1>5. QED
  BY <1>1, <1>2, <1>3, <1>4 DEF Buffered, Enters, Leaves

LEMMA PrepareBalanced ==
  ASSUME TypeOK, DrainInv, NEW w \in Preparers, PrepareStep(w)
  PROVE  Balanced
<1>1. UNCHANGED <<inputVars, decodeVars, verifyVars, executor>>
  BY DEF PrepareStep, PrepareDrop, PrepareAdmit, PrepareSend, PrepareStore,
         PrepareFinish, executeVars
<1>2. UNCHANGED <<OpenAtMain, InDecoderJobs, InDecoders, InVerifierJobs, InVerifiers,
          InExecutors>>
  BY <1>1, SameParts DEF inputVars, decodeVars, verifyVars
<1>3. DOMAIN preparer = Preparers /\ prepareChans \in [Preparers -> Seq(Txs)]
  BY DEF TypeOK
<1>4. CASE PrepareDrop(w)
  <2> DEFINE x == <<"prepareChans", w, Len(prepareChans[w])>>
  <2>1. x[1] = "prepareChans"
    OBVIOUS
  <2>2. prepareChans[w] # <<>> /\ prepareChans' = [prepareChans EXCEPT ![w] = Tail(@)]
    BY <1>4 DEF PrepareDrop
  <2>3. Leaves(InPrepareChans, InPrepareChans', x)
    BY <1>3, <2>2, QueuesTail DEF InPrepareChans
  <2>4. wg' = wg - 1 /\ UNCHANGED <<Buffered, InExecChans>>
    BY <1>4, SameParts DEF PrepareDrop, executeVars
  <2> HIDE DEF x
  <2>5. Leaves(Parts, Parts', x)
    BY <1>2, <2>1, <2>3, <2>4, Labels DEF Parts, Leaves
  <2>6. QED
    BY <2>4, <2>5 DEF Balanced
<1>5. CASE PrepareAdmit(w)
  <2> DEFINE x == <<"prepareChans", w, Len(prepareChans[w])>>
             y == <<"pending", <<w, preparer'[w].uid>>, 1>>
  <2>1. x[1] = "prepareChans" /\ y[1] = "pending"
    OBVIOUS
  <2>2. /\ preparer[w].pc = "idle" /\ prepareChans[w] # <<>>
        /\ prepareChans' = [prepareChans EXCEPT ![w] = Tail(@)]
    BY <1>5 DEF PrepareAdmit
  <2>3. Leaves(InPrepareChans, InPrepareChans', x)
    BY <1>3, <2>2, QueuesTail DEF InPrepareChans
  <2>4. /\ preparer'[w].pc = "drain" /\ preparer'[w].processed = 0
        /\ \A v \in Preparers \ {w} : preparer'[v] = preparer[v]
    BY <1>3, <1>5 DEF PrepareAdmit
  <2>5. w \notin Unsent /\ w \in Unsent'
    BY <2>2, <2>4 DEF Unsent
  <2>6. Enters(Buffered, Buffered', y)
    BY <2>4, <2>5, BufferedChange
  <2>7. wg' = wg /\ UNCHANGED InExecChans
    BY <1>5, SameParts DEF PrepareAdmit, executeVars
  <2> HIDE DEF x, y
  <2>8. Moves(Parts, Parts', x, y)
    BY <1>2, <2>1, <2>3, <2>6, <2>7, Labels DEF Parts, Leaves, Enters, Moves
  <2>9. QED
    BY <2>7, <2>8 DEF Balanced
<1>6. CASE PrepareSend(w)
  <2> DEFINE z == ExecRoute(NextPending(w))
             x == <<"pending", <<w, preparer[w].uid>>, 1>>
             y == <<"execChans", z, Len(execChans[z]) + 1>>
  <2>1. x[1] = "pending" /\ y[1] = "execChans"
    OBVIOUS
  <2>2. preparer[w].pc = "drain" /\ preparer[w].processed < Len(PendingQueue(w))
    BY <1>6 DEF PrepareSend, CanDrain
  <2>3. preparer[w].processed = 0
    <3>1. Len(PendingQueue(w)) = 1 /\ preparer[w].processed \in {0, 1}
      BY <2>2 DEF DrainInv
    <3>2. QED
      BY <2>2, <3>1
  <2>4. NextPending(w) \in Txs
    BY <2>2, <2>3, ElementType DEF NextPending, TypeOK, PendingQueue
  <2>5. z \in Executors
    BY <2>4, RouteType
  <2>6. /\ execChans \in [Executors -> Seq(Txs)]
        /\ execChans' = [execChans EXCEPT ![z] = Append(@, NextPending(w))]
    BY <1>6 DEF PrepareSend, TypeOK
  <2> HIDE DEF z
  <2>7. Enters(InExecChans, InExecChans', y)
    BY <2>4, <2>5, <2>6, QueuesAppend DEF InExecChans
  <2>8. preparer'[w].pc = "store" /\ \A v \in Preparers \ {w} : preparer'[v] = preparer[v]
    BY <1>3, <1>6 DEF PrepareSend
  <2>9. w \in Unsent /\ w \notin Unsent'
    BY <2>2, <2>3, <2>8 DEF Unsent
  <2>10. Leaves(Buffered, Buffered', x)
    BY <2>8, <2>9, BufferedChange
  <2>11. wg' = wg /\ UNCHANGED InPrepareChans
    BY <1>6, SameParts DEF PrepareSend
  <2> HIDE DEF x, y
  <2>12. Moves(Parts, Parts', x, y)
    BY <1>2, <2>1, <2>7, <2>10, <2>11, Labels DEF Parts, Leaves, Enters, Moves
  <2>13. QED
    BY <2>11, <2>12 DEF Balanced
<1>7. CASE PrepareStore(w) \/ PrepareFinish(w)
  <2>1. \A v \in Preparers \ {w} : preparer'[v] = preparer[v]
    BY <1>3, <1>7 DEF PrepareStore, PrepareFinish
  <2>2. w \notin Unsent
    <3>1. CASE PrepareStore(w)
      BY <3>1 DEF PrepareStore, Unsent
    <3>2. CASE PrepareFinish(w)
      <4>1. preparer[w].pc = "drain" /\ ~CanDrain(w) /\ Len(PendingQueue(w)) = 1
        BY <3>2 DEF PrepareFinish, DrainInv
      <4>2. preparer[w].processed = 0 => CanDrain(w)
        BY <4>1 DEF CanDrain, NextPending, DrainInv
      <4>3. QED
        BY <4>1, <4>2 DEF Unsent
    <3>3. QED
      BY <1>7, <3>1, <3>2
  <2>3. w \notin Unsent'
    <3>1. CASE PrepareStore(w)
      <4>1. preparer[w].processed = 0
        BY <3>1 DEF PrepareStore, DrainInv
      <4>2. preparer'[w].processed = 1
        BY <1>3, <3>1, <4>1 DEF PrepareStore
      <4>3. QED
        BY <4>2 DEF Unsent
    <3>2. CASE PrepareFinish(w)
      BY <1>3, <3>2 DEF PrepareFinish, IdlePreparer, Unsent
    <3>3. QED
      BY <1>7, <3>1, <3>2
  <2>4. UNCHANGED Buffered
    BY <2>1, <2>2, <2>3, BufferedChange
  <2>5. wg' = wg /\ UNCHANGED <<InPrepareChans, InExecChans>>
    BY <1>7, SameParts DEF PrepareStore, PrepareFinish, executeVars
  <2>6. UNCHANGED Parts
    BY <1>2, <2>4, <2>5 DEF Parts
  <2>7. QED
    BY <2>5, <2>6 DEF Balanced
<1>8. QED
  BY <1>4, <1>5, <1>6, <1>7 DEF PrepareStep

LEMMA ExecBalanced ==
  ASSUME TypeOK, NEW x \in Executors, ExecStep(x)
  PROVE  Balanced
<1> DEFINE h == <<"executor", x, 0>>
<1>1. h[1] = "executor"
  OBVIOUS
<1>2. DOMAIN executor = Executors /\ execChans \in [Executors -> Seq(Txs)]
  BY DEF TypeOK
<1>3. /\ \A e \in Executors \ {x} : executor'[e].pc = executor[e].pc
      /\ UNCHANGED <<inputVars, decodeVars, verifyVars, prepareVars>>
  BY <1>2 DEF ExecStep, ExecTake, ExecCommit, ExecDone
<1>4. /\ executor[x].pc \notin {"run", "close"} /\ executor'[x].pc \in {"run", "close"}
           => Enters(InExecutors, InExecutors', h)
      /\ executor[x].pc \in {"run", "close"} /\ executor'[x].pc \notin {"run", "close"}
           => Leaves(InExecutors, InExecutors', h)
      /\ (executor[x].pc \in {"run", "close"} <=> executor'[x].pc \in {"run", "close"})
           => UNCHANGED InExecutors
  BY <1>3, HeldChange DEF InExecutors
<1>5. UNCHANGED <<OpenAtMain, InDecoderJobs, InDecoders, InVerifierJobs, InVerifiers,
                  InPrepareChans, Buffered>>
  BY <1>3, SameParts DEF inputVars, decodeVars, verifyVars, prepareVars
<1> HIDE DEF h
<1>6. CASE ExecTake(x)
  <2> DEFINE p == <<"execChans", x, Len(execChans[x])>>
  <2>1. p[1] = "execChans"
    OBVIOUS
  <2>2. execChans[x] # <<>> /\ execChans' = [execChans EXCEPT ![x] = Tail(@)]
    BY <1>6 DEF ExecTake
  <2>3. Leaves(InExecChans, InExecChans', p)
    BY <1>2, <2>2, QueuesTail DEF InExecChans
  <2>4. executor[x].pc = "idle" /\ executor'[x].pc = "run" /\ wg' = wg
    BY <1>2, <1>6 DEF ExecTake, At
  <2> HIDE DEF p
  <2>5. Enters(InExecutors, InExecutors', h)
    BY <1>4, <2>4
  <2>6. Moves(Parts, Parts', p, h)
    BY <1>1, <1>5, <2>1, <2>3, <2>5, Labels DEF Parts, Leaves, Enters, Moves
  <2>7. QED
    BY <2>4, <2>6 DEF Balanced
<1>7. CASE ExecCommit(x)
  <2>1. executor[x].pc = "run" /\ executor'[x].pc = "close" /\ wg' = wg
    BY <1>2, <1>7 DEF ExecCommit
  <2>2. UNCHANGED InExecChans
    BY <1>7, SameParts DEF ExecCommit
  <2>3. UNCHANGED Parts
    BY <1>4, <1>5, <2>1, <2>2 DEF Parts
  <2>4. QED
    BY <2>1, <2>3 DEF Balanced
<1>8. CASE ExecDone(x)
  <2>1. executor[x].pc = "close" /\ executor'[x].pc = "idle" /\ wg' = wg - 1
    BY <1>2, <1>8 DEF ExecDone, Idle
  <2>2. UNCHANGED InExecChans
    BY <1>8, SameParts DEF ExecDone
  <2>3. Leaves(InExecutors, InExecutors', h)
    BY <1>4, <2>1
  <2>4. Leaves(Parts, Parts', h)
    BY <1>1, <1>5, <2>2, <2>3, Labels DEF Parts, Leaves
  <2>5. QED
    BY <2>1, <2>4 DEF Balanced
<1>9. QED
  BY <1>6, <1>7, <1>8 DEF ExecStep

LEMMA StepBalanced ==
  ASSUME TypeOK, DrainInv, [Next]_vars, \A d \in Decoders : ~DecoderForget(d)
  PROVE  Balanced
<1>1. CASE UNCHANGED vars
  BY <1>1, SameParts
     DEF vars, Balanced, Parts, inputVars, decodeVars, verifyVars, prepareVars,
         executeVars
<1>2. CASE Consume
  BY <1>2, SameParts
     DEF Consume, Balanced, Parts, inputVars, decodeVars, verifyVars, prepareVars,
         executeVars
<1>3. CASE \E t \in Txs : PushRefused(t) \/ PushAccepted(t)
  BY <1>3, PushBalanced
<1>4. CASE PushSend
  <2>1. main.tx \in Txs
    BY <1>4 DEF PushSend, TypeOK, At
  <2>2. QED
    BY <1>4, <2>1, PushBalanced
<1>5. CASE WaitReturns
  <2>1. OpenAtMain = {} /\ OpenAtMain' = {}
    BY <1>5 DEF WaitReturns, OpenAtMain, At
  <2>2. wg' = wg /\ UNCHANGED <<decodeVars, verifyVars, prepareVars, executeVars>>
    BY <1>5 DEF WaitReturns
  <2>3. QED
    BY <2>1, <2>2, SameParts
       DEF Balanced, Parts, decodeVars, verifyVars, prepareVars, executeVars
<1>6. QED
  BY <1>1, <1>2, <1>3, <1>4, <1>5, DecoderBalanced, VerifierBalanced, PrepareBalanced,
     ExecBalanced DEF Next

\* What is not yet decoded has been accepted.
LEMMA KnownInit == Init => KnownInv
  BY DEF Init, KnownInv, Idle, At

LEMMA KnownStep == TypeOK /\ KnownInv /\ [Next]_vars => KnownInv'
<1> SUFFICES ASSUME TypeOK, KnownInv, [Next]_vars
             PROVE  KnownInv'
  OBVIOUS
<1>1. accepted \subseteq accepted'
  BY DEF Next, vars, inputVars, PushRefused, PushAccepted, PushSend, WaitReturns,
         DecoderStep,
         DecoderTake, DecoderDiscard, DecoderForget, DecoderPass, DecoderSend,
             VerifierStep,
         VerifierTake, VerifierReject, VerifierReport, VerifierKeyError, VerifierClose,
         VerifierAccept, VerifierSend, PrepareStep, PrepareDrop, PrepareAdmit,
             PrepareSend,
         PrepareStore, PrepareFinish, ExecStep, ExecTake, ExecCommit, ExecDone, Consume
<1>2. ASSUME NEW t \in Txs, PushAccepted(t)
      PROVE  KnownInv'
  BY <1>1, <1>2 DEF PushAccepted, KnownInv, At, decodeVars
<1>3. CASE PushSend
  <2>1. /\ main.pc = "send" /\ main'.pc = "push" /\ UNCHANGED <<accepted, decoder>>
        /\ decoderJobs' = Append(decoderJobs, main.tx)
    BY <1>3 DEF PushSend, At
  <2>2. main.tx \in accepted /\ main.tx \in Txs /\ decoderJobs \in Seq(Txs)
    BY <2>1 DEF KnownInv, TypeOK, At
  <2>3. \A i \in DOMAIN decoderJobs' : decoderJobs'[i] \in accepted
    BY <2>1, <2>2 DEF KnownInv
  <2>4. QED
    BY <2>1, <2>3 DEF KnownInv
<1>4. ASSUME NEW d \in Decoders, DecoderTake(d)
      PROVE  KnownInv'
  <2>1. decoderJobs \in Seq(Txs) /\ decoderJobs # <<>> /\ decoderJobs' = Tail(decoderJobs)
    BY <1>4 DEF DecoderTake, TypeOK
  <2>2. Head(decoderJobs) \in accepted /\ \A i \in DOMAIN decoderJobs' :
            decoderJobs'[i] \in accepted
    BY <2>1 DEF KnownInv
  <2>3. UNCHANGED <<main, accepted>> /\ decoder' = [decoder EXCEPT ![d] = At("check",
            Head(decoderJobs))]
    BY <1>4 DEF DecoderTake, inputVars
  <2>4. QED
    BY <2>2, <2>3 DEF KnownInv, TypeOK, At
<1>5. ASSUME NEW d \in Decoders,
             DecoderDiscard(d) \/ DecoderForget(d) \/ DecoderPass(d) \/ DecoderSend(d)
      PROVE  KnownInv'
  <2>1. UNCHANGED <<main, decoderJobs, accepted>>
    BY <1>5 DEF DecoderDiscard, DecoderForget, DecoderPass, DecoderSend, inputVars
  <2>2. \A e \in Decoders : decoder'[e].pc = "check" => decoder'[e] = decoder[e]
    <3>1. DOMAIN decoder = Decoders
      BY DEF TypeOK
    <3>2. CASE DecoderDiscard(d)
      BY <3>1, <3>2 DEF DecoderDiscard, Idle
    <3>3. CASE DecoderForget(d)
      BY <3>1, <3>3 DEF DecoderForget, Idle
    <3>4. CASE DecoderPass(d)
      <4>1. decoder'[d].pc # "check" /\ \A e \in Decoders \ {d} : decoder'[e] = decoder[e]
        BY <3>1, <3>4 DEF DecoderPass
      <4>2. QED
        BY <4>1
    <3>5. CASE DecoderSend(d)
      BY <3>1, <3>5 DEF DecoderSend, Idle
    <3>6. QED
      BY <1>5, <3>2, <3>3, <3>4, <3>5
  <2>3. QED
    BY <2>1, <2>2 DEF KnownInv
<1>6. CASE UNCHANGED <<decoderJobs, decoder>> /\ (UNCHANGED main \/ main'.pc # "send")
  BY <1>1, <1>6 DEF KnownInv
<1>7. (\E t \in Txs : PushRefused(t)) \/ WaitReturns => UNCHANGED <<decoderJobs,
          decoder>> /\ (UNCHANGED main \/ main'.pc # "send")
  BY DEF PushRefused, WaitReturns, At, decodeVars
<1>8. (\E v \in Verifiers : VerifierStep(v)) \/ (\E w \in Preparers : PrepareStep(w))
        \/ (\E x \in Executors : ExecStep(x)) \/ Consume \/ UNCHANGED vars
        => UNCHANGED <<decoderJobs, decoder, main>>
  BY DEF vars, inputVars, decodeVars, VerifierStep,
         VerifierTake, VerifierReject, VerifierReport, VerifierKeyError, VerifierClose,
         VerifierAccept, VerifierSend, PrepareStep, PrepareDrop, PrepareAdmit,
             PrepareSend,
         PrepareStore, PrepareFinish, ExecStep, ExecTake, ExecCommit, ExecDone, Consume
<1>9. QED
  BY <1>2, <1>3, <1>4, <1>5, <1>6, <1>7, <1>8 DEF Next, DecoderStep

\* The counter and the accepted transactions; main is at the end only after
\* Wait has returned.
LEMMA MainSteps ==
  ASSUME TypeOK, [Next]_vars
  PROVE  /\ accepted \subseteq accepted'
         /\ main'.pc = "end" => UNCHANGED main \/ (wg = 0 /\ UNCHANGED wg)
         /\ main'.pc = "end" => wg' <= wg
<1> USE DEF TypeOK
<1>1. ASSUME NEW t \in Txs, PushRefused(t)
      PROVE  UNCHANGED <<accepted, main, wg>>
  BY <1>1 DEF PushRefused
<1>2. ASSUME NEW t \in Txs, PushAccepted(t)
      PROVE  accepted \subseteq accepted' /\ main'.pc = "send"
  BY <1>2 DEF PushAccepted, At
<1>3. CASE PushSend
  BY <1>3 DEF PushSend, At
<1>4. CASE WaitReturns
  BY <1>4 DEF WaitReturns
<1>5. ASSUME \/ \E d \in Decoders : DecoderStep(d)
             \/ \E v \in Verifiers : VerifierStep(v)
             \/ \E w \in Preparers : PrepareStep(w)
             \/ \E x \in Executors : ExecStep(x)
             \/ Consume
             \/ UNCHANGED vars
      PROVE  UNCHANGED <<accepted, main>> /\ wg' \in {wg, wg - 1}
  <2>1. ASSUME NEW d \in Decoders, DecoderStep(d)
        PROVE  UNCHANGED <<accepted, main>> /\ wg' \in {wg, wg - 1}
    BY <2>1 DEF inputVars, DecoderStep, DecoderTake, DecoderDiscard, DecoderForget,
           DecoderPass,
                DecoderSend
  <2>2. ASSUME NEW v \in Verifiers, VerifierStep(v)
        PROVE  UNCHANGED <<accepted, main>> /\ wg' \in {wg, wg - 1}
    BY <2>2 DEF inputVars, VerifierStep, VerifierTake, VerifierReject, VerifierReport,
                VerifierKeyError, VerifierClose, VerifierAccept, VerifierSend
  <2>3. ASSUME NEW w \in Preparers, PrepareStep(w)
        PROVE  UNCHANGED <<accepted, main>> /\ wg' \in {wg, wg - 1}
    BY <2>3 DEF inputVars, PrepareStep, PrepareDrop, PrepareAdmit, PrepareSend,
           PrepareStore,
                PrepareFinish
  <2>4. ASSUME NEW x \in Executors, ExecStep(x)
        PROVE  UNCHANGED <<accepted, main>> /\ wg' \in {wg, wg - 1}
    BY <2>4 DEF inputVars, ExecStep, ExecTake, ExecCommit, ExecDone
  <2>5. CASE Consume \/ UNCHANGED vars
    BY <2>5 DEF Consume, vars, inputVars
  <2>6. QED
    BY <1>5, <2>1, <2>2, <2>3, <2>4, <2>5
<1>6. wg \in Int
  OBVIOUS
<1> HIDE DEF TypeOK
<1>7. QED
  BY <1>1, <1>2, <1>3, <1>4, <1>5, <1>6 DEF Next

LEMMA CountInit == Init => CountInv
<1> SUFFICES ASSUME Init
             PROVE  CountInv
  OBVIOUS
<1>1. wg = 0 /\ main.pc = "push"
  BY DEF Init, At
<1>2. Open = Parts
  BY TypeInit, DrainInit, OpenInParts
<1>3. Parts = {}
  BY <1>1
     DEF Init, Parts, OpenAtMain, InDecoderJobs, InDecoders, InVerifierJobs, InVerifiers,
         InPrepareChans, Buffered, Unsent, InExecChans, InExecutors, Queued, Queues, Held,
         Idle, IdlePreparer
<1>4. IsFiniteSet({}) /\ Cardinality({}) = 0
  BY FS_EmptySet
<1>5. QED
  BY <1>1, <1>2, <1>3, <1>4 DEF CountInv

\* The same after a step.
LEMMA OpenInPartsNext == (TypeOK /\ DrainInv => Open = Parts)'
<1>1. TypeOK /\ DrainInv => Open = Parts
  BY OpenInParts
<1>2. QED
  BY <1>1, PTL

LEMMA CountStep == PipeInv /\ PipeInv' /\ KnownInv /\ CountInv /\ [Next]_vars => CountInv'
<1> SUFFICES ASSUME TypeOK, DrainInv, TypeOK', DrainInv', KnownInv, CountInv, [Next]_vars
             PROVE  CountInv'
  BY DEF PipeInv
<1>1. Open = Parts
  BY OpenInParts
<1>2. TypeOK' /\ DrainInv' => Open' = Parts'
  BY OpenInPartsNext
<1>3. /\ IsFiniteSet(Parts) /\ wg >= Cardinality(Parts) /\ wg \in Int
      /\ AllRegistered => wg = Cardinality(Parts)
      /\ main.pc = "end" => wg <= 0
  BY <1>1 DEF CountInv, TypeOK
<1>4. Cardinality(Parts) \in Nat
  BY <1>3, FS_CardinalityType
<1>5. AllRegistered' => AllRegistered
  BY MainSteps DEF AllRegistered, Registered
<1>6. IsFiniteSet(Parts') /\ wg' >= Cardinality(Parts') /\ (AllRegistered' =>
          wg' = Cardinality(Parts'))
  <2>1. CASE \E d \in Decoders : DecoderForget(d)
    <3>1. PICK d \in Decoders : DecoderForget(d)
      BY <2>1
    <3>2. PICK x : Leaves(Parts, Parts', x)
      BY <3>1, ForgetLeaks
    <3>3. wg' = wg
      BY <3>1, ForgetLeaks
    <3>4. IsFiniteSet(Parts') /\ Cardinality(Parts') = Cardinality(Parts) - 1
      BY <1>3, <3>2, CountLeave
    <3>5. ~AllRegistered
      BY <3>1 DEF DecoderForget, KnownInv, AllRegistered
    <3>6. QED
      BY <1>3, <1>4, <1>5, <3>3, <3>4, <3>5
  <2>2. CASE \A d \in Decoders : ~DecoderForget(d)
    <3>1. Balanced
      BY <2>2, StepBalanced
    <3>2. CASE wg' = wg /\ UNCHANGED Parts
      BY <1>3, <1>5, <3>2
    <3>3. ASSUME wg' = wg, NEW x, NEW y, Moves(Parts, Parts', x, y)
          PROVE  IsFiniteSet(Parts') /\ wg' >= Cardinality(Parts') /\ (AllRegistered' =>
                     wg' = Cardinality(Parts'))
      <4>1. IsFiniteSet(Parts') /\ Cardinality(Parts') = Cardinality(Parts)
        BY <1>3, <3>3, CountMove
      <4>2. QED
        BY <1>3, <1>4, <1>5, <3>3, <4>1
    <3>4. ASSUME wg' = wg + 1, NEW y, Enters(Parts, Parts', y)
          PROVE  IsFiniteSet(Parts') /\ wg' >= Cardinality(Parts') /\ (AllRegistered' =>
                     wg' = Cardinality(Parts'))
      <4>1. IsFiniteSet(Parts') /\ Cardinality(Parts') = Cardinality(Parts) + 1
        BY <1>3, <3>4, CountEnter
      <4>2. QED
        BY <1>3, <1>4, <1>5, <3>4, <4>1
    <3>5. ASSUME wg' = wg - 1, NEW x, Leaves(Parts, Parts', x)
          PROVE  IsFiniteSet(Parts') /\ wg' >= Cardinality(Parts') /\ (AllRegistered' =>
                     wg' = Cardinality(Parts'))
      <4>1. IsFiniteSet(Parts') /\ Cardinality(Parts') = Cardinality(Parts) - 1
        BY <1>3, <3>5, CountLeave
      <4>2. QED
        BY <1>3, <1>4, <1>5, <3>5, <4>1
    <3>6. QED
      BY <3>1, <3>2, <3>3, <3>4, <3>5 DEF Balanced
  <2>3. QED
    BY <2>1, <2>2
<1>7. main'.pc = "end" => wg' <= 0
  <2>1. ASSUME main'.pc = "end"
        PROVE  wg' <= 0
    <3>1. wg' <= wg /\ (UNCHANGED main \/ (wg = 0 /\ UNCHANGED wg)) /\ wg' \in Int
      BY <2>1, MainSteps DEF TypeOK
    <3>2. QED
      BY <1>3, <2>1, <3>1
  <2>2. QED
    BY <2>1
<1>8. QED
  BY <1>2, <1>6, <1>7 DEF CountInv

\* The WaitGroup never counts less than the transactions still inside, and
\* unless a signer is not registered it counts them exactly: wg.Done() is
\* called once on every way out of the pipeline.
THEOREM WaitGroupExact == Spec => []WgExact
<1>1. Init => KnownInv /\ CountInv
  BY KnownInit, CountInit
<1>2. PipeInv /\ PipeInv' /\ KnownInv /\ CountInv /\ [Next]_vars => KnownInv' /\ CountInv'
  BY KnownStep, CountStep DEF PipeInv
<1>3. KnownInv /\ CountInv => WgExact
  BY DEF CountInv, WgExact
<1>4. QED
  BY <1>1, <1>2, <1>3, PipeInvariant, PTL DEF Spec

-------------------------------------------------------------------------------
(* The order of a market.                                                  *)

\* What the prepare workers sent on waits at the execution worker it is routed
\* to, is run there, or is committed.
Committed(t)   == \E p \in DOMAIN committed : committed[p] = t
Runs(x, t)     == executor[x].pc = "run" /\ executor[x].tx = t
WaitsAt(x, k, t) == k \in DOMAIN execChans[x] /\ execChans[x][k] = t
FlowInv ==
  \A i \in DOMAIN dispatched :
    LET x == ExecRoute(dispatched[i])
    IN  \/ Committed(dispatched[i])
        \/ Runs(x, dispatched[i])
        \/ \E k \in DOMAIN execChans[x] : WaitsAt(x, k, dispatched[i])

\* Each is in one place only, and what was sent before it to the same
\* execution worker is ahead of it.
SentTo(t, x) == ExecRoute(t) = x /\ \E i \in DOMAIN dispatched : dispatched[i] = t
PlacesInv ==
  /\ \A x \in Executors : \A k \in DOMAIN execChans[x] :
       /\ SentTo(execChans[x][k], x)
       /\ ~Committed(execChans[x][k])
       /\ ~Runs(x, execChans[x][k])
       /\ \A m \in DOMAIN execChans[x] : execChans[x][m] = execChans[x][k] => m = k
  /\ \A x \in Executors : executor[x].pc = "run" =>
       SentTo(executor[x].tx, x) /\ ~Committed(executor[x].tx)
  /\ \A p \in DOMAIN committed :
       /\ \E i \in DOMAIN dispatched : dispatched[i] = committed[p]
       /\ \A q \in DOMAIN committed : committed[q] = committed[p] => q = p
AheadInv ==
  \A i, k \in DOMAIN dispatched :
    i < k /\ ExecRoute(dispatched[i]) = ExecRoute(dispatched[k]) =>
      LET x == ExecRoute(dispatched[k])
      IN  /\ \A j \in DOMAIN committed : committed[j] = dispatched[k] =>
               \E p \in DOMAIN committed : p < j /\ committed[p] = dispatched[i]
          /\ Runs(x, dispatched[k]) => Committed(dispatched[i])
          /\ \A n \in DOMAIN execChans[x] : WaitsAt(x, n, dispatched[k]) =>
               \/ Committed(dispatched[i])
               \/ Runs(x, dispatched[i])
               \/ \E m \in DOMAIN execChans[x] : m < n /\ WaitsAt(x, m, dispatched[i])

\* What a prepare worker sends, and where.
LEMMA SendFacts ==
  ASSUME TypeOK, DrainInv, NEW w \in Preparers, PrepareSend(w)
  PROVE  \E t \in Txs, x \in Executors :
           /\ t = PendingQueue(w)[1] /\ x = ExecRoute(t)
           /\ preparer[w].pc = "drain" /\ preparer[w].processed = 0
           /\ execChans' = [execChans EXCEPT ![x] = Append(@, t)]
           /\ dispatched' = Append(dispatched, t)
           /\ UNCHANGED <<executor, committed>>
<1> DEFINE t == NextPending(w)
<1>1. preparer[w].pc = "drain" /\ preparer[w].processed < Len(PendingQueue(w))
  BY DEF PrepareSend, CanDrain
<1>2. preparer[w].processed = 0
  <2>1. Len(PendingQueue(w)) = 1 /\ preparer[w].processed \in {0, 1}
    BY <1>1 DEF DrainInv
  <2>2. QED
    BY <1>1, <2>1
<1>3. t \in Txs
  BY <1>1, <1>2, ElementType DEF NextPending, TypeOK, PendingQueue
<1>4. ExecRoute(t) \in Executors
  BY <1>3, RouteType
<1>5. t = PendingQueue(w)[1]
  BY <1>2 DEF NextPending
<1>6. /\ execChans' = [execChans EXCEPT ![ExecRoute(t)] = Append(@, t)]
      /\ dispatched' = Append(dispatched, t)
      /\ UNCHANGED <<executor, committed>>
  BY DEF PrepareSend
<1> HIDE DEF t
<1>7. QED
  BY <1>1, <1>2, <1>3, <1>4, <1>5, <1>6

\* Only four actions concern the dispatched transactions.
LEMMA FlowSteps ==
  ASSUME [Next]_vars
  PROVE  \/ \E w \in Preparers : PrepareSend(w)
         \/ \E x \in Executors : ExecTake(x) \/ ExecCommit(x) \/ ExecDone(x)
         \/ UNCHANGED <<dispatched, execChans, executor, committed>>
<1>1. ASSUME NEW t \in Txs, PushRefused(t) \/ PushAccepted(t)
      PROVE  UNCHANGED <<dispatched, execChans, executor, committed>>
  BY <1>1 DEF PushRefused, PushAccepted, prepareVars, executeVars
<1>2. CASE PushSend \/ WaitReturns \/ Consume \/ UNCHANGED vars
  BY <1>2 DEF PushSend, WaitReturns, Consume, vars, prepareVars, executeVars
<1>3. ASSUME NEW d \in Decoders, DecoderStep(d)
      PROVE  UNCHANGED <<dispatched, execChans, executor, committed>>
  BY <1>3 DEF DecoderStep, DecoderTake, DecoderDiscard, DecoderForget, DecoderPass,
         DecoderSend,
              prepareVars, executeVars
<1>4. ASSUME NEW v \in Verifiers, VerifierStep(v)
      PROVE  UNCHANGED <<dispatched, execChans, executor, committed>>
  BY <1>4 DEF VerifierStep, VerifierTake, VerifierReject, VerifierReport,
         VerifierKeyError,
              VerifierClose, VerifierAccept, VerifierSend, prepareVars, executeVars
<1>5. ASSUME NEW w \in Preparers, PrepareStep(w), ~PrepareSend(w)
      PROVE  UNCHANGED <<dispatched, execChans, executor, committed>>
  BY <1>5 DEF PrepareStep, PrepareDrop, PrepareAdmit, PrepareStore, PrepareFinish,
         executeVars
<1>6. QED
  BY <1>1, <1>2, <1>3, <1>4, <1>5 DEF Next, ExecStep

\* The types of what an execution worker takes and commits.
LEMMA TakeFacts ==
  ASSUME TypeOK, NEW x \in Executors, ExecTake(x)
  PROVE  /\ executor[x].pc = "idle" /\ execChans[x] \in Seq(Txs) /\ execChans[x] # <<>>
         /\ executor'[x].pc = "run" /\ executor'[x].tx = execChans[x][1]
         /\ execChans'[x] = Tail(execChans[x])
         /\ \A y \in Executors : y # x =>
                executor'[y] = executor[y] /\ execChans'[y] = execChans[y]
         /\ UNCHANGED <<dispatched, committed>>
<1>1. execChans[x] \in Seq(Txs) /\ execChans[x] # <<>> /\
          execChans[x][1] = Head(execChans[x])
  BY DEF ExecTake, TypeOK
<1>2. executor' = [executor EXCEPT ![x] = [pc |-> "run", tx |-> execChans[x][1]]]
  BY <1>1 DEF ExecTake, At
<1>3. QED
  BY <1>1, <1>2 DEF ExecTake, TypeOK, prepareVars

LEMMA CommitFacts ==
  ASSUME TypeOK, NEW x \in Executors, ExecCommit(x)
  PROVE  /\ executor[x].pc = "run" /\ executor[x].tx \in Txs /\ executor'[x].pc = "close"
         /\ committed \in Seq(Txs) /\ committed' = Append(committed, executor[x].tx)
         /\ \A y \in Executors : y # x => executor'[y] = executor[y]
         /\ UNCHANGED <<dispatched, execChans>>
<1>1. executor[x].tx \in Txs
  BY BusyJob DEF ExecCommit, TypeOK
<1>2. QED
  BY <1>1 DEF ExecCommit, TypeOK, prepareVars

LEMMA DoneFacts ==
  ASSUME TypeOK, NEW x \in Executors, ExecDone(x)
  PROVE  /\ executor[x].pc # "run" /\ executor'[x].pc # "run"
         /\ \A y \in Executors : y # x => executor'[y] = executor[y]
         /\ UNCHANGED <<dispatched, execChans, committed>>
BY DEF ExecDone, TypeOK, prepareVars, Idle

LEMMA SequenceFacts ==
  ASSUME NEW q \in Seq(Txs), NEW t \in Txs
  PROVE  /\ Len(q) \in Nat /\ DOMAIN q = 1..Len(q)
         /\ DOMAIN Append(q, t) = 1..(Len(q) + 1)
         /\ \A i \in DOMAIN q : i \in DOMAIN Append(q, t) /\ Append(q, t)[i] = q[i]
         /\ Append(q, t)[Len(q) + 1] = t
         /\ \A i \in DOMAIN Append(q, t) : i \in DOMAIN q \/ i = Len(q) + 1
OBVIOUS

LEMMA TailFacts ==
  ASSUME NEW q \in Seq(Txs), q # <<>>
  PROVE  /\ 1 \in DOMAIN q /\ q[1] = Head(q) /\ DOMAIN q \subseteq Nat
         /\ \A i \in DOMAIN Tail(q) :
                i \in Nat \ {0} /\ i + 1 \in DOMAIN q /\ Tail(q)[i] = q[i + 1]
         /\ \A i \in DOMAIN q :
                i = 1 \/ (i > 1 /\ i - 1 \in DOMAIN Tail(q) /\ Tail(q)[i - 1] = q[i])
OBVIOUS

LEMMA FlowInit == Init => FlowInv /\ PlacesInv /\ AheadInv
  BY DEF Init, FlowInv, PlacesInv, AheadInv, Idle

\* Nothing that is sent gets lost.
LEMMA FlowStep == TypeOK /\ DrainInv /\ FlowInv /\ [Next]_vars => FlowInv'
<1> SUFFICES ASSUME TypeOK, DrainInv, FlowInv, [Next]_vars
             PROVE  FlowInv'
  OBVIOUS
<1>1. dispatched \in Seq(Txs) /\ \A x \in Executors : execChans[x] \in Seq(Txs)
  BY DEF TypeOK
<1>2. \A i \in DOMAIN dispatched : ExecRoute(dispatched[i]) \in Executors
  BY <1>1, RouteType
<1>3. ASSUME NEW w \in Preparers, PrepareSend(w)
      PROVE  FlowInv'
  <2>1. PICK t \in Txs, x \in Executors :
          /\ x = ExecRoute(t)
          /\ execChans' = [execChans EXCEPT ![x] = Append(@, t)]
          /\ dispatched' = Append(dispatched, t)
          /\ UNCHANGED <<executor, committed>>
    BY <1>3, SendFacts
  <2>2. \A y \in Executors : \A k \in DOMAIN execChans[y] :
          k \in DOMAIN execChans'[y] /\ execChans'[y][k] = execChans[y][k]
    <3>1. execChans'[x] = Append(execChans[x], t) /\ \A y \in Executors : y # x =>
              execChans'[y] = execChans[y]
      BY <2>1 DEF TypeOK
    <3>2. QED
      BY SMTT(30), <1>1, <3>1, SequenceFacts
  <2>3. \E k \in DOMAIN execChans'[x] : execChans'[x][k] = t
    <3>1. execChans'[x] = Append(execChans[x], t)
      BY <2>1 DEF TypeOK
    <3>2. Len(execChans[x]) + 1 \in DOMAIN execChans'[x] /\
              execChans'[x][Len(execChans[x]) + 1] = t
      BY <1>1, <3>1, SequenceFacts
    <3>3. QED
      BY <3>2
  <2>4. \A i \in DOMAIN dispatched' :
            (i \in DOMAIN dispatched /\ dispatched'[i] = dispatched[i]) \/
                dispatched'[i] = t
    BY <1>1, <2>1, SequenceFacts
  <2>5. QED
    BY SMTT(30), <1>2, <2>1, <2>2, <2>3, <2>4 DEF FlowInv, Committed, Runs, WaitsAt
<1>4. ASSUME NEW x \in Executors, ExecTake(x)
      PROVE  FlowInv'
  <2> SUFFICES ASSUME NEW i \in DOMAIN dispatched
               PROVE  LET t == dispatched[i] r == ExecRoute(dispatched[i])
                      IN  \/ Committed(t)
                          \/ executor'[r].pc = "run" /\ executor'[r].tx = t
                          \/ \E k \in DOMAIN execChans'[r] : execChans'[r][k] = t
    BY <1>4, TakeFacts DEF FlowInv, Committed, Runs, WaitsAt
  <2> DEFINE t == dispatched[i]
             r == ExecRoute(t)
  <2>1. r \in Executors
    BY <1>2
  <2>2. Committed(t) \/ Runs(r, t) \/ \E k \in DOMAIN execChans[r] : execChans[r][k] = t
    BY DEF FlowInv, WaitsAt
  <2> HIDE DEF t, r
  <2>3. CASE r # x
    BY <1>4, <2>1, <2>2, <2>3, TakeFacts DEF Runs, t, r
  <2>4. CASE r = x
    <3>1. ~Runs(r, t)
      BY <1>4, <2>4, TakeFacts DEF Runs
    <3>2. ASSUME NEW k \in DOMAIN execChans[x], execChans[x][k] = t
          PROVE  \/ executor'[x].pc = "run" /\ executor'[x].tx = t
                 \/ \E n \in DOMAIN execChans'[x] : execChans'[x][n] = t
      <4>1. /\ execChans[x] \in Seq(Txs) /\ execChans[x] # <<>> /\
                execChans'[x] = Tail(execChans[x])
            /\ executor'[x].pc = "run" /\ executor'[x].tx = execChans[x][1]
        BY <1>4, TakeFacts
      <4>2. k = 1 \/ (k - 1 \in DOMAIN execChans'[x] /\ execChans'[x][k - 1] = t)
        BY <3>2, <4>1, TailFacts
      <4>3. QED
        BY <3>2, <4>1, <4>2
    <3>3. QED
      BY <2>2, <2>4, <3>1, <3>2 DEF t, r
  <2>5. QED
    BY <2>3, <2>4
<1>5. ASSUME NEW x \in Executors, ExecCommit(x)
      PROVE  FlowInv'
  <2>1. /\ \A p \in DOMAIN committed :
            p \in DOMAIN committed' /\ committed'[p] = committed[p]
        /\ \E p \in DOMAIN committed' : committed'[p] = executor[x].tx
    BY <1>5, CommitFacts, SequenceFacts
  <2>2. /\ UNCHANGED <<dispatched, execChans>>
        /\ \A y \in Executors : y # x => executor'[y] = executor[y]
    BY <1>5, CommitFacts
  <2>3. QED
    BY <1>2, <2>1, <2>2 DEF FlowInv, Committed, Runs, WaitsAt
<1>6. ASSUME NEW x \in Executors, ExecDone(x)
      PROVE  FlowInv'
  <2>1. /\ UNCHANGED <<dispatched, execChans, committed>> /\ executor[x].pc # "run"
        /\ \A y \in Executors : y # x => executor'[y] = executor[y]
    BY <1>6, DoneFacts
  <2>2. QED
    BY <1>2, <2>1 DEF FlowInv, Committed, Runs, WaitsAt
<1>7. CASE UNCHANGED <<dispatched, execChans, executor, committed>>
  BY <1>7 DEF FlowInv, Committed, Runs, WaitsAt
<1>8. QED
  BY <1>3, <1>4, <1>5, <1>6, <1>7, FlowSteps

\* What is sent now was not sent before.
LEMMA NewTransaction ==
  ASSUME TypeOK, DrainInv, PlacesInv, NonceOrder', NEW t \in Txs,
             dispatched' = Append(dispatched, t)
  PROVE  /\ \A i \in DOMAIN dispatched : dispatched[i] # t
         /\ \A x \in Executors : ~SentTo(t, x)
         /\ ~Committed(t)
         /\ \A x \in Executors : ~Runs(x, t) /\ \A k \in DOMAIN execChans[x] :
                execChans[x][k] # t
<1>1. dispatched \in Seq(Txs) /\ t.nonce \in Nat
  BY PipelineAssumption DEF TypeOK, Tx, Nonces
<1>2. ASSUME NEW i \in DOMAIN dispatched, dispatched[i] = t
      PROVE  FALSE
  <2>1. /\ i \in DOMAIN dispatched' /\ Len(dispatched) + 1 \in DOMAIN dispatched'
        /\ i < Len(dispatched) + 1
        /\ dispatched'[i] = t /\ dispatched'[Len(dispatched) + 1] = t
    BY <1>1, <1>2, SequenceFacts
  <2>2. t.nonce < t.nonce
    BY <2>1 DEF NonceOrder
  <2>3. QED
    BY <1>1, <2>2
<1>3. QED
  BY <1>2 DEF PlacesInv, SentTo, Committed, Runs

\* A transaction is in one place only.
LEMMA PlacesStep == TypeOK /\ DrainInv /\ PlacesInv /\ NonceOrder' /\ [Next]_vars =>
    PlacesInv'
<1> SUFFICES ASSUME TypeOK, DrainInv, PlacesInv, NonceOrder', [Next]_vars
             PROVE  PlacesInv'
  OBVIOUS
<1> USE DEF SentTo, Runs, Committed
<1>1. dispatched \in Seq(Txs) /\ committed \in Seq(Txs) /\ \A x \in Executors :
          execChans[x] \in Seq(Txs)
  BY DEF TypeOK
<1>2. ASSUME NEW w \in Preparers, PrepareSend(w)
      PROVE  PlacesInv'
  <2>1. PICK t \in Txs, x \in Executors :
          /\ x = ExecRoute(t)
          /\ execChans' = [execChans EXCEPT ![x] = Append(@, t)]
          /\ dispatched' = Append(dispatched, t)
          /\ UNCHANGED <<executor, committed>>
    BY <1>2, SendFacts
  <2>2. /\ ~Committed(t)
        /\ \A y \in Executors : ~Runs(y, t) /\ \A k \in DOMAIN execChans[y] :
               execChans[y][k] # t
    BY <2>1, NewTransaction
  <2> DEFINE NowSent(s, y) == ExecRoute(s) = y /\ \E i \in DOMAIN dispatched' :
      dispatched'[i] = s
  <2>3. \A s, y : SentTo(s, y) => NowSent(s, y)
    BY <1>1, <2>1, SequenceFacts
  <2>4. NowSent(t, x)
    <3>1. Len(dispatched) + 1 \in DOMAIN dispatched' /\
              dispatched'[Len(dispatched) + 1] = t
      BY <1>1, <2>1, SequenceFacts
    <3>2. QED
      BY <2>1, <3>1
  <2>5. execChans'[x] = Append(execChans[x], t) /\ \A y \in Executors : y # x =>
            execChans'[y] = execChans[y]
    BY <2>1 DEF TypeOK
  <2>6. \A y \in Executors : \A k \in DOMAIN execChans'[y] :
          \/ k \in DOMAIN execChans[y] /\ execChans'[y][k] = execChans[y][k]
          \/ y = x /\ k = Len(execChans[x]) + 1 /\ execChans'[y][k] = t
    BY <1>1, <2>5, SequenceFacts
  <2>7. \A y \in Executors : \A k \in DOMAIN execChans'[y] :
          /\ NowSent(execChans'[y][k], y)
          /\ ~Committed(execChans'[y][k])
          /\ ~Runs(y, execChans'[y][k])
          /\ \A m \in DOMAIN execChans'[y] : execChans'[y][m] = execChans'[y][k] => m = k
    <3> SUFFICES ASSUME NEW y \in Executors, NEW k \in DOMAIN execChans'[y]
                 PROVE  /\ NowSent(execChans'[y][k], y)
                        /\ ~Committed(execChans'[y][k])
                        /\ ~Runs(y, execChans'[y][k])
                        /\ \A m \in DOMAIN execChans'[y] :
                               execChans'[y][m] = execChans'[y][k] => m = k
      OBVIOUS
    <3>1. CASE k \in DOMAIN execChans[y] /\ execChans'[y][k] = execChans[y][k]
      <4>1. /\ SentTo(execChans[y][k], y) /\ ~Committed(execChans[y][k]) /\ ~Runs(y,
                execChans[y][k])
            /\ \A m \in DOMAIN execChans[y] : execChans[y][m] = execChans[y][k] => m = k
        BY <3>1 DEF PlacesInv
      <4>2. execChans[y][k] # t
        BY <2>2, <3>1
      <4>3. \A m \in DOMAIN execChans'[y] : execChans'[y][m] = execChans'[y][k] => m = k
        BY <2>6, <3>1, <4>1, <4>2
      <4>4. NowSent(execChans'[y][k], y)
        BY <2>3, <3>1, <4>1
      <4>5. QED
        BY <3>1, <4>1, <4>3, <4>4
    <3>2. CASE y = x /\ k = Len(execChans[x]) + 1 /\ execChans'[y][k] = t
      <4>1. \A m \in DOMAIN execChans'[y] : execChans'[y][m] = t => m = k
        BY <2>2, <2>6, <3>2
      <4>2. NowSent(t, x)
        BY <2>4
      <4>3. QED
        BY <2>2, <3>2, <4>1, <4>2
    <3>3. QED
      BY <2>6, <3>1, <3>2
  <2>8. \A y \in Executors : executor[y].pc = "run" => NowSent(executor[y].tx,
            y) /\ ~Committed(executor[y].tx)
    BY <2>3 DEF PlacesInv
  <2>9. \A p \in DOMAIN committed :
          /\ \E i \in DOMAIN dispatched' : dispatched'[i] = committed[p]
          /\ \A q \in DOMAIN committed : committed[q] = committed[p] => q = p
    <3>1. \A i \in DOMAIN dispatched :
              i \in DOMAIN dispatched' /\ dispatched'[i] = dispatched[i]
      BY <1>1, <2>1, SequenceFacts
    <3>2. QED
      BY <3>1 DEF PlacesInv
  <2>10. QED
    BY <2>1, <2>7, <2>8, <2>9 DEF PlacesInv
<1>3. ASSUME NEW x \in Executors, ExecTake(x)
      PROVE  PlacesInv'
  <2>1. /\ execChans[x] # <<>> /\ execChans'[x] = Tail(execChans[x]) /\
            UNCHANGED <<dispatched, committed>>
        /\ executor'[x].pc = "run" /\ executor'[x].tx = execChans[x][1]
        /\ \A y \in Executors : y # x =>
               executor'[y] = executor[y] /\ execChans'[y] = execChans[y]
    BY <1>3, TakeFacts
  <2>2. /\ 1 \in DOMAIN execChans[x]
        /\ \A k \in DOMAIN execChans'[x] :
               k \in Nat \ {0} /\ k + 1 \in DOMAIN execChans[x] /\
                   execChans'[x][k] = execChans[x][k + 1]
    BY <1>1, <2>1, TailFacts
  <2>3. \A k \in DOMAIN execChans'[x] :
          /\ SentTo(execChans'[x][k], x)
          /\ ~Committed(execChans'[x][k])
          /\ ~(executor'[x].pc = "run" /\ executor'[x].tx = execChans'[x][k])
          /\ \A m \in DOMAIN execChans'[x] : execChans'[x][m] = execChans'[x][k] => m = k
    <3> SUFFICES ASSUME NEW k \in DOMAIN execChans'[x]
                 PROVE  /\ SentTo(execChans'[x][k], x)
                        /\ ~Committed(execChans'[x][k])
                        /\ executor'[x].tx # execChans'[x][k]
                        /\ \A m \in DOMAIN execChans'[x] :
                               execChans'[x][m] = execChans'[x][k] => m = k
      OBVIOUS
    <3>1. k \in Nat \ {0} /\ k + 1 \in DOMAIN execChans[x] /\
              execChans'[x][k] = execChans[x][k + 1]
      BY <2>2
    <3>2. SentTo(execChans'[x][k], x) /\ ~Committed(execChans'[x][k])
      BY <3>1 DEF PlacesInv
    <3>3. executor'[x].tx # execChans'[x][k]
      BY <2>1, <2>2, <3>1 DEF PlacesInv
    <3>4. ASSUME NEW m \in DOMAIN execChans'[x], execChans'[x][m] = execChans'[x][k]
          PROVE  m = k
      <4>1. m \in Nat /\ m + 1 \in DOMAIN execChans[x] /\
                execChans[x][m + 1] = execChans[x][k + 1]
        BY <2>2, <3>1, <3>4
      <4>2. m + 1 = k + 1
        BY <3>1, <4>1 DEF PlacesInv
      <4>3. QED
        BY <3>1, <4>1, <4>2
    <3>5. QED
      BY <3>2, <3>3, <3>4
  <2>4. SentTo(executor'[x].tx, x) /\ ~Committed(executor'[x].tx)
    BY <2>1, <2>2 DEF PlacesInv
  <2>5. \A y \in Executors : \A k \in DOMAIN execChans'[y] :
          /\ SentTo(execChans'[y][k], y)
          /\ ~Committed(execChans'[y][k])
          /\ ~(executor'[y].pc = "run" /\ executor'[y].tx = execChans'[y][k])
          /\ \A m \in DOMAIN execChans'[y] : execChans'[y][m] = execChans'[y][k] => m = k
    <3>1. ASSUME NEW y \in Executors, y # x, NEW k \in DOMAIN execChans'[y]
          PROVE  /\ SentTo(execChans'[y][k], y)
                 /\ ~Committed(execChans'[y][k])
                 /\ ~(executor'[y].pc = "run" /\ executor'[y].tx = execChans'[y][k])
                 /\ \A m \in DOMAIN execChans'[y] :
                        execChans'[y][m] = execChans'[y][k] => m = k
      BY <2>1, <3>1 DEF PlacesInv
    <3>2. QED
      BY <2>3, <3>1
  <2>6. \A y \in Executors : executor'[y].pc = "run" =>
          SentTo(executor'[y].tx, y) /\ ~Committed(executor'[y].tx)
    BY <2>1, <2>4 DEF PlacesInv
  <2>7. \A p \in DOMAIN committed :
          /\ \E i \in DOMAIN dispatched : dispatched[i] = committed[p]
          /\ \A q \in DOMAIN committed : committed[q] = committed[p] => q = p
    BY DEF PlacesInv
  <2>8. QED
    BY <2>1, <2>5, <2>6, <2>7 DEF PlacesInv
<1>4. ASSUME NEW x \in Executors, ExecCommit(x)
      PROVE  PlacesInv'
  <2> DEFINE t == executor[x].tx
  <2>1. /\ executor[x].pc = "run" /\ t \in Txs /\ executor'[x].pc = "close"
        /\ committed' = Append(committed, t)
        /\ \A y \in Executors : y # x => executor'[y] = executor[y]
        /\ UNCHANGED <<dispatched, execChans>>
    BY <1>4, CommitFacts
  <2>2. SentTo(t, x) /\ ~Committed(t)
    BY <2>1 DEF PlacesInv
  <2> HIDE DEF t
  <2>3. \A p \in DOMAIN committed' :
          \/ p \in DOMAIN committed /\ committed'[p] = committed[p]
          \/ p = Len(committed) + 1 /\ committed'[p] = t
    BY <1>1, <2>1, SequenceFacts
  <2>4. \A s : (\E p \in DOMAIN committed' : committed'[p] = s) => Committed(s) \/ s = t
    BY <2>3
  <2>5. \A y \in Executors : \A k \in DOMAIN execChans[y] : execChans[y][k] # t
    BY <2>1, <2>2 DEF PlacesInv, t
  <2>6. \A y \in Executors : executor'[y].pc = "run" =>
            y # x /\ executor[y].pc = "run" /\ executor'[y].tx = executor[y].tx
    BY <2>1
  <2>7. \A y \in Executors : executor'[y].pc = "run" => executor'[y].tx # t
    BY <2>2, <2>6 DEF PlacesInv
  <2>8. \A p \in DOMAIN committed' :
          /\ \E i \in DOMAIN dispatched : dispatched[i] = committed'[p]
          /\ \A q \in DOMAIN committed' : committed'[q] = committed'[p] => q = p
    BY <2>2, <2>3 DEF PlacesInv
  <2>9. QED
    BY <2>1, <2>4, <2>5, <2>6, <2>7, <2>8 DEF PlacesInv
<1>5. ASSUME NEW x \in Executors, ExecDone(x)
      PROVE  PlacesInv'
  <2>1. /\ UNCHANGED <<dispatched, execChans, committed>> /\ executor'[x].pc # "run"
        /\ \A y \in Executors : y # x => executor'[y] = executor[y]
    BY <1>5, DoneFacts
  <2>2. QED
    BY <2>1 DEF PlacesInv
<1>6. CASE UNCHANGED <<dispatched, execChans, executor, committed>>
  BY <1>6 DEF PlacesInv
<1>7. QED
  BY <1>2, <1>3, <1>4, <1>5, <1>6, FlowSteps

\* What is known of a pair of transactions for one execution worker, the first
\* sent before the second.
Follows(s, t, x) ==
  /\ \A j \in DOMAIN committed : committed[j] = t => \E p \in DOMAIN committed :
         p < j /\ committed[p] = s
  /\ Runs(x, t) => Committed(s)
  /\ \A n \in DOMAIN execChans[x] : WaitsAt(x, n, t) =>
       \/ Committed(s)
       \/ Runs(x, s)
       \/ \E m \in DOMAIN execChans[x] : m < n /\ WaitsAt(x, m, s)

LEMMA AheadFollows ==
  AheadInv <=> \A i, k \in DOMAIN dispatched :
                 i < k /\ ExecRoute(dispatched[i]) = ExecRoute(dispatched[k])
                   => Follows(dispatched[i], dispatched[k], ExecRoute(dispatched[k]))
BY DEF AheadInv, Follows

LEMMA AheadFollowsNext ==
  (AheadInv <=> \A i, k \in DOMAIN dispatched :
                  i < k /\ ExecRoute(dispatched[i]) = ExecRoute(dispatched[k])
                    => Follows(dispatched[i], dispatched[k], ExecRoute(dispatched[k])))'
BY DEF AheadInv, Follows, Committed, Runs, WaitsAt

\* The pair keeps its order in every step of the execution stage.
LEMMA FollowsTake ==
  ASSUME TypeOK, NEW x \in Executors, ExecTake(x), NEW s, NEW t, NEW r \in Executors,
             Follows(s, t, r)
  PROVE  Follows(s, t, r)'
<1>1. /\ executor[x].pc = "idle" /\ execChans[x] \in Seq(Txs) /\ execChans[x] # <<>>
      /\ executor'[x].pc = "run" /\ executor'[x].tx = execChans[x][1]
      /\ execChans'[x] = Tail(execChans[x])
      /\ \A y \in Executors : y # x =>
             executor'[y] = executor[y] /\ execChans'[y] = execChans[y]
      /\ UNCHANGED <<dispatched, committed>>
  BY TakeFacts
<1>2. CASE r # x
  BY <1>1, <1>2 DEF Follows, Committed, Runs, WaitsAt
<1>3. CASE r = x
  <2>1. /\ 1 \in DOMAIN execChans[x] /\ DOMAIN execChans[x] \subseteq Nat
        /\ \A i \in DOMAIN execChans'[x] :
               i \in Nat \ {0} /\ i + 1 \in DOMAIN execChans[x] /\
                   execChans'[x][i] = execChans[x][i + 1]
        /\ \A i \in DOMAIN execChans[x] :
               i = 1 \/ (i > 1 /\ i - 1 \in DOMAIN execChans'[x] /\
                   execChans'[x][i - 1] = execChans[x][i])
    BY <1>1, TailFacts
  <2>2. ~Runs(x, s)
    BY <1>1 DEF Runs
  <2>3. executor'[x].tx = t => Committed(s)
    <3>1. execChans[x][1] = t => Committed(s) \/ \E m \in DOMAIN execChans[x] :
              m < 1 /\ WaitsAt(x, m, s)
      BY <1>3, <2>1, <2>2 DEF Follows, WaitsAt
    <3>2. \A m \in DOMAIN execChans[x] : ~(m < 1)
      BY <2>1
    <3>3. QED
      BY <1>1, <3>1, <3>2
  <2>4. ASSUME NEW n \in DOMAIN execChans'[x], execChans'[x][n] = t
        PROVE  \/ Committed(s)
               \/ executor'[x].tx = s
               \/ \E m \in DOMAIN execChans'[x] : m < n /\ execChans'[x][m] = s
    <3>1. n \in Nat /\ n + 1 \in DOMAIN execChans[x] /\ execChans[x][n + 1] = t
      BY <2>1, <2>4
    <3>2. Committed(s) \/ \E m \in DOMAIN execChans[x] : m < n + 1 /\ execChans[x][m] = s
      BY <1>3, <2>2, <3>1 DEF Follows, WaitsAt
    <3>3. ASSUME NEW m \in DOMAIN execChans[x], m < n + 1, execChans[x][m] = s
          PROVE  executor'[x].tx = s \/ \E l \in DOMAIN execChans'[x] :
                     l < n /\ execChans'[x][l] = s
      <4>1. CASE m = 1
        BY <1>1, <3>3, <4>1
      <4>2. CASE m # 1
        <5>1. m - 1 \in DOMAIN execChans'[x] /\ execChans'[x][m - 1] = s /\ m \in Nat
          BY <2>1, <3>3, <4>2
        <5>2. m - 1 < n
          BY <3>1, <3>3, <5>1
        <5>3. QED
          BY <5>1, <5>2
      <4>3. QED
        BY <4>1, <4>2
    <3>4. QED
      BY <3>2, <3>3
  <2>5. \A j \in DOMAIN committed : committed[j] = t => \E p \in DOMAIN committed :
            p < j /\ committed[p] = s
    BY DEF Follows
  <2>6. QED
    BY <1>1, <1>3, <2>3, <2>4, <2>5 DEF Follows, Committed, Runs, WaitsAt
<1>4. QED
  BY <1>2, <1>3

LEMMA FollowsCommit ==
  ASSUME TypeOK, PlacesInv, NEW x \in Executors, ExecCommit(x), NEW s, NEW t,
         NEW r \in Executors, ExecRoute(t) = r, Follows(s, t, r)
  PROVE  Follows(s, t, r)'
<1> DEFINE c == executor[x].tx
<1>1. /\ executor[x].pc = "run" /\ c \in Txs /\ executor'[x].pc = "close"
      /\ committed \in Seq(Txs) /\ committed' = Append(committed, c)
      /\ \A y \in Executors : y # x => executor'[y] = executor[y]
      /\ UNCHANGED <<dispatched, execChans>>
  BY CommitFacts
<1>2. ExecRoute(c) = x
  BY <1>1 DEF PlacesInv, SentTo
<1>3. c = t => Committed(s)
  BY <1>1, <1>2 DEF Follows, Runs
<1>4. \A q : Runs(r, q) => (executor'[r].pc = "run" /\ executor'[r].tx = q) \/ q = c
  BY <1>1 DEF Runs
<1>5. \A q : (executor'[r].pc = "run" /\ executor'[r].tx = q) => Runs(r, q)
  BY <1>1 DEF Runs
<1> HIDE DEF c
<1>6. /\ Len(committed) \in Nat /\ DOMAIN committed = 1..Len(committed)
      /\ \A j \in DOMAIN committed :
             j \in DOMAIN committed' /\ committed'[j] = committed[j]
      /\ Len(committed) + 1 \in DOMAIN committed' /\ committed'[Len(committed) + 1] = c
      /\ \A j \in DOMAIN committed' : j \in DOMAIN committed \/ j = Len(committed) + 1
  BY <1>1, SequenceFacts
<1>7. \A q : Committed(q) \/ q = c => \E p \in DOMAIN committed' : committed'[p] = q
  BY <1>6 DEF Committed
<1>8. ASSUME NEW j \in DOMAIN committed', committed'[j] = t
      PROVE  \E p \in DOMAIN committed' : p < j /\ committed'[p] = s
  <2>1. CASE j \in DOMAIN committed
    BY <1>6, <1>8, <2>1 DEF Follows
  <2>2. CASE j = Len(committed) + 1
    <3>1. PICK p \in DOMAIN committed : committed[p] = s
      BY <1>3, <1>6, <1>8, <2>2 DEF Committed
    <3>2. p < j /\ p \in DOMAIN committed' /\ committed'[p] = s
      BY <1>6, <2>2, <3>1
    <3>3. QED
      BY <3>2
  <2>3. QED
    BY <1>6, <2>1, <2>2
<1>9. executor'[r].pc = "run" /\ executor'[r].tx = t => \E p \in DOMAIN committed' :
          committed'[p] = s
  BY <1>5, <1>7 DEF Follows
<1>10. ASSUME NEW n \in DOMAIN execChans[r], execChans[r][n] = t
       PROVE  \/ \E p \in DOMAIN committed' : committed'[p] = s
              \/ executor'[r].pc = "run" /\ executor'[r].tx = s
              \/ \E m \in DOMAIN execChans[r] : m < n /\ WaitsAt(r, m, s)
  <2>1. Committed(s) \/ Runs(r, s) \/ \E m \in DOMAIN execChans[r] : m < n /\ WaitsAt(r,
            m, s)
    BY <1>10 DEF Follows, WaitsAt
  <2>2. QED
    BY <1>4, <1>7, <2>1
<1>11. QED
  BY <1>1, <1>8, <1>9, <1>10 DEF Follows, Committed, Runs, WaitsAt

LEMMA FollowsSend ==
  ASSUME TypeOK, NEW x \in Executors, NEW c \in Txs,
         execChans' = [execChans EXCEPT ![x] = Append(@, c)], UNCHANGED <<executor,
             committed>>,
         NEW s, NEW t, t # c, NEW r \in Executors, Follows(s, t, r)
  PROVE  Follows(s, t, r)'
<1>1. execChans[r] \in Seq(Txs)
  BY DEF TypeOK
<1>2. execChans'[r] = IF r = x THEN Append(execChans[r], c) ELSE execChans[r]
  BY DEF TypeOK
<1>3. /\ \A n \in DOMAIN execChans'[r] : execChans'[r][n] = t =>
          n \in DOMAIN execChans[r] /\ execChans[r][n] = t
      /\ \A n \in DOMAIN execChans[r] :
             n \in DOMAIN execChans'[r] /\ execChans'[r][n] = execChans[r][n]
  BY <1>1, <1>2, SequenceFacts
<1>4. QED
  BY <1>3 DEF Follows, Committed, Runs, WaitsAt

\* A transaction that has just been sent follows all others of its worker.
LEMMA FollowsNew ==
  ASSUME TypeOK, FlowInv, NEW t \in Txs, NEW x \in Executors,
         execChans' = [execChans EXCEPT ![x] = Append(@, t)], UNCHANGED <<executor,
             committed>>,
         ~Committed(t), ~Runs(x, t), \A k \in DOMAIN execChans[x] : execChans[x][k] # t,
         NEW s, \E i \in DOMAIN dispatched : dispatched[i] = s, ExecRoute(s) = x
  PROVE  Follows(s, t, x)'
<1>1. execChans[x] \in Seq(Txs) /\ execChans'[x] = Append(execChans[x], t)
  BY DEF TypeOK
<1>2. Committed(s) \/ Runs(x, s) \/ \E k \in DOMAIN execChans[x] : WaitsAt(x, k, s)
  BY DEF FlowInv
<1>3. \A n \in DOMAIN execChans'[x] : execChans'[x][n] = t =>
        \A m \in DOMAIN execChans[x] :
            m < n /\ m \in DOMAIN execChans'[x] /\ execChans'[x][m] = execChans[x][m]
  BY <1>1, SequenceFacts
<1>4. QED
  BY <1>2, <1>3 DEF Follows, Committed, Runs, WaitsAt

LEMMA AheadStep ==
  TypeOK /\ DrainInv /\ FlowInv /\ PlacesInv /\ AheadInv /\ NonceOrder' /\ [Next]_vars =>
      AheadInv'
<1> SUFFICES ASSUME TypeOK, DrainInv, FlowInv, PlacesInv, AheadInv, NonceOrder',
    [Next]_vars
             PROVE  AheadInv'
  OBVIOUS
<1>1. dispatched \in Seq(Txs) /\ \A i \in DOMAIN dispatched :
          ExecRoute(dispatched[i]) \in Executors
  BY RouteType DEF TypeOK
<1>2. \A i, k \in DOMAIN dispatched :
        i < k /\ ExecRoute(dispatched[i]) = ExecRoute(dispatched[k])
          => Follows(dispatched[i], dispatched[k], ExecRoute(dispatched[k]))
  BY AheadFollows
<1>3. ASSUME NEW w \in Preparers, PrepareSend(w)
      PROVE  AheadInv'
  <2>1. PICK t \in Txs, x \in Executors :
          /\ x = ExecRoute(t)
          /\ execChans' = [execChans EXCEPT ![x] = Append(@, t)]
          /\ dispatched' = Append(dispatched, t)
          /\ UNCHANGED <<executor, committed>>
    BY <1>3, SendFacts
  <2>2. /\ \A i \in DOMAIN dispatched : dispatched[i] # t
        /\ ~Committed(t) /\ ~Runs(x, t) /\ \A k \in DOMAIN execChans[x] :
               execChans[x][k] # t
    BY <2>1, NewTransaction
  <2>3. \A i \in DOMAIN dispatched' :
          \/ i \in DOMAIN dispatched /\ dispatched'[i] = dispatched[i] /\
                 i < Len(dispatched) + 1
          \/ i = Len(dispatched) + 1 /\ dispatched'[i] = t
    BY <1>1, <2>1, SequenceFacts
  <2>4. ASSUME NEW i \in DOMAIN dispatched', NEW k \in DOMAIN dispatched', i < k,
               ExecRoute(dispatched'[i]) = ExecRoute(dispatched'[k])
        PROVE  Follows(dispatched[i], dispatched[k], ExecRoute(dispatched[k]))'
    <3>1. i \in DOMAIN dispatched /\ dispatched'[i] = dispatched[i]
      <4>1. i # Len(dispatched) + 1
        BY <1>1, <2>3, <2>4
      <4>2. QED
        BY <2>3, <4>1
    <3>2. CASE k \in DOMAIN dispatched /\ dispatched'[k] = dispatched[k]
      <4>1. PICK s \in Txs, u \in Txs, r \in Executors :
                s = dispatched[i] /\ u = dispatched[k] /\ r = ExecRoute(u)
        BY <1>1, <3>1, <3>2
      <4>2. Follows(s, u, r) /\ u # t
        BY <1>2, <2>2, <2>4, <3>1, <3>2, <4>1
      <4>3. Follows(s, u, r)'
        BY <2>1, <4>2, FollowsSend
      <4>4. s = dispatched'[i] /\ u = dispatched'[k]
        BY <3>1, <3>2, <4>1
      <4>5. QED
        BY <4>1, <4>3, <4>4
    <3>3. CASE dispatched'[k] = t
      <4>1. ExecRoute(dispatched[i]) = x
        BY <2>1, <2>4, <3>1, <3>3
      <4>2. PICK s : s = dispatched[i]
        OBVIOUS
      <4>3. Follows(s, t, x)'
        BY <2>1, <2>2, <3>1, <4>1, <4>2, FollowsNew
      <4>4. QED
        BY <2>1, <3>1, <3>3, <4>2, <4>3
    <3>4. QED
      BY <2>3, <3>2, <3>3
  <2>5. QED
    BY <2>4, AheadFollowsNext
<1>4. ASSUME NEW x \in Executors, ExecTake(x)
      PROVE  AheadInv'
  <2>1. UNCHANGED dispatched
    BY <1>4, TakeFacts
  <2>2. ASSUME NEW i \in DOMAIN dispatched, NEW k \in DOMAIN dispatched, i < k,
               ExecRoute(dispatched[i]) = ExecRoute(dispatched[k])
        PROVE  Follows(dispatched[i], dispatched[k], ExecRoute(dispatched[k]))'
    <3>1. PICK s \in Txs, u \in Txs, r \in Executors :
              s = dispatched[i] /\ u = dispatched[k] /\ r = ExecRoute(u)
      BY <1>1
    <3>2. Follows(s, u, r)
      BY <1>2, <2>2, <3>1
    <3>3. Follows(s, u, r)'
      BY <1>4, <3>2, FollowsTake
    <3>4. QED
      BY <2>1, <3>1, <3>3
  <2>3. QED
    BY <2>1, <2>2, AheadFollowsNext
<1>5. ASSUME NEW x \in Executors, ExecCommit(x)
      PROVE  AheadInv'
  <2>1. UNCHANGED dispatched
    BY <1>5, CommitFacts
  <2>2. ASSUME NEW i \in DOMAIN dispatched, NEW k \in DOMAIN dispatched, i < k,
               ExecRoute(dispatched[i]) = ExecRoute(dispatched[k])
        PROVE  Follows(dispatched[i], dispatched[k], ExecRoute(dispatched[k]))'
    <3>1. PICK s \in Txs, u \in Txs, r \in Executors :
              s = dispatched[i] /\ u = dispatched[k] /\ r = ExecRoute(u)
      BY <1>1
    <3>2. Follows(s, u, r)
      BY <1>2, <2>2, <3>1
    <3>3. Follows(s, u, r)'
      BY <1>5, <3>1, <3>2, FollowsCommit
    <3>4. QED
      BY <2>1, <3>1, <3>3
  <2>3. QED
    BY <2>1, <2>2, AheadFollowsNext
<1>6. ASSUME NEW x \in Executors, ExecDone(x)
      PROVE  AheadInv'
  <2>1. /\ UNCHANGED <<dispatched, execChans,
            committed>> /\ executor[x].pc # "run" /\ executor'[x].pc # "run"
        /\ \A y \in Executors : y # x => executor'[y] = executor[y]
    BY <1>6, DoneFacts
  <2>2. \A y \in Executors : \A t : (executor'[y].pc = "run" /\ executor'[y].tx = t) <=>
            Runs(y, t)
    BY <2>1 DEF Runs
  <2>3. QED
    BY <1>1, <2>1, <2>2 DEF AheadInv, Committed, Runs, WaitsAt
<1>7. CASE UNCHANGED <<dispatched, execChans, executor, committed>>
  BY <1>7 DEF AheadInv, Committed, Runs, WaitsAt
<1>8. QED
  BY <1>3, <1>4, <1>5, <1>6, <1>7, FlowSteps

\* Ordinary transactions of one market meet one execution worker.
LEMMA OneMarketOneWorker ==
  ASSUME NEW s, NEW t, s.market = t.market, Ordinary(s), Ordinary(t), s.uid \in Nat,
             t.uid \in Nat
  PROVE  ExecRoute(s) = ExecRoute(t)
<1>1. ~(s.uid <= SystemMaxUID) /\ ~(t.uid <= SystemMaxUID)
  BY PipelineAssumption DEF Ordinary
<1>2. QED
  BY <1>1 DEF ExecRoute

LEMMA InOrder == TypeOK /\ PlacesInv /\ AheadInv => MarketOrder
<1> SUFFICES ASSUME TypeOK, PlacesInv, AheadInv
             PROVE  MarketOrder
  OBVIOUS
<1>1. dispatched \in Seq(Txs) /\ committed \in Seq(Txs) /\ \A i \in DOMAIN dispatched :
          dispatched[i].uid \in Nat
  BY PipelineAssumption DEF TypeOK, Tx
<1>2. DOMAIN committed = 1..Len(committed) /\ Len(committed) \in Nat
  BY <1>1
<1>3. ASSUME NEW j \in DOMAIN committed
      PROVE  \E k \in DOMAIN dispatched :
               /\ dispatched[k] = committed[j]
               /\ \A i \in DOMAIN dispatched : SentBefore(i, k) =>
                    \E p \in 1..(j - 1) : committed[p] = dispatched[i]
  <2>1. PICK k \in DOMAIN dispatched : dispatched[k] = committed[j]
    BY DEF PlacesInv
  <2>2. ASSUME NEW i \in DOMAIN dispatched, SentBefore(i, k)
        PROVE  \E p \in 1..(j - 1) : committed[p] = dispatched[i]
    <3>1. i < k /\ ExecRoute(dispatched[i]) = ExecRoute(dispatched[k])
      BY <1>1, <2>2, OneMarketOneWorker DEF SentBefore
    <3>2. PICK p \in DOMAIN committed : p < j /\ committed[p] = dispatched[i]
      BY <2>1, <3>1 DEF AheadInv
    <3>3. p \in 1..(j - 1)
      BY <1>2, <3>2
    <3>4. QED
      BY <3>2, <3>3
  <2>3. QED
    BY <2>1, <2>2
<1>4. QED
  BY <1>3 DEF MarketOrder, PlacesInv

\* Within one market the transactions of ordinary users are executed in the
\* order in which the prepare workers sent them, each once and none left out
\* between them, if no transaction carries the largest nonce.
THEOREM MarketsInOrder == NoTopNonce => (Spec => []MarketOrder)
<1> SUFFICES ASSUME NoTopNonce
             PROVE  Spec => []MarketOrder
  OBVIOUS
<1> DEFINE OrderInv == NonceInv /\ FlowInv /\ PlacesInv /\ AheadInv
<1>1. Init => OrderInv
  BY NonceInit, FlowInit
<1>2. PipeInv /\ OrderInv /\ [Next]_vars => OrderInv'
  BY RoutedStep, CoverStep, FlowStep, PlacesStep, AheadStep DEF NonceInv, PipeInv
<1>3. PipeInv /\ OrderInv => MarketOrder
  BY InOrder DEF PipeInv
<1>4. QED
  BY <1>1, <1>2, <1>3, PipeInvariant, PTL DEF Spec

-------------------------------------------------------------------------------
(* The pipeline implements NonceLog.                                       *)

\* Transactions of one lane meet one execution worker.
LEMMA OneLaneOneWorker ==
  ASSUME NEW s, NEW t, Log!SameLane(s, t)
  PROVE  ExecRoute(s) = ExecRoute(t)
BY DEF Log!SameLane, Log!SystemTx, ExecRoute

\* A prepare worker that sends a transaction on puts it into the log.
LEMMA SendEnters ==
  ASSUME PipeInv, NonceOrder', NEW w \in Preparers, PrepareSend(w)
  PROVE  Log!Next
<1>1. PICK t \in Txs : /\ t = PendingQueue(w)[1] /\ preparer[w].pc = "drain"
                       /\ dispatched' = Append(dispatched, t) /\ UNCHANGED committed
  BY SendFacts DEF PipeInv
<1>2. Valid(t)
  <2>1. preparer[w].uid \in Users /\ PendingQueue(w) \in Seq(Txs)
        /\ Len(PendingQueue(w)) = 1
    BY <1>1 DEF PipeInv, TypeOK, DrainInv, PendingQueue
  <2>2. 1 \in DOMAIN PendingQueue(w)
    BY <2>1
  <2>3. QED
    BY <1>1, <2>1, <2>2 DEF PipeInv, ClearedInv, Cleared, PendingQueue
<1>3. Log!Newest(t)
  <2> SUFFICES ASSUME NEW i \in DOMAIN dispatched, dispatched[i].uid = t.uid
               PROVE  dispatched[i].nonce < t.nonce
    BY DEF Log!Newest
  <2>1. dispatched \in Seq(Txs)
    BY DEF PipeInv, TypeOK
  <2> DEFINE n == Len(dispatched) + 1
  <2>2. /\ i \in DOMAIN dispatched' /\ dispatched'[i] = dispatched[i]
        /\ n \in DOMAIN dispatched' /\ dispatched'[n] = t /\ i < n
    BY <1>1, <2>1, SequenceFacts
  <2>3. QED
    BY <2>2 DEF NonceOrder
<1>4. Log!Enter(t)
  BY <1>1, <1>3 DEF Log!Enter
<1>5. QED
  BY <1>2, <1>4 DEF Log!Next

\* An execution worker that commits a transaction executes the next one of its
\* lane.
LEMMA CommitExecutes ==
  ASSUME TypeOK, PlacesInv, AheadInv, NEW x \in Executors, ExecCommit(x)
  PROVE  Log!Next
<1> DEFINE t == executor[x].tx
<1>1. /\ executor[x].pc = "run" /\ committed' = Append(committed, t)
      /\ UNCHANGED dispatched
  BY CommitFacts
<1>2. ExecRoute(t) = x /\ ~Committed(t)
  BY <1>1 DEF PlacesInv, SentTo
<1>3. PICK k \in DOMAIN dispatched : dispatched[k] = t
  BY <1>1 DEF PlacesInv, SentTo
<1>4. \A s : Log!Executed(s) <=> Committed(s)
  BY DEF Log!Executed, Committed
<1>5. ASSUME NEW i \in DOMAIN dispatched, i < k, Log!SameLane(dispatched[i], dispatched[k])
      PROVE  Log!Executed(dispatched[i])
  <2>1. ExecRoute(dispatched[i]) = ExecRoute(dispatched[k])
    BY <1>5, OneLaneOneWorker
  <2>2. Runs(x, dispatched[k])
    BY <1>1, <1>3 DEF Runs
  <2>3. QED
    BY <1>2, <1>3, <1>4, <1>5, <2>1, <2>2 DEF AheadInv
<1>6. Log!Execute(k)
  BY <1>1, <1>2, <1>3, <1>4, <1>5 DEF Log!Execute
<1>7. QED
  BY <1>3, <1>6 DEF Log!Next

\* The pipeline implements NonceLog, if no transaction carries the largest
\* nonce: what it sends on and executes is a log with rising nonces whose lanes
\* are executed in order, without a gap and nothing twice.
THEOREM LogImplemented == NoTopNonce => (Spec => ImplementsLog)
<1> SUFFICES ASSUME NoTopNonce
             PROVE  Spec => ImplementsLog
  OBVIOUS
<1> DEFINE OrderInv == NonceInv /\ FlowInv /\ PlacesInv /\ AheadInv
<1>1. Init => OrderInv
  BY NonceInit, FlowInit
<1>2. PipeInv /\ OrderInv /\ [Next]_vars => OrderInv'
  BY RoutedStep, CoverStep, FlowStep, PlacesStep, AheadStep DEF NonceInv, PipeInv
<1>3. Init => Log!Init
  BY DEF Init, Log!Init
<1>4. PipeInv /\ OrderInv /\ OrderInv' /\ [Next]_vars => [Log!Next]_<<dispatched, committed>>
  <2> SUFFICES ASSUME PipeInv, OrderInv, OrderInv', [Next]_vars
               PROVE  Log!Next \/ UNCHANGED <<dispatched, committed>>
    OBVIOUS
  <2>1. ASSUME NEW w \in Preparers, PrepareSend(w)
        PROVE  Log!Next
    BY <2>1, SendEnters DEF NonceInv
  <2>2. ASSUME NEW x \in Executors, ExecTake(x) \/ ExecDone(x)
        PROVE  UNCHANGED <<dispatched, committed>>
    BY <2>2, TakeFacts, DoneFacts DEF PipeInv
  <2>3. ASSUME NEW x \in Executors, ExecCommit(x)
        PROVE  Log!Next
    BY <2>3, CommitExecutes DEF PipeInv
  <2>4. QED
    BY <2>1, <2>2, <2>3, FlowSteps
<1>5. QED
  BY <1>1, <1>2, <1>3, <1>4, PipeInvariant, PTL DEF Spec, ImplementsLog, Log!Spec,
     Log!logVars

-------------------------------------------------------------------------------
(* The newest transaction of a user.                                       *)

\* A valid transaction that was let in is on its way to the prepare worker's
\* loop, or one of its user with no lower nonce was sent on.
AtMain(t)       == main.pc = "send" /\ main.tx = t
ToDecode(t)     == \E i \in DOMAIN decoderJobs : decoderJobs[i] = t
AtDecoder(t)    == \E d \in Decoders : decoder[d].pc # "idle" /\ decoder[d].tx = t
ToVerify(t)     == \E i \in DOMAIN verifierJobs : verifierJobs[i] = t
AtVerifier(t)   == \E v \in Verifiers : verifier[v].pc \in {"check",
    "send"} /\ verifier[v].tx = t
ToPrepare(t)    == \E w \in Preparers : \E i \in DOMAIN prepareChans[w] :
    prepareChans[w][i] = t
AtPreparer(t)   ==
  \E w \in Preparers :
    preparer[w].pc = "drain" /\ preparer[w].processed = 0 /\ PendingQueue(w)[1] = t
OnItsWay(t) ==
  \/ AtMain(t) \/ ToDecode(t) \/ AtDecoder(t) \/ ToVerify(t) \/ AtVerifier(t)
  \/ ToPrepare(t) \/ AtPreparer(t)
Superseded(t) ==
  \E i \in DOMAIN dispatched : dispatched[i].uid = t.uid /\ dispatched[i].nonce >= t.nonce
FateInv ==
  \A t \in accepted : Valid(t) /\ t.nonce > 0 => OnItsWay(t) \/ Superseded(t)

\* A nonce that is stored, or about to be, is that of a transaction sent.
SentInv ==
  /\ \A u \in Users : nonce[u] = 0 \/
       \E i \in DOMAIN dispatched :
           dispatched[i].uid = u /\ dispatched[i].nonce = nonce[u]
  /\ \A w \in Preparers : preparer[w].pc = "store" =>
       \E i \in DOMAIN dispatched : dispatched[i] = PendingQueue(w)[1]

LEMMA FateInit == Init => FateInv /\ SentInv
  BY DEF Init, FateInv, SentInv, IdlePreparer

\* What is sent stays sent.
LEMMA StaysSent ==
  ASSUME TypeOK, DrainInv, [Next]_vars
  PROVE  \A i \in DOMAIN dispatched :
             i \in DOMAIN dispatched' /\ dispatched'[i] = dispatched[i]
<1>1. dispatched \in Seq(Txs)
  BY DEF TypeOK
<1>2. UNCHANGED dispatched \/ \E t \in Txs : dispatched' = Append(dispatched, t)
  BY FlowSteps, SendFacts, TakeFacts, CommitFacts, DoneFacts
<1>3. QED
  BY <1>1, <1>2, SequenceFacts

\* A user's nonce is that of a transaction that was sent.
LEMMA SentStep == PipeInv /\ SentInv /\ [Next]_vars => SentInv'
<1> SUFFICES ASSUME TypeOK, ClearedInv, DrainInv, SentInv, [Next]_vars
             PROVE  SentInv'
  BY DEF PipeInv
<1>1. \A i \in DOMAIN dispatched :
          i \in DOMAIN dispatched' /\ dispatched'[i] = dispatched[i]
  BY StaysSent
<1> DEFINE WasSent(t) == \E i \in DOMAIN dispatched' : dispatched'[i] = t
<1>2. \A u \in Users : nonce[u] = 0 \/ \E t :
          WasSent(t) /\ t.uid = u /\ t.nonce = nonce[u]
  BY <1>1 DEF SentInv
<1>3. \A w \in Preparers : preparer[w].pc = "store" => WasSent(PendingQueue(w)[1])
  BY <1>1 DEF SentInv
<1>4. ASSUME \A u \in Users : nonce'[u] = 0 \/ \E t :
                 WasSent(t) /\ t.uid = u /\ t.nonce = nonce'[u],
             \A w \in Preparers : preparer'[w].pc = "store" =>
                 WasSent(PendingQueue(w)'[1])
      PROVE  SentInv'
  BY <1>4 DEF SentInv
<1> HIDE DEF WasSent
<1>5. ASSUME NEW w \in Preparers, PrepareStep(w)
      PROVE  SentInv'
  <2>1. \A y \in Preparers : y # w =>
            preparer'[y] = preparer[y] /\ PendingQueue(y)' = PendingQueue(y)
    BY <1>5
       DEF PrepareStep, PrepareDrop, PrepareAdmit, PrepareSend, PrepareStore,
           PrepareFinish,
           TypeOK, PendingQueue
  <2>2. CASE PrepareSend(w)
    <3>1. WasSent(PendingQueue(w)[1])
      <4>1. PICK t \in Txs : t = PendingQueue(w)[1] /\ dispatched' = Append(dispatched, t)
        BY <2>2, SendFacts
      <4>2. Len(dispatched) + 1 \in DOMAIN dispatched' /\
                dispatched'[Len(dispatched) + 1] = t
        BY <4>1, SequenceFacts DEF TypeOK
      <4>3. QED
        BY <4>1, <4>2 DEF WasSent
    <3>2. UNCHANGED nonce /\ PendingQueue(w)' = PendingQueue(w)
      BY <2>2 DEF PrepareSend, TypeOK, PendingQueue
    <3>3. QED
      BY <1>2, <1>3, <1>4, <2>1, <3>1, <3>2
  <2>3. CASE PrepareStore(w)
    <3> DEFINE t == PendingQueue(w)[1]
    <3>1. preparer[w].pc = "store" /\ preparer[w].processed = 0 /\
              preparer[w].uid \in Users
      BY <2>3 DEF PrepareStore, DrainInv, TypeOK
    <3>2. WasSent(t) /\ t.uid = preparer[w].uid
      BY <1>3, <3>1 DEF DrainInv
    <3>3. nonce' = [nonce EXCEPT ![preparer[w].uid] = t.nonce] /\
              preparer'[w].pc = "drain"
      BY <2>3, <3>1 DEF PrepareStore, NextPending, TypeOK
    <3> HIDE DEF t
    <3>4. \A u \in Users : nonce'[u] = 0 \/ \E s :
              WasSent(s) /\ s.uid = u /\ s.nonce = nonce'[u]
      BY <1>2, <3>1, <3>2, <3>3 DEF TypeOK
    <3>5. QED
      BY <1>3, <1>4, <2>1, <3>3, <3>4
  <2>4. CASE PrepareDrop(w) \/ PrepareAdmit(w) \/ PrepareFinish(w)
    <3>1. UNCHANGED nonce /\ preparer'[w].pc # "store"
      BY <2>4 DEF PrepareDrop, PrepareAdmit, PrepareFinish, TypeOK, IdlePreparer
    <3>2. QED
      BY <1>2, <1>3, <1>4, <2>1, <3>1
  <2>5. QED
    BY <1>5, <2>2, <2>3, <2>4 DEF PrepareStep
<1>6. CASE \A w \in Preparers : ~PrepareStep(w)
  <2>1. UNCHANGED <<preparer, pendingBuffers, nonce>>
    BY <1>6, OtherSteps
  <2>2. QED
    BY <1>2, <1>3, <1>4, <2>1 DEF PendingQueue
<1>7. QED
  BY <1>5, <1>6

\* A transaction stays where it is when the variable does not change.
LEMMA StaysThere ==
  ASSUME NEW t
  PROVE  /\ UNCHANGED main /\ AtMain(t) => AtMain(t)'
         /\ UNCHANGED decoderJobs /\ ToDecode(t) => ToDecode(t)'
         /\ UNCHANGED decoder /\ AtDecoder(t) => AtDecoder(t)'
         /\ UNCHANGED verifierJobs /\ ToVerify(t) => ToVerify(t)'
         /\ UNCHANGED verifier /\ AtVerifier(t) => AtVerifier(t)'
         /\ UNCHANGED prepareChans /\ ToPrepare(t) => ToPrepare(t)'
         /\ UNCHANGED <<preparer, pendingBuffers>> /\ AtPreparer(t) => AtPreparer(t)'
BY DEF AtMain, ToDecode, AtDecoder, ToVerify, AtVerifier, ToPrepare, AtPreparer,
       PendingQueue

\* A channel keeps its transactions but for the first, which is taken.
LEMMA ChannelAppend ==
  ASSUME NEW q \in Seq(Txs), NEW s \in Txs
  PROVE  /\ \A t : (\E i \in DOMAIN q : q[i] = t) => \E i \in DOMAIN Append(q, s) :
             Append(q, s)[i] = t
         /\ \E i \in DOMAIN Append(q, s) : Append(q, s)[i] = s
<1>1. Len(q) + 1 \in DOMAIN Append(q, s) /\ Append(q, s)[Len(q) + 1] = s
  BY SequenceFacts
<1>2. \A i \in DOMAIN q : i \in DOMAIN Append(q, s) /\ Append(q, s)[i] = q[i]
  BY SequenceFacts
<1>3. QED
  BY <1>1, <1>2

LEMMA ChannelTail ==
  ASSUME NEW q \in Seq(Txs), q # <<>>, NEW t, \E i \in DOMAIN q : q[i] = t
  PROVE  t = Head(q) \/ \E i \in DOMAIN Tail(q) : Tail(q)[i] = t
<1>1. PICK i \in DOMAIN q : q[i] = t
  OBVIOUS
<1>2. i = 1 \/ (i - 1 \in DOMAIN Tail(q) /\ Tail(q)[i - 1] = q[i])
  BY TailFacts
<1>3. q[1] = Head(q)
  BY TailFacts
<1>4. QED
  BY <1>1, <1>2, <1>3

\* A valid transaction whose nonce is not above the user's is superseded.
LEMMA TooOld ==
  ASSUME TypeOK, SentInv, NEW t \in Txs, Valid(t), t.nonce > 0, t.nonce <= nonce[t.uid]
  PROVE  Superseded(t)
<1>1. t.uid \in Users /\ t.nonce \in Nat
  BY PipelineAssumption DEF Valid, Registered, Tx, Nonces
<1>2. nonce[t.uid] # 0
  BY <1>1
<1>3. QED
  BY <1>1, <1>2 DEF SentInv, Superseded

LEMMA SupersededStays ==
  ASSUME TypeOK, DrainInv, [Next]_vars, NEW t, Superseded(t)
  PROVE  Superseded(t)'
BY StaysSent DEF Superseded

LEMMA DecoderFate ==
  ASSUME TypeOK, DrainInv, SentInv, [Next]_vars, NEW d \in Decoders, DecoderStep(d),
         NEW t \in Txs, Valid(t), t.nonce > 0, OnItsWay(t)
  PROVE  OnItsWay(t)' \/ Superseded(t)'
<1>1. UNCHANGED <<main, verifier, prepareChans, preparer, pendingBuffers>>
  BY DEF DecoderStep, DecoderTake, DecoderDiscard, DecoderForget, DecoderPass,
         DecoderSend,
         inputVars, verifyVars, prepareVars
<1>2. DOMAIN decoder = Decoders /\ decoderJobs \in Seq(Txs) /\ verifierJobs \in Seq(Txs)
  BY DEF TypeOK
<1>3. \A e \in Decoders : e # d => decoder'[e] = decoder[e]
  BY <1>2 DEF DecoderStep, DecoderTake, DecoderDiscard, DecoderForget, DecoderPass,
         DecoderSend
<1>4. AtDecoder(t) /\ ~(decoder[d].pc # "idle" /\ decoder[d].tx = t) => AtDecoder(t)'
  BY <1>3 DEF AtDecoder
<1>5. AtMain(t) \/ AtVerifier(t) \/ ToPrepare(t) \/ AtPreparer(t) => OnItsWay(t)'
  BY <1>1, StaysThere DEF OnItsWay
<1>6. CASE DecoderTake(d)
  <2>1. decoderJobs # <<>> /\ decoderJobs' = Tail(decoderJobs) /\ UNCHANGED verifierJobs
        /\ decoder[d].pc = "idle"
    BY <1>6 DEF DecoderTake, verifyVars
  <2>2. decoder'[d].pc = "check" /\ decoder'[d].tx = Head(decoderJobs)
    BY <1>2, <1>6 DEF DecoderTake, At
  <2>3. ToDecode(t) => ToDecode(t)' \/ t = Head(decoderJobs)
    BY <1>2, <2>1, ChannelTail DEF ToDecode
  <2>4. t = Head(decoderJobs) => AtDecoder(t)'
    BY <2>2 DEF AtDecoder
  <2>5. ToVerify(t) => ToVerify(t)'
    BY <2>1, StaysThere
  <2>6. QED
    BY <1>4, <1>5, <2>1, <2>3, <2>4, <2>5 DEF OnItsWay
<1>7. CASE DecoderDiscard(d) \/ DecoderForget(d)
  <2>1. decoder[d].pc = "check" /\ UNCHANGED <<decoderJobs, verifierJobs>>
    BY <1>7 DEF DecoderDiscard, DecoderForget, verifyVars
  <2>2. decoder[d].tx = t => Superseded(t)'
    <3>1. Decodes(t) /\ Registered(t)
      BY DEF Valid, Decodes
    <3>2. decoder[d].tx = t => t.nonce <= nonce[t.uid]
      BY <1>7, <3>1 DEF DecoderDiscard, DecoderForget
    <3>3. QED
      BY <3>2, TooOld, SupersededStays
  <2>3. ToDecode(t) \/ ToVerify(t) => OnItsWay(t)'
    BY <2>1, StaysThere DEF OnItsWay
  <2>4. QED
    BY <1>4, <1>5, <2>2, <2>3 DEF OnItsWay
<1>8. CASE DecoderPass(d)
  <2>1. decoder[d].pc = "check" /\ UNCHANGED <<decoderJobs, verifierJobs>>
    BY <1>8 DEF DecoderPass, verifyVars
  <2>2. decoder'[d].pc = "send" /\ decoder'[d].tx = decoder[d].tx
    BY <1>2, <1>8 DEF DecoderPass
  <2>3. AtDecoder(t) => AtDecoder(t)'
    BY <1>3, <2>2 DEF AtDecoder
  <2>4. ToDecode(t) \/ ToVerify(t) => OnItsWay(t)'
    BY <2>1, StaysThere DEF OnItsWay
  <2>5. QED
    BY <1>5, <2>3, <2>4 DEF OnItsWay
<1>9. CASE DecoderSend(d)
  <2>1. decoder[d].pc = "send" /\ UNCHANGED decoderJobs /\
            verifierJobs' = Append(verifierJobs, decoder[d].tx)
    BY <1>9 DEF DecoderSend
  <2>2. decoder[d].tx \in Txs
    BY <2>1, BusyJob DEF TypeOK
  <2>3. (ToVerify(t) => ToVerify(t)') /\ (decoder[d].tx = t => ToVerify(t)')
    <3>1. PICK s \in Txs : s = decoder[d].tx
      BY <2>2
    <3>2. verifierJobs \in Seq(Txs) /\ verifierJobs' = Append(verifierJobs, s)
      BY <1>2, <2>1, <3>1
    <3>3. /\ \A q : (\E i \in DOMAIN verifierJobs : verifierJobs[i] = q)
                      => \E i \in DOMAIN verifierJobs' : verifierJobs'[i] = q
          /\ \E i \in DOMAIN verifierJobs' : verifierJobs'[i] = s
      BY <3>2, ChannelAppend
    <3>4. QED
      BY <3>1, <3>3 DEF ToVerify
  <2>4. ToDecode(t) => ToDecode(t)'
    BY <2>1, StaysThere
  <2>5. QED
    BY <1>4, <1>5, <2>3, <2>4 DEF OnItsWay
<1>10. QED
  BY <1>6, <1>7, <1>8, <1>9 DEF DecoderStep

LEMMA VerifierFate ==
  ASSUME TypeOK, NEW v \in Verifiers, VerifierStep(v), NEW t \in Txs, Valid(t),
             OnItsWay(t)
  PROVE  OnItsWay(t)'
<1>1. UNCHANGED <<main, decoderJobs, decoder, preparer, pendingBuffers>>
  BY DEF VerifierStep, VerifierTake, VerifierReject, VerifierReport, VerifierKeyError,
         VerifierClose, VerifierAccept, VerifierSend, inputVars, decodeVars, prepareVars
<1>2. DOMAIN verifier = Verifiers /\ verifierJobs \in Seq(Txs) /\
          prepareChans \in [Preparers -> Seq(Txs)]
  BY DEF TypeOK
<1>3. \A e \in Verifiers : e # v => verifier'[e] = verifier[e]
  BY <1>2 DEF VerifierStep, VerifierTake, VerifierReject, VerifierReport,
         VerifierKeyError,
              VerifierClose, VerifierAccept, VerifierSend
<1>4. AtVerifier(t) /\ ~(verifier[v].pc \in {"check", "send"} /\ verifier[v].tx = t) =>
          AtVerifier(t)'
  BY <1>3 DEF AtVerifier
<1>5. AtMain(t) \/ ToDecode(t) \/ AtDecoder(t) \/ AtPreparer(t) => OnItsWay(t)'
  BY <1>1, StaysThere DEF OnItsWay
<1>6. CASE VerifierTake(v)
  <2>1. verifierJobs # <<>> /\ verifierJobs' = Tail(verifierJobs) /\
            UNCHANGED prepareChans
        /\ verifier[v].pc = "idle"
    BY <1>6 DEF VerifierTake, prepareVars
  <2>2. verifier'[v].pc = "check" /\ verifier'[v].tx = Head(verifierJobs)
    BY <1>2, <1>6 DEF VerifierTake, At
  <2>3. ToVerify(t) => ToVerify(t)' \/ t = Head(verifierJobs)
    BY <1>2, <2>1, ChannelTail DEF ToVerify
  <2>4. t = Head(verifierJobs) => AtVerifier(t)'
    BY <2>2 DEF AtVerifier
  <2>5. ToPrepare(t) => ToPrepare(t)'
    BY <2>1, StaysThere
  <2>6. QED
    BY <1>4, <1>5, <2>1, <2>3, <2>4, <2>5 DEF OnItsWay
<1>7. CASE VerifierReject(v) \/ VerifierReport(v) \/ VerifierKeyError(v) \/
          VerifierClose(v)
  <2>1. UNCHANGED <<verifierJobs, prepareChans>>
    BY <1>7 DEF VerifierReject, VerifierReport, VerifierKeyError, VerifierClose,
           prepareVars
  <2>2. ~(verifier[v].pc \in {"check", "send"} /\ verifier[v].tx = t)
    BY <1>7 DEF VerifierReject, VerifierReport, VerifierKeyError, VerifierClose,
           Unverifiable, Valid
  <2>3. ToVerify(t) \/ ToPrepare(t) => OnItsWay(t)'
    BY <2>1, StaysThere DEF OnItsWay
  <2>4. QED
    BY <1>4, <1>5, <2>2, <2>3 DEF OnItsWay
<1>8. CASE VerifierAccept(v)
  <2>1. UNCHANGED <<verifierJobs, prepareChans>>
    BY <1>8 DEF VerifierAccept, prepareVars
  <2>2. verifier'[v].pc = "send" /\ verifier'[v].tx = verifier[v].tx
    BY <1>2, <1>8 DEF VerifierAccept
  <2>3. AtVerifier(t) => AtVerifier(t)'
    BY <1>3, <2>2 DEF AtVerifier
  <2>4. ToVerify(t) \/ ToPrepare(t) => OnItsWay(t)'
    BY <2>1, StaysThere DEF OnItsWay
  <2>5. QED
    BY <1>5, <2>3, <2>4 DEF OnItsWay
<1>9. CASE VerifierSend(v)
  <2> DEFINE s == verifier[v].tx
             w == TxRoute(s)
  <2>1. verifier[v].pc = "send" /\ UNCHANGED verifierJobs /\
            prepareChans' = [prepareChans EXCEPT ![w] = Append(@, s)]
    BY <1>9 DEF VerifierSend
  <2>2. s \in Txs
    BY <2>1, BusyJob DEF TypeOK
  <2>3. w \in Preparers
    BY <2>2, RouteType
  <2> HIDE DEF s, w
  <2>4. /\ prepareChans[w] \in Seq(Txs) /\ prepareChans'[w] = Append(prepareChans[w], s)
        /\ \A y \in Preparers : y # w => prepareChans'[y] = prepareChans[y]
    BY <1>2, <2>1, <2>3
  <2>5. /\ \A q : (\E i \in DOMAIN prepareChans[w] : prepareChans[w][i] = q) =>
            \E i \in DOMAIN prepareChans'[w] : prepareChans'[w][i] = q
        /\ \E i \in DOMAIN prepareChans'[w] : prepareChans'[w][i] = s
    BY SMTT(30), <2>2, <2>4, ChannelAppend
  <2>6. (ToPrepare(t) => ToPrepare(t)') /\ (s = t => ToPrepare(t)')
    BY <2>3, <2>4, <2>5 DEF ToPrepare
  <2>7. ToVerify(t) => ToVerify(t)'
    BY <2>1, StaysThere
  <2>8. QED
    BY <1>4, <1>5, <2>6, <2>7 DEF OnItsWay, s
<1>10. QED
  BY <1>6, <1>7, <1>8, <1>9 DEF VerifierStep

LEMMA PreparerFate ==
  ASSUME TypeOK, ClearedInv, DrainInv, SentInv, [Next]_vars, NEW w \in Preparers,
             PrepareStep(w),
         NEW t \in Txs, Valid(t), t.nonce > 0, OnItsWay(t)
  PROVE  OnItsWay(t)' \/ Superseded(t)'
<1>1. UNCHANGED <<main, decoderJobs, decoder, verifierJobs, verifier>>
  BY DEF PrepareStep, PrepareDrop, PrepareAdmit, PrepareSend, PrepareStore, PrepareFinish,
         inputVars, decodeVars, verifyVars
<1>2. prepareChans \in [Preparers -> Seq(Txs)] /\ DOMAIN preparer = Preparers
  BY DEF TypeOK
<1>3. \A y \in Preparers : y # w =>
          preparer'[y] = preparer[y] /\ PendingQueue(y)' = PendingQueue(y)
                                    /\ prepareChans'[y] = prepareChans[y]
  BY DEF PrepareStep, PrepareDrop, PrepareAdmit, PrepareSend, PrepareStore, PrepareFinish,
         TypeOK, PendingQueue
<1>4. AtMain(t) \/ ToDecode(t) \/ AtDecoder(t) \/ ToVerify(t) \/ AtVerifier(t) =>
          OnItsWay(t)'
  BY <1>1, StaysThere DEF OnItsWay
<1> DEFINE Here == preparer[w].pc = "drain" /\ preparer[w].processed = 0 /\
    PendingQueue(w)[1] = t
           Heads == prepareChans[w] # <<>> /\ Head(prepareChans[w]) = t
<1>5. AtPreparer(t) /\ ~Here => AtPreparer(t)'
  BY <1>3 DEF AtPreparer
<1>6. ASSUME prepareChans[w] # <<>>, prepareChans' = [prepareChans EXCEPT ![w] = Tail(@)]
      PROVE  ToPrepare(t) /\ ~Heads => ToPrepare(t)'
  <2>1. prepareChans[w] \in Seq(Txs) /\ prepareChans'[w] = Tail(prepareChans[w])
    BY <1>2, <1>6
  <2>2. ASSUME \E i \in DOMAIN prepareChans[w] : prepareChans[w][i] = t, ~Heads
        PROVE  \E i \in DOMAIN prepareChans'[w] : prepareChans'[w][i] = t
    <3>1. t = Head(prepareChans[w]) \/
            \E i \in DOMAIN Tail(prepareChans[w]) : Tail(prepareChans[w])[i] = t
      BY <1>6, <2>1, <2>2, ChannelTail
    <3>2. QED
      BY <1>6, <2>1, <2>2, <3>1
  <2>3. QED
    BY <1>3, <2>2 DEF ToPrepare
<1>7. t.uid \in Users /\ t.nonce \in Nat /\ nonce[t.uid] \in Nonces
  BY PipelineAssumption DEF Valid, Registered, TypeOK, Tx, Nonces
<1>8. CASE PrepareDrop(w)
  <2>1. /\ preparer[w].pc = "idle" /\ prepareChans[w] # <<>>
        /\ prepareChans' = [prepareChans EXCEPT ![w] = Tail(@)]
    BY <1>8 DEF PrepareDrop
  <2>2. Heads => Superseded(t)'
    <3>1. ASSUME Heads
          PROVE  Superseded(t)'
      <4>1. Len(pendingBuffers[w][t.uid]) < MaxPending
        <5>1. pendingBuffers[w][t.uid] = <<>>
          BY <1>7, <2>1 DEF DrainInv
        <5>2. QED
          BY <5>1, PipelineAssumption
      <4>2. ~(t.nonce >= NextNonce(t.uid))
        BY <1>8, <3>1, <4>1 DEF PrepareDrop, Admissible
      <4>3. t.nonce <= nonce[t.uid]
        <5>1. NonceModulus \in Nat /\ nonce[t.uid] \in Nat /\ nonce[t.uid] < NonceModulus
          BY <1>7, PipelineAssumption DEF Nonces
        <5>2. CASE nonce[t.uid] + 1 < NonceModulus
          <6>1. NextNonce(t.uid) = nonce[t.uid] + 1
            BY <5>1, <5>2 DEF NextNonce
          <6>2. QED
            BY <1>7, <4>2, <5>1, <6>1
        <5>3. CASE nonce[t.uid] + 1 = NonceModulus
          <6>1. NextNonce(t.uid) = 0
            BY <5>1, <5>3 DEF NextNonce
          <6>2. QED
            BY <1>7, <4>2, <6>1
        <5>4. QED
          BY <5>1, <5>2, <5>3
      <4>4. QED
        BY <4>3, TooOld, SupersededStays
    <3>2. QED
      BY <3>1
  <2>3. AtPreparer(t) => AtPreparer(t)'
    BY <1>5, <2>1
  <2>4. QED
    BY <1>4, <1>6, <2>1, <2>2, <2>3 DEF OnItsWay
<1>9. CASE PrepareAdmit(w)
  <2>1. /\ preparer[w].pc = "idle" /\ prepareChans[w] # <<>>
        /\ prepareChans' = [prepareChans EXCEPT ![w] = Tail(@)]
    BY <1>9 DEF PrepareAdmit
  <2>2. ASSUME Heads
        PROVE  AtPreparer(t)'
    <3>1. pendingBuffers[w][t.uid] = <<>>
      BY <1>7, <2>1 DEF DrainInv
    <3>2. pendingBuffers' = [pendingBuffers EXCEPT ![w][t.uid] = <<t>>]
      BY <1>9, <2>2, <3>1, AddOne, <1>7 DEF PrepareAdmit
    <3>3. preparer'[w].pc = "drain" /\ preparer'[w].processed = 0 /\
              preparer'[w].uid = t.uid
      BY <1>2, <1>9, <2>2 DEF PrepareAdmit
    <3>4. PendingQueue(w)' = <<t>>
      BY <1>7, <3>2, <3>3 DEF PendingQueue, TypeOK
    <3>5. QED
      BY <3>3, <3>4 DEF AtPreparer
  <2>3. AtPreparer(t) => AtPreparer(t)'
    BY <1>5, <2>1
  <2>4. QED
    BY <1>4, <1>6, <2>1, <2>2, <2>3 DEF OnItsWay
<1>10. CASE PrepareSend(w)
  <2>1. UNCHANGED prepareChans
    BY <1>10 DEF PrepareSend
  <2>2. Here => Superseded(t)'
    <3>1. PICK s \in Txs : s = PendingQueue(w)[1] /\ dispatched' = Append(dispatched, s)
      BY <1>10, SendFacts
    <3>2. Len(dispatched) + 1 \in DOMAIN dispatched' /\
              dispatched'[Len(dispatched) + 1] = s
      BY <3>1, SequenceFacts DEF TypeOK
    <3>3. QED
      BY <1>7, <3>1, <3>2 DEF Superseded
  <2>3. ToPrepare(t) => ToPrepare(t)'
    BY <2>1, StaysThere
  <2>4. QED
    BY <1>4, <1>5, <2>2, <2>3 DEF OnItsWay
<1>11. CASE PrepareStore(w) \/ PrepareFinish(w)
  <2>1. UNCHANGED prepareChans
    BY <1>11 DEF PrepareStore, PrepareFinish
  <2>2. ~Here
    <3>1. CASE PrepareStore(w)
      BY <3>1 DEF PrepareStore
    <3>2. CASE PrepareFinish(w)
      <4>1. preparer[w].pc = "drain" /\ ~CanDrain(w) /\ Len(PendingQueue(w)) = 1
        BY <3>2 DEF PrepareFinish, DrainInv
      <4>2. preparer[w].processed = 0 => CanDrain(w)
        BY <4>1 DEF CanDrain, NextPending, DrainInv
      <4>3. QED
        BY <4>1, <4>2
    <3>3. QED
      BY <1>11, <3>1, <3>2
  <2>3. ToPrepare(t) => ToPrepare(t)'
    BY <2>1, StaysThere
  <2>4. QED
    BY <1>4, <1>5, <2>2, <2>3 DEF OnItsWay
<1>12. QED
  BY <1>8, <1>9, <1>10, <1>11 DEF PrepareStep

\* What Push lets in is on its way until one of its user, not older, is sent.
LEMMA FateStep == PipeInv /\ SentInv /\ FateInv /\ [Next]_vars => FateInv'
<1> SUFFICES ASSUME TypeOK, ClearedInv, DrainInv, SentInv, FateInv, [Next]_vars,
                    NEW t \in accepted', Valid(t), t.nonce > 0
             PROVE  OnItsWay(t)' \/ Superseded(t)'
  BY DEF PipeInv, FateInv
<1>1. ASSUME NEW s \in Txs, PushAccepted(s), t = s
      PROVE  OnItsWay(t)'
  BY <1>1 DEF PushAccepted, At, OnItsWay, AtMain
<1>2. ASSUME t \in accepted
      PROVE  OnItsWay(t)' \/ Superseded(t)'
  <2>1. CASE Superseded(t)
    BY <2>1, SupersededStays
  <2>2. CASE OnItsWay(t)
    <3>1. t \in Txs
      BY <1>2 DEF TypeOK
    <3>2. ASSUME UNCHANGED <<decoderJobs, decoder, verifierJobs, verifier, prepareChans,
                     preparer,
                             pendingBuffers>>,
                 AtMain(t) => AtMain(t)'
          PROVE  OnItsWay(t)'
      BY <2>2, <3>2, StaysThere DEF OnItsWay
    <3>3. ASSUME NEW s \in Txs, PushRefused(s) \/ PushAccepted(s)
          PROVE  OnItsWay(t)'
      <4>1. ~AtMain(t)
        BY <3>3 DEF PushRefused, PushAccepted, AtMain
      <4>2. QED
        BY <3>2, <3>3, <4>1 DEF PushRefused, PushAccepted, decodeVars, verifyVars,
               prepareVars
    <3>4. CASE PushSend
      <4>1. decoderJobs \in Seq(Txs) /\ main.pc = "send" /\ main.tx \in Txs
            /\ decoderJobs' = Append(decoderJobs, main.tx)
        BY <3>4 DEF PushSend, TypeOK, At
      <4>2. UNCHANGED <<decoder, verifierJobs, verifier, prepareChans, preparer,
                pendingBuffers>>
        BY <3>4 DEF PushSend, verifyVars, prepareVars
      <4>3. ToDecode(t) \/ AtMain(t) => ToDecode(t)'
        BY <4>1, ChannelAppend DEF ToDecode, AtMain
      <4>4. QED
        BY <2>2, <4>2, <4>3, StaysThere DEF OnItsWay
    <3>5. CASE WaitReturns
      <4>1. ~AtMain(t)
        BY <3>5 DEF WaitReturns, AtMain
      <4>2. QED
        BY <3>2, <3>5, <4>1 DEF WaitReturns, decodeVars, verifyVars, prepareVars
    <3>6. ASSUME (\E x \in Executors : ExecStep(x)) \/ Consume \/ UNCHANGED vars
          PROVE  OnItsWay(t)'
      <4>1. UNCHANGED <<main, decoderJobs, decoder, verifierJobs, verifier, prepareChans,
                preparer,
                        pendingBuffers>>
        BY <3>6 DEF ExecStep, ExecTake, ExecCommit, ExecDone, Consume, vars, inputVars,
                    decodeVars, verifyVars, prepareVars
      <4>2. QED
        BY <3>2, <4>1, StaysThere
    <3>7. QED
      BY <2>2, <3>1, <3>3, <3>4, <3>5, <3>6, DecoderFate, VerifierFate,
             PreparerFate DEF Next
  <2>3. QED
    BY <1>2, <2>1, <2>2 DEF FateInv
<1>3. t \in accepted \/ \E s \in Txs : PushAccepted(s) /\ t = s
  BY DEF Next, vars, inputVars, PushRefused, PushAccepted, PushSend, WaitReturns,
         DecoderStep,
         DecoderTake, DecoderDiscard, DecoderForget, DecoderPass, DecoderSend,
             VerifierStep,
         VerifierTake, VerifierReject, VerifierReport, VerifierKeyError, VerifierClose,
         VerifierAccept, VerifierSend, PrepareStep, PrepareDrop, PrepareAdmit,
             PrepareSend,
         PrepareStore, PrepareFinish, ExecStep, ExecTake, ExecCommit, ExecDone, Consume
<1>4. QED
  BY <1>1, <1>2, <1>3

\* When no transaction is open, none is on its way, and all that was sent is
\* committed.
LEMMA NothingOpen ==
  ASSUME TypeOK, DrainInv, Open = {}
  PROVE  /\ \A t : ~OnItsWay(t)
         /\ \A x \in Executors : execChans[x] = <<>> /\ executor[x].pc # "run"
<1>1. Parts = {}
  BY OpenInParts
<1>2. /\ OpenAtMain = {} /\ InDecoderJobs = {} /\ InDecoders = {} /\ InVerifierJobs = {}
      /\ InVerifiers = {} /\ InPrepareChans = {} /\ Buffered = {} /\ InExecChans = {}
      /\ InExecutors = {}
  BY <1>1 DEF Parts
<1>3. main.pc # "send"
  BY <1>2 DEF OpenAtMain
<1>4. \A where, whose, q : Queued(where, whose, q) = {} => DOMAIN q = {}
  BY DEF Queued
<1>5. \A where, chans : Queues(where, chans) = {} =>
        \A w \in DOMAIN chans : Queued(where, w, chans[w]) = {}
  BY DEF Queues
<1>6. \A where, job, workers, labels : Held(where, job, workers, labels) = {} =>
        \A p \in workers : job[p].pc \notin labels
  BY DEF Held
<1>7. DOMAIN decoderJobs = {} /\ DOMAIN verifierJobs = {}
  BY <1>2, <1>4 DEF InDecoderJobs, InVerifierJobs
<1>8. /\ \A w \in Preparers : DOMAIN prepareChans[w] = {}
      /\ \A x \in Executors : DOMAIN execChans[x] = {}
  <2>1. DOMAIN prepareChans = Preparers /\ DOMAIN execChans = Executors
    BY DEF TypeOK
  <2>2. /\ \A w \in DOMAIN prepareChans : Queued("prepareChans", w, prepareChans[w]) = {}
        /\ \A x \in DOMAIN execChans : Queued("execChans", x, execChans[x]) = {}
    BY <1>2, <1>5 DEF InPrepareChans, InExecChans
  <2>3. QED
    BY <1>4, <2>1, <2>2
<1>9. \A d \in Decoders : decoder[d].pc \notin {"check", "send"}
  BY <1>2, <1>6 DEF InDecoders
<1>10. \A v \in Verifiers : verifier[v].pc \notin {"check", "close", "send"}
  BY <1>2, <1>6 DEF InVerifiers
<1>11. \A x \in Executors : executor[x].pc \notin {"run", "close"}
  BY <1>2, <1>6 DEF InExecutors
<1>12. \A d \in Decoders : decoder[d].pc \in {"idle", "check", "send"}
  BY DEF TypeOK, Job, Idle
<1>13. Unsent = {}
  BY <1>2 DEF Buffered
<1>14. \A t : ~OnItsWay(t)
  BY <1>3, <1>7, <1>8, <1>9, <1>10, <1>12, <1>13
     DEF OnItsWay, AtMain, ToDecode, AtDecoder, ToVerify, AtVerifier, ToPrepare,
         AtPreparer, Unsent
<1>15. \A x \in Executors : execChans[x] = <<>>
  <2>1. \A q \in Seq(Txs) : DOMAIN q = {} => q = <<>>
    OBVIOUS
  <2>2. \A x \in Executors : execChans[x] \in Seq(Txs)
    BY DEF TypeOK
  <2>3. QED
    BY <1>8, <2>1, <2>2
<1>16. QED
  BY <1>11, <1>14, <1>15

LEMMA NewestFound == PipeInv /\ CountInv /\ FlowInv /\ FateInv => NewestNeverLost
<1> SUFFICES ASSUME TypeOK, DrainInv, CountInv, FlowInv, FateInv, main.pc = "end",
                    NEW t \in accepted, Valid(t), t.nonce > 0
             PROVE  \E c \in Range(committed) : c.uid = t.uid /\ c.nonce >= t.nonce
  BY DEF PipeInv, NewestNeverLost
<1>1. Open = {}
  <2>1. IsFiniteSet(Open) /\ wg >= Cardinality(Open) /\ wg <= 0 /\ wg \in Int
    BY DEF CountInv, TypeOK
  <2>2. Cardinality(Open) \in Nat
    BY <2>1, FS_CardinalityType
  <2>3. Cardinality(Open) = 0
    BY <2>1, <2>2
  <2>4. QED
    BY <2>1, <2>3, FS_EmptySet
<1>2. Superseded(t)
  BY <1>1, NothingOpen DEF FateInv
<1>3. PICK i \in DOMAIN dispatched :
          dispatched[i].uid = t.uid /\ dispatched[i].nonce >= t.nonce
  BY <1>2 DEF Superseded
<1>4. ExecRoute(dispatched[i]) \in Executors
  BY RouteType DEF TypeOK
<1>5. Committed(dispatched[i])
  BY <1>1, <1>4, NothingOpen DEF FlowInv, Runs
<1>6. dispatched[i] \in Range(committed)
  BY <1>5 DEF Committed, Range
<1>7. QED
  BY <1>3, <1>6

\* When Wait has returned, the newest valid transaction of every user has been
\* executed, whatever overtook it in the decoder and verifier stages.
THEOREM NewestCommitted == Spec => []NewestNeverLost
<1>1. Init => KnownInv /\ CountInv /\ FlowInv /\ SentInv /\ FateInv
  BY KnownInit, CountInit, FlowInit, FateInit
<1>2. PipeInv /\ PipeInv' /\ KnownInv /\ CountInv /\ FlowInv /\ SentInv /\ FateInv /\
          [Next]_vars
        => KnownInv' /\ CountInv' /\ FlowInv' /\ SentInv' /\ FateInv'
  BY KnownStep, CountStep, FlowStep, SentStep, FateStep DEF PipeInv
<1>3. PipeInv /\ CountInv /\ FlowInv /\ FateInv => NewestNeverLost
  BY NewestFound
<1>4. QED
  BY <1>1, <1>2, <1>3, PipeInvariant, PTL DEF Spec

=============================================================================
