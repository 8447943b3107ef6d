--------------------------- MODULE ProposerPipeline ---------------------------
(***************************************************************************)
(* The transaction pipeline of the block proposer, v2-tx-pipeline/main.go: *)
(* raw transactions are pushed by the main goroutine and travel, over      *)
(* bounded Go channels, through                                            *)
(*                                                                         *)
(*   Push -> decoderWorker -> verifierWorker -> prepareExecutionWorker     *)
(*        -> executionWorker -> Output -> consumer                         *)
(*                                                                         *)
(* There are many decoders and many verifiers on one shared channel each,  *)
(* so they reorder transactions; each prepare worker and each execution    *)
(* worker has a channel of its own, and two routers choose it.  A          *)
(* WaitGroup counts the transactions that are still inside.                *)
(*                                                                         *)
(* A transaction is a record of what the stages look at.  Its bytes, its   *)
(* hash and its signature are abstracted to "form":                        *)
(*   "short"     refused by the length check                               *)
(*   "spam"      refused by the fast proto scan                            *)
(*   "garbled"   does not unmarshal                                        *)
(*   "headless"  unmarshals, but has no header                             *)
(*   "forged"    its signature does not verify                             *)
(*   "signed"    its signature verifies                                    *)
(* Two transactions have the same signature iff they are the same record.  *)
(***************************************************************************)
EXTENDS Integers, Sequences, FiniteSets, FiniteSetsExt, SequencesExt

CONSTANTS
  NumUsers,        \* len(users): the registered users are 1..NumUsers
  KeylessUsers,    \* users whose public key cannot be expanded
  Txs,             \* the raw transactions that may be pushed
  NoTx,            \* what an idle worker holds
  NumTxs,          \* len(allTxBytes): how many transactions main pushes
  NonceModulus,    \* nonces are unsigned integers below it (2^64)
  Decoders,        \* the goroutines running decoderWorker
  Verifiers,       \* the goroutines running verifierWorker
  NumPreparers,    \* number of prepare workers, each with a channel
  SystemMaxUID,    \* users up to this one are system users
  ManualRoutes,    \* TxRouter.ManualRoutes, a function from some users to Nat
  DedicatedCount,  \* markets 1..DedicatedCount have a worker of their own
  GeneralWorkers,  \* execution workers shared by the other markets
  JobsCap,         \* capacity of decoderJobs, verifierJobs and Output (20000)
  ShardCap,        \* capacity of every prepare and execution channel (5000)
  MaxPending,      \* limit of a user's pending buffer (1024)
  SigCacheKeySize  \* the key size SigCache is created with (32)

Forms == {"short", "spam", "garbled", "headless", "forged", "signed"}

Users     == 1..NumUsers
Nonces    == 0..(NonceModulus - 1)
Preparers == 0..(NumPreparers - 1)
Executors == 0..(DedicatedCount + GeneralWorkers)
Tx        == [uid : Nat, nonce : Nonces, market : Nat, form : Forms]

ASSUME PipelineAssumption ==
  /\ NumUsers \in Nat \ {0}
  /\ KeylessUsers \subseteq Users
  /\ NonceModulus \in Nat \ {0, 1}
  /\ Txs \subseteq Tx
  /\ NoTx \notin Tx
  /\ NumTxs \in Nat
  /\ NumPreparers \in Nat \ {0}
  /\ SystemMaxUID \in Nat
  /\ DOMAIN ManualRoutes \subseteq Nat
  /\ \A u \in DOMAIN ManualRoutes : ManualRoutes[u] \in Nat
  /\ DedicatedCount \in Nat
  /\ GeneralWorkers \in Nat
  /\ JobsCap \in Nat \ {0}
  /\ ShardCap \in Nat \ {0}
  /\ MaxPending \in Nat \ {0}
  /\ SigCacheKeySize \in Nat

VARIABLES
  main,            \* the main goroutine: pushes, then waits
  pushed,          \* how many transactions main has taken from its list
  wg,              \* counter of the WaitGroup
  sigCache,        \* signatures stored in SigCache
  nonce,           \* users[u].nonce, the last nonce prepared
  decoderJobs, verifierJobs, prepareChans, execChans, output,  \* channels
  decoder, verifier,  \* the job each of these goroutines holds
  preparer,        \* local state of each prepareExecutionWorker
  pendingBuffers,  \* each prepare worker's map from users to queues
  executor,        \* the job each execution worker holds
  accepted,        \* history: the transactions Push let in
  verified,        \* history: the transactions whose signature was checked
  dispatched,      \* history: transactions in the order they were sent on
  committed        \* history: transactions in the order of their results

inputVars    == <<main, pushed, sigCache, accepted>>
decodeVars   == <<decoderJobs, decoder>>
verifyVars   == <<verifierJobs, verifier, verified>>
prepareVars  == <<prepareChans, preparer, pendingBuffers, nonce, dispatched>>
executeVars  == <<execChans, executor, committed>>
vars == <<inputVars, decodeVars, verifyVars, prepareVars, executeVars,
          wg, output>>

Idle == [pc |-> "idle", tx |-> NoTx]
At(label, t) == [pc |-> label, tx |-> t]
IdlePreparer == [pc |-> "idle", uid |-> 1, expected |-> 0, processed |-> 0]

-------------------------------------------------------------------------------
(* The routers and the checks of the stages.                               *)

\* Mutant of TxRoute: shards by market, so one user meets several workers.
TxRouteByMarket(t) ==
  IF t.uid <= SystemMaxUID \/ NumPreparers <= 1
    THEN 0
    ELSE 1 + (t.market % (NumPreparers - 1))

\* TxRouter.Route: which prepare worker handles a user's transactions.
TxRoute(t) ==
  IF t.uid \in DOMAIN ManualRoutes
    THEN ManualRoutes[t.uid] % NumPreparers
    ELSE IF t.uid <= SystemMaxUID \/ NumPreparers <= 1
           THEN 0
           ELSE 1 + (t.uid % (NumPreparers - 1))

\* Mutant of ExecRoute: shards by user, so one market meets several workers.
ExecRouteByUser(t) ==
  IF t.uid <= SystemMaxUID \/ GeneralWorkers = 0
    THEN 0
    ELSE 1 + DedicatedCount + (t.uid % GeneralWorkers)

\* Mutant of ExecRoute: a system user's transaction goes to its market's worker.
ExecRouteByMarket(t) ==
  IF t.market \in 1..DedicatedCount
    THEN t.market
    ELSE IF GeneralWorkers = 0
           THEN 0
           ELSE 1 + DedicatedCount + (t.market % GeneralWorkers)

\* ExecutionRouter.Route: which execution worker runs a transaction.
ExecRoute(t) ==
  IF t.uid <= SystemMaxUID
    THEN 0
    ELSE IF t.market \in 1..DedicatedCount
           THEN t.market
           ELSE IF GeneralWorkers = 0
                  THEN 0
                  ELSE 1 + DedicatedCount + (t.market % GeneralWorkers)

\* ShardedSet.Seen and ShardedSet.Put of SigCache; Seen also inserts a key it
\* did not find.  Both return at once for a key whose length is not the key
\* size of the set; a signature has 64 bytes.
SignatureSize == 64
SigSeen(t) == SigCacheKeySize = SignatureSize /\ t \in sigCache
SigPut(t)  == IF SigCacheKeySize = SignatureSize
                THEN sigCache \cup {t}
                ELSE sigCache

Registered(t) == t.uid \in Users
Decodes(t)    == t.form \in {"forged", "signed"}

\* Mutant of Unverifiable: the result of the signature check is ignored.
UnverifiableSigner(t) == ~Registered(t)

Unverifiable(t) == ~Registered(t) \/ (t.uid \notin KeylessUsers /\ t.form # "signed")

\* nonce.Load() + 1 on an unsigned 64-bit integer.
NextNonce(u) == (nonce[u] + 1) % NonceModulus

\* UserBuffer.Add: insertion that keeps the queue sorted; equal nonces keep
\* their order of arrival.
BufferAdd(queue, t) ==
  LET before == Cardinality({i \in DOMAIN queue : queue[i].nonce <= t.nonce})
  IN  SubSeq(queue, 1, before) \o <<t>> \o SubSeq(queue, before + 1, Len(queue))

\* Mutant of Admissible: demands the next nonce exactly, without gaps.
AdmissibleNext(w, t) ==
  /\ t.nonce = NextNonce(t.uid)
  /\ Len(pendingBuffers[w][t.uid]) < MaxPending

\* A prepare worker drops a transaction that is too old, or whose user's
\* buffer is full.
Admissible(w, t) ==
  /\ t.nonce >= NextNonce(t.uid)
  /\ Len(pendingBuffers[w][t.uid]) < MaxPending

-------------------------------------------------------------------------------
Init ==
  /\ main = At("push", NoTx)
  /\ pushed = 0
  /\ wg = 0
  /\ sigCache = {}
  /\ nonce = [u \in Users |-> 0]
  /\ decoderJobs = <<>>
  /\ verifierJobs = <<>>
  /\ prepareChans = [w \in Preparers |-> <<>>]
  /\ execChans = [x \in Executors |-> <<>>]
  /\ output = <<>>
  /\ decoder = [d \in Decoders |-> Idle]
  /\ verifier = [v \in Verifiers |-> Idle]
  /\ preparer = [w \in Preparers |-> IdlePreparer]
  /\ pendingBuffers = [w \in Preparers |-> [u \in Users |-> <<>>]]
  /\ executor = [x \in Executors |-> Idle]
  /\ accepted = {}
  /\ verified = {}
  /\ dispatched = <<>>
  /\ committed = <<>>

-------------------------------------------------------------------------------
(* The main goroutine.                                                     *)

\* Push returns an error: the length check, the duplicate check or the fast
\* proto scan refused t, in this order.
PushRefused(t) ==
  /\ main.pc = "push"
  /\ pushed < NumTxs
  /\ t.form \in {"short", "spam"} \/ SigSeen(t)
  /\ pushed' = pushed + 1
  /\ sigCache' = IF t.form = "short" THEN sigCache ELSE SigPut(t)
  /\ UNCHANGED <<main, accepted, wg, output>>
  /\ UNCHANGED <<decodeVars, verifyVars, prepareVars, executeVars>>

\* Mutant of PushAccepted: the loop over the list runs once too often.
PushAcceptedLate(t) ==
  /\ main.pc = "push"
  /\ pushed <= NumTxs
  /\ t.form \notin {"short", "spam"}
  /\ ~SigSeen(t)
  /\ sigCache' = SigPut(t)
  /\ pushed' = pushed + 1
  /\ accepted' = accepted \cup {t}
  /\ wg' = wg + 1
  /\ main' = At("send", t)
  /\ UNCHANGED output
  /\ UNCHANGED <<decodeVars, verifyVars, prepareVars, executeVars>>

\* Push lets t in: wg.Add(1); the send to decoderJobs may block.
PushAccepted(t) ==
  /\ main.pc = "push"
  /\ pushed < NumTxs
  /\ t.form \notin {"short", "spam"}
  /\ ~SigSeen(t)
  /\ sigCache' = SigPut(t)
  /\ pushed' = pushed + 1
  /\ accepted' = accepted \cup {t}
  /\ wg' = wg + 1
  /\ main' = At("send", t)
  /\ UNCHANGED output
  /\ UNCHANGED <<decodeVars, verifyVars, prepareVars, executeVars>>

PushSend ==
  /\ main.pc = "send"
  /\ Len(decoderJobs) < JobsCap
  /\ decoderJobs' = Append(decoderJobs, main.tx)
  /\ main' = At("push", NoTx)
  /\ UNCHANGED <<pushed, sigCache, accepted, decoder, wg, output>>
  /\ UNCHANGED <<verifyVars, prepareVars, executeVars>>

\* wg.Wait() returns after the last push; main prints statistics and ends.
WaitReturns ==
  /\ main.pc = "push"
  /\ pushed = NumTxs
  /\ wg = 0
  /\ main' = At("end", NoTx)
  /\ UNCHANGED <<pushed, sigCache, accepted, wg, output>>
  /\ UNCHANGED <<decodeVars, verifyVars, prepareVars, executeVars>>

-------------------------------------------------------------------------------
(* decoderWorker.                                                          *)

DecoderTake(d) ==
  /\ decoder[d].pc = "idle"
  /\ decoderJobs # <<>>
  /\ decoder' = [decoder EXCEPT ![d] = At("check", Head(decoderJobs))]
  /\ decoderJobs' = Tail(decoderJobs)
  /\ UNCHANGED <<wg, output>>
  /\ UNCHANGED <<inputVars, verifyVars, prepareVars, executeVars>>

\* Unmarshal fails, there is no header, or the nonce is not above the
\* user's current one: the transaction is silently done.
DecoderDiscard(d) ==
  LET t == decoder[d].tx
  IN  /\ decoder[d].pc = "check"
      /\ Decodes(t) => Registered(t) /\ t.nonce <= nonce[t.uid]
      /\ wg' = wg - 1
      /\ decoder' = [decoder EXCEPT ![d] = Idle]
      /\ UNCHANGED <<decoderJobs, output>>
      /\ UNCHANGED <<inputVars, verifyVars, prepareVars, executeVars>>

\* An unknown signer: the loop continues without wg.Done().
DecoderForget(d) ==
  LET t == decoder[d].tx
  IN  /\ decoder[d].pc = "check"
      /\ Decodes(t)
      /\ ~Registered(t)
      /\ decoder' = [decoder EXCEPT ![d] = Idle]
      /\ UNCHANGED <<decoderJobs, wg, output>>
      /\ UNCHANGED <<inputVars, verifyVars, prepareVars, executeVars>>

\* The optimistic nonce check passed; the send may happen much later.
DecoderPass(d) ==
  LET t == decoder[d].tx
  IN  /\ decoder[d].pc = "check"
      /\ Decodes(t)
      /\ Registered(t)
      /\ t.nonce > nonce[t.uid]
      /\ decoder' = [decoder EXCEPT ![d].pc = "send"]
      /\ UNCHANGED <<decoderJobs, wg, output>>
      /\ UNCHANGED <<inputVars, verifyVars, prepareVars, executeVars>>

DecoderSend(d) ==
  /\ decoder[d].pc = "send"
  /\ Len(verifierJobs) < JobsCap
  /\ verifierJobs' = Append(verifierJobs, decoder[d].tx)
  /\ decoder' = [decoder EXCEPT ![d] = Idle]
  /\ UNCHANGED <<decoderJobs, verifier, verified, wg, output>>
  /\ UNCHANGED <<inputVars, prepareVars, executeVars>>

DecoderStep(d) ==
  \/ DecoderTake(d)
  \/ DecoderDiscard(d)
  \/ DecoderForget(d)
  \/ DecoderPass(d)
  \/ DecoderSend(d)

-------------------------------------------------------------------------------
(* verifierWorker.                                                         *)

VerifierTake(v) ==
  /\ verifier[v].pc = "idle"
  /\ verifierJobs # <<>>
  /\ verifier' = [verifier EXCEPT ![v] = At("check", Head(verifierJobs))]
  /\ verifierJobs' = Tail(verifierJobs)
  /\ UNCHANGED <<verified, wg, output>>
  /\ UNCHANGED <<inputVars, decodeVars, prepareVars, executeVars>>

\* An unknown signer or an invalid signature: first wg.Done(), then the
\* error is sent to the output.
VerifierReject(v) ==
  /\ verifier[v].pc = "check"
  /\ Unverifiable(verifier[v].tx)
  /\ wg' = wg - 1
  /\ verifier' = [verifier EXCEPT ![v].pc = "report"]
  /\ UNCHANGED <<verifierJobs, verified, output>>
  /\ UNCHANGED <<inputVars, decodeVars, prepareVars, executeVars>>

VerifierReport(v) ==
  /\ verifier[v].pc = "report"
  /\ Len(output) < JobsCap
  /\ output' = Append(output, [tx |-> verifier[v].tx, ok |-> FALSE])
  /\ verifier' = [verifier EXCEPT ![v] = Idle]
  /\ UNCHANGED <<verifierJobs, verified, wg>>
  /\ UNCHANGED <<inputVars, decodeVars, prepareVars, executeVars>>

\* Mutant of VerifierKeyError: wg.Done() here and again in VerifierClose.
VerifierKeyErrorTwice(v) ==
  LET t == verifier[v].tx
  IN  /\ verifier[v].pc = "check"
      /\ t.uid \in KeylessUsers
      /\ Len(output) < JobsCap
      /\ output' = Append(output, [tx |-> t, ok |-> FALSE])
      /\ wg' = wg - 1
      /\ verifier' = [verifier EXCEPT ![v].pc = "close"]
      /\ UNCHANGED <<verifierJobs, verified>>
      /\ UNCHANGED <<inputVars, decodeVars, prepareVars, executeVars>>

\* The user's key cannot be expanded: first the error, then wg.Done().
VerifierKeyError(v) ==
  LET t == verifier[v].tx
  IN  /\ verifier[v].pc = "check"
      /\ t.uid \in KeylessUsers
      /\ Len(output) < JobsCap
      /\ output' = Append(output, [tx |-> t, ok |-> FALSE])
      /\ verifier' = [verifier EXCEPT ![v].pc = "close"]
      /\ UNCHANGED <<verifierJobs, verified, wg>>
      /\ UNCHANGED <<inputVars, decodeVars, prepareVars, executeVars>>

VerifierClose(v) ==
  /\ verifier[v].pc = "close"
  /\ wg' = wg - 1
  /\ verifier' = [verifier EXCEPT ![v] = Idle]
  /\ UNCHANGED <<verifierJobs, verified, output>>
  /\ UNCHANGED <<inputVars, decodeVars, prepareVars, executeVars>>

\* The signature is valid: remember it in SigCache, then pass the job on.
VerifierAccept(v) ==
  LET t == verifier[v].tx
  IN  /\ verifier[v].pc = "check"
      /\ t.uid \notin KeylessUsers
      /\ ~Unverifiable(t)
      /\ sigCache' = SigPut(t)
      /\ verified' = verified \cup {t}
      /\ verifier' = [verifier EXCEPT ![v].pc = "send"]
      /\ UNCHANGED <<main, pushed, accepted, verifierJobs, wg, output>>
      /\ UNCHANGED <<decodeVars, prepareVars, executeVars>>

VerifierSend(v) ==
  LET t == verifier[v].tx
      w == TxRoute(t)
  IN  /\ verifier[v].pc = "send"
      /\ Len(prepareChans[w]) < ShardCap
      /\ prepareChans' = [prepareChans EXCEPT ![w] = Append(@, t)]
      /\ verifier' = [verifier EXCEPT ![v] = Idle]
      /\ UNCHANGED <<verifierJobs, verified, wg, output>>
      /\ UNCHANGED <<preparer, pendingBuffers, nonce, dispatched>>
      /\ UNCHANGED <<inputVars, decodeVars, executeVars>>

VerifierStep(v) ==
  \/ VerifierTake(v)
  \/ VerifierReject(v)
  \/ VerifierReport(v)
  \/ VerifierKeyError(v)
  \/ VerifierClose(v)
  \/ VerifierAccept(v)
  \/ VerifierSend(v)

-------------------------------------------------------------------------------
(* prepareExecutionWorker.  Its checks of the signer and of the header     *)
(* repeat the decoder's and never fail (OnlyVerified), so they are left    *)
(* out.                                                                    *)

\* Mutant of PrepareDrop: the dropped transaction is never done.
PrepareDropOpen(w) ==
  /\ preparer[w].pc = "idle"
  /\ prepareChans[w] # <<>>
  /\ ~Admissible(w, Head(prepareChans[w]))
  /\ prepareChans' = [prepareChans EXCEPT ![w] = Tail(@)]
  /\ UNCHANGED <<preparer, pendingBuffers, nonce, dispatched, wg, output>>
  /\ UNCHANGED <<inputVars, decodeVars, verifyVars, executeVars>>

PrepareDrop(w) ==
  /\ preparer[w].pc = "idle"
  /\ prepareChans[w] # <<>>
  /\ ~Admissible(w, Head(prepareChans[w]))
  /\ prepareChans' = [prepareChans EXCEPT ![w] = Tail(@)]
  /\ wg' = wg - 1
  /\ UNCHANGED <<preparer, pendingBuffers, nonce, dispatched, output>>
  /\ UNCHANGED <<inputVars, decodeVars, verifyVars, executeVars>>

\* The transaction enters the user's buffer and the draining loop starts.
PrepareAdmit(w) ==
  LET t == Head(prepareChans[w])
  IN  /\ preparer[w].pc = "idle"
      /\ prepareChans[w] # <<>>
      /\ Admissible(w, t)
      /\ prepareChans' = [prepareChans EXCEPT ![w] = Tail(@)]
      /\ pendingBuffers' = [pendingBuffers EXCEPT ![w][t.uid] = BufferAdd(@, t)]
      /\ preparer' = [preparer EXCEPT ![w] = [pc |-> "drain", uid |-> t.uid,
                                expected |-> NextNonce(t.uid), processed |-> 0]]
      /\ UNCHANGED <<nonce, dispatched, wg, output>>
      /\ UNCHANGED <<inputVars, decodeVars, verifyVars, executeVars>>

PendingQueue(w) == pendingBuffers[w][preparer[w].uid]
NextPending(w)  == PendingQueue(w)[preparer[w].processed + 1]
CanDrain(w) == /\ preparer[w].processed < Len(PendingQueue(w))
               /\ NextPending(w).nonce >= preparer[w].expected

\* One turn of the draining loop: send to the execution worker ...
PrepareSend(w) ==
  LET t == NextPending(w)
      x == ExecRoute(t)
  IN  /\ preparer[w].pc = "drain"
      /\ CanDrain(w)
      /\ Len(execChans[x]) < ShardCap
      /\ execChans' = [execChans EXCEPT ![x] = Append(@, t)]
      /\ dispatched' = Append(dispatched, t)
      /\ preparer' = [preparer EXCEPT ![w].pc = "store"]
      /\ UNCHANGED <<prepareChans, pendingBuffers, nonce, executor, committed>>
      /\ UNCHANGED <<inputVars, decodeVars, verifyVars, wg, output>>

\* Mutant of PrepareStore: stores the nonce that was expected.
PrepareStoreExpected(w) ==
  LET n == preparer[w].expected
  IN  /\ preparer[w].pc = "store"
      /\ nonce' = [nonce EXCEPT ![preparer[w].uid] = n]
      /\ preparer' = [preparer EXCEPT ![w] = [pc |-> "drain", uid |-> @.uid,
                                expected |-> n, processed |-> @.processed + 1]]
      /\ UNCHANGED <<prepareChans, pendingBuffers, dispatched, wg, output>>
      /\ UNCHANGED <<inputVars, decodeVars, verifyVars, executeVars>>

\* ... and user.nonce.Store(pending.Nonce).
PrepareStore(w) ==
  LET n == NextPending(w).nonce
  IN  /\ preparer[w].pc = "store"
      /\ nonce' = [nonce EXCEPT ![preparer[w].uid] = n]
      /\ preparer' = [preparer EXCEPT ![w] = [pc |-> "drain", uid |-> @.uid,
                                expected |-> n, processed |-> @.processed + 1]]
      /\ UNCHANGED <<prepareChans, pendingBuffers, dispatched, wg, output>>
      /\ UNCHANGED <<inputVars, decodeVars, verifyVars, executeVars>>

\* The loop ends; the part of the queue that was sent is cut off.
PrepareFinish(w) ==
  /\ preparer[w].pc = "drain"
  /\ ~CanDrain(w)
  /\ pendingBuffers' = [pendingBuffers EXCEPT ![w][preparer[w].uid] =
                          SubSeq(@, preparer[w].processed + 1, Len(@))]
  /\ preparer' = [preparer EXCEPT ![w] = IdlePreparer]
  /\ UNCHANGED <<prepareChans, nonce, dispatched, wg, output>>
  /\ UNCHANGED <<inputVars, decodeVars, verifyVars, executeVars>>

PrepareStep(w) ==
  \/ PrepareDrop(w)
  \/ PrepareAdmit(w)
  \/ PrepareSend(w)
  \/ PrepareStore(w)
  \/ PrepareFinish(w)

-------------------------------------------------------------------------------
(* executionWorker, and the consumer of the output.                        *)

ExecTake(x) ==
  /\ executor[x].pc = "idle"
  /\ execChans[x] # <<>>
  /\ executor' = [executor EXCEPT ![x] = At("run", Head(execChans[x]))]
  /\ execChans' = [execChans EXCEPT ![x] = Tail(@)]
  /\ UNCHANGED <<committed, wg, output>>
  /\ UNCHANGED <<inputVars, decodeVars, verifyVars, prepareVars>>

ExecCommit(x) ==
  LET t == executor[x].tx
  IN  /\ executor[x].pc = "run"
      /\ Len(output) < JobsCap
      /\ output' = Append(output, [tx |-> t, ok |-> TRUE])
      /\ committed' = Append(committed, t)
      /\ executor' = [executor EXCEPT ![x].pc = "close"]
      /\ UNCHANGED <<execChans, wg>>
      /\ UNCHANGED <<inputVars, decodeVars, verifyVars, prepareVars>>

ExecDone(x) ==
  /\ executor[x].pc = "close"
  /\ wg' = wg - 1
  /\ executor' = [executor EXCEPT ![x] = Idle]
  /\ UNCHANGED <<execChans, committed, output>>
  /\ UNCHANGED <<inputVars, decodeVars, verifyVars, prepareVars>>

ExecStep(x) ==
  \/ ExecTake(x)
  \/ ExecCommit(x)
  \/ ExecDone(x)

Consume ==
  /\ output # <<>>
  /\ output' = Tail(output)
  /\ UNCHANGED wg
  /\ UNCHANGED <<inputVars, decodeVars, verifyVars, prepareVars, executeVars>>

-------------------------------------------------------------------------------
Next ==
  \/ \E t \in Txs : PushRefused(t) \/ PushAccepted(t)
  \/ PushSend
  \/ WaitReturns
  \/ \E d \in Decoders : DecoderStep(d)
  \/ \E v \in Verifiers : VerifierStep(v)
  \/ \E w \in Preparers : PrepareStep(w)
  \/ \E x \in Executors : ExecStep(x)
  \/ Consume

Spec == Init /\ [][Next]_vars

\* The Go scheduler runs every goroutine that can take a step, and main
\* always has a next transaction until its list is used up.
Fairness ==
  /\ WF_vars(\E t \in Txs : PushRefused(t) \/ PushAccepted(t))
  /\ WF_vars(PushSend)
  /\ WF_vars(WaitReturns)
  /\ \A d \in Decoders : WF_vars(DecoderStep(d))
  /\ \A v \in Verifiers : WF_vars(VerifierStep(v))
  /\ \A w \in Preparers : WF_vars(PrepareStep(w))
  /\ \A x \in Executors : WF_vars(ExecStep(x))
  /\ WF_vars(Consume)

FairSpec == Spec /\ Fairness

-------------------------------------------------------------------------------
(* Properties.                                                             *)

Job(labels) == {Idle} \cup [pc : labels, tx : Txs]
Result      == [tx : Txs, ok : BOOLEAN]

\* Type invariant: every channel, worker and buffer of the pipeline holds
\* transactions, and every worker is at one of the points of its loop.
TypeOK ==
  /\ main \in {At("push", NoTx), At("end", NoTx)} \cup [pc : {"send"}, tx : Txs]
  /\ pushed \in 0..NumTxs
  /\ wg \in Int
  /\ sigCache \subseteq Txs
  /\ nonce \in [Users -> Nonces]
  /\ decoderJobs \in Seq(Txs)
  /\ verifierJobs \in Seq(Txs)
  /\ prepareChans \in [Preparers -> Seq(Txs)]
  /\ execChans \in [Executors -> Seq(Txs)]
  /\ output \in Seq(Result)
  /\ decoder \in [Decoders -> Job({"check", "send"})]
  /\ verifier \in [Verifiers -> Job({"check", "report", "close", "send"})]
  /\ preparer \in [Preparers -> [pc : {"idle", "drain", "store"}, uid : Users,
                                 expected : Nonces, processed : Nat]]
  /\ pendingBuffers \in [Preparers -> [Users -> Seq(Txs)]]
  /\ executor \in [Executors -> Job({"run", "close"})]
  /\ accepted \subseteq Txs
  /\ verified \subseteq Txs
  /\ dispatched \in Seq(Txs)
  /\ committed \in Seq(Txs)

\* The transactions of a user leave the prepare stage with strictly
\* increasing nonces, whatever order decoders and verifiers produce: no
\* replay and no reordering (decoderWorker and prepareExecutionWorker both
\* read user.nonce, and only the worker TxRouter chose writes it).
NonceOrder ==
  \A i, j \in DOMAIN dispatched :
    i < j /\ dispatched[i].uid = dispatched[j].uid
      => dispatched[i].nonce < dispatched[j].nonce

\* Within one market the transactions of ordinary users are executed in the
\* order in which the prepare workers sent them, each once and none left out
\* between them, although many prepare workers and many execution workers run
\* at once (ExecutionRouter).
Ordinary(t) == t.uid > SystemMaxUID
SentBefore(i, k) ==
  /\ i < k /\ dispatched[i].market = dispatched[k].market
  /\ Ordinary(dispatched[i]) /\ Ordinary(dispatched[k])
MarketOrder ==
  /\ \A j \in DOMAIN committed :
       \E k \in DOMAIN dispatched :
         /\ dispatched[k] = committed[j]
         /\ \A i \in DOMAIN dispatched : SentBefore(i, k) =>
              \E p \in 1..(j - 1) : committed[p] = dispatched[i]
  /\ \A p, q \in DOMAIN committed : committed[p] = committed[q] => p = q

\* Whatever reaches the prepare and execution stages has a registered
\* signer and a signature that some verifier found valid ("we know that the
\* signature is correct", executionWorker).
Valid(t) == t.form = "signed" /\ Registered(t) /\ t.uid \notin KeylessUsers
OnlyVerified ==
  \A t \in (UNION {Range(prepareChans[w]) : w \in Preparers})
            \cup (UNION {Range(execChans[x]) : x \in Executors}) \cup Range(committed) :
    Valid(t) /\ t \in verified

\* What a reader of the results may rely on, although every stage has many
\* workers and nothing but channels and the nonce of each user between them:
\* the transactions sent on form a log of genuine ones in which the nonces of
\* a user rise, and each market, and the system users together, are executed
\* in the order of that log, one after another and without a gap.
Log == INSTANCE NonceLog WITH Genuine <- {t \in Txs : Valid(t)},
                              log <- dispatched, done <- committed
ImplementsLog == Log!Spec

\* The places of the transactions for which wg.Done() is still to come, as
\* <<where, whose, number>>.
Queued(where, whose, queue) == {<<where, whose, i>> : i \in DOMAIN queue}
Held(where, job, workers, labels) ==
  {<<where, p, 0>> : p \in {q \in workers : job[q].pc \in labels}}
\* How many of the user's queue this round has sent on already.
Sent(w) == preparer[w].processed + (IF preparer[w].pc = "store" THEN 1 ELSE 0)
Pending(w, u) ==
  {i \in DOMAIN pendingBuffers[w][u] : u = preparer[w].uid => i > Sent(w)}

OpenAtMain    == IF main.pc = "send" THEN {<<"main", 0, 0>>} ELSE {}
OpenInDecode  == Queued("decoderJobs", 0, decoderJobs)
                 \cup Held("decoder", decoder, Decoders, {"check", "send"})
OpenInVerify  == Queued("verifierJobs", 0, verifierJobs)
                 \cup Held("verifier", verifier, Verifiers, {"check", "close", "send"})
OpenInBuffers == UNION {{<<"pending", <<w, u>>, i>> : i \in Pending(w, u)} :
                          w \in Preparers, u \in Users}
OpenInPrepare == (UNION {Queued("prepareChans", w, prepareChans[w]) : w \in Preparers})
                 \cup OpenInBuffers
OpenInExecute == (UNION {Queued("execChans", x, execChans[x]) : x \in Executors})
                 \cup Held("executor", executor, Executors, {"run", "close"})
Open == OpenAtMain \cup OpenInDecode \cup OpenInVerify \cup OpenInPrepare \cup OpenInExecute

\* DecoderForget leaks a count for every signer that is not registered.
AllRegistered == \A t \in accepted : Registered(t)

\* The WaitGroup never counts less than the work still inside: wg.Done() is
\* never called twice for one transaction, so the counter cannot become
\* negative (a panic) and Wait cannot return while a transaction is open.
\* Unless a signer is not registered it counts the open transactions exactly:
\* every way out of every stage calls wg.Done() once.
WgExact == /\ wg >= Cardinality(Open)
           /\ AllRegistered => wg = Cardinality(Open)

\* When Wait has returned, the newest valid transaction of every user has
\* been executed: overtaking in the decoder and verifier stages may lose
\* older transactions, never this one.
NewestNeverLost ==
  main.pc = "end" =>
    \A t \in accepted :
      Valid(t) /\ t.nonce > 0 =>
        \E c \in Range(committed) : c.uid = t.uid /\ c.nonce >= t.nonce

\* If all signers are registered, every transaction is done in the end and
\* Wait in main returns, however full the channels between the stages get.
WaitEventuallyReturns == []AllRegistered => <>(main.pc = "end")

\* In the end every user's nonce is that of his newest valid transaction,
\* although it is stored only after the transaction was sent on (it may
\* still be the old one when Wait returns).
NewestNonce(u) ==
  Max({0} \cup {t.nonce : t \in {c \in accepted : Valid(c) /\ c.uid = u}})
NonceSettles == <>[](\A u \in Users : nonce[u] = NewestNonce(u))

-------------------------------------------------------------------------------
(* What a comment of the code claims and the code does not do.             *)

\* "Wait blocks until the counter becomes 0", "we wait for all workers to
\* finish" (main.go:692-693): they do finish, and Wait returns.
WaitReturnsAnyway == <>(main.pc = "end")
===============================================================================
