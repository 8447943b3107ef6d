--------------------------- MODULE BenchmarkPipelines ---------------------------
(***************************************************************************)
(* The benchmarks of tx-header/main.go: one message after another is fed   *)
(* to decoders, which pass tasks on to verifiers over a channel or a ring  *)
(* buffer, and main waits for the first, ends the second and reads the     *)
(* count of valid transactions.  They are one protocol with variations:    *)
(* what a message is, how transactions are gathered into tasks, how a task *)
(* is verified and counted, and how order ids are checked for duplicates.  *)
(*                                                                         *)
(* What happens between two accesses to something shared is one step.  A   *)
(* key stands for its owner; an expanded key is the key.  A batch is a set *)
(* of transactions: in which order they are verified makes no difference.  *)
(* The shield of the Bloom variant (AdaptiveBloomEnabled) is never up,     *)
(* since nobody starts the monitor that would raise it.                    *)
(***************************************************************************)
EXTENDS Integers, Sequences, FiniteSets, SequencesExt

CONSTANTS
    Kinds,          \* the benchmarks that are run
    TxInputs,       \* allTxs: sequences of messages with one transaction each
    BlockInputs,    \* metaBlocks: sequences of messages with any number
    NumUsers,       \* registered users: uid 1 .. NumUsers
    Decoders, Verifiers,
    RawCap, QueueCap, \* capacity of the two channels, or of the ring buffer
    BatchSize,      \* and MaxBatch
    OrderIds, HashOf, TableSize, MaxProbes, \* of the flat cache
    MaxTimeDeviation,
    MaxTicks,       \* bound on the ticks of the clock
    NoOrder

NoHeader == -1

Transaction == [n: Nat, uid: Nat \cup {NoHeader}, key: Nat,
                oid: OrderIds \cup {NoOrder}, time: Nat]
Message == [form: {"good", "garbled", "unscannable"}, txs: Seq(Transaction)]

\* Transactions are numbered: none is twice in an input.
Numbered(msgs) ==
    /\ \A m \in ToSet(msgs) : IsInjective(m.txs)
    /\ \A i, j \in DOMAIN msgs :
            i # j => ToSet(msgs[i].txs) \cap ToSet(msgs[j].txs) = {}

ASSUME BenchAssumption ==
    /\ NumUsers \in Nat /\ RawCap \in Nat \ {0} /\ QueueCap \in Nat \ {0}
    /\ BatchSize \in Nat \ {0}
    /\ Decoders # {} /\ Verifiers # {}
    /\ NoOrder \notin OrderIds
    /\ TableSize \in Nat \ {0}
    /\ HashOf \in [OrderIds -> 0 .. TableSize - 1]
    /\ MaxProbes \in 1 .. TableSize
    /\ MaxTimeDeviation \in Nat /\ MaxTicks \in Nat

ASSUME InputAssumption ==
    /\ \A msgs \in TxInputs \cup BlockInputs : msgs \in Seq(Message) /\ Numbered(msgs)
    /\ \A msgs \in TxInputs : \A m \in ToSet(msgs) : m.form = "good" => Len(m.txs) = 1

VARIABLES
    kind, given,    \* the benchmark and its input
    feed,           \* what the feeder has still to send
    rawChan, rawClosed,
    queue, queueClosed, \* cryptoChan, or the ring buffer
    dec, ver, main, \* the goroutines
    pills,          \* how many poison pills main has sent
    validCount, logicErrors,
    orderCache,     \* ShardedSet: the order ids that were seen
    flat,           \* FlatShardedCache: the order id in each slot
    globalTime,
    panicked,
    counted,        \* history: the transactions counted as valid
    crowded         \* history: an order id found no slot of the flat cache

channels == <<feed, rawChan, rawClosed, queue, queueClosed>>
dedupVars == <<logicErrors, orderCache, flat, crowded>>
benchVars == <<kind, given, channels, dec, ver, main, pills, validCount, dedupVars,
               globalTime, panicked, counted>>

-----------------------------------------------------------------------------
(* The benchmarks *)

Each == [blocks |-> FALSE, gather |-> "each", verify |-> "each", local |-> FALSE,
         empties |-> FALSE, dedup |-> "no", ring |-> FALSE]

ParallelPipelineExp     == Each
ParallelPipeline        == Each
BatchCryptoPipelineExp  == [Each EXCEPT !.gather = "fixed", !.local = TRUE]
FixedBatchPrep          == [BatchCryptoPipelineExp EXCEPT !.verify = "none"]
FixedBatchPipeline      == BatchCryptoPipelineExp
BatchedPipeline         == [Each EXCEPT !.gather = "user", !.local = TRUE]
BatchedPrep             == [BatchedPipeline EXCEPT !.verify = "none"]
BatchCryptoPipeline     == [Each EXCEPT !.gather = "fixed", !.verify = "whole"]
MetaTxCryptoPipelineExp == [Each EXCEPT !.blocks = TRUE, !.gather = "block",
                                        !.local = TRUE, !.empties = TRUE]
MetaTxDecoding          == [Each EXCEPT !.blocks = TRUE, !.gather = "count", !.local = TRUE]
MetaTxCryptoPipeline    == [Each EXCEPT !.blocks = TRUE, !.gather = "block",
                                        !.verify = "whole"]
LockFreePipeline        == [Each EXCEPT !.ring = TRUE]
LockFreePipelineExp     == LockFreePipeline
LogicShardedCache       == [Each EXCEPT !.dedup = "set"]
LogicShardedCacheBloom  == [Each EXCEPT !.dedup = "bloom"]
LogicFlatCache          == [Each EXCEPT !.dedup = "flat"]

AllKinds ==
    {ParallelPipelineExp, ParallelPipeline, BatchCryptoPipelineExp, FixedBatchPrep,
     FixedBatchPipeline, BatchedPipeline, BatchedPrep, BatchCryptoPipeline,
     MetaTxCryptoPipelineExp, MetaTxDecoding, MetaTxCryptoPipeline, LockFreePipeline,
     LockFreePipelineExp, LogicShardedCache, LogicShardedCacheBloom, LogicFlatCache}

ASSUME KindAssumption == Kinds \subseteq AllKinds

-----------------------------------------------------------------------------
(* Messages: form is "good", "garbled" (does not unmarshal) or "unscannable"  *)
(* (fastProtoScan refuses it as well).  A transaction has a number, the uid   *)
(* in its header (NoHeader: none), the user who signed it, its order id and   *)
(* the time in that.                                                          *)

Registered(t) == t.uid \in 1 .. NumUsers

\* What a decoder makes of a transaction: the key is the one it looked up.
Signed(t, key) == [tx |-> t, key |-> key]
NoKey == 0
Verified(item) == item.tx.key = item.key

TxsOf(msgs) == UNION {ToSet(m.txs) : m \in {x \in ToSet(msgs) : x.form = "good"}}

\* benchmarkFullPipeline, one goroutine: what the others should count.
FullPipeline(msgs) == {t \in TxsOf(msgs) : Registered(t) /\ Verified(Signed(t, t.uid))}

Distance(a, b) == IF a > b THEN a - b ELSE b - a
IsValidUUIDv7(t) == Distance(t.time, globalTime) <= MaxTimeDeviation

Poison == <<>>
Task(items) == <<items>>

AtWork == [pc |-> "take", batch |-> {}, lastUID |-> 0, lastPub |-> NoKey,
           task |-> Poison, tx |-> <<>>, last |-> FALSE, local |-> 0]

BenchInit ==
    /\ kind \in Kinds
    /\ given \in IF kind.blocks THEN BlockInputs ELSE TxInputs
    /\ feed = given
    /\ rawChan = <<>> /\ rawClosed = FALSE /\ queue = <<>> /\ queueClosed = FALSE
    /\ dec = [d \in Decoders |-> AtWork]
    /\ ver = [v \in Verifiers |-> AtWork]
    /\ main = "waitD" /\ pills = 0
    /\ validCount = 0 /\ logicErrors = 0
    /\ orderCache = {} /\ flat = [i \in 0 .. TableSize - 1 |-> NoOrder]
    /\ globalTime = 0
    /\ panicked = FALSE /\ counted = {} /\ crowded = FALSE

-----------------------------------------------------------------------------
(* The feeder and the clock *)

Feed ==
    /\ feed # <<>>
    /\ Len(rawChan) < RawCap
    /\ rawChan' = Append(rawChan, Head(feed))
    /\ feed' = Tail(feed)
    /\ UNCHANGED <<kind, given, rawClosed, queue, queueClosed, dec, ver, main, pills,
                   validCount, dedupVars, globalTime, panicked, counted>>

CloseRaw ==
    /\ feed = <<>> /\ ~rawClosed
    /\ rawClosed' = TRUE
    /\ UNCHANGED <<kind, given, feed, rawChan, queue, queueClosed, dec, ver, main,
                   pills, validCount, dedupVars, globalTime, panicked, counted>>

Tick ==
    /\ kind.dedup # "no" /\ globalTime < MaxTicks
    /\ globalTime' = globalTime + 1
    /\ UNCHANGED <<kind, given, channels, dec, ver, main, pills, validCount,
                   dedupVars, panicked, counted>>

-----------------------------------------------------------------------------
(* Decoders *)

\* Decoder state r with a task to send, or not.
Sending(r, items) == [r EXCEPT !.pc = "send", !.task = Task(items)]
Flushed(r, items) == IF items = {} THEN r ELSE Sending(r, items)

\* The smart batches: a new user, or a full batch, sends the old batch first.
\* A uid of 0 is not looked up after another such (or at first): the batch
\* gets it with the key of whoever was last looked up, if anybody was.
ByUser(r, t) ==
    LET turn == t.uid # r.lastUID
        flush == turn \/ Cardinality(r.batch) >= BatchSize
        kept == Flushed([r EXCEPT !.batch = IF flush THEN {} ELSE @],
                        IF flush THEN r.batch ELSE {})
        pub == IF turn THEN t.uid ELSE r.lastPub
    IN  IF turn /\ ~Registered(t) THEN [kept EXCEPT !.lastUID = 0]
        ELSE [kept EXCEPT !.lastUID = t.uid, !.lastPub = pub,
                          !.batch = @ \cup {Signed(t, pub)}]

Fixed(r, t) ==
    LET items == r.batch \cup {Signed(t, t.uid)}
    IN  IF ~Registered(t) THEN r
        ELSE IF Cardinality(items) >= BatchSize THEN Sending([r EXCEPT !.batch = {}], items)
        ELSE [r EXCEPT !.batch = items]

Gathered(r, t) ==
    CASE kind.gather = "user"  -> ByUser(r, t)
      [] kind.gather = "fixed" -> Fixed(r, t)
      [] OTHER -> IF Registered(t) THEN Sending(r, {Signed(t, t.uid)}) ELSE r

\* A whole block; a decoder that only counts keeps the count to itself.
Block(r, txs) ==
    LET items == {Signed(t, t.uid) : t \in {x \in ToSet(txs) : Registered(x)}}
    IN  IF kind.gather = "count"
        THEN [r EXCEPT !.local = @ + Cardinality({t \in ToSet(txs) : t.uid # NoHeader})]
        ELSE IF kind.empties THEN Sending(r, items) ELSE Flushed(r, items)

\* A good message that is a single transaction.
Single(r, t) ==
    IF t.uid = NoHeader THEN r
    ELSE IF kind.dedup = "no" \/ t.oid = NoOrder THEN Gathered(r, t)
    ELSE [r EXCEPT !.pc = "check", !.tx = t]

Decode(d) ==
    LET m == Head(rawChan)
        r == dec[d]
    IN  /\ r.pc = "take"
        /\ rawChan # <<>>
        /\ rawChan' = Tail(rawChan)
        /\ dec' = [dec EXCEPT ![d] =
                CASE m.form = "unscannable" /\ kind.dedup = "bloom" -> [r EXCEPT !.pc = "exit"]
                  [] m.form = "good" /\ kind.blocks -> Block(r, m.txs)
                  [] m.form = "good" /\ ~kind.blocks -> Single(r, m.txs[1])
                  [] OTHER -> r]
        /\ counted' = IF kind.gather # "count" THEN counted
                      ELSE counted \cup {t \in TxsOf(<<m>>) : t.uid # NoHeader}
        /\ UNCHANGED <<kind, given, feed, rawClosed, queue, queueClosed, ver, main,
                       pills, validCount, dedupVars, globalTime, panicked>>

\* Mutant of DecoderEnd: what is left in the batch is not sent.
DecoderEndUnflushed(d) ==
    /\ dec[d].pc = "take"
    /\ rawChan = <<>> /\ rawClosed
    /\ validCount' = validCount + dec[d].local
    /\ dec' = [dec EXCEPT ![d] = [@ EXCEPT !.batch = {}, !.pc = "exit"]]
    /\ UNCHANGED <<kind, given, channels, ver, main, pills, dedupVars, globalTime,
                   panicked, counted>>

\* The channel is closed: the rest of the batch, and Done.
DecoderEnd(d) ==
    /\ dec[d].pc = "take"
    /\ rawChan = <<>> /\ rawClosed
    /\ validCount' = validCount + dec[d].local
    /\ dec' = [dec EXCEPT ![d] =
            Flushed([@ EXCEPT !.batch = {}, !.last = TRUE, !.pc = "exit"], @.batch)]
    /\ UNCHANGED <<kind, given, channels, ver, main, pills, dedupVars, globalTime,
                   panicked, counted>>

\* cryptoChan <- task, or Enqueue until it succeeds.
Send(d) ==
    /\ dec[d].pc = "send"
    /\ Len(queue) < QueueCap
    /\ queue' = Append(queue, dec[d].task)
    /\ dec' = [dec EXCEPT ![d].task = Poison,
                          ![d].pc = IF dec[d].last THEN "exit" ELSE "take"]
    /\ UNCHANGED <<kind, given, feed, rawChan, rawClosed, queueClosed, ver, main,
                   pills, validCount, dedupVars, globalTime, panicked, counted>>

-----------------------------------------------------------------------------
(* Order ids: is it an id of about now, and was it not seen before? *)

\* The duplicate check is over: the decoder goes on with the transaction, or
\* drops it and, in the Bloom variant, returns.
Checked(d, dup) ==
    LET r == [dec[d] EXCEPT !.tx = <<>>, !.pc = "take"]
    IN  dec' = [dec EXCEPT ![d] =
            CASE ~dup -> Gathered(r, dec[d].tx)
              [] dup /\ kind.dedup = "bloom" -> [r EXCEPT !.pc = "exit"]
              [] OTHER -> r]

Errors(n) == logicErrors' = logicErrors + n

CheckTime(d) ==
    /\ dec[d].pc = "check"
    /\ IF IsValidUUIDv7(dec[d].tx)
       THEN dec' = [dec EXCEPT ![d].pc = kind.dedup] /\ Errors(0)
       ELSE dec' = [dec EXCEPT ![d].pc = "take", ![d].tx = <<>>] /\ Errors(1)
    /\ UNCHANGED <<kind, given, channels, ver, main, pills, validCount, orderCache,
                   flat, crowded, globalTime, panicked, counted>>

\* ShardedCache.Seen, under the read lock.
SeenRead(d) ==
    /\ dec[d].pc \in {"set", "bloom"}
    /\ IF dec[d].tx.oid \in orderCache
       THEN Checked(d, TRUE) /\ Errors(IF kind.dedup = "set" THEN 1 ELSE 0)
       ELSE dec' = [dec EXCEPT ![d].pc = "add"] /\ Errors(0)
    /\ UNCHANGED <<kind, given, channels, ver, main, pills, validCount, orderCache,
                   flat, crowded, globalTime, panicked, counted>>

\* Mutant of SeenAdd: without the second look.
SeenAddUnchecked(d) ==
    /\ dec[d].pc = "add"
    /\ orderCache' = orderCache \cup {dec[d].tx.oid}
    /\ Checked(d, FALSE) /\ Errors(0)
    /\ UNCHANGED <<kind, given, channels, ver, main, pills, validCount, flat,
                   crowded, globalTime, panicked, counted>>

\* Under the write lock it looks again.
SeenAdd(d) ==
    LET dup == dec[d].tx.oid \in orderCache
    IN  /\ dec[d].pc = "add"
        /\ orderCache' = orderCache \cup {dec[d].tx.oid}
        /\ Checked(d, dup)
        /\ Errors(IF dup /\ kind.dedup = "set" THEN 1 ELSE 0)
        /\ UNCHANGED <<kind, given, channels, ver, main, pills, validCount, flat,
                       crowded, globalTime, panicked, counted>>

\* FlatShardedCache.Seen, under the lock of the shard: linear probing, and
\* after MaxProbes slots the next one is taken, free or not.
FlatSeen(d) ==
    LET oid == dec[d].tx.oid
        Slot(i) == (HashOf[oid] + i) % TableSize
        ends == {i \in 0 .. MaxProbes - 1 : flat[Slot(i)] \in {NoOrder, oid}}
        at == IF ends = {} THEN Slot(MaxProbes)
              ELSE Slot(CHOOSE i \in ends : \A j \in ends : i <= j)
        dup == ends # {} /\ flat[at] = oid
    IN  /\ dec[d].pc = "flat"
        /\ flat' = [flat EXCEPT ![at] = oid]
        /\ crowded' = (crowded \/ ends = {})
        /\ Checked(d, dup)
        /\ Errors(IF dup THEN 1 ELSE 0)
        /\ UNCHANGED <<kind, given, channels, ver, main, pills, validCount, orderCache,
                       globalTime, panicked, counted>>

-----------------------------------------------------------------------------
(* Verifiers *)

\* An empty task, the poison pill, ends it.
Receive(v) ==
    /\ ver[v].pc = "take"
    /\ queue # <<>>
    /\ queue' = Tail(queue)
    /\ ver' = [ver EXCEPT ![v].task = Head(queue),
                          ![v].pc = IF Head(queue) = Poison THEN "exit" ELSE "verify"]
    /\ UNCHANGED <<kind, given, feed, rawChan, rawClosed, queueClosed, dec, main,
                   pills, validCount, dedupVars, globalTime, panicked, counted>>

\* The transactions of a task that pass: each for itself, or all or none.
Passing(items) ==
    CASE kind.verify = "none" -> {}
      [] kind.verify = "each" -> {item.tx : item \in {i \in items : Verified(i)}}
      [] kind.verify = "whole" -> IF \A i \in items : Verified(i)
                                  THEN {item.tx : item \in items} ELSE {}

\* ed25519.Verify panics if the key is missing.
Verify(v) ==
    LET items == ver[v].task[1]
        passed == Passing(items)
        keyless == kind.verify # "none" /\ \E i \in items : i.key = NoKey
    IN  /\ ver[v].pc = "verify"
        /\ panicked' = keyless
        /\ counted' = IF keyless THEN counted ELSE counted \cup passed
        /\ ver' = [ver EXCEPT ![v].pc = "take", ![v].task = Poison,
                ![v].local = IF kind.local /\ ~keyless THEN @ + Cardinality(passed) ELSE @]
        /\ validCount' = IF kind.local \/ keyless THEN validCount
                         ELSE validCount + Cardinality(passed)
        /\ UNCHANGED <<kind, given, channels, dec, main, pills, dedupVars, globalTime>>

VerifierEnd(v) ==
    /\ ver[v].pc = "take"
    /\ queue = <<>> /\ queueClosed
    /\ validCount' = validCount + ver[v].local
    /\ ver' = [ver EXCEPT ![v].pc = "exit"]
    /\ UNCHANGED <<kind, given, channels, dec, main, pills, dedupVars, globalTime,
                   panicked, counted>>

-----------------------------------------------------------------------------
(* main *)

DecodersDone == \A d \in Decoders : dec[d].pc = "exit"
VerifiersDone == \A v \in Verifiers : ver[v].pc = "exit"

\* Mutant of PoisonPill: one verifier goes without.
PoisonPillShort ==
    /\ main = "waitD" /\ DecodersDone /\ kind.ring
    /\ pills < Cardinality(Verifiers) - 1 /\ Len(queue) < QueueCap
    /\ queue' = Append(queue, Poison)
    /\ pills' = pills + 1
    /\ main' = IF pills' = Cardinality(Verifiers) - 1 THEN "waitV" ELSE main
    /\ UNCHANGED <<kind, given, feed, rawChan, rawClosed, queueClosed, dec, ver,
                   validCount, dedupVars, globalTime, panicked, counted>>

\* wgD.Wait, then one pill for each verifier ...
PoisonPill ==
    /\ main = "waitD" /\ DecodersDone /\ kind.ring
    /\ pills < Cardinality(Verifiers) /\ Len(queue) < QueueCap
    /\ queue' = Append(queue, Poison)
    /\ pills' = pills + 1
    /\ main' = IF pills' = Cardinality(Verifiers) THEN "waitV" ELSE main
    /\ UNCHANGED <<kind, given, feed, rawChan, rawClosed, queueClosed, dec, ver,
                   validCount, dedupVars, globalTime, panicked, counted>>

\* ... or close(cryptoChan); who only decodes has no verifiers.
CloseQueue ==
    /\ main = "waitD" /\ DecodersDone /\ ~kind.ring
    /\ queueClosed' = TRUE
    /\ main' = IF kind.gather = "count" THEN "done" ELSE "waitV"
    /\ UNCHANGED <<kind, given, feed, rawChan, rawClosed, queue, dec, ver, pills,
                   validCount, dedupVars, globalTime, panicked, counted>>

Finish ==
    /\ main = "waitV" /\ VerifiersDone
    /\ main' = "done"
    /\ UNCHANGED <<kind, given, channels, dec, ver, pills, validCount, dedupVars,
                   globalTime, panicked, counted>>

-----------------------------------------------------------------------------

Decoder(d) ==
    Decode(d) \/ DecoderEnd(d) \/ Send(d) \/ CheckTime(d) \/ SeenRead(d) \/ SeenAdd(d)
        \/ FlatSeen(d)
Verifier(v) == kind.gather # "count" /\ (Receive(v) \/ Verify(v) \/ VerifierEnd(v))
Main == PoisonPill \/ CloseQueue \/ Finish

Running ==
    \/ Feed \/ CloseRaw \/ Tick \/ Main
    \/ \E d \in Decoders : Decoder(d)
    \/ \E v \in Verifiers : Verifier(v)

\* A panic ends the program, and so does main.
BenchNext == ~panicked /\ main # "done" /\ Running

BenchFairness ==
    /\ WF_benchVars(BenchNext /\ (Feed \/ CloseRaw))
    /\ WF_benchVars(BenchNext /\ Main)
    /\ \A d \in Decoders : WF_benchVars(BenchNext /\ Decoder(d))
    /\ \A v \in Verifiers : WF_benchVars(BenchNext /\ Verifier(v))

BenchSpec == BenchInit /\ [][BenchNext]_benchVars /\ BenchFairness

-----------------------------------------------------------------------------
(* Properties *)

\* Transactions that no variation may lose: a batch verified as a whole loses
\* the valid ones with the invalid, a smart batch takes uid 0 for a known one,
\* and a decoder of the Bloom variant leaves at the first duplicate.
Reliable ==
    CASE kind.verify = "none" -> {}
      [] kind.gather = "count" -> {t \in TxsOf(given) : t.uid # NoHeader}
      [] kind.verify = "whole" ->
            IF \A t \in TxsOf(given) : Registered(t) => Verified(Signed(t, t.uid))
            THEN FullPipeline(given) ELSE {}
      [] kind.gather = "user" /\ kind.verify # "none" ->
            IF \A t \in TxsOf(given) : t.uid # 0 THEN FullPipeline(given) ELSE {}
      [] kind.dedup = "bloom" -> {}
      [] kind.dedup \in {"set", "flat"} ->
            {t \in FullPipeline(given) :
                /\ \A now \in 0 .. MaxTicks : Distance(t.time, now) <= MaxTimeDeviation
                /\ \A s \in TxsOf(given) : s.oid = t.oid /\ s # t => t.oid = NoOrder}
      [] OTHER -> FullPipeline(given)

\* When main reads the count, every goroutine has added its own, no valid
\* transaction was left in a batch, a channel or the ring buffer, none is
\* counted twice, and (but for uid 0 in a smart batch, which may borrow a key)
\* none that the sequential pipeline would refuse.  However many decoders look at
\* one order id at once, one transaction with it gets through, unless an order id
\* found no slot of the flat cache within MaxProbes: it takes the next one, where
\* it is not found again, even if nothing was overwritten there.
CountRight ==
    main = "done" =>
        /\ validCount = Cardinality(counted)
        /\ Reliable \subseteq counted
        /\ kind.gather \in {"count", "user"} \/ counted \subseteq FullPipeline(given)
        /\ kind.dedup # "no" /\ ~crowded =>
               \A s, t \in counted : s.oid = t.oid /\ s.oid # NoOrder => s = t

\* Every benchmark comes to its end (or panics), with full channels and a full
\* ring buffer, although goroutines exit at different times.
Finishes == <>(main = "done" \/ panicked)
=============================================================================
