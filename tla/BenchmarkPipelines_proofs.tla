---------------------- MODULE BenchmarkPipelines_proofs ----------------------
(***************************************************************************)
(* The count of every benchmark of BenchmarkPipelines is right, for any    *)
(* number of decoders and verifiers, any capacity and any input.           *)
(***************************************************************************)
EXTENDS BenchmarkPipelines, FiniteSetTheorems, WellFoundedInduction, TLAPS

-------------------------------------------------------------------------------
(* The inductive invariant: each transaction of the input is in one place. *)

Txs == TxsOf(given)
Carried(m) == IF m.form = "good" THEN ToSet(m.txs) ELSE {}

\* What a decoder may hand on: but for uid 0 in a smart batch, the key is that
\* of a user the transaction names.
Item(i) ==
    /\ i = [tx |-> i.tx, key |-> i.key] /\ i.tx \in Txs
    /\ kind.gather # "user" \/ i.tx.uid # 0 => Registered(i.tx) /\ i.key = i.tx.uid

Batch(items) == \A i \in items : Item(i)
TaskOk(task) == task = Poison \/ (task = Task(task[1]) /\ Batch(task[1]))

TxIn(items) == {i.tx : i \in items}
InTask(task) == IF task = Poison THEN {} ELSE TxIn(task[1])

Looking == {"check", "set", "bloom", "flat", "add"}
Loose(r) == IF r.pc \in Looking THEN {r.tx} ELSE {}

WorkFields == {"pc", "batch", "lastUID", "lastPub", "task", "tx", "last", "local"}

\* A goroutine holds a task while it has to send it, and a transaction while
\* it checks the order id.
DecOk(r) ==
    /\ DOMAIN r = WorkFields
    /\ r.pc \in {"take", "send", "exit"} \cup Looking
    /\ r.pc \in Looking => /\ r.tx \in Txs /\ r.tx.oid \in OrderIds
                           /\ r.tx.uid # NoHeader
                           /\ kind.dedup # "no" /\ r.batch = {} /\ ~r.last
    /\ r.pc \in {"set", "bloom", "flat"} => r.pc = kind.dedup
    /\ r.pc = "add" => kind.dedup \in {"set", "bloom"}
    /\ Batch(r.batch) /\ TaskOk(r.task)
    /\ r.pc = "send" <=> r.task # Poison
    /\ r.pc = "exit" => r.batch = {} /\ (r.last \/ kind.dedup = "bloom")
    /\ r.lastUID # 0 => r.lastUID \in 1 .. NumUsers /\ r.lastPub = r.lastUID
    /\ kind.gather \notin {"user", "fixed"} => r.batch = {}
    /\ r.last \in BOOLEAN
    /\ r.last => /\ r.pc \in {"send", "exit"} /\ r.batch = {}
                 /\ feed = <<>> /\ rawChan = <<>> /\ rawClosed
    /\ r.local \in Nat
    /\ kind.gather = "count" => r.task = Poison

VerOk(r) ==
    /\ DOMAIN r = WorkFields
    /\ r.pc \in {"take", "verify", "exit"}
    /\ TaskOk(r.task)
    /\ r.pc = "verify" <=> r.task # Poison
    /\ r.pc = "exit" =>
          IF kind.ring THEN DecodersDone /\ \A i \in 1 .. Len(queue) : queue[i] = Poison
          ELSE queueClosed /\ queue = <<>>
    /\ r.local \in Nat
    /\ kind.gather = "count" => r = AtWork

InputInv ==
    /\ kind \in AllKinds
    /\ given \in Seq(Message) /\ Numbered(given)
    /\ ~kind.blocks => \A m \in ToSet(given) : m.form = "good" => Len(m.txs) = 1

\* The messages that decoders have taken are the first ones.
Decoded == Len(given) - Len(feed) - Len(rawChan)

FeedInv ==
    /\ feed \in Seq(Message) /\ rawChan \in Seq(Message)
    /\ Decoded >= 0
    /\ \A i \in 1 .. Len(rawChan) : rawChan[i] = given[Decoded + i]
    /\ \A i \in 1 .. Len(feed) : feed[i] = given[Decoded + Len(rawChan) + i]
    /\ rawClosed => feed = <<>>

QueueInv ==
    /\ \E T : queue \in Seq(T) /\ \A t \in T : TaskOk(t)
    /\ \A i \in 1 .. Len(queue) : queue[i] = Poison =>
          kind.ring /\ DecodersDone /\ \A j \in i .. Len(queue) : queue[j] = Poison
    /\ kind.gather = "count" => queue = <<>>
    /\ queueClosed => DecodersDone

MainInv ==
    /\ main \in {"waitD", "waitV", "done"}
    /\ main # "waitD" => DecodersDone
    /\ main = "done" => ~panicked /\ (kind.gather = "count" \/ VerifiersDone)

CacheInv ==
    /\ globalTime \in 0 .. MaxTicks
    /\ orderCache \subseteq OrderIds
    /\ flat \in [0 .. TableSize - 1 -> OrderIds \cup {NoOrder}]

\* An order id that is in the flat cache can be found there.
Slot(o, i) == (HashOf[o] + i) % TableSize
FlatInv ==
    ~crowded =>
        \A o \in OrderIds : o \in Range(flat) =>
            \E i \in 0 .. MaxProbes - 1 :
                flat[Slot(o, i)] = o /\ \A j \in 0 .. i - 1 : flat[Slot(o, j)] # NoOrder

\* The places: to come, gone, with a decoder or verifier, in the queue, or
\* counted, and if so by whom.
Coming == {t \in Txs : \E i \in DOMAIN given : i > Decoded /\ t \in Carried(given[i])}
At(p, x) == {t \in Txs : p[t] = x}

ToCome == <<"come", 0>>
Gone == <<"gone", 0>>
Total == <<"main", 0>>
Checks(d) == <<"tx", d>>
InBatch(d) == <<"batch", d>>
Sends(d) == <<"task", d>>
Queued(i) == <<"queue", i>>
Verifies(v) == <<"ver", v>>
CountD(d) == <<"countD", d>>
CountV(v) == <<"countV", v>>

Counts == {Total} \cup {CountD(d) : d \in Decoders} \cup {CountV(v) : v \in Verifiers}
Places ==
    {ToCome, Gone} \cup Counts \cup {Checks(d) : d \in Decoders}
        \cup {InBatch(d) : d \in Decoders} \cup {Sends(d) : d \in Decoders}
        \cup {Queued(i) : i \in Nat} \cup {Verifies(v) : v \in Verifiers}

DecMap(p, d) ==
    /\ At(p, Checks(d)) = Loose(dec[d])
    /\ At(p, InBatch(d)) = TxIn(dec[d].batch)
    /\ At(p, Sends(d)) = InTask(dec[d].task)

PlaceMap(p) ==
    /\ At(p, ToCome) = Coming
    /\ \A d \in Decoders : DecMap(p, d)
    /\ \A i \in Nat : At(p, Queued(i)) = IF i \in 1 .. Len(queue) THEN InTask(queue[i]) ELSE {}
    /\ \A v \in Verifiers : At(p, Verifies(v)) = InTask(ver[v].task)

CountMap(p) ==
    /\ counted = {t \in Txs : p[t] \in Counts}
    /\ validCount = Cardinality(At(p, Total))
    /\ \A d \in Decoders : IF dec[d].last THEN At(p, CountD(d)) = {}
                           ELSE dec[d].local = Cardinality(At(p, CountD(d)))
    /\ kind.gather # "count" => \A d \in Decoders : At(p, CountD(d)) = {}
    /\ \A v \in Verifiers : IF ver[v].pc = "exit" THEN At(p, CountV(v)) = {}
                            ELSE ver[v].local = Cardinality(At(p, CountV(v)))
    /\ ~kind.local => \A v \in Verifiers : At(p, CountV(v)) = {}

\* Before and after the check of its order id.
Early(p, t) == p[t] = ToCome \/ \E d \in Decoders : p[t] = Checks(d)
Passed(p, t) == ~Early(p, t) /\ p[t] # Gone

SeenIds == IF kind.dedup = "flat" THEN Range(flat) \ {NoOrder} ELSE orderCache

Unique(p) ==
    kind.dedup # "no" /\ ~crowded =>
        /\ \A t \in Txs : Passed(p, t) /\ t.oid # NoOrder => t.oid \in SeenIds
        /\ \A s, t \in Txs : Passed(p, s) /\ Passed(p, t) /\ s.oid = t.oid /\ s.oid # NoOrder
                                => s = t

Origin(p) ==
    kind.dedup # "no" => \A o \in SeenIds : \E s \in Txs : s.oid = o /\ ~Early(p, s)

Kept(p) == \A t \in Reliable : p[t] # Gone

Honest == kind.gather \in {"count", "user"} \/ counted \subseteq FullPipeline(given)

Placed(p) == PlaceMap(p) /\ CountMap(p) /\ Unique(p) /\ Origin(p) /\ Kept(p)
PlaceInv == ~panicked => \E p \in [Txs -> Places] : Placed(p)

StateInv ==
    /\ InputInv /\ FeedInv /\ QueueInv /\ MainInv /\ CacheInv
    /\ DOMAIN dec = Decoders /\ \A d \in Decoders : DecOk(dec[d])
    /\ DOMAIN ver = Verifiers /\ \A v \in Verifiers : VerOk(ver[v])

IInv == StateInv /\ FlatInv /\ Honest /\ PlaceInv

-------------------------------------------------------------------------------
(* The benchmarks and their input.                                         *)

\* What sorts of benchmark there are.
Sort(k) ==
    /\ k.gather \in {"each", "fixed", "user", "block", "count"}
    /\ k.verify \in {"none", "each", "whole"}
    /\ k.dedup \in {"no", "set", "bloom", "flat"}
    /\ k.local \in BOOLEAN /\ k.ring \in BOOLEAN /\ k.blocks \in BOOLEAN
    /\ k.blocks <=> k.gather \in {"block", "count"}
    /\ k.dedup # "no" => k.gather = "each" /\ k.verify = "each"
    /\ k.ring => ~k.local
    /\ k.gather = "count" => k.local /\ ~k.ring /\ k.verify = "each"
    /\ k.gather = "user" => k.verify # "whole"

LEMMA KindFacts == \A k \in AllKinds : Sort(k)
<1>1. /\ Sort(ParallelPipelineExp) /\ Sort(ParallelPipeline)
      /\ Sort(LockFreePipeline) /\ Sort(LockFreePipelineExp)
  BY DEF Sort, Each, ParallelPipelineExp, ParallelPipeline, LockFreePipeline,
         LockFreePipelineExp
<1>2. /\ Sort(BatchCryptoPipelineExp) /\ Sort(FixedBatchPrep)
      /\ Sort(FixedBatchPipeline) /\ Sort(BatchCryptoPipeline)
  BY DEF Sort, Each, BatchCryptoPipelineExp, FixedBatchPrep, FixedBatchPipeline,
         BatchCryptoPipeline
<1>3. Sort(BatchedPipeline) /\ Sort(BatchedPrep)
  BY DEF Sort, Each, BatchedPipeline, BatchedPrep
<1>4. Sort(MetaTxCryptoPipelineExp) /\ Sort(MetaTxDecoding) /\ Sort(MetaTxCryptoPipeline)
  BY DEF Sort, Each, MetaTxCryptoPipelineExp, MetaTxDecoding, MetaTxCryptoPipeline
<1>5. Sort(LogicShardedCache) /\ Sort(LogicShardedCacheBloom) /\ Sort(LogicFlatCache)
  BY DEF Sort, Each, LogicShardedCache, LogicShardedCacheBloom, LogicFlatCache
<1>6. QED
  BY <1>1, <1>2, <1>3, <1>4, <1>5 DEF AllKinds

LEMMA FiniteRange ==
  ASSUME NEW s, NEW n \in Nat, DOMAIN s = 1 .. n
  PROVE  IsFiniteSet({s[i] : i \in DOMAIN s})
<1> DEFINE T == {s[i] : i \in DOMAIN s}
           f == [i \in 1 .. n |-> s[i]]
<1>1. IsFiniteSet(1 .. n)
  BY FS_Interval
<1>2. f \in Surjection(1 .. n, T)
  BY DEF Surjection
<1>3. QED
  BY <1>1, <1>2, FS_Surjection

\* The transactions of the input are those of its messages, and finitely many.
LEMMA InputTxs ==
  ASSUME given \in Seq(Message)
  PROVE  /\ IsFiniteSet(Txs)
         /\ Txs = UNION {Carried(given[i]) : i \in DOMAIN given}
         /\ \A t \in Txs : t \in Transaction
<1> DEFINE f == [i \in DOMAIN given |-> Carried(given[i])]
           F == {f[i] : i \in DOMAIN f}
<1>1. DOMAIN given = 1 .. Len(given) /\ Len(given) \in Nat
      /\ \A i \in DOMAIN given : given[i] \in Message
  OBVIOUS
<1>2. ASSUME NEW m \in Message
      PROVE  IsFiniteSet(Carried(m)) /\ \A t \in Carried(m) : t \in Transaction
  <2>1. m.txs \in Seq(Transaction)
    BY DEF Message
  <2>2. DOMAIN m.txs = 1 .. Len(m.txs) /\ Len(m.txs) \in Nat
        /\ \A i \in DOMAIN m.txs : m.txs[i] \in Transaction
    BY <2>1
  <2>3. IsFiniteSet(ToSet(m.txs))
    BY <2>2, FiniteRange DEF ToSet
  <2>4. QED
    BY <2>2, <2>3, FS_EmptySet DEF Carried, ToSet
<1>3. Txs = UNION {Carried(given[i]) : i \in DOMAIN given}
  BY DEF Txs, TxsOf, Carried, ToSet
<1>4. F = {Carried(given[i]) : i \in DOMAIN given}
  OBVIOUS
<1>5. IsFiniteSet(F)
  BY <1>1, FiniteRange
<1>6. \A T \in F : IsFiniteSet(T)
  BY <1>1, <1>2
<1>7. IsFiniteSet(UNION F)
  BY <1>5, <1>6, FS_UNION
<1>8. QED
  BY <1>1, <1>2, <1>3, <1>4, <1>7

LEMMA AtFacts ==
  ASSUME given \in Seq(Message)
  PROVE  \A p, x : IsFiniteSet(At(p, x)) /\ Cardinality(At(p, x)) \in Nat
BY InputTxs, FS_Subset, FS_CardinalityType DEF At

\* What depends on the input and the benchmark alone.
LEMMA Rigid ==
  ASSUME kind' = kind, given' = given
  PROVE  /\ Txs' = Txs /\ Reliable' = Reliable
         /\ FullPipeline(given)' = FullPipeline(given)
         /\ \A r : Batch(r)' = Batch(r) /\ TaskOk(r)' = TaskOk(r)
         /\ \A p, x : At(p, x)' = At(p, x)
         /\ InputInv => InputInv'
<1>1. Txs' = Txs
  BY DEF Txs, TxsOf
<1>2. FullPipeline(given)' = FullPipeline(given)
  BY DEF FullPipeline, TxsOf
<1>3. Reliable' = Reliable
  BY <1>2 DEF Reliable, TxsOf
<1>4. \A r : Batch(r)' = Batch(r) /\ TaskOk(r)' = TaskOk(r)
  BY <1>1 DEF Batch, TaskOk, Item
<1>5. \A p, x : At(p, x)' = At(p, x)
  BY <1>1 DEF At
<1>6. InputInv => InputInv'
  BY DEF InputInv
<1>7. QED
  BY <1>1, <1>2, <1>3, <1>4, <1>5, <1>6

-------------------------------------------------------------------------------
(* What the operators of a decoder do.                                     *)

LEMMA TaskFacts ==
  \A items : Task(items) # Poison /\ Task(items)[1] = items
BY DEF Task, Poison

LEMMA SendingFacts ==
  ASSUME NEW r, NEW items, DOMAIN r = WorkFields
  PROVE  /\ DOMAIN Sending(r, items) = WorkFields
         /\ Sending(r, items).pc = "send" /\ Sending(r, items).task = Task(items)
         /\ \A f \in WorkFields \ {"pc", "task"} : Sending(r, items)[f] = r[f]
         /\ InTask(Sending(r, items).task) = TxIn(items)
         /\ Batch(items) => TaskOk(Sending(r, items).task)
BY TaskFacts DEF Sending, WorkFields, InTask, TaskOk

LEMMA FlushedFacts ==
  ASSUME NEW r, NEW items, DOMAIN r = WorkFields, r.task = Poison
  PROVE  /\ DOMAIN Flushed(r, items) = WorkFields
         /\ Flushed(r, items).pc = IF items = {} THEN r.pc ELSE "send"
         /\ (Flushed(r, items).task = Poison) <=> (items = {})
         /\ \A f \in WorkFields \ {"pc", "task"} : Flushed(r, items)[f] = r[f]
         /\ InTask(Flushed(r, items).task) = TxIn(items)
         /\ Batch(items) => TaskOk(Flushed(r, items).task)
<1>1. CASE items = {}
  BY <1>1 DEF Flushed, InTask, TxIn, TaskOk
<1>2. CASE items # {}
  BY <1>2, SendingFacts, TaskFacts DEF Flushed
<1>3. QED
  BY <1>1, <1>2

\* A decoder r without a task has taken in t and is r2 now: what it held, with t,
\* is in its batch and its task, and t is if the user is registered.
Took(r, r2, t) ==
    /\ DOMAIN r2 = WorkFields
    /\ r2.pc = IF r2.task = Poison THEN r.pc ELSE "send"
    /\ r2.tx = r.tx /\ r2.last = r.last /\ r2.local = r.local
    /\ Batch(r2.batch) /\ TaskOk(r2.task)
    /\ r2.lastUID # 0 => r2.lastUID \in 1 .. NumUsers /\ r2.lastPub = r2.lastUID
    /\ kind.gather \notin {"user", "fixed"} => r2.batch = {}
    /\ TxIn(r2.batch) \cup InTask(r2.task) \subseteq TxIn(r.batch) \cup {t}
    /\ TxIn(r.batch) \subseteq TxIn(r2.batch) \cup InTask(r2.task)
    /\ t \notin TxIn(r.batch) => TxIn(r2.batch) \cap InTask(r2.task) = {}
    /\ Registered(t) => t \in TxIn(r2.batch) \cup InTask(r2.task)

\* What a decoder is like when it has nothing to send.
Free(r) ==
    /\ DOMAIN r = WorkFields
    /\ r.task = Poison /\ Batch(r.batch)
    /\ r.lastUID # 0 => r.lastUID \in 1 .. NumUsers /\ r.lastPub = r.lastUID
    /\ kind.gather \notin {"user", "fixed"} => r.batch = {}

LEMMA SignedFacts ==
  \A t \in Txs : \A key : /\ Signed(t, key).tx = t /\ Signed(t, key).key = key
                          /\ Signed(t, key) = [tx |-> t, key |-> key]
BY DEF Signed

LEMMA RegisteredItem ==
  \A t \in Txs : Registered(t) => Item(Signed(t, t.uid))
BY SignedFacts DEF Item

LEMMA ByUserFacts ==
  ASSUME kind.gather = "user", NumUsers \in Nat,
         NEW t \in Txs, t.uid \in Nat, NEW r, Free(r)
  PROVE  Took(r, ByUser(r, t), t)
<1> DEFINE turn == t.uid # r.lastUID
           flush == turn \/ Cardinality(r.batch) >= BatchSize
           r1 == [r EXCEPT !.batch = IF flush THEN {} ELSE @]
           sent == IF flush THEN r.batch ELSE {}
           kept == Flushed(r1, sent)
           pub == IF turn THEN t.uid ELSE r.lastPub
           r2 == [kept EXCEPT !.lastUID = t.uid, !.lastPub = pub,
                              !.batch = @ \cup {Signed(t, pub)}]
           r3 == [kept EXCEPT !.lastUID = 0]
<1>1. ByUser(r, t) = IF turn /\ ~Registered(t) THEN r3 ELSE r2
  BY DEF ByUser
<1>2. DOMAIN r1 = WorkFields /\ r1.batch = (IF flush THEN {} ELSE r.batch)
      /\ \A f \in WorkFields \ {"batch"} : r1[f] = r[f]
  BY DEF Free, WorkFields
<1>3. r1.task = Poison /\ r1.pc = r.pc
  BY <1>2 DEF Free, WorkFields
<1>11. /\ TxIn(r1.batch) \cup TxIn(sent) = TxIn(r.batch)
       /\ r1.batch = {} \/ sent = {}
       /\ turn => r1.batch = {}
       /\ Batch(r1.batch) /\ Batch(sent)
  <2>1. CASE flush
    BY <1>2, <2>1 DEF Free, TxIn, Batch
  <2>2. CASE ~flush
    BY <1>2, <2>2 DEF Free, TxIn, Batch
  <2>3. QED
    BY <2>1, <2>2
<1> HIDE DEF r1, flush, sent
<1>4. /\ DOMAIN kept = WorkFields
      /\ kept.pc = IF sent = {} THEN r.pc ELSE "send"
      /\ (kept.task = Poison) <=> (sent = {})
      /\ \A f \in WorkFields \ {"pc", "task"} : kept[f] = r1[f]
      /\ InTask(kept.task) = TxIn(sent)
      /\ TaskOk(kept.task)
  BY <1>2, <1>3, <1>11, FlushedFacts
<1>5. /\ kept.batch = r1.batch /\ kept.tx = r.tx /\ kept.last = r.last
      /\ kept.local = r.local /\ kept.lastUID = r.lastUID /\ kept.lastPub = r.lastPub
  BY <1>2, <1>4 DEF WorkFields
<1> HIDE DEF kept
<1>6. /\ DOMAIN r2 = WorkFields /\ r2.pc = kept.pc /\ r2.task = kept.task
      /\ r2.batch = r1.batch \cup {Signed(t, pub)}
      /\ r2.tx = r.tx /\ r2.last = r.last /\ r2.local = r.local
      /\ r2.lastUID = t.uid /\ r2.lastPub = pub
  BY <1>4, <1>5 DEF WorkFields
<1>7. /\ DOMAIN r3 = WorkFields /\ r3.pc = kept.pc /\ r3.task = kept.task
      /\ r3.batch = r1.batch
      /\ r3.tx = r.tx /\ r3.last = r.last /\ r3.local = r.local
      /\ r3.lastUID = 0
  BY <1>4, <1>5 DEF WorkFields
<1> HIDE DEF r2, r3
<1>8. ASSUME turn, ~Registered(t) PROVE Took(r, r3, t)
  <2>1. TxIn(r3.batch) \cap InTask(r3.task) = {}
    BY <1>4, <1>7, <1>8, <1>11 DEF TxIn
  <2>2. QED
    BY <2>1, <1>4, <1>7, <1>8, <1>11 DEF Took
<1>9. ASSUME ~(turn /\ ~Registered(t)) PROVE Took(r, r2, t)
  <2>1. t.uid # 0 => t.uid \in 1 .. NumUsers /\ pub = t.uid
    <3>1. CASE turn
      BY <1>9, <3>1 DEF Registered
    <3>2. CASE ~turn
      BY <3>2 DEF Free
    <3>3. QED
      BY <3>1, <3>2
  <2>2. Item(Signed(t, pub))
    BY <2>1, SignedFacts DEF Item, Registered
  <2>3. Batch(r2.batch)
    BY <1>6, <1>11, <2>2 DEF Batch
  <2>4. TxIn(r2.batch) = TxIn(r1.batch) \cup {t}
    BY <1>6, SignedFacts DEF TxIn
  <2>5. t \notin TxIn(r.batch) => TxIn(r2.batch) \cap InTask(r2.task) = {}
    <3>1. TxIn(r1.batch) \cap TxIn(sent) = {}
      BY <1>11 DEF TxIn
    <3>2. QED
      BY <1>4, <1>6, <1>11, <2>4, <3>1
  <2>6. QED
    BY <1>4, <1>6, <1>11, <2>1, <2>3, <2>4, <2>5 DEF Took
<1>10. QED
  BY <1>1, <1>8, <1>9

LEMMA FixedFacts ==
  ASSUME kind.gather = "fixed", NEW t \in Txs, NEW r, Free(r)
  PROVE  Took(r, Fixed(r, t), t)
<1> DEFINE items == r.batch \cup {Signed(t, t.uid)}
           r1 == [r EXCEPT !.batch = {}]
           r2 == Sending(r1, items)
           r3 == [r EXCEPT !.batch = items]
<1>1. Fixed(r, t) = IF ~Registered(t) THEN r
                    ELSE IF Cardinality(items) >= BatchSize THEN r2 ELSE r3
  BY DEF Fixed
<1>2. TxIn(items) = TxIn(r.batch) \cup {t} /\ TxIn({}) = {}
  BY SignedFacts DEF TxIn
<1>3. (Registered(t) => Batch(items)) /\ Batch({})
  BY RegisteredItem DEF Batch, Free
<1>4. DOMAIN r1 = WorkFields /\ r1.batch = {}
      /\ \A f \in WorkFields \ {"batch"} : r1[f] = r[f]
  BY DEF Free, WorkFields
<1>5. DOMAIN r3 = WorkFields /\ r3.batch = items
      /\ \A f \in WorkFields \ {"batch"} : r3[f] = r[f]
  BY DEF Free, WorkFields
<1> HIDE DEF r1, items
<1>6. /\ DOMAIN r2 = WorkFields /\ r2.pc = "send" /\ r2.task = Task(items)
      /\ \A f \in WorkFields \ {"pc", "task"} : r2[f] = r1[f]
      /\ InTask(r2.task) = TxIn(items)
      /\ Batch(items) => TaskOk(r2.task)
  BY <1>4, SendingFacts
<1> HIDE DEF r2, r3
<1>7. ASSUME ~Registered(t) PROVE Took(r, r, t)
  BY <1>7 DEF Took, Free, TaskOk, InTask
<1>8. ASSUME Registered(t) PROVE Took(r, r2, t)
  <2>1. r2.batch = {} /\ r2.tx = r.tx /\ r2.last = r.last /\ r2.local = r.local
        /\ r2.lastUID = r.lastUID /\ r2.lastPub = r.lastPub
    BY <1>4, <1>6 DEF WorkFields
  <2>2. QED
    BY <2>1, <1>2, <1>3, <1>6, <1>8, TaskFacts DEF Took, Free
<1>9. ASSUME Registered(t) PROVE Took(r, r3, t)
  <2>1. /\ r3.tx = r.tx /\ r3.last = r.last /\ r3.local = r.local
        /\ r3.lastUID = r.lastUID /\ r3.lastPub = r.lastPub
        /\ r3.pc = r.pc /\ r3.task = Poison
    BY <1>5 DEF WorkFields, Free
  <2>2. QED
    BY <2>1, <1>2, <1>3, <1>5, <1>9 DEF Took, Free, TaskOk, InTask
<1>10. QED
  BY <1>1, <1>7, <1>8, <1>9

LEMMA GatheredFacts ==
  ASSUME NumUsers \in Nat, NEW t \in Txs, t.uid \in Nat, NEW r, Free(r)
  PROVE  Took(r, Gathered(r, t), t)
<1>1. CASE kind.gather = "user"
  BY <1>1, ByUserFacts DEF Gathered
<1>2. CASE kind.gather = "fixed"
  BY <1>2, FixedFacts DEF Gathered
<1>3. CASE kind.gather \notin {"user", "fixed"}
  <2> DEFINE items == {Signed(t, t.uid)}
             r2 == Sending(r, items)
  <2>1. Gathered(r, t) = IF Registered(t) THEN r2 ELSE r
    BY <1>3 DEF Gathered
  <2>2. TxIn(items) = {t} /\ (Registered(t) => Batch(items)) /\ r.batch = {} /\ TxIn({}) = {}
    BY <1>3, SignedFacts, RegisteredItem DEF TxIn, Batch, Free
  <2> HIDE DEF items
  <2>3. /\ DOMAIN r2 = WorkFields /\ r2.pc = "send" /\ r2.task = Task(items)
        /\ \A f \in WorkFields \ {"pc", "task"} : r2[f] = r[f]
        /\ InTask(r2.task) = TxIn(items)
        /\ Batch(items) => TaskOk(r2.task)
    BY SendingFacts DEF Free
  <2> HIDE DEF r2
  <2>4. r2.batch = {} /\ r2.tx = r.tx /\ r2.last = r.last /\ r2.local = r.local
        /\ r2.lastUID = r.lastUID /\ r2.lastPub = r.lastPub
    BY <2>2, <2>3 DEF WorkFields
  <2>5. ASSUME ~Registered(t) PROVE Took(r, r, t)
    BY <2>5 DEF Took, Free, TaskOk, InTask
  <2>6. ASSUME Registered(t) PROVE Took(r, r2, t)
    BY <2>6, <2>2, <2>3, <2>4, TaskFacts DEF Took, Free, Batch
  <2>7. QED
    BY <2>1, <2>5, <2>6
<1>4. QED
  BY <1>1, <1>2, <1>3

\* A whole block: its registered transactions are the task.
LEMMA BlockFacts ==
  ASSUME kind \in AllKinds, kind.blocks, NEW r, Free(r),
         NEW txs, \A t \in ToSet(txs) : t \in Txs
  PROVE  /\ DOMAIN Block(r, txs) = WorkFields
         /\ \A f \in WorkFields \ {"pc", "task", "local"} : Block(r, txs)[f] = r[f]
         /\ Block(r, txs).pc = IF Block(r, txs).task = Poison THEN r.pc ELSE "send"
         /\ TaskOk(Block(r, txs).task)
         /\ IF kind.gather = "count"
            THEN /\ Block(r, txs).task = Poison
                 /\ Block(r, txs).local =
                      r.local + Cardinality({t \in ToSet(txs) : t.uid # NoHeader})
            ELSE /\ Block(r, txs).local = r.local
                 /\ InTask(Block(r, txs).task) = {t \in ToSet(txs) : Registered(t)}
<1> DEFINE items == {Signed(t, t.uid) : t \in {x \in ToSet(txs) : Registered(x)}}
           r2 == Block(r, txs)
           n == Cardinality({t \in ToSet(txs) : t.uid # NoHeader})
           r3 == [r EXCEPT !.local = @ + n]
<1>1. CASE kind.gather = "count"
  <2>1. r2 = r3
    BY <1>1 DEF Block
  <2>2. DOMAIN r3 = WorkFields /\ r3.local = r.local + n
        /\ \A f \in WorkFields \ {"local"} : r3[f] = r[f]
    BY DEF Free, WorkFields
  <2>3. r3.pc = r.pc /\ r3.task = r.task
    BY <2>2 DEF WorkFields
  <2>4. QED
    BY <1>1, <2>1, <2>2, <2>3 DEF TaskOk, Free
<1>2. CASE kind.gather # "count"
  <2>1. r2 = IF kind.empties THEN Sending(r, items) ELSE Flushed(r, items)
    BY <1>2 DEF Block
  <2>2. Batch(items)
    BY RegisteredItem DEF Batch
  <2>3. TxIn(items) = {t \in ToSet(txs) : Registered(t)}
    BY SignedFacts DEF TxIn
  <2> HIDE DEF items
  <2>4. CASE kind.empties
    <3>1. /\ DOMAIN r2 = WorkFields /\ r2.pc = "send" /\ r2.task = Task(items)
          /\ \A f \in WorkFields \ {"pc", "task"} : r2[f] = r[f]
          /\ InTask(r2.task) = TxIn(items) /\ TaskOk(r2.task)
      BY <2>1, <2>2, <2>4, SendingFacts DEF Free
    <3>2. r2.local = r.local
      BY <3>1 DEF WorkFields
    <3>3. QED
      BY <1>2, <2>3, <3>1, <3>2, TaskFacts
  <2>5. CASE ~kind.empties
    <3>1. /\ DOMAIN r2 = WorkFields /\ r2.pc = (IF items = {} THEN r.pc ELSE "send")
          /\ (r2.task = Poison) <=> (items = {})
          /\ \A f \in WorkFields \ {"pc", "task"} : r2[f] = r[f]
          /\ InTask(r2.task) = TxIn(items) /\ TaskOk(r2.task)
      BY <2>1, <2>2, <2>5, FlushedFacts DEF Free
    <3>2. r2.local = r.local
      BY <3>1 DEF WorkFields
    <3>3. QED
      BY <1>2, <2>3, <3>1, <3>2
  <2>6. QED
    BY <2>4, <2>5
<1>3. QED
  BY <1>1, <1>2

-------------------------------------------------------------------------------
(* The states of the goroutines and the channels.                          *)

LEMMA FreeDec ==
  ASSUME NEW r, DecOk(r), r.pc = "take"
  PROVE  Free(r) /\ r.last = FALSE /\ Loose(r) = {} /\ InTask(r.task) = {}
BY DEF DecOk, Free, Looking, Loose, InTask

\* A decoder stays in order while what comes after the last message is nothing.
LEMMA DecStable ==
  ASSUME kind' = kind, given' = given, NEW r, DecOk(r),
         feed = <<>> => feed' = <<>>,
         feed = <<>> /\ rawChan = <<>> => rawChan' = <<>>,
         rawClosed => rawClosed'
  PROVE  DecOk(r)'
<1>1. Txs' = Txs /\ Batch(r.batch)' = Batch(r.batch) /\ TaskOk(r.task)' = TaskOk(r.task)
  BY Rigid
<1>2. QED
  BY <1>1 DEF DecOk

\* What a free decoder becomes with a transaction is in order.
LEMMA TookOk ==
  ASSUME kind \in AllKinds, kind.gather # "count",
         NEW r, NEW r2, NEW t \in Txs, Took(r, r2, t),
         r.pc = "take", r.last = FALSE, r.local \in Nat
  PROVE  DecOk(r2)
BY DEF Took, DecOk, Looking

LEMMA NotDone ==
  ASSUME StateInv, NEW d \in Decoders, dec[d].pc # "exit"
  PROVE  /\ ~DecodersDone /\ main = "waitD" /\ ~queueClosed
         /\ \A i \in 1 .. Len(queue) : queue[i] # Poison
         /\ \A v \in Verifiers : ver[v].pc # "exit"
BY DEF StateInv, DecodersDone, MainInv, QueueInv, VerOk

\* A decoder does something, and leaves the queue alone.
LEMMA DecoderState ==
  ASSUME StateInv, NEW d \in Decoders, dec[d].pc # "exit",
         NEW r2, dec' = [dec EXCEPT ![d] = r2], DecOk(r2)',
         UNCHANGED <<kind, given, feed, rawClosed, queue, queueClosed, ver, main>>,
         FeedInv', CacheInv', rawChan = <<>> => rawChan' = <<>>
  PROVE  StateInv'
<1>1. /\ ~DecodersDone /\ main = "waitD" /\ ~queueClosed
      /\ \A i \in 1 .. Len(queue) : queue[i] # Poison
      /\ \A v \in Verifiers : ver[v].pc # "exit"
  BY NotDone
<1>2. InputInv' /\ \A x : TaskOk(x)' = TaskOk(x)
  BY Rigid DEF StateInv
<1>3. QueueInv'
  BY <1>1, <1>2 DEF StateInv, QueueInv
<1>4. MainInv'
  BY <1>1 DEF MainInv
<1>5. ASSUME NEW e \in Decoders, NEW x, dec'[e] = x PROVE DecOk(x)'
  <2>1. CASE e = d /\ d \in DOMAIN dec
    BY <1>5, <2>1
  <2>2. CASE e # d \/ d \notin DOMAIN dec
    <3>1. x = dec[e]
      BY <1>5, <2>2
    <3>2. DecOk(x)
      BY <3>1 DEF StateInv
    <3>3. QED
      BY <3>2, DecStable
  <2>3. QED
    BY <2>1, <2>2
<1>6. ASSUME NEW v \in Verifiers, NEW x, ver'[v] = x PROVE VerOk(x)'
  <2>1. VerOk(x) /\ x.pc # "exit"
    BY <1>1, <1>6 DEF StateInv
  <2>2. QED
    BY <1>2, <2>1 DEF VerOk
<1>7. QED
  BY <1>2, <1>3, <1>4, <1>5, <1>6 DEF StateInv

\* The feeder moves the first message on.
LEMMA FeedMoves ==
  ASSUME StateInv, Feed
  PROVE  FeedInv' /\ Decoded' = Decoded
<1>1. /\ feed \in Seq(Message) /\ rawChan \in Seq(Message) /\ given \in Seq(Message)
      /\ feed # <<>> /\ given' = given /\ feed' = Tail(feed)
      /\ rawChan' = Append(rawChan, Head(feed))
  BY DEF StateInv, FeedInv, InputInv, Feed
<1>2. /\ feed' \in Seq(Message) /\ rawChan' \in Seq(Message)
      /\ Len(feed') = Len(feed) - 1 /\ Len(rawChan') = Len(rawChan) + 1
      /\ \A i \in 1 .. Len(feed') : feed'[i] = feed[i + 1]
      /\ \A i \in 1 .. Len(rawChan) : rawChan'[i] = rawChan[i]
      /\ rawChan'[Len(rawChan) + 1] = feed[1]
      /\ Len(feed) \in Nat \ {0} /\ Len(rawChan) \in Nat /\ Len(given) \in Nat
  BY <1>1
<1>3. Decoded' = Decoded
  BY <1>1, <1>2 DEF Decoded
<1>4. \A i \in 1 .. Len(rawChan') : rawChan'[i] = given[Decoded + i]
  <2> TAKE i \in 1 .. Len(rawChan')
  <2>1. CASE i \in 1 .. Len(rawChan)
    BY <1>2, <2>1 DEF StateInv, FeedInv
  <2>2. CASE i = Len(rawChan) + 1
    <3>1. feed[1] = given[Decoded + Len(rawChan) + 1]
      BY <1>2 DEF StateInv, FeedInv
    <3>2. Decoded + Len(rawChan) + 1 = Decoded + i
      BY <1>2, <2>2 DEF Decoded
    <3>3. QED
      BY <1>2, <2>2, <3>1, <3>2
  <2>3. QED
    BY <1>2, <2>1, <2>2
<1>5. \A i \in 1 .. Len(feed') : feed'[i] = given[Decoded + Len(rawChan') + i]
  <2> TAKE i \in 1 .. Len(feed')
  <2>1. i + 1 \in 1 .. Len(feed) /\ feed'[i] = feed[i + 1]
    BY <1>2
  <2>2. feed[i + 1] = given[Decoded + Len(rawChan) + (i + 1)]
    BY <2>1 DEF StateInv, FeedInv
  <2>3. Decoded + Len(rawChan) + (i + 1) = Decoded + Len(rawChan') + i
    BY <1>2 DEF Decoded
  <2>4. QED
    BY <2>1, <2>2, <2>3
<1>6. (rawClosed => feed = <<>>) /\ rawClosed' = rawClosed /\ Decoded >= 0
  BY DEF StateInv, FeedInv, Feed
<1>7. QED
  BY <1>1, <1>2, <1>3, <1>4, <1>5, <1>6 DEF FeedInv

\* A decoder takes the next message of the input.
LEMMA DecodeMoves ==
  ASSUME StateInv, rawChan # <<>>, rawChan' = Tail(rawChan),
         UNCHANGED <<given, feed, rawClosed>>
  PROVE  /\ FeedInv' /\ Decoded' = Decoded + 1
         /\ Decoded + 1 \in DOMAIN given /\ given[Decoded + 1] = Head(rawChan)
         /\ Head(rawChan) \in Message /\ Decoded \in Nat
<1>1. /\ feed \in Seq(Message) /\ rawChan \in Seq(Message) /\ given \in Seq(Message)
  BY DEF StateInv, FeedInv, InputInv
<1>2. /\ rawChan' \in Seq(Message) /\ Len(rawChan') = Len(rawChan) - 1
      /\ \A i \in 1 .. Len(rawChan') : rawChan'[i] = rawChan[i + 1]
      /\ Len(feed) \in Nat /\ Len(rawChan) \in Nat \ {0} /\ Len(given) \in Nat
      /\ Head(rawChan) = rawChan[1] /\ Head(rawChan) \in Message
      /\ DOMAIN given = 1 .. Len(given)
  BY <1>1
<1>3. Decoded' = Decoded + 1 /\ Decoded \in Int /\ Decoded >= 0
  BY <1>2 DEF Decoded, StateInv, FeedInv
<1>4. Decoded + 1 \in DOMAIN given /\ given[Decoded + 1] = Head(rawChan)
  <2>1. Decoded + 1 <= Len(given)
    BY <1>2 DEF Decoded
  <2>2. rawChan[1] = given[Decoded + 1]
    BY <1>2 DEF StateInv, FeedInv
  <2>3. QED
    BY <1>2, <1>3, <2>1, <2>2
<1>5. \A i \in 1 .. Len(rawChan') : rawChan'[i] = given[Decoded' + i]
  <2> TAKE i \in 1 .. Len(rawChan')
  <2>1. i + 1 \in 1 .. Len(rawChan) /\ rawChan'[i] = rawChan[i + 1]
    BY <1>2
  <2>2. rawChan[i + 1] = given[Decoded + (i + 1)]
    BY <2>1 DEF StateInv, FeedInv
  <2>3. Decoded + (i + 1) = Decoded' + i
    BY <1>3
  <2>4. QED
    BY <2>1, <2>2, <2>3
<1>6. \A i \in 1 .. Len(feed) : feed[i] = given[Decoded' + Len(rawChan') + i]
  <2> TAKE i \in 1 .. Len(feed)
  <2>1. feed[i] = given[Decoded + Len(rawChan) + i]
    BY DEF StateInv, FeedInv
  <2>2. Decoded + Len(rawChan) + i = Decoded' + Len(rawChan') + i
    BY <1>2, <1>3
  <2>3. QED
    BY <2>1, <2>2
<1>7. FeedInv'
  BY <1>1, <1>2, <1>3, <1>5, <1>6 DEF FeedInv, StateInv
<1>8. QED
  BY <1>2, <1>3, <1>4, <1>7

\* What a decoder makes of a message m.
DecodeCases(r, r2, m) ==
    \/ Carried(m) = {} /\ r2 = r
    \/ Carried(m) = {} /\ kind.dedup = "bloom" /\ r2 = [r EXCEPT !.pc = "exit"]
    \/ kind.blocks /\ Carried(m) = ToSet(m.txs) /\ r2 = Block(r, m.txs)
    \/ ~kind.blocks /\ \E t \in Txs :
        /\ Carried(m) = {t}
        /\ \/ t.uid = NoHeader /\ r2 = r
           \/ (kind.dedup = "no" \/ t.oid = NoOrder) /\ Took(r, r2, t)
           \/ /\ kind.dedup # "no" /\ t.oid \in OrderIds /\ t.uid # NoHeader
              /\ r2 = [r EXCEPT !.pc = "check", !.tx = t]

LEMMA DecodeResult ==
  ASSUME StateInv, BenchAssumption, InputAssumption, NEW d \in Decoders, Decode(d)
  PROVE  \E r2 : dec' = [dec EXCEPT ![d] = r2]
                 /\ DecodeCases(dec[d], r2, given[Decoded + 1])
<1> DEFINE m == Head(rawChan)
           r == dec[d]
           r2 == CASE m.form = "unscannable" /\ kind.dedup = "bloom" -> [r EXCEPT !.pc = "exit"]
                   [] m.form = "good" /\ kind.blocks -> Block(r, m.txs)
                   [] m.form = "good" /\ ~kind.blocks -> Single(r, m.txs[1])
                   [] OTHER -> r
<1>1. /\ dec' = [dec EXCEPT ![d] = r2] /\ r.pc = "take" /\ DecOk(r)
      /\ rawChan # <<>> /\ rawChan' = Tail(rawChan)
      /\ UNCHANGED <<given, feed, rawClosed>>
  BY DEF Decode, StateInv
<1>2. /\ Decoded + 1 \in DOMAIN given /\ given[Decoded + 1] = m /\ m \in Message
  BY <1>1, DecodeMoves
<1>3. Free(r)
  BY <1>1, FreeDec
<1> HIDE DEF r
<1>4. m.form # "good" => Carried(m) = {}
  BY DEF Carried
<1>5. CASE m.form = "unscannable" /\ kind.dedup = "bloom"
  <2>1. r2 = [r EXCEPT !.pc = "exit"]
    BY <1>5
  <2>2. DecodeCases(r, r2, m)
    BY <1>4, <1>5, <2>1 DEF DecodeCases
  <2>3. QED
    BY <1>1, <1>2, <2>2 DEF r
<1>6. CASE m.form = "good" /\ kind.blocks
  <2>1. r2 = Block(r, m.txs) /\ Carried(m) = ToSet(m.txs)
    BY <1>6 DEF Carried
  <2>2. DecodeCases(r, r2, m)
    BY <1>6, <2>1 DEF DecodeCases
  <2>3. QED
    BY <1>1, <1>2, <2>2 DEF r
<1>7. CASE m.form = "good" /\ ~kind.blocks
  <2> DEFINE t == m.txs[1]
  <2>1. r2 = Single(r, t)
    BY <1>7
  <2>2. Len(m.txs) = 1 /\ m.txs \in Seq(Transaction)
    BY <1>2, <1>7 DEF StateInv, InputInv, ToSet, Message
  <2>3. ToSet(m.txs) = {t} /\ t \in Transaction
    BY <2>2 DEF ToSet
  <2>4. Carried(m) = {t} /\ t \in Txs
    <3>1. Carried(m) = {t}
      BY <1>7, <2>3 DEF Carried
    <3>2. QED
      BY <3>1, <1>2, InputTxs DEF StateInv, InputInv
  <2> HIDE DEF r2, t
  <2>5. t.uid \in Nat \cup {NoHeader} /\ t.oid \in OrderIds \cup {NoOrder}
    BY <2>3 DEF Transaction
  <2>6. DecodeCases(r, r2, m)
    <3>1. CASE t.uid = NoHeader
      BY <3>1, <1>7, <2>1, <2>4 DEF Single, DecodeCases
    <3>2. CASE t.uid # NoHeader /\ (kind.dedup = "no" \/ t.oid = NoOrder)
      <4>1. Took(r, Gathered(r, t), t)
        BY <1>3, <2>4, <2>5, <3>2, GatheredFacts DEF BenchAssumption
      <4>2. QED
        BY <3>2, <4>1, <1>7, <2>1, <2>4 DEF Single, DecodeCases
    <3>3. CASE t.uid # NoHeader /\ kind.dedup # "no" /\ t.oid # NoOrder
      BY <3>3, <1>7, <2>1, <2>4, <2>5 DEF Single, DecodeCases
    <3>4. QED
      BY <3>1, <3>2, <3>3
  <2>7. QED
    BY <1>1, <1>2, <2>6 DEF r
<1>8. CASE m.form # "good" /\ ~(m.form = "unscannable" /\ kind.dedup = "bloom")
  <2>1. r2 = r
    BY <1>8
  <2>2. DecodeCases(r, r2, m)
    BY <1>4, <1>8, <2>1 DEF DecodeCases
  <2>3. QED
    BY <1>1, <1>2, <2>2 DEF r
<1>9. QED
  BY <1>5, <1>6, <1>7, <1>8

LEMMA DecodeState ==
  ASSUME StateInv, BenchAssumption, InputAssumption, NEW d \in Decoders, Decode(d)
  PROVE  StateInv'
<1>1. /\ dec[d].pc = "take" /\ DecOk(dec[d])
      /\ rawChan # <<>> /\ rawChan' = Tail(rawChan)
      /\ UNCHANGED <<kind, given, feed, rawClosed, queue, queueClosed, ver, main,
                     dedupVars, globalTime>>
  BY DEF Decode, StateInv
<1>2. FeedInv' /\ Decoded + 1 \in DOMAIN given
  BY <1>1, DecodeMoves
<1>3. CacheInv'
  BY <1>1 DEF CacheInv, StateInv, dedupVars
<1>4. PICK r2 : dec' = [dec EXCEPT ![d] = r2] /\ DecodeCases(dec[d], r2, given[Decoded + 1])
  BY DecodeResult
<1>5. PICK r : r = dec[d]
  OBVIOUS
<1>6. Free(r) /\ r.last = FALSE /\ r.pc = "take" /\ DecOk(r) /\ r.local \in Nat
  BY <1>1, <1>5, FreeDec DEF DecOk
<1>7. PICK m : m = given[Decoded + 1]
  OBVIOUS
<1>8. DecodeCases(r, r2, m) /\ \A t \in Carried(m) : t \in Txs
  BY <1>2, <1>4, <1>5, <1>7, InputTxs DEF StateInv, InputInv
<1>9. Sort(kind) /\ kind \in AllKinds
  BY KindFacts DEF StateInv, InputInv
<1>10. DecOk(r2)
  <2>1. CASE r2 = r
    BY <2>1, <1>6
  <2>2. CASE kind.dedup = "bloom" /\ r2 = [r EXCEPT !.pc = "exit"]
    <3>1. DOMAIN r2 = WorkFields /\ r2.pc = "exit"
          /\ r2.batch = r.batch /\ r2.task = r.task /\ r2.last = r.last
          /\ r2.local = r.local /\ r2.lastUID = r.lastUID /\ r2.lastPub = r.lastPub
      BY <2>2, <1>6 DEF Free, WorkFields
    <3>2. r2.batch = {}
      BY <3>1, <2>2, <1>6, <1>9 DEF Sort, Free
    <3>3. QED
      BY <3>1, <3>2, <1>6, <2>2 DEF DecOk, Looking, Free
  <2>3. CASE kind.blocks /\ Carried(m) = ToSet(m.txs) /\ r2 = Block(r, m.txs)
    <3>1. /\ DOMAIN r2 = WorkFields
          /\ \A f \in WorkFields \ {"pc", "task", "local"} : r2[f] = r[f]
          /\ r2.pc = IF r2.task = Poison THEN r.pc ELSE "send"
          /\ TaskOk(r2.task)
          /\ kind.gather = "count" => r2.task = Poison
          /\ kind.gather = "count" =>
                r2.local = r.local + Cardinality({t \in Carried(m) : t.uid # NoHeader})
          /\ kind.gather # "count" => r2.local = r.local
      <4>1. PICK txs : txs = m.txs
        OBVIOUS
      <4>2. \A t \in ToSet(txs) : t \in Txs
        BY <4>1, <2>3, <1>8
      <4>3. /\ DOMAIN Block(r, txs) = WorkFields
            /\ \A f \in WorkFields \ {"pc", "task", "local"} : Block(r, txs)[f] = r[f]
            /\ Block(r, txs).pc = IF Block(r, txs).task = Poison THEN r.pc ELSE "send"
            /\ TaskOk(Block(r, txs).task)
            /\ IF kind.gather = "count"
               THEN /\ Block(r, txs).task = Poison
                    /\ Block(r, txs).local =
                         r.local + Cardinality({t \in ToSet(txs) : t.uid # NoHeader})
               ELSE Block(r, txs).local = r.local
        BY ZenonT(60), <4>2, <2>3, <1>6, <1>9, BlockFacts
      <4>4. Carried(m) = ToSet(txs) /\ r2 = Block(r, txs)
        BY <4>1, <2>3
      <4>5. QED
        BY <4>3, <4>4
    <3>2. /\ r2.batch = r.batch /\ r2.last = r.last
          /\ r2.lastUID = r.lastUID /\ r2.lastPub = r.lastPub
      BY <3>1 DEF WorkFields
    <3>3. Cardinality({t \in Carried(m) : t.uid # NoHeader}) \in Nat
      <4>1. {t \in Carried(m) : t.uid # NoHeader} \in SUBSET Txs
        BY <1>8
      <4>2. QED
        BY <4>1, InputTxs, FS_Subset, FS_CardinalityType DEF StateInv, InputInv
    <3>4. r2.local \in Nat
      BY <3>1, <3>3, <1>6
    <3>5. QED
      BY <3>1, <3>2, <3>4, <1>6 DEF DecOk, Looking, Free
  <2>4. ASSUME NEW t \in Txs, ~kind.blocks, Took(r, r2, t) PROVE DecOk(r2)
    BY <2>4, <1>6, <1>9, TookOk DEF Sort
  <2>5. ASSUME NEW t \in Txs, kind.dedup # "no", t.oid \in OrderIds, t.uid # NoHeader,
               r2 = [r EXCEPT !.pc = "check", !.tx = t]
        PROVE  DecOk(r2)
    <3>1. DOMAIN r2 = WorkFields /\ r2.pc = "check" /\ r2.tx = t
          /\ r2.batch = r.batch /\ r2.task = r.task /\ r2.last = r.last
          /\ r2.local = r.local /\ r2.lastUID = r.lastUID /\ r2.lastPub = r.lastPub
      BY <2>5, <1>6 DEF Free, WorkFields
    <3>2. r2.batch = {}
      BY <3>1, <2>5, <1>6, <1>9 DEF Sort, Free
    <3>3. QED
      BY <3>1, <3>2, <1>6, <2>5 DEF DecOk, Looking, Free
  <2>6. QED
    BY <1>8, <2>1, <2>2, <2>3, <2>4, <2>5 DEF DecodeCases
<1>11. DecOk(r2)'
  <2>1. rawChan # <<>> /\ ~r2.last
    <3>1. r2.last => rawChan = <<>>
      BY <1>10 DEF DecOk
    <3>2. QED
      BY <3>1, <1>1
  <2>2. QED
    BY <1>1, <1>10, <2>1, DecStable
<1>12. QED
  BY <1>1, <1>2, <1>3, <1>4, <1>11, DecoderState

-------------------------------------------------------------------------------
(* The check of an order id.                                               *)

LEMMA LookingFacts ==
  ASSUME StateInv, NEW d \in Decoders, NEW r, r = dec[d], r.pc \in Looking
  PROVE  /\ DecOk(r) /\ DOMAIN r = WorkFields
         /\ r.tx \in Txs /\ r.tx \in Transaction /\ r.tx.uid \in Nat
         /\ r.tx.oid \in OrderIds
         /\ kind.dedup # "no" /\ kind.gather = "each" /\ Sort(kind) /\ kind \in AllKinds
         /\ r.batch = {} /\ r.task = Poison /\ r.last = FALSE /\ r.local \in Nat
         /\ Loose(r) = {r.tx} /\ InTask(r.task) = {}
         /\ r.lastUID # 0 => r.lastUID \in 1 .. NumUsers /\ r.lastPub = r.lastUID
<1>1. DecOk(r)
  BY DEF StateInv
<1>2. r.tx \in Txs /\ r.tx \in Transaction
  BY <1>1, InputTxs DEF DecOk, StateInv, InputInv
<1>3. r.tx.uid \in Nat \cup {NoHeader} /\ r.tx.uid # NoHeader
  BY <1>1, <1>2 DEF DecOk, Transaction
<1>4. kind.dedup # "no" /\ Sort(kind) /\ kind \in AllKinds
  BY <1>1, KindFacts DEF DecOk, StateInv, InputInv
<1>5. kind.gather = "each"
  BY <1>4 DEF Sort
<1>6. r.task = Poison
  BY <1>1 DEF DecOk, Looking
<1>7. r.last = FALSE
  BY <1>1 DEF DecOk
<1>8. Loose(r) = {r.tx}
  BY DEF Loose
<1>9. InTask(r.task) = {}
  BY <1>6 DEF InTask
<1>10. QED
  BY <1>1, <1>2, <1>3, <1>4, <1>5, <1>6, <1>7, <1>8, <1>9 DEF DecOk

\* What becomes of decoder state r with a transaction when the check is over.
CheckedCases(r, r2, dup) ==
    /\ DecOk(r2) /\ r2.pc \notin Looking
    /\ r2.batch = {} /\ r2.last = FALSE /\ r2.local = r.local
    /\ InTask(r2.task) \subseteq {r.tx}
    /\ dup => r2.task = Poison
    /\ ~dup /\ Registered(r.tx) => InTask(r2.task) = {r.tx}

LEMMA CheckedResult ==
  ASSUME StateInv, BenchAssumption, NEW d \in Decoders, dec[d].pc \in Looking,
         NEW dup \in BOOLEAN, Checked(d, dup)
  PROVE  \E r2 : dec' = [dec EXCEPT ![d] = r2] /\ CheckedCases(dec[d], r2, dup)
<1>1. PICK r : r = dec[d]
  OBVIOUS
<1>2. /\ DecOk(r) /\ DOMAIN r = WorkFields
      /\ r.tx \in Txs /\ r.tx.uid \in Nat
      /\ kind.dedup # "no" /\ kind.gather = "each" /\ kind \in AllKinds
      /\ r.batch = {} /\ r.task = Poison /\ r.last = FALSE /\ r.local \in Nat
      /\ r.lastUID # 0 => r.lastUID \in 1 .. NumUsers /\ r.lastPub = r.lastUID
  BY <1>1, LookingFacts
<1> DEFINE r0 == [r EXCEPT !.tx = <<>>, !.pc = "take"]
           r2 == CASE ~dup -> Gathered(r0, r.tx)
                   [] dup /\ kind.dedup = "bloom" -> [r0 EXCEPT !.pc = "exit"]
                   [] OTHER -> r0
<1>3. dec' = [dec EXCEPT ![d] = r2]
  BY <1>1 DEF Checked
<1>4. /\ DOMAIN r0 = WorkFields /\ r0.pc = "take" /\ r0.batch = {} /\ r0.task = Poison
      /\ r0.last = FALSE /\ r0.local = r.local
      /\ r0.lastUID = r.lastUID /\ r0.lastPub = r.lastPub
  BY <1>2 DEF WorkFields
<1>5. Free(r0) /\ r0.local \in Nat /\ TxIn(r0.batch) = {}
  BY <1>2, <1>4 DEF Free, Batch, TxIn
<1> HIDE DEF r0
<1>6. CheckedCases(r, r2, dup)
  <2>1. CASE ~dup
    <3>1. r2 = Gathered(r0, r.tx)
      BY <2>1
    <3> HIDE DEF r2
    <3>2. Took(r0, r2, r.tx)
      BY <3>1, <1>2, <1>5, GatheredFacts DEF BenchAssumption
    <3>3. DecOk(r2)
      BY <3>2, <1>2, <1>4, <1>5, TookOk
    <3>4. r2.pc \in {"take", "send"} /\ r2.batch = {} /\ r2.last = FALSE
          /\ r2.local = r.local /\ InTask(r2.task) \subseteq {r.tx}
          /\ (Registered(r.tx) => InTask(r2.task) = {r.tx})
      BY <3>2, <1>2, <1>4, <1>5 DEF Took, TxIn
    <3>5. QED
      BY <2>1, <3>3, <3>4 DEF CheckedCases, Looking
  <2>2. CASE dup /\ kind.dedup = "bloom"
    <3>1. r2 = [r0 EXCEPT !.pc = "exit"]
      BY <2>2
    <3> HIDE DEF r2
    <3>2. /\ DOMAIN r2 = WorkFields /\ r2.pc = "exit" /\ r2.batch = {} /\ r2.task = Poison
          /\ r2.last = FALSE /\ r2.local = r.local
          /\ r2.lastUID = r.lastUID /\ r2.lastPub = r.lastPub
      BY <3>1, <1>4 DEF WorkFields
    <3>3. DecOk(r2) /\ r2.pc \notin Looking /\ InTask(r2.task) = {}
      BY <3>2, <2>2, <1>2 DEF DecOk, Looking, Batch, TaskOk, InTask
    <3>4. QED
      BY <2>2, <3>2, <3>3 DEF CheckedCases
  <2>3. CASE dup /\ kind.dedup # "bloom"
    <3>1. r2 = r0
      BY <2>3
    <3> HIDE DEF r2
    <3>2. DecOk(r0) /\ r0.pc \notin Looking /\ InTask(r0.task) = {}
      BY <1>2, <1>4 DEF DecOk, Looking, Batch, TaskOk, InTask
    <3>3. QED
      BY <2>3, <3>1, <3>2, <1>4 DEF CheckedCases
  <2>4. QED
    BY <2>1, <2>2, <2>3
<1> HIDE DEF r2
<1>7. QED
  BY <1>1, <1>3, <1>6

\* A step of the check keeps everything in order.
LEMMA CheckState ==
  ASSUME StateInv, NEW d \in Decoders, dec[d].pc \in Looking,
         NEW r2, dec' = [dec EXCEPT ![d] = r2], DecOk(r2),
         UNCHANGED <<kind, given, channels, ver, main>>, CacheInv'
  PROVE  StateInv'
<1>1. UNCHANGED <<feed, rawChan, rawClosed, queue, queueClosed>>
  BY DEF channels
<1>2. FeedInv'
  BY <1>1 DEF StateInv, FeedInv, Decoded
<1>3. DecOk(r2)'
  BY <1>1, DecStable
<1>4. dec[d].pc # "exit"
  BY DEF Looking
<1>5. QED
  BY <1>1, <1>2, <1>3, <1>4, DecoderState

\* The decoder keeps the transaction in hand, hands it on or drops it.
CheckCases(r, r2) ==
    /\ r2.batch = {} /\ r2.last = FALSE /\ r2.local = r.local
    /\ Loose(r2) \subseteq {r.tx} /\ InTask(r2.task) \subseteq {r.tx}
    /\ Loose(r2) = {} \/ InTask(r2.task) = {}

LEMMA CheckTimeState ==
  ASSUME StateInv, NEW d \in Decoders, CheckTime(d)
  PROVE  /\ StateInv'
         /\ \E r2 : /\ dec' = [dec EXCEPT ![d] = r2] /\ CheckCases(dec[d], r2)
                    /\ InTask(r2.task) = {}
                    /\ IsValidUUIDv7(dec[d].tx) => Loose(r2) = {dec[d].tx}
<1>1. PICK r : r = dec[d]
  OBVIOUS
<1>2. r.pc = "check" /\ r.pc \in Looking
  BY <1>1 DEF CheckTime, Looking
<1>3. /\ DecOk(r) /\ DOMAIN r = WorkFields
      /\ r.tx \in Txs /\ r.tx.uid \in Nat /\ r.tx.oid \in OrderIds
      /\ kind.dedup \in {"set", "bloom", "flat"}
      /\ r.batch = {} /\ r.task = Poison /\ r.last = FALSE /\ r.local \in Nat
      /\ r.lastUID # 0 => r.lastUID \in 1 .. NumUsers /\ r.lastPub = r.lastUID
  BY <1>1, <1>2, LookingFacts DEF Sort
<1> DEFINE ra == [r EXCEPT !.pc = kind.dedup]
           rb == [r EXCEPT !.pc = "take", !.tx = <<>>]
<1>4. dec' = [dec EXCEPT ![d] = IF IsValidUUIDv7(r.tx) THEN ra ELSE rb]
  BY <1>1 DEF CheckTime, StateInv
<1>5. /\ UNCHANGED <<kind, given, channels, ver, main>> /\ CacheInv'
  BY DEF CheckTime, CacheInv, StateInv
<1>6. CASE IsValidUUIDv7(r.tx)
  <2>1. dec' = [dec EXCEPT ![d] = ra]
    BY <1>4, <1>6
  <2>2. /\ DOMAIN ra = WorkFields /\ ra.pc = kind.dedup /\ ra.tx = r.tx
        /\ ra.batch = {} /\ ra.task = Poison /\ ra.last = FALSE /\ ra.local = r.local
        /\ ra.lastUID = r.lastUID /\ ra.lastPub = r.lastPub
    BY <1>3 DEF WorkFields
  <2> HIDE DEF ra
  <2>3. ra.pc \in Looking
    BY <1>3, <2>2 DEF Looking
  <2>4. DecOk(ra)
    BY <1>2, <1>3, <2>2, <2>3 DEF DecOk, Looking
  <2>5. Loose(ra) = {r.tx} /\ InTask(ra.task) = {}
    BY <2>2, <2>3 DEF Loose, InTask
  <2>6. StateInv'
    BY <1>1, <1>2, <1>5, <2>1, <2>4, CheckState
  <2>7. QED
    BY <1>1, <2>1, <2>2, <2>5, <2>6 DEF CheckCases
<1>7. CASE ~IsValidUUIDv7(r.tx)
  <2>1. dec' = [dec EXCEPT ![d] = rb]
    BY <1>4, <1>7
  <2>2. /\ DOMAIN rb = WorkFields /\ rb.pc = "take"
        /\ rb.batch = {} /\ rb.task = Poison /\ rb.last = FALSE /\ rb.local = r.local
        /\ rb.lastUID = r.lastUID /\ rb.lastPub = r.lastPub
    BY <1>3 DEF WorkFields
  <2> HIDE DEF rb
  <2>3. rb.pc \notin Looking
    BY <2>2 DEF Looking
  <2>4. DecOk(rb)
    BY <1>2, <1>3, <2>2, <2>3 DEF DecOk, Looking
  <2>5. Loose(rb) = {} /\ InTask(rb.task) = {}
    BY <2>2, <2>3 DEF Loose, InTask
  <2>6. StateInv'
    BY <1>1, <1>2, <1>5, <2>1, <2>4, CheckState
  <2>7. QED
    BY <1>1, <1>7, <2>1, <2>2, <2>5, <2>6 DEF CheckCases
<1>8. QED
  BY <1>6, <1>7

\* The duplicate check is over.
CheckDone(r, r2, dup) ==
    /\ CheckCases(r, r2) /\ Loose(r2) = {}
    /\ dup => InTask(r2.task) = {}
    /\ ~dup /\ Registered(r.tx) => InTask(r2.task) = {r.tx}

LEMMA CheckedDone ==
  ASSUME StateInv, BenchAssumption, NEW d \in Decoders, dec[d].pc \in Looking,
         NEW dup \in BOOLEAN, Checked(d, dup),
         UNCHANGED <<kind, given, channels, ver, main>>, CacheInv'
  PROVE  /\ StateInv'
         /\ \E r2 : dec' = [dec EXCEPT ![d] = r2] /\ CheckDone(dec[d], r2, dup)
<1>1. PICK r2 : dec' = [dec EXCEPT ![d] = r2] /\ CheckedCases(dec[d], r2, dup)
  BY CheckedResult
<1>2. StateInv'
  BY <1>1, CheckState DEF CheckedCases
<1>3. Loose(r2) = {} /\ (dup => InTask(r2.task) = {})
  BY <1>1 DEF CheckedCases, Loose, InTask
<1>4. CheckDone(dec[d], r2, dup)
  BY <1>1, <1>3 DEF CheckedCases, CheckDone, CheckCases
<1>5. QED
  BY <1>1, <1>2, <1>4

LEMMA SeenReadState ==
  ASSUME StateInv, BenchAssumption, NEW d \in Decoders, SeenRead(d)
  PROVE  /\ StateInv'
         /\ \E r2 : /\ dec' = [dec EXCEPT ![d] = r2] /\ CheckCases(dec[d], r2)
                    /\ InTask(r2.task) = {}
                    /\ dec[d].tx.oid \notin orderCache => Loose(r2) = {dec[d].tx}
<1>1. PICK r : r = dec[d]
  OBVIOUS
<1>2. r.pc \in {"set", "bloom"} /\ r.pc \in Looking
  BY <1>1 DEF SeenRead, Looking
<1>3. /\ UNCHANGED <<kind, given, channels, ver, main>> /\ CacheInv'
  BY DEF SeenRead, CacheInv, StateInv
<1>4. CASE r.tx.oid \in orderCache
  <2>1. Checked(d, TRUE)
    BY <1>1, <1>4 DEF SeenRead
  <2>2. StateInv' /\ \E r2 : dec' = [dec EXCEPT ![d] = r2] /\ CheckDone(dec[d], r2, TRUE)
    BY <2>1, <1>1, <1>2, <1>3, CheckedDone
  <2>3. PICK r2 : dec' = [dec EXCEPT ![d] = r2] /\ CheckDone(dec[d], r2, TRUE)
    BY <2>2
  <2>4. QED
    BY <1>1, <1>4, <2>2, <2>3 DEF CheckDone
<1>5. CASE r.tx.oid \notin orderCache
  <2> DEFINE r2 == [r EXCEPT !.pc = "add"]
  <2>1. dec' = [dec EXCEPT ![d] = r2]
    BY <1>1, <1>5 DEF SeenRead, StateInv
  <2>2. /\ DecOk(r) /\ DOMAIN r = WorkFields
        /\ r.batch = {} /\ r.task = Poison /\ r.last = FALSE /\ r.local \in Nat
        /\ r.lastUID # 0 => r.lastUID \in 1 .. NumUsers /\ r.lastPub = r.lastUID
    BY <1>1, <1>2, LookingFacts
  <2>3. kind.dedup \in {"set", "bloom"}
    BY <1>2, <2>2 DEF DecOk
  <2>4. /\ DOMAIN r2 = WorkFields /\ r2.pc = "add" /\ r2.tx = r.tx
        /\ r2.batch = {} /\ r2.task = Poison /\ r2.last = FALSE /\ r2.local = r.local
        /\ r2.lastUID = r.lastUID /\ r2.lastPub = r.lastPub
    BY <2>2 DEF WorkFields
  <2> HIDE DEF r2
  <2>5. DecOk(r2) /\ r2.pc \in Looking
    BY <1>2, <2>2, <2>3, <2>4 DEF DecOk, Looking
  <2>6. Loose(r2) = {r.tx} /\ InTask(r2.task) = {}
    BY <2>4, <2>5 DEF Loose, InTask
  <2>7. StateInv'
    BY <1>1, <1>2, <1>3, <2>1, <2>5, CheckState
  <2>8. QED
    BY <1>1, <2>1, <2>4, <2>6, <2>7 DEF CheckCases
<1>6. QED
  BY <1>4, <1>5

LEMMA SeenAddState ==
  ASSUME StateInv, BenchAssumption, NEW d \in Decoders, SeenAdd(d)
  PROVE  /\ StateInv'
         /\ \E r2 : /\ dec' = [dec EXCEPT ![d] = r2]
                    /\ CheckDone(dec[d], r2, dec[d].tx.oid \in orderCache)
<1>1. PICK r : r = dec[d]
  OBVIOUS
<1>2. r.pc = "add" /\ r.pc \in Looking
  BY <1>1 DEF SeenAdd, Looking
<1>3. r.tx.oid \in OrderIds
  BY <1>1, <1>2, LookingFacts
<1>4. /\ UNCHANGED <<kind, given, channels, ver, main>> /\ CacheInv'
  BY <1>1, <1>3 DEF SeenAdd, CacheInv, StateInv
<1>5. CASE (r.tx.oid \in orderCache) = TRUE
  <2>1. Checked(d, TRUE)
    BY <1>1, <1>5 DEF SeenAdd
  <2>2. /\ StateInv'
        /\ \E r2 : dec' = [dec EXCEPT ![d] = r2] /\ CheckDone(dec[d], r2, TRUE)
    BY <2>1, <1>1, <1>2, <1>4, CheckedDone
  <2>3. QED
    BY <2>2, <1>1, <1>5
<1>6. CASE (r.tx.oid \in orderCache) = FALSE
  <2>1. Checked(d, FALSE)
    BY <1>1, <1>6 DEF SeenAdd
  <2>2. /\ StateInv'
        /\ \E r2 : dec' = [dec EXCEPT ![d] = r2] /\ CheckDone(dec[d], r2, FALSE)
    BY <2>1, <1>1, <1>2, <1>4, CheckedDone
  <2>3. QED
    BY <2>2, <1>1, <1>6
<1>7. (r.tx.oid \in orderCache) = TRUE \/ (r.tx.oid \in orderCache) = FALSE
  OBVIOUS
<1>8. QED
  BY <1>5, <1>6, <1>7

LEMMA LeastIndex ==
  ASSUME NEW S, S \subseteq Nat, S # {}
  PROVE  LET least == CHOOSE i \in S : \A j \in S : i <= j
         IN  least \in S /\ \A j \in S : least <= j
<1>1. PICK x \in S : \A y \in S : <<y, x>> \notin OpToRel(<, Nat)
  BY NatLessThanWellFounded, WFMin, Zenon
<1>2. \A y \in S : x <= y
  <2> TAKE y \in S
  <2>1. x \in Nat /\ y \in Nat
    OBVIOUS
  <2>2. ~(y < x)
    BY <1>1, <2>1, Zenon DEF OpToRel
  <2>3. QED
    BY <2>1, <2>2
<1>3. QED
  BY <1>2

\* Probing the flat cache finds an order id that is in it, as long as none was
\* put where probing does not find it.
LEMMA FlatLookup ==
  ASSUME BenchAssumption, CacheInv, FlatInv, NEW d \in Decoders,
         dec[d].tx.oid \in OrderIds, FlatSeen(d)
  PROVE  /\ flat' \in [0 .. TableSize - 1 -> OrderIds \cup {NoOrder}]
         /\ FlatInv'
         /\ dec[d].tx.oid \in Range(flat')
         /\ Range(flat') \subseteq Range(flat) \cup {dec[d].tx.oid}
         /\ ~crowded' => ~crowded /\ Range(flat) \subseteq Range(flat') \cup {NoOrder}
         /\ \E dup \in BOOLEAN :
                /\ Checked(d, dup)
                /\ dup => dec[d].tx.oid \in Range(flat)
                /\ ~crowded' => (dup <=> dec[d].tx.oid \in Range(flat))
<1> DEFINE oid == dec[d].tx.oid
           ends == {i \in 0 .. MaxProbes - 1 : flat[Slot(oid, i)] \in {NoOrder, oid}}
           first == CHOOSE i \in ends : \A j \in ends : i <= j
           at == IF ends = {} THEN Slot(oid, MaxProbes) ELSE Slot(oid, first)
           dup == ends # {} /\ flat[at] = oid
<1>1. /\ flat' = [flat EXCEPT ![at] = oid]
      /\ crowded' = (crowded \/ ends = {})
      /\ Checked(d, dup)
  BY DEF FlatSeen, Slot
<1>2. /\ TableSize \in Nat \ {0} /\ MaxProbes \in 1 .. TableSize
      /\ \A o \in OrderIds : HashOf[o] \in 0 .. TableSize - 1
      /\ NoOrder \notin OrderIds /\ oid \in OrderIds
      /\ flat \in [0 .. TableSize - 1 -> OrderIds \cup {NoOrder}]
  BY DEF BenchAssumption, CacheInv
<1>3. \A o \in OrderIds, i \in Nat : Slot(o, i) \in 0 .. TableSize - 1
  BY <1>2 DEF Slot
<1>4. ends # {} => /\ first \in ends /\ first \in 0 .. MaxProbes - 1
                   /\ \A j \in ends : first <= j
                   /\ flat[Slot(oid, first)] \in {NoOrder, oid}
  <2>1. ends \subseteq Nat
    BY <1>2
  <2>2. ends # {} => first \in ends /\ \A j \in ends : first <= j
    BY <2>1, LeastIndex, Zenon
  <2>3. QED
    BY <2>2
<1>5. \A j \in 0 .. MaxProbes - 1 : j \notin ends => flat[Slot(oid, j)] \notin {NoOrder, oid}
  OBVIOUS
<1>6. \A i \in 0 .. MaxProbes - 1 : flat[Slot(oid, i)] = oid => i \in ends
  OBVIOUS
<1>7. at \in 0 .. TableSize - 1
  <2>1. MaxProbes \in Nat /\ \A i \in 0 .. MaxProbes - 1 : i \in Nat
    BY <1>2
  <2>2. Slot(oid, MaxProbes) \in 0 .. TableSize - 1
    BY <1>2, <1>3, <2>1
  <2>3. ends # {} => Slot(oid, first) \in 0 .. TableSize - 1
    <3> HIDE DEF ends, first
    <3>1. QED
      BY <1>2, <1>3, <1>4, <2>1
  <2>4. QED
    BY <2>2, <2>3
<1>8. ends # {} => at = Slot(oid, first) /\ flat[at] \in {NoOrder, oid}
  BY <1>4
<1>9. ends = {} => ~dup
  OBVIOUS
<1>10. ends # {} => dup = (flat[at] = oid)
  OBVIOUS
<1>11. dup \in BOOLEAN
  OBVIOUS
<1> HIDE DEF ends, first, at, dup
<1>12. /\ flat' \in [0 .. TableSize - 1 -> OrderIds \cup {NoOrder}]
       /\ flat'[at] = oid
       /\ \A x \in 0 .. TableSize - 1 : x # at => flat'[x] = flat[x]
  BY <1>1, <1>2, <1>7
<1>13. /\ DOMAIN flat = 0 .. TableSize - 1 /\ DOMAIN flat' = 0 .. TableSize - 1
  BY <1>2, <1>12
<1>14. /\ oid \in Range(flat') /\ Range(flat') \subseteq Range(flat) \cup {oid}
  BY <1>7, <1>12, <1>13 DEF Range
<1>15. ~crowded' => ~crowded /\ ends # {}
  BY <1>1
<1>16. ends # {} => Range(flat) \subseteq Range(flat') \cup {NoOrder}
  BY <1>8, <1>7, <1>12, <1>13 DEF Range
<1>17. dup => oid \in Range(flat)
  BY ZenonT(60), <1>7, <1>9, <1>10, <1>13 DEF Range
<1>18. ASSUME ~crowded' PROVE dup <=> oid \in Range(flat)
  <2>1. ~crowded /\ ends # {}
    BY <1>15, <1>18
  <2>2. ASSUME oid \in Range(flat) PROVE flat[at] = oid
    <3>1. PICK i \in 0 .. MaxProbes - 1 :
            flat[Slot(oid, i)] = oid /\ \A j \in 0 .. i - 1 : flat[Slot(oid, j)] # NoOrder
      BY <1>2, <2>1, <2>2 DEF FlatInv
    <3>2. first <= i
      BY <1>4, <1>6, <2>1, <3>1
    <3>3. first \in Nat /\ i \in Nat /\ (first = i \/ first \in 0 .. i - 1)
      BY <1>2, <1>4, <2>1, <3>2
    <3>4. QED
      BY <1>4, <1>8, <2>1, <3>1, <3>3
  <2>3. dup => oid \in Range(flat)
    BY <1>17
  <2>4. dup = (flat[at] = oid)
    BY <1>10, <2>1
  <2>5. flat[at] = oid <=> oid \in Range(flat)
    BY <2>2, <2>3, <2>4
  <2>6. QED
    BY <2>4, <2>5
<1>19. FlatInv'
  <2> SUFFICES ASSUME ~crowded', NEW o \in OrderIds, o \in Range(flat')
               PROVE  \E i \in 0 .. MaxProbes - 1 :
                        flat'[Slot(o, i)] = o /\ \A j \in 0 .. i - 1 : flat'[Slot(o, j)] # NoOrder
    BY DEF FlatInv, Slot
  <2>1. ~crowded /\ ends # {}
    BY <1>15
  <2>2. \A x \in 0 .. TableSize - 1 : flat[x] # NoOrder => flat'[x] # NoOrder
    BY <1>2, <1>12
  <2>3. CASE o = oid
    <3>1. first \in 0 .. MaxProbes - 1 /\ flat'[Slot(o, first)] = o
      BY <1>4, <1>8, <1>12, <2>1, <2>3
    <3>2. ASSUME NEW j \in 0 .. first - 1 PROVE flat'[Slot(o, j)] # NoOrder
      <4>1. j \in 0 .. MaxProbes - 1 /\ j \notin ends /\ j \in Nat
        BY <1>2, <1>4, <2>1
      <4>2. flat[Slot(oid, j)] # NoOrder
        BY <1>5, <4>1
      <4>3. QED
        BY <1>2, <1>3, <2>2, <2>3, <4>1, <4>2
    <3>3. QED
      BY <3>1, <3>2
  <2>4. CASE o # oid
    <3>1. o \in Range(flat)
      BY <1>14, <2>4
    <3>2. PICK i \in 0 .. MaxProbes - 1 :
            flat[Slot(o, i)] = o /\ \A j \in 0 .. i - 1 : flat[Slot(o, j)] # NoOrder
      BY <2>1, <3>1 DEF FlatInv
    <3>3. \A j \in 0 .. i : j \in Nat /\ Slot(o, j) \in 0 .. TableSize - 1
      <4> TAKE j \in 0 .. i
      <4>1. j \in Nat
        OBVIOUS
      <4>2. QED
        BY <4>1, <1>3
    <3>4. Slot(o, i) # at
      BY <1>2, <1>8, <2>1, <2>4, <3>2
    <3>5. i \in 0 .. i /\ \A j \in 0 .. i - 1 : j \in 0 .. i
      BY <1>2
    <3>6. flat'[Slot(o, i)] = o
      BY <1>12, <3>2, <3>3, <3>4, <3>5
    <3>7. \A j \in 0 .. i - 1 : flat'[Slot(o, j)] # NoOrder
      BY <2>2, <3>2, <3>3, <3>5
    <3>8. QED
      BY <3>6, <3>7
  <2>5. QED
    BY <2>3, <2>4
<1> HIDE DEF oid
<1>20. /\ flat' \in [0 .. TableSize - 1 -> OrderIds \cup {NoOrder}] /\ FlatInv'
       /\ oid \in Range(flat') /\ Range(flat') \subseteq Range(flat) \cup {oid}
       /\ ~crowded' => ~crowded /\ Range(flat) \subseteq Range(flat') \cup {NoOrder}
  BY <1>12, <1>14, <1>15, <1>16, <1>19
<1>21. \E x \in BOOLEAN : Checked(d, x) /\ (x => oid \in Range(flat))
                          /\ (~crowded' => (x <=> oid \in Range(flat)))
  BY <1>1, <1>11, <1>17, <1>18
<1>22. QED
  BY <1>20, <1>21 DEF oid

LEMMA FlatSeenState ==
  ASSUME StateInv, FlatInv, BenchAssumption, NEW d \in Decoders, FlatSeen(d)
  PROVE  /\ StateInv' /\ FlatInv'
         /\ dec[d].tx.oid \in Range(flat')
         /\ Range(flat') \subseteq Range(flat) \cup {dec[d].tx.oid}
         /\ ~crowded' => ~crowded /\ Range(flat) \subseteq Range(flat') \cup {NoOrder}
         /\ \E r2, dup :
                /\ dec' = [dec EXCEPT ![d] = r2] /\ CheckDone(dec[d], r2, dup)
                /\ dup \in BOOLEAN
                /\ dup => dec[d].tx.oid \in Range(flat)
                /\ ~crowded' => (dup <=> dec[d].tx.oid \in Range(flat))
<1>1. PICK r : r = dec[d]
  OBVIOUS
<1>2. r.pc = "flat" /\ r.pc \in Looking
  BY <1>1 DEF FlatSeen, Looking
<1>3. r.tx.oid \in OrderIds /\ CacheInv
  BY <1>1, <1>2, LookingFacts DEF StateInv
<1>4. /\ flat' \in [0 .. TableSize - 1 -> OrderIds \cup {NoOrder}] /\ FlatInv'
      /\ r.tx.oid \in Range(flat') /\ Range(flat') \subseteq Range(flat) \cup {r.tx.oid}
      /\ ~crowded' => ~crowded /\ Range(flat) \subseteq Range(flat') \cup {NoOrder}
      /\ \E dup \in BOOLEAN :
                /\ Checked(d, dup)
                /\ dup => r.tx.oid \in Range(flat)
                /\ ~crowded' => (dup <=> r.tx.oid \in Range(flat))
  BY <1>1, <1>3, FlatLookup
<1>5. UNCHANGED <<kind, given, channels, ver, main, orderCache, globalTime>>
  BY DEF FlatSeen
<1>6. CacheInv'
  BY <1>3, <1>4, <1>5 DEF CacheInv
<1>7. ASSUME NEW dup \in BOOLEAN, Checked(d, dup)
      PROVE  StateInv' /\ \E r2 : dec' = [dec EXCEPT ![d] = r2] /\ CheckDone(dec[d], r2, dup)
  BY <1>1, <1>2, <1>5, <1>6, <1>7, CheckedDone
<1>8. QED
  BY <1>1, <1>4, <1>7

-------------------------------------------------------------------------------
(* The end of a decoder, and the queue.                                    *)

LEMMA DecoderEndState ==
  ASSUME StateInv, NEW d \in Decoders, DecoderEnd(d)
  PROVE  /\ StateInv'
         /\ \E r2 : /\ dec' = [dec EXCEPT ![d] = r2]
                    /\ r2.batch = {} /\ InTask(r2.task) = TxIn(dec[d].batch)
                    /\ Loose(r2) = {} /\ r2.last = TRUE
<1>1. PICK r : r = dec[d]
  OBVIOUS
<1>2. DecOk(r) /\ r.pc = "take" /\ Free(r) /\ r.last = FALSE
  BY <1>1, FreeDec DEF StateInv, DecoderEnd
<1> DEFINE r1 == [r EXCEPT !.batch = {}, !.last = TRUE, !.pc = "exit"]
           r2 == Flushed(r1, r.batch)
<1>3. dec' = [dec EXCEPT ![d] = r2]
  BY <1>1 DEF DecoderEnd
<1>4. /\ DOMAIN r1 = WorkFields /\ r1.batch = {} /\ r1.last = TRUE /\ r1.pc = "exit"
      /\ r1.task = Poison /\ r1.local = r.local
      /\ r1.lastUID = r.lastUID /\ r1.lastPub = r.lastPub
  BY <1>2 DEF Free, WorkFields
<1> HIDE DEF r1
<1>5. /\ DOMAIN r2 = WorkFields /\ r2.pc = (IF r.batch = {} THEN "exit" ELSE "send")
      /\ (r2.task = Poison) <=> (r.batch = {})
      /\ \A f \in WorkFields \ {"pc", "task"} : r2[f] = r1[f]
      /\ InTask(r2.task) = TxIn(r.batch) /\ TaskOk(r2.task)
  BY <1>2, <1>4, FlushedFacts DEF Free
<1> HIDE DEF r2
<1>6. /\ r2.batch = {} /\ r2.last = TRUE /\ r2.local = r.local
      /\ r2.lastUID = r.lastUID /\ r2.lastPub = r.lastPub
  BY <1>4, <1>5 DEF WorkFields
<1>7. /\ rawChan = <<>> /\ rawClosed /\ feed = <<>>
      /\ UNCHANGED <<kind, given, channels, dedupVars, ver, main, globalTime>>
  BY DEF DecoderEnd, StateInv, FeedInv
<1>8. DecOk(r2)
  BY <1>2, <1>5, <1>6, <1>7 DEF DecOk, Looking, Batch, Free
<1>9. DecOk(r2)' /\ FeedInv' /\ CacheInv'
  <2>1. FeedInv' /\ CacheInv'
    BY <1>7 DEF StateInv, FeedInv, CacheInv, Decoded, channels, dedupVars
  <2>2. DecOk(r2)'
    BY <1>7, <1>8, DecStable DEF channels
  <2>3. QED
    BY <2>1, <2>2
<1>10. StateInv'
  BY <1>1, <1>2, <1>3, <1>7, <1>9, DecoderState DEF channels
<1>11. Loose(r2) = {}
  BY <1>5 DEF Loose, Looking
<1>12. QED
  BY <1>1, <1>3, <1>5, <1>6, <1>10, <1>11

\* What is in the queue after one more task, or one less.
LEMMA QueueFacts ==
  ASSUME QueueInv
  PROVE  /\ Len(queue) \in Nat
         /\ \A i \in 1 .. Len(queue) : TaskOk(queue[i])
         /\ \A x : TaskOk(x) =>
              /\ \E T : Append(queue, x) \in Seq(T) /\ \A t \in T : TaskOk(t)
              /\ Len(Append(queue, x)) = Len(queue) + 1
              /\ \A i \in 1 .. Len(queue) : Append(queue, x)[i] = queue[i]
              /\ Append(queue, x)[Len(queue) + 1] = x
         /\ queue # <<>> =>
              /\ \E T : Tail(queue) \in Seq(T) /\ \A t \in T : TaskOk(t)
              /\ Len(queue) > 0 /\ Len(Tail(queue)) = Len(queue) - 1
              /\ \A i \in 1 .. Len(queue) - 1 : Tail(queue)[i] = queue[i + 1]
              /\ Head(queue) = queue[1] /\ TaskOk(Head(queue))
         /\ queue = <<>> => Len(queue) = 0
<1>1. PICK T : queue \in Seq(T) /\ \A t \in T : TaskOk(t)
  BY DEF QueueInv
<1>2. Len(queue) \in Nat /\ \A i \in 1 .. Len(queue) : TaskOk(queue[i])
  BY <1>1
<1>3. ASSUME NEW x, TaskOk(x)
      PROVE  /\ \E S : Append(queue, x) \in Seq(S) /\ \A t \in S : TaskOk(t)
             /\ Len(Append(queue, x)) = Len(queue) + 1
             /\ \A i \in 1 .. Len(queue) : Append(queue, x)[i] = queue[i]
             /\ Append(queue, x)[Len(queue) + 1] = x
  <2>1. PICK S : S = T \cup {x}
    OBVIOUS
  <2>2. queue \in Seq(S) /\ x \in S /\ \A t \in S : TaskOk(t)
    BY <1>1, <1>3, <2>1
  <2>3. QED
    BY <2>2
<1>4. CASE queue # <<>>
  <2>1. Tail(queue) \in Seq(T) /\ Len(queue) > 0 /\ Len(Tail(queue)) = Len(queue) - 1
        /\ \A i \in 1 .. Len(queue) - 1 : Tail(queue)[i] = queue[i + 1]
        /\ Head(queue) = queue[1]
    BY <1>1, <1>4
  <2>2. TaskOk(Head(queue))
    BY <1>2, <2>1
  <2>3. QED
    BY <1>1, <1>2, <1>3, <1>4, <2>1, <2>2
<1>5. CASE queue = <<>>
  BY <1>1, <1>2, <1>3, <1>5
<1>6. QED
  BY <1>4, <1>5

LEMMA SendState ==
  ASSUME StateInv, NEW d \in Decoders, Send(d)
  PROVE  /\ StateInv'
         /\ \E r2 : /\ dec' = [dec EXCEPT ![d] = r2]
                    /\ r2.batch = dec[d].batch /\ r2.task = Poison
                    /\ Loose(r2) = {} /\ Loose(dec[d]) = {}
                    /\ r2.last = dec[d].last /\ r2.local = dec[d].local
         /\ kind.gather # "count" /\ TaskOk(dec[d].task)
<1>1. PICK r : r = dec[d]
  OBVIOUS
<1>2. DecOk(r) /\ r.pc = "send" /\ DOMAIN r = WorkFields /\ r.task # Poison
      /\ TaskOk(r.task) /\ kind.gather # "count"
  BY <1>1 DEF StateInv, Send, DecOk
<1> DEFINE r2 == [r EXCEPT !.task = Poison, !.pc = IF r.last THEN "exit" ELSE "take"]
<1>3. dec' = [dec EXCEPT ![d] = r2]
  BY <1>1, <1>2 DEF Send, StateInv
<1>4. /\ DOMAIN r2 = WorkFields /\ r2.task = Poison
      /\ r2.pc = (IF r.last THEN "exit" ELSE "take")
      /\ r2.batch = r.batch /\ r2.last = r.last /\ r2.local = r.local
      /\ r2.lastUID = r.lastUID /\ r2.lastPub = r.lastPub
  BY <1>2 DEF WorkFields
<1> HIDE DEF r2
<1>5. /\ ~DecodersDone /\ main = "waitD" /\ ~queueClosed
      /\ \A i \in 1 .. Len(queue) : queue[i] # Poison
      /\ \A v \in Verifiers : ver[v].pc # "exit"
  BY <1>1, <1>2, NotDone
<1>6. /\ UNCHANGED <<kind, given, feed, rawChan, rawClosed, queueClosed, ver, main,
                     dedupVars, globalTime>>
      /\ queue' = Append(queue, r.task)
  BY <1>1 DEF Send
<1>7. FeedInv' /\ CacheInv' /\ InputInv'
  BY <1>6, Rigid DEF StateInv, FeedInv, CacheInv, Decoded, dedupVars
<1>8. \A x : TaskOk(x)' = TaskOk(x)
  BY <1>6, Rigid
<1>9. /\ Len(queue') = Len(queue) + 1 /\ Len(queue) \in Nat
      /\ \E T : queue' \in Seq(T) /\ \A t \in T : TaskOk(t)
      /\ \A i \in 1 .. Len(queue) : queue'[i] = queue[i]
      /\ queue'[Len(queue) + 1] = r.task
  BY <1>2, <1>6, QueueFacts DEF StateInv
<1>10. \A i \in 1 .. Len(queue') : queue'[i] # Poison
  <2> TAKE i \in 1 .. Len(queue')
  <2>1. i \in 1 .. Len(queue) \/ i = Len(queue) + 1
    BY <1>9
  <2>2. QED
    BY <1>2, <1>5, <1>9, <2>1
<1>11. QueueInv'
  BY <1>2, <1>5, <1>6, <1>8, <1>9, <1>10 DEF QueueInv
<1>12. MainInv'
  BY <1>5, <1>6 DEF MainInv
<1>13. DecOk(r2)
  BY <1>2, <1>4 DEF DecOk, Looking, TaskOk
<1>14. ASSUME NEW e \in Decoders, NEW x, dec'[e] = x PROVE DecOk(x)'
  <2>1. x = r2 \/ x = dec[e]
    BY <1>3, <1>14 DEF StateInv
  <2>2. DecOk(x)
    BY <2>1, <1>13 DEF StateInv
  <2>3. QED
    BY <2>2, <1>6, DecStable
<1>15. ASSUME NEW v \in Verifiers, NEW x, ver'[v] = x PROVE VerOk(x)'
  <2>1. VerOk(x) /\ x.pc # "exit"
    BY <1>5, <1>6, <1>15 DEF StateInv
  <2>2. QED
    BY <1>6, <1>8, <2>1 DEF VerOk
<1>16. StateInv'
  BY <1>3, <1>6, <1>7, <1>11, <1>12, <1>14, <1>15 DEF StateInv
<1>17. Loose(r2) = {} /\ Loose(r) = {}
  BY <1>2, <1>4 DEF Loose, Looking
<1>18. QED
  BY <1>1, <1>2, <1>3, <1>4, <1>16, <1>17

-------------------------------------------------------------------------------
(* The feeder, the clock, the verifiers and main.                          *)

AllPills == \A i \in 1 .. Len(queue) : queue[i] = Poison

LEMMA VerStable ==
  ASSUME UNCHANGED <<kind, given, dec>>, NEW r, VerOk(r),
         AllPills => AllPills',
         queueClosed /\ queue = <<>> => queueClosed' /\ queue' = <<>>
  PROVE  VerOk(r)'
<1>1. TaskOk(r.task)' = TaskOk(r.task)
  BY Rigid
<1>2. DecodersDone' = DecodersDone
  BY DEF DecodersDone
<1>3. QED
  BY <1>1, <1>2 DEF VerOk, AllPills

\* Somebody other than a decoder does something.
LEMMA OtherState ==
  ASSUME StateInv, UNCHANGED <<kind, given, dec>>,
         FeedInv', QueueInv', MainInv', CacheInv',
         feed = <<>> => feed' = <<>>,
         feed = <<>> /\ rawChan = <<>> => rawChan' = <<>>,
         rawClosed => rawClosed',
         AllPills => AllPills',
         queueClosed /\ queue = <<>> => queueClosed' /\ queue' = <<>>,
         DOMAIN ver' = Verifiers,
         \A v \in Verifiers : ver'[v] = ver[v] \/ VerOk(ver[v])'
  PROVE  StateInv'
<1>1. InputInv'
  BY Rigid DEF StateInv
<1>2. ASSUME NEW e \in Decoders, NEW x, dec'[e] = x PROVE DecOk(x)'
  <2>1. DecOk(x)
    BY <1>2 DEF StateInv
  <2>2. QED
    BY <2>1, DecStable
<1>3. ASSUME NEW v \in Verifiers, NEW x, ver'[v] = x PROVE VerOk(x)'
  <2>1. CASE VerOk(ver[v])'
    BY <1>3, <2>1
  <2>2. CASE ver'[v] = ver[v]
    <3>1. VerOk(x)
      BY <1>3, <2>2 DEF StateInv
    <3>2. QED
      BY <3>1, VerStable
  <2>3. QED
    BY <2>1, <2>2
<1>4. QED
  BY <1>1, <1>2, <1>3 DEF StateInv

LEMMA FeedState ==
  ASSUME StateInv, BenchAssumption, Feed \/ CloseRaw \/ Tick
  PROVE  /\ StateInv' /\ Decoded' = Decoded
         /\ UNCHANGED <<kind, given, queue, dec, ver, main, validCount, dedupVars,
                        panicked, counted>>
<1>1. /\ UNCHANGED <<kind, given, queue, queueClosed, dec, ver, main, validCount,
                     dedupVars, panicked, counted>>
      /\ feed = <<>> => UNCHANGED <<feed, rawChan>>
      /\ rawClosed => rawClosed'
  BY DEF Feed, CloseRaw, Tick, channels
<1>2. FeedInv' /\ Decoded' = Decoded
  <2>1. CASE Feed
    BY <2>1, FeedMoves
  <2>2. CASE CloseRaw
    BY <2>2 DEF CloseRaw, StateInv, FeedInv, Decoded
  <2>3. CASE Tick
    BY <2>3 DEF Tick, channels, StateInv, FeedInv, Decoded
  <2>4. QED
    BY <2>1, <2>2, <2>3
<1>3. CacheInv'
  <2>1. CASE Feed \/ CloseRaw
    BY <2>1, <1>1 DEF Feed, CloseRaw, StateInv, CacheInv, dedupVars
  <2>2. CASE Tick
    <3>1. globalTime \in 0 .. MaxTicks /\ globalTime < MaxTicks /\ globalTime' = globalTime + 1
      BY <2>2 DEF Tick, StateInv, CacheInv
    <3>2. globalTime' \in 0 .. MaxTicks
      BY <3>1 DEF BenchAssumption
    <3>3. QED
      BY <3>2, <1>1 DEF StateInv, CacheInv, dedupVars
  <2>3. QED
    BY <2>1, <2>2
<1>4. QueueInv'
  <2>1. \A x : TaskOk(x)' = TaskOk(x)
    BY <1>1, Rigid
  <2>2. DecodersDone' = DecodersDone
    BY <1>1 DEF DecodersDone
  <2>3. QED
    BY <1>1, <2>1, <2>2 DEF StateInv, QueueInv
<1>5. MainInv'
  BY <1>1 DEF StateInv, MainInv, DecodersDone, VerifiersDone, Feed, CloseRaw, Tick
<1>6. StateInv'
  BY <1>1, <1>2, <1>3, <1>4, <1>5, OtherState DEF AllPills, StateInv
<1>7. QED
  BY <1>1, <1>2, <1>6

\* A verifier does something; the queue is as it was or shorter.
LEMMA VerifierState ==
  ASSUME StateInv, NEW v \in Verifiers, ver[v].pc # "exit",
         NEW r2, ver' = [ver EXCEPT ![v] = r2], VerOk(r2)',
         UNCHANGED <<kind, given, feed, rawChan, rawClosed, queueClosed, dec, main,
                     dedupVars, globalTime>>,
         kind.gather # "count", main # "done",
         QueueInv', AllPills => AllPills', queue = <<>> => queue' = <<>>
  PROVE  StateInv'
<1>1. FeedInv' /\ CacheInv'
  BY DEF StateInv, FeedInv, CacheInv, Decoded, dedupVars
<1>2. MainInv'
  BY DEF StateInv, MainInv, DecodersDone
<1>3. DOMAIN ver' = Verifiers /\ \A w \in Verifiers : ver'[w] = ver[w] \/ VerOk(ver[w])'
  <2>1. DOMAIN ver = Verifiers /\ ver'[v] = r2
        /\ \A w \in Verifiers : w # v => ver'[w] = ver[w]
    BY DEF StateInv
  <2>2. ASSUME NEW x, x = ver'[v] PROVE VerOk(x)'
    BY <2>1, <2>2
  <2>3. VerOk(ver[v])'
    BY <2>2
  <2>4. QED
    BY <2>1, <2>3
<1>4. QED
  BY <1>1, <1>2, <1>3, OtherState

LEMMA ReceiveState ==
  ASSUME StateInv, main # "done", kind.gather # "count", NEW v \in Verifiers, Receive(v)
  PROVE  /\ StateInv'
         /\ \E r2 : /\ ver' = [ver EXCEPT ![v] = r2]
                    /\ r2.task = queue[1] /\ r2.local = ver[v].local
                    /\ ver[v].pc = "take" /\ ver[v].task = Poison
                    /\ r2.pc = "exit" => kind.ring /\ InTask(r2.task) = {}
<1>1. PICK r : r = ver[v]
  OBVIOUS
<1>2. VerOk(r) /\ r.pc = "take" /\ DOMAIN r = WorkFields /\ r.task = Poison /\ r.local \in Nat
  BY <1>1 DEF StateInv, Receive, VerOk
<1>3. PICK h : h = Head(queue)
  OBVIOUS
<1> DEFINE r2 == [r EXCEPT !.task = h, !.pc = IF h = Poison THEN "exit" ELSE "verify"]
<1>4. ver' = [ver EXCEPT ![v] = r2]
  BY <1>1, <1>2, <1>3 DEF Receive, StateInv
<1>5. /\ DOMAIN r2 = WorkFields /\ r2.task = h /\ r2.local = r.local
      /\ r2.pc = IF h = Poison THEN "exit" ELSE "verify"
  BY <1>2 DEF WorkFields
<1> HIDE DEF r2
<1>6. /\ UNCHANGED <<kind, given, feed, rawChan, rawClosed, queueClosed, dec, main,
                     dedupVars, globalTime>>
      /\ queue # <<>> /\ queue' = Tail(queue)
  BY DEF Receive
<1>7. /\ \E T : queue' \in Seq(T) /\ \A t \in T : TaskOk(t)
      /\ Len(queue) \in Nat /\ Len(queue) > 0 /\ Len(queue') = Len(queue) - 1
      /\ \A i \in 1 .. Len(queue) - 1 : queue'[i] = queue[i + 1]
      /\ h = queue[1] /\ TaskOk(h)
  BY <1>3, <1>6, QueueFacts DEF StateInv
<1>8. /\ \A x : TaskOk(x)' = TaskOk(x)
      /\ DecodersDone' = DecodersDone
  BY <1>6, Rigid DEF DecodersDone
<1>9. QueueInv'
  <2>1. ASSUME NEW i \in 1 .. Len(queue'), queue'[i] = Poison
        PROVE  kind.ring /\ DecodersDone /\ \A j \in i .. Len(queue') : queue'[j] = Poison
    <3>1. i \in 1 .. Len(queue) - 1 /\ i + 1 \in 1 .. Len(queue) /\ queue[i + 1] = Poison
      BY <1>7, <2>1
    <3>2. kind.ring /\ DecodersDone /\ \A j \in i + 1 .. Len(queue) : queue[j] = Poison
      BY <3>1 DEF StateInv, QueueInv
    <3>3. ASSUME NEW j \in i .. Len(queue') PROVE queue'[j] = Poison
      <4>1. j \in 1 .. Len(queue) - 1 /\ j + 1 \in i + 1 .. Len(queue)
        BY <1>7, <3>1
      <4>2. QED
        BY <1>7, <3>2, <4>1
    <3>4. QED
      BY <3>2, <3>3
  <2>2. kind.gather = "count" => queue' = <<>>
    OBVIOUS
  <2>3. QED
    BY <1>6, <1>7, <1>8, <2>1, <2>2 DEF StateInv, QueueInv
<1>10. ASSUME AllPills PROVE AllPills'
  <2>1. ASSUME NEW i \in 1 .. Len(queue') PROVE queue'[i] = Poison
    <3>1. i \in 1 .. Len(queue) - 1 /\ i + 1 \in 1 .. Len(queue)
      BY <1>7
    <3>2. QED
      BY <1>7, <1>10, <3>1 DEF AllPills
  <2>2. QED
    BY <2>1 DEF AllPills
<1>11. h = Poison => kind.ring /\ DecodersDone /\ AllPills
  <2>1. 1 \in 1 .. Len(queue)
    BY <1>7
  <2>2. QED
    BY <1>7, <2>1 DEF StateInv, QueueInv, AllPills
<1>12. VerOk(r2)'
  <2>1. TaskOk(r2.task)' /\ kind'.gather # "count"
    BY <1>5, <1>6, <1>7, <1>8
  <2>2. r2.pc = "exit" => kind'.ring /\ DecodersDone' /\ AllPills'
    BY <1>5, <1>6, <1>8, <1>10, <1>11
  <2>3. QED
    BY <1>2, <1>5, <2>1, <2>2 DEF VerOk, AllPills
<1>13. StateInv'
  BY <1>1, <1>2, <1>4, <1>6, <1>9, <1>10, <1>12, VerifierState
<1>14. r2.pc = "exit" => kind.ring /\ InTask(r2.task) = {}
  BY <1>5, <1>11 DEF InTask
<1>15. QED
  BY <1>1, <1>2, <1>4, <1>5, <1>7, <1>13, <1>14

LEMMA PassingFacts ==
  \A items : Sort(kind) => Passing(items) \subseteq TxIn(items)
<1> SUFFICES ASSUME NEW items, Sort(kind) PROVE Passing(items) \subseteq TxIn(items)
  OBVIOUS
<1>1. CASE kind.verify = "none"
  BY <1>1 DEF Passing
<1>2. CASE kind.verify = "each"
  BY <1>2 DEF Passing, TxIn
<1>3. CASE kind.verify = "whole"
  BY <1>3 DEF Passing, TxIn
<1>4. QED
  BY <1>1, <1>2, <1>3 DEF Sort

LEMMA TxInFinite ==
  ASSUME given \in Seq(Message), NEW items, Batch(items), NEW S, S \subseteq TxIn(items)
  PROVE  S \subseteq Txs /\ IsFiniteSet(S) /\ Cardinality(S) \in Nat
<1>1. S \subseteq Txs
  BY DEF Batch, Item, TxIn
<1>2. QED
  BY <1>1, InputTxs, FS_Subset, FS_CardinalityType

Keyless(items) == kind.verify # "none" /\ \E i \in items : i.key = NoKey

LEMMA VerifyState ==
  ASSUME StateInv, main # "done", kind.gather # "count", NEW v \in Verifiers, Verify(v)
  PROVE  /\ StateInv'
         /\ \E items :
              /\ ver[v].task = Task(items) /\ Batch(items)
              /\ panicked' = Keyless(items)
              /\ Passing(items) \subseteq TxIn(items)
              /\ TxIn(items) \subseteq Txs
              /\ counted' = IF Keyless(items) THEN counted ELSE counted \cup Passing(items)
              /\ validCount' = IF kind.local \/ Keyless(items) THEN validCount
                               ELSE validCount + Cardinality(Passing(items))
              /\ \E r2 : /\ ver' = [ver EXCEPT ![v] = r2]
                         /\ r2.task = Poison /\ r2.pc = "take"
                         /\ r2.local = IF kind.local /\ ~Keyless(items)
                                       THEN ver[v].local + Cardinality(Passing(items))
                                       ELSE ver[v].local
                         /\ ver[v].pc = "verify"
<1>1. PICK r : r = ver[v]
  OBVIOUS
<1>2. VerOk(r) /\ r.pc = "verify" /\ DOMAIN r = WorkFields /\ r.task # Poison /\ r.local \in Nat
      /\ r.task = Task(r.task[1]) /\ Batch(r.task[1])
  BY <1>1 DEF StateInv, Verify, VerOk, TaskOk
<1>3. PICK items : items = r.task[1]
  OBVIOUS
<1>4. PICK n : n = IF kind.local /\ ~Keyless(items) THEN r.local + Cardinality(Passing(items))
                   ELSE r.local
  OBVIOUS
<1> DEFINE r2 == [r EXCEPT !.pc = "take", !.task = Poison, !.local = n]
<1>5. ver' = [ver EXCEPT ![v] = r2]
  BY <1>1, <1>2, <1>3, <1>4 DEF Verify, Keyless, StateInv
<1>6. /\ DOMAIN r2 = WorkFields /\ r2.task = Poison /\ r2.local = n /\ r2.pc = "take"
  BY <1>2 DEF WorkFields
<1> HIDE DEF r2
<1>7. /\ UNCHANGED <<kind, given, channels, dec, main, dedupVars, globalTime>>
      /\ panicked' = Keyless(items)
      /\ counted' = IF Keyless(items) THEN counted ELSE counted \cup Passing(items)
      /\ validCount' = IF kind.local \/ Keyless(items) THEN validCount
                       ELSE validCount + Cardinality(Passing(items))
  BY <1>1, <1>3 DEF Verify, Keyless
<1>8. Sort(kind) /\ given \in Seq(Message)
  BY KindFacts DEF StateInv, InputInv
<1>9. Passing(items) \subseteq TxIn(items)
  BY <1>8, PassingFacts
<1>10. TxIn(items) \subseteq Txs
  BY <1>2, <1>3, <1>8, TxInFinite
<1>11. n \in Nat
  <2>1. Cardinality(Passing(items)) \in Nat
    BY <1>2, <1>3, <1>8, <1>9, TxInFinite
  <2>2. QED
    BY <1>2, <1>4, <2>1
<1>12. QueueInv'
  <2>1. /\ \A x : TaskOk(x)' = TaskOk(x)
        /\ DecodersDone' = DecodersDone
    BY <1>7, Rigid DEF DecodersDone
  <2>2. QED
    BY <1>7, <2>1 DEF StateInv, QueueInv, channels
<1>13. VerOk(r2)'
  <2>1. TaskOk(r2.task)' /\ kind'.gather # "count"
    BY <1>6, <1>7 DEF TaskOk
  <2>2. QED
    BY <1>6, <1>11, <2>1 DEF VerOk
<1>14. StateInv'
  <2>1. UNCHANGED <<feed, rawChan, rawClosed, queue, queueClosed>>
    BY <1>7 DEF channels
  <2>2. AllPills => AllPills'
    BY <2>1 DEF AllPills
  <2>3. QED
    BY <1>1, <1>2, <1>5, <1>7, <1>12, <1>13, <2>1, <2>2, VerifierState
<1>15. QED
  BY <1>1, <1>2, <1>3, <1>4, <1>5, <1>6, <1>7, <1>9, <1>10, <1>14

LEMMA VerifierEndState ==
  ASSUME StateInv, main # "done", kind.gather # "count", NEW v \in Verifiers, VerifierEnd(v)
  PROVE  /\ StateInv'
         /\ \E r2 : /\ ver' = [ver EXCEPT ![v] = r2]
                    /\ r2.task = Poison /\ r2.pc = "exit"
                    /\ ver[v].task = Poison /\ ver[v].pc = "take"
<1>1. PICK r : r = ver[v]
  OBVIOUS
<1>2. VerOk(r) /\ r.pc = "take" /\ DOMAIN r = WorkFields /\ r.task = Poison /\ r.local \in Nat
  BY <1>1 DEF StateInv, VerifierEnd, VerOk
<1> DEFINE r2 == [r EXCEPT !.pc = "exit"]
<1>3. ver' = [ver EXCEPT ![v] = r2]
  BY <1>1, <1>2 DEF VerifierEnd, StateInv
<1>4. /\ DOMAIN r2 = WorkFields /\ r2.task = Poison /\ r2.local = r.local /\ r2.pc = "exit"
  BY <1>2 DEF WorkFields
<1> HIDE DEF r2
<1>5. /\ UNCHANGED <<kind, given, channels, dec, main, dedupVars, globalTime>>
      /\ queue = <<>> /\ queueClosed
  BY DEF VerifierEnd
<1>6. /\ DecodersDone /\ DecodersDone' = DecodersDone
      /\ \A x : TaskOk(x)' = TaskOk(x)
  BY <1>5, Rigid DEF StateInv, QueueInv, DecodersDone
<1>7. QueueInv'
  BY <1>5, <1>6 DEF StateInv, QueueInv, channels
<1>8. UNCHANGED <<feed, rawChan, rawClosed, queue, queueClosed>>
  BY <1>5 DEF channels
<1>9. VerOk(r2)'
  <2>1. TaskOk(r2.task)' /\ kind'.gather # "count" /\ queue' = <<>> /\ queueClosed'
    BY <1>4, <1>5, <1>8 DEF TaskOk
  <2>2. \A i \in 1 .. Len(queue') : queue'[i] = Poison
    <3>1. Len(queue') = 0
      BY <2>1
    <3>2. QED
      BY <3>1
  <2>3. DecodersDone'
    BY <1>6
  <2>4. QED
    BY <1>2, <1>4, <2>1, <2>2, <2>3 DEF VerOk
<1>10. AllPills => AllPills'
  BY <1>8 DEF AllPills
<1>11. StateInv'
  BY <1>1, <1>2, <1>3, <1>5, <1>7, <1>8, <1>9, <1>10, VerifierState
<1>12. QED
  BY <1>1, <1>2, <1>3, <1>4, <1>11

LEMMA MainState ==
  ASSUME StateInv, main # "done", ~panicked, Main
  PROVE  /\ StateInv'
         /\ \/ queue' = queue
            \/ /\ queue' = Append(queue, Poison) /\ TaskOk(Poison)
               /\ \A i \in 1 .. Len(queue) : queue'[i] = queue[i]
               /\ Len(queue') = Len(queue) + 1 /\ Len(queue) \in Nat
               /\ queue'[Len(queue) + 1] = Poison
         /\ UNCHANGED <<kind, given, feed, rawChan, dec, ver, validCount, dedupVars, panicked,
                        counted>>
<1>1. /\ UNCHANGED <<kind, given, feed, rawChan, rawClosed, dec, ver, validCount, dedupVars,
                     globalTime, panicked, counted>>
  BY DEF Main, PoisonPill, CloseQueue, Finish, channels
<1>2. FeedInv' /\ CacheInv'
  BY <1>1 DEF StateInv, FeedInv, CacheInv, Decoded, dedupVars
<1>3. /\ \A x : TaskOk(x)' = TaskOk(x)
      /\ DecodersDone' = DecodersDone /\ VerifiersDone' = VerifiersDone
  BY <1>1, Rigid DEF DecodersDone, VerifiersDone
<1>4. DecodersDone
  BY DEF Main, PoisonPill, CloseQueue, Finish, StateInv, MainInv
<1>5. Sort(kind)
  BY KindFacts DEF StateInv, InputInv
<1>6. CASE PoisonPill
  <2>1. kind.ring /\ queue' = Append(queue, Poison) /\ queueClosed' = queueClosed
    BY <1>6 DEF PoisonPill
  <2>2. kind.gather # "count"
    BY <1>5, <2>1 DEF Sort
  <2>3. TaskOk(Poison)
    BY DEF TaskOk
  <2>4. /\ Len(queue') = Len(queue) + 1 /\ Len(queue) \in Nat
        /\ \E T : queue' \in Seq(T) /\ \A t \in T : TaskOk(t)
        /\ \A i \in 1 .. Len(queue) : queue'[i] = queue[i]
        /\ queue'[Len(queue) + 1] = Poison
    BY <2>1, <2>3, QueueFacts DEF StateInv
  <2>5. \A i \in 1 .. Len(queue') : i \in 1 .. Len(queue) \/ i = Len(queue) + 1
    BY <2>4
  <2>6. ASSUME NEW i \in 1 .. Len(queue'), queue'[i] = Poison
        PROVE  \A j \in i .. Len(queue') : queue'[j] = Poison
    <3> TAKE j \in i .. Len(queue')
    <3>1. CASE j = Len(queue) + 1
      BY <2>4, <3>1
    <3>2. CASE j # Len(queue) + 1
      <4>1. i \in 1 .. Len(queue) /\ j \in i .. Len(queue) /\ j \in 1 .. Len(queue)
        BY <2>4, <3>2
      <4>2. queue[i] = Poison
        BY <2>4, <2>6, <4>1
      <4>3. queue[j] = Poison
        BY <4>1, <4>2 DEF StateInv, QueueInv
      <4>4. QED
        BY <2>4, <4>1, <4>3
    <3>3. QED
      BY <3>1, <3>2
  <2>7. QueueInv'
    BY <1>1, <1>3, <1>4, <2>1, <2>2, <2>4, <2>6 DEF StateInv, QueueInv
  <2>8. MainInv'
    BY <1>1, <1>3, <1>4, <1>6 DEF PoisonPill, MainInv, StateInv
  <2>9. AllPills => AllPills'
    BY <2>4, <2>5 DEF AllPills
  <2>10. queueClosed /\ queue = <<>> => (queueClosed' /\ queue' = <<>>) \/ kind.ring
    BY <2>1
  <2>11. ASSUME NEW v \in Verifiers, NEW x, x = ver'[v] PROVE VerOk(x)'
    <3>1. VerOk(x)
      BY <1>1, <2>11 DEF StateInv
    <3>2. TaskOk(x.task)' /\ kind'.ring /\ kind'.gather # "count"
      BY <1>1, <1>3, <2>1, <2>2, <3>1 DEF VerOk
    <3>3. x.pc = "exit" => AllPills'
      BY <2>1, <2>9, <3>1 DEF VerOk, AllPills
    <3>4. QED
      BY <1>3, <1>4, <3>1, <3>2, <3>3 DEF VerOk, AllPills
  <2>12. ASSUME NEW e \in Decoders, NEW x, x = dec'[e] PROVE DecOk(x)'
    <3>1. DecOk(x)
      BY <1>1, <2>12 DEF StateInv
    <3>2. QED
      BY <1>1, <3>1, DecStable
  <2>13. InputInv'
    BY <1>1, Rigid DEF StateInv
  <2>14. StateInv'
    BY <1>1, <1>2, <2>7, <2>8, <2>11, <2>12, <2>13 DEF StateInv
  <2>15. QED
    BY <1>1, <2>1, <2>3, <2>4, <2>14
<1>7. CASE CloseQueue \/ Finish
  <2>1. queue' = queue /\ (queueClosed => queueClosed')
    BY <1>7 DEF CloseQueue, Finish, channels
  <2>2. QueueInv'
    BY <1>1, <1>3, <1>4, <2>1 DEF StateInv, QueueInv
  <2>3. MainInv'
    BY <1>1, <1>3, <1>4, <1>7 DEF CloseQueue, Finish, MainInv, StateInv
  <2>4. StateInv'
    BY <1>1, <1>2, <2>1, <2>2, <2>3, OtherState DEF AllPills, StateInv
  <2>5. QED
    BY <1>1, <2>1, <2>4
<1>8. QED
  BY <1>6, <1>7 DEF Main

LEMMA StateInit ==
  ASSUME BenchAssumption, InputAssumption, KindAssumption, BenchInit
  PROVE  StateInv
<1>1. InputInv
  <2>1. kind \in AllKinds
    BY DEF BenchInit, KindAssumption
  <2>2. given \in TxInputs \cup BlockInputs /\ (~kind.blocks => given \in TxInputs)
    BY DEF BenchInit
  <2>3. QED
    BY <2>1, <2>2 DEF InputInv, InputAssumption
<1>2. FeedInv
  <2>1. feed = given /\ rawChan = <<>> /\ given \in Seq(Message) /\ ~rawClosed
    BY <1>1 DEF BenchInit, InputInv
  <2>2. Len(feed) \in Nat /\ Len(given) = Len(feed) /\ Len(rawChan) = 0
    BY <2>1
  <2>3. Decoded = 0
    BY <2>2 DEF Decoded
  <2>4. QED
    BY <2>1, <2>2, <2>3 DEF FeedInv
<1>3. QueueInv
  <2>1. queue = <<>> /\ ~queueClosed
    BY DEF BenchInit
  <2>2. Len(queue) = 0
    BY <2>1
  <2>3. PICK T : T = {}
    OBVIOUS
  <2>4. queue \in Seq(T) /\ \A t \in T : TaskOk(t)
    BY <2>1, <2>3
  <2>5. QED
    BY <2>1, <2>2, <2>4 DEF QueueInv
<1>4. MainInv
  BY DEF BenchInit, MainInv
<1>5. CacheInv
  BY DEF BenchInit, CacheInv, BenchAssumption
<1>6. PICK r : r = AtWork
  OBVIOUS
<1>7. /\ DOMAIN r = WorkFields /\ r.pc = "take" /\ r.batch = {} /\ r.lastUID = 0
      /\ r.task = Poison /\ r.local = 0 /\ r.last = FALSE
  BY <1>6 DEF AtWork, WorkFields
<1>8. ~r.last /\ r.last \in BOOLEAN
  BY <1>7, Zenon
<1>9. DecOk(r)
  BY <1>7, <1>8 DEF DecOk, Looking, Batch, TaskOk
<1>10. VerOk(r)
  BY <1>6, <1>7 DEF VerOk, TaskOk
<1>11. dec = [d \in Decoders |-> r] /\ ver = [v \in Verifiers |-> r]
  BY <1>6 DEF BenchInit
<1>12. QED
  BY <1>1, <1>2, <1>3, <1>4, <1>5, <1>9, <1>10, <1>11 DEF StateInv

-------------------------------------------------------------------------------
(* Transactions that move from place to place.                             *)

LEMMA PlaceFacts ==
  /\ ToCome[1] = "come" /\ Gone[1] = "gone" /\ Total[1] = "main"
  /\ \A d : /\ Checks(d)[1] = "tx" /\ Checks(d)[2] = d
            /\ InBatch(d)[1] = "batch" /\ InBatch(d)[2] = d
            /\ Sends(d)[1] = "task" /\ Sends(d)[2] = d
            /\ Queued(d)[1] = "queue" /\ Queued(d)[2] = d
            /\ Verifies(d)[1] = "ver" /\ Verifies(d)[2] = d
            /\ CountD(d)[1] = "countD" /\ CountD(d)[2] = d
            /\ CountV(d)[1] = "countV" /\ CountV(d)[2] = d
BY DEF ToCome, Gone, Total, Checks, InBatch, Sends, Queued, Verifies, CountD, CountV

LEMMA CountFacts ==
  \A x \in Counts : x[1] \in {"main", "countD", "countV"}
BY PlaceFacts DEF Counts

LEMMA PlacesHas ==
  /\ ToCome \in Places /\ Gone \in Places /\ Counts \subseteq Places
  /\ \A d \in Decoders : /\ Checks(d) \in Places /\ InBatch(d) \in Places
                         /\ Sends(d) \in Places /\ CountD(d) \in Counts
  /\ \A i \in Nat : Queued(i) \in Places
  /\ \A v \in Verifiers : Verifies(v) \in Places /\ CountV(v) \in Counts
  /\ Total \in Counts
BY DEF Places, Counts

\* The transactions decoder state r has.
Own(r) == Loose(r) \cup TxIn(r.batch) \cup InTask(r.task)

Move(p, M, g) == [t \in Txs |-> IF t \in M THEN g[t] ELSE p[t]]

LEMMA AtMove ==
  \A p, M, g, x :
      M \subseteq Txs => At(Move(p, M, g), x) = (At(p, x) \ M) \cup {t \in M : g[t] = x}
BY DEF At, Move

\* Place x is where t is when decoder d is r.
Lands(d, r, x, t) ==
    /\ x \in {Checks(d), InBatch(d), Sends(d), Gone} \cup Counts
    /\ x = Checks(d) <=> t \in Loose(r)
    /\ x = InBatch(d) <=> t \in TxIn(r.batch)
    /\ x = Sends(d) <=> t \in InTask(r.task)

LEMMA OwnFacts ==
  ASSUME NEW d \in Decoders, NEW p, PlaceMap(p)
  PROVE  /\ Own(dec[d]) \subseteq Txs
         /\ \A t \in Own(dec[d]) : p[t] \in {Checks(d), InBatch(d), Sends(d)}
         /\ \A t \in Txs : p[t] \in {Checks(d), InBatch(d), Sends(d)} => t \in Own(dec[d])
         /\ \A t \in Loose(dec[d]) : p[t] = Checks(d)
         /\ \A t \in TxIn(dec[d].batch) : p[t] = InBatch(d)
         /\ \A t \in InTask(dec[d].task) : p[t] = Sends(d)
         /\ \A t \in Coming : p[t] = ToCome
         /\ \A t \in Txs : p[t] = ToCome => t \in Coming
         /\ Coming \subseteq Txs
<1>1. /\ At(p, Checks(d)) = Loose(dec[d])
      /\ At(p, InBatch(d)) = TxIn(dec[d].batch)
      /\ At(p, Sends(d)) = InTask(dec[d].task)
      /\ At(p, ToCome) = Coming
  BY DEF PlaceMap, DecMap
<1>2. QED
  BY <1>1 DEF Own, At

LEMMA DecoderMap ==
  ASSUME StateInv, NEW d \in Decoders, NEW p \in [Txs -> Places], PlaceMap(p),
         NEW r2, dec' = [dec EXCEPT ![d] = r2],
         UNCHANGED <<kind, given, queue, ver>>,
         NEW New, New \subseteq Coming, Coming' = Coming \ New,
         NEW C, C \subseteq Txs, \A t \in C : p[t] \in Counts,
         NEW M, M = Own(dec[d]) \cup New \cup C, Own(r2) \subseteq M,
         NEW g, \A t \in M : Lands(d, r2, g[t], t),
         NEW p2, p2 = Move(p, M, g)
  PROVE  p2 \in [Txs -> Places] /\ PlaceMap(p2)'
<1>1. M \subseteq Txs
  BY OwnFacts
<1>2. p2 \in [Txs -> Places]
  <2>1. \A t \in M : g[t] \in Places
    BY PlacesHas DEF Lands
  <2>2. QED
    BY <2>1 DEF Move
<1>3. \A x : At(p2, x) = (At(p, x) \ M) \cup {t \in M : g[t] = x}
  BY <1>1, AtMove
<1>4. \A x : At(p2, x)' = At(p2, x)
  BY Rigid
<1>5. \A t \in M : \/ p[t] \in {Checks(d), InBatch(d), Sends(d)}
                   \/ p[t] \in Counts
                   \/ t \in New /\ p[t] = ToCome
  BY OwnFacts
<1>6. \A t \in M : /\ g[t] = Checks(d) <=> t \in Loose(r2)
                   /\ g[t] = InBatch(d) <=> t \in TxIn(r2.batch)
                   /\ g[t] = Sends(d) <=> t \in InTask(r2.task)
                   /\ g[t] \in {Checks(d), InBatch(d), Sends(d), Gone} \cup Counts
  BY DEF Lands
<1>7. \A t \in M : \/ p[t][1] \in {"main", "countD", "countV"}
                   \/ p[t][1] \in {"tx", "batch", "task"} /\ p[t][2] = d
                   \/ t \in New /\ p[t][1] = "come"
  BY <1>5, PlaceFacts, CountFacts
<1>8. \A t \in M : \/ g[t][1] \in {"gone", "main", "countD", "countV"}
                   \/ g[t][1] \in {"tx", "batch", "task"} /\ g[t][2] = d
  BY <1>6, PlaceFacts, CountFacts
<1>9. \A x : x[1] \notin {"come", "gone", "main", "countD", "countV"}
             /\ (x[1] \in {"tx", "batch", "task"} => x[2] # d) => At(p2, x) = At(p, x)
  <2> TAKE x
  <2> HAVE x[1] \notin {"come", "gone", "main", "countD", "countV"}
           /\ (x[1] \in {"tx", "batch", "task"} => x[2] # d)
  <2>1. ASSUME NEW t \in M PROVE p[t] # x /\ g[t] # x
    <3>1. p[t] # x
      BY <1>7
    <3>2. g[t] # x
      BY <1>8
    <3>3. QED
      BY <3>1, <3>2
  <2>2. At(p2, x) = (At(p, x) \ M) \cup {t \in M : g[t] = x}
    BY <1>3
  <2>3. {t \in M : g[t] = x} = {}
    BY <2>1
  <2>4. At(p, x) \cap M = {}
    BY <2>1 DEF At
  <2>5. QED
    BY <2>2, <2>3, <2>4
<1>10. At(p2, ToCome) = Coming \ New
  <2>1. At(p, ToCome) = Coming
    BY DEF PlaceMap
  <2>2. \A t \in M : g[t] # ToCome /\ (p[t] = ToCome => t \in New)
    BY <1>7, <1>8, PlaceFacts
  <2>3. Coming \ M = Coming \ New
    BY <2>1, <2>2 DEF At
  <2>4. QED
    BY <1>3, <2>1, <2>2, <2>3
<1>11. /\ At(p2, Checks(d)) = Loose(r2)
       /\ At(p2, InBatch(d)) = TxIn(r2.batch)
       /\ At(p2, Sends(d)) = InTask(r2.task)
  <2>1. /\ At(p, Checks(d)) \subseteq M /\ At(p, InBatch(d)) \subseteq M
        /\ At(p, Sends(d)) \subseteq M
    BY OwnFacts DEF At
  <2>2. /\ Loose(r2) \subseteq M /\ TxIn(r2.batch) \subseteq M /\ InTask(r2.task) \subseteq M
    BY DEF Own
  <2>3. At(p2, Checks(d)) = {t \in M : t \in Loose(r2)}
    BY <1>3, <1>6, <2>1
  <2>4. At(p2, InBatch(d)) = {t \in M : t \in TxIn(r2.batch)}
    BY <1>3, <1>6, <2>1
  <2>5. At(p2, Sends(d)) = {t \in M : t \in InTask(r2.task)}
    BY <1>3, <1>6, <2>1
  <2>6. QED
    BY <2>2, <2>3, <2>4, <2>5
<1>12. \A e \in Decoders : e # d => /\ At(p2, Checks(e)) = Loose(dec[e])
                                    /\ At(p2, InBatch(e)) = TxIn(dec[e].batch)
                                    /\ At(p2, Sends(e)) = InTask(dec[e].task)
  <2> TAKE e \in Decoders
  <2> HAVE e # d
  <2>1. ASSUME NEW x, x[1] \in {"tx", "batch", "task"}, x[2] = e
        PROVE  At(p2, x) = At(p, x)
    <3>1. x[1] \notin {"come", "gone", "main", "countD", "countV"}
      BY <2>1
    <3>2. QED
      BY <1>9, <2>1, <3>1
  <2>2. /\ At(p2, Checks(e)) = At(p, Checks(e)) /\ At(p2, InBatch(e)) = At(p, InBatch(e))
        /\ At(p2, Sends(e)) = At(p, Sends(e))
    <3>1. /\ Checks(e)[1] \in {"tx", "batch", "task"} /\ Checks(e)[2] = e
          /\ InBatch(e)[1] \in {"tx", "batch", "task"} /\ InBatch(e)[2] = e
          /\ Sends(e)[1] \in {"tx", "batch", "task"} /\ Sends(e)[2] = e
      BY PlaceFacts
    <3>2. At(p2, Checks(e)) = At(p, Checks(e))
      BY <2>1, <3>1
    <3>3. At(p2, InBatch(e)) = At(p, InBatch(e))
      BY SMTT(30), <2>1, <3>1
    <3>4. At(p2, Sends(e)) = At(p, Sends(e))
      BY <2>1, <3>1
    <3>5. QED
      BY <3>2, <3>3, <3>4
  <2>3. QED
    BY <2>2 DEF PlaceMap, DecMap
<1>13. \A e \in Decoders : DecMap(p2, e)'
  <2>1. ASSUME NEW e \in Decoders, NEW r, r = dec'[e]
        PROVE  /\ At(p2, Checks(e)) = Loose(r)
               /\ At(p2, InBatch(e)) = TxIn(r.batch)
               /\ At(p2, Sends(e)) = InTask(r.task)
    <3>1. CASE e = d
      <4>1. r = r2
        BY <2>1, <3>1 DEF StateInv
      <4>2. QED
        BY <1>11, <3>1, <4>1
    <3>2. CASE e # d
      <4>1. r = dec[e]
        BY <2>1, <3>2
      <4>2. QED
        BY <1>12, <3>2, <4>1
    <3>3. QED
      BY <3>1, <3>2
  <2>2. ASSUME NEW e \in Decoders PROVE DecMap(p2, e)'
    <3>1. /\ At(p2, Checks(e))' = Loose(dec'[e])
          /\ At(p2, InBatch(e))' = TxIn(dec'[e].batch)
          /\ At(p2, Sends(e))' = InTask(dec'[e].task)
      BY <1>4, <2>1
    <3>2. QED
      BY <3>1 DEF DecMap
  <2>3. QED
    BY <2>2
<1>14. \A i \in Nat : At(p2, Queued(i))' =
                        IF i \in 1 .. Len(queue') THEN InTask(queue'[i]) ELSE {}
  <2> TAKE i \in Nat
  <2>1. At(p2, Queued(i)) = At(p, Queued(i))
    BY <1>9, PlaceFacts
  <2>2. At(p, Queued(i)) = IF i \in 1 .. Len(queue) THEN InTask(queue[i]) ELSE {}
    BY DEF PlaceMap
  <2>3. QED
    BY <1>4, <2>1, <2>2
<1>15. \A v \in Verifiers : At(p2, Verifies(v))' = InTask(ver'[v].task)
  <2> TAKE v \in Verifiers
  <2>1. At(p2, Verifies(v)) = At(p, Verifies(v))
    BY <1>9, PlaceFacts
  <2>2. At(p, Verifies(v)) = InTask(ver[v].task)
    BY DEF PlaceMap
  <2>3. QED
    BY <1>4, <2>1, <2>2
<1>16. At(p2, ToCome)' = Coming'
  BY <1>4, <1>10
<1>17. PlaceMap(p2)'
  BY <1>13, <1>14, <1>15, <1>16 DEF PlaceMap
<1>18. QED
  BY <1>2, <1>17

\* A step in which no transaction is counted.
LEMMA SameCounts ==
  ASSUME UNCHANGED <<kind, given, counted, validCount>>,
         NEW p \in [Txs -> Places], NEW p2 \in [Txs -> Places], CountMap(p),
         \A t \in Txs : p2[t] = p[t] \/ (p2[t] \notin Counts /\ p[t] \notin Counts),
         \A d \in Decoders : dec'[d].last = dec[d].last /\ dec'[d].local = dec[d].local,
         \A v \in Verifiers :
            /\ ver'[v].local = ver[v].local
            /\ (ver'[v].pc = "exit" <=> ver[v].pc = "exit") \/ (~kind.local /\ ver'[v].pc = "exit")
  PROVE  CountMap(p2)'
<1>1. \A x \in Counts : At(p2, x) = At(p, x)
  BY DEF At
<1>2. \A x : At(p2, x)' = At(p2, x)
  BY Rigid
<1>3. \A x \in Counts : At(p2, x)' = At(p, x)
  BY <1>1, <1>2
<1>4. Txs' = Txs
  BY Rigid
<1>5. counted' = {t \in Txs' : p2[t] \in Counts}
  BY <1>4 DEF CountMap
<1>6. validCount' = Cardinality(At(p2, Total)')
  BY <1>3, PlacesHas DEF CountMap
<1>7. \A d \in Decoders : IF dec'[d].last THEN At(p2, CountD(d))' = {}
                          ELSE dec'[d].local = Cardinality(At(p2, CountD(d))')
  BY <1>3, PlacesHas DEF CountMap
<1>8. kind'.gather # "count" => \A d \in Decoders : At(p2, CountD(d))' = {}
  BY <1>3, PlacesHas DEF CountMap
<1>9. \A v \in Verifiers : IF ver'[v].pc = "exit" THEN At(p2, CountV(v))' = {}
                           ELSE ver'[v].local = Cardinality(At(p2, CountV(v))')
  BY <1>3, PlacesHas DEF CountMap
<1>10. ~kind'.local => \A v \in Verifiers : At(p2, CountV(v))' = {}
  BY <1>3, PlacesHas DEF CountMap
<1>11. QED
  BY <1>5, <1>6, <1>7, <1>8, <1>9, <1>10 DEF CountMap

\* A decoder has taken message m.
LEMMA ComingMoves ==
  ASSUME given \in Seq(Message), Numbered(given), given' = given,
         Decoded \in Nat, Decoded' = Decoded + 1, Decoded + 1 \in DOMAIN given
  PROVE  /\ Carried(given[Decoded + 1]) \subseteq Coming
         /\ Coming' = Coming \ Carried(given[Decoded + 1])
<1>1. PICK n : n = Decoded + 1
  OBVIOUS
<1>2. DOMAIN given = 1 .. Len(given) /\ Len(given) \in Nat /\ n \in DOMAIN given
  BY <1>1
<1>3. Txs = UNION {Carried(given[i]) : i \in DOMAIN given} /\ Txs' = Txs
  BY InputTxs DEF Txs, TxsOf
<1>4. \A i, j \in DOMAIN given : i # j => Carried(given[i]) \cap Carried(given[j]) = {}
  BY DEF Numbered, Carried
<1>5. Coming = {t \in Txs : \E i \in DOMAIN given : i > Decoded /\ t \in Carried(given[i])}
  BY DEF Coming
<1>6. Coming' = {t \in Txs : \E i \in DOMAIN given : i > n /\ t \in Carried(given[i])}
  <2>1. PICK k : k = Decoded'
    OBVIOUS
  <2>2. Coming' = {t \in Txs' : \E i \in DOMAIN given' : i > k /\ t \in Carried(given'[i])}
    BY <2>1 DEF Coming, Carried
  <2>3. k = n
    BY <1>1, <2>1
  <2>4. QED
    BY <1>3, <2>2, <2>3
<1>7. \A i \in DOMAIN given : i > Decoded <=> i = n \/ i > n
  BY <1>1, <1>2
<1>8. ~(n > n)
  BY <1>2
<1>9. Carried(given[n]) \subseteq Coming
  BY <1>2, <1>3, <1>5, <1>7
<1>10. Coming' = Coming \ Carried(given[n])
  BY <1>2, <1>4, <1>5, <1>6, <1>7, <1>8
<1>11. QED
  BY <1>1, <1>9, <1>10

LEMMA ComingSame ==
  ASSUME given' = given, Decoded' = Decoded
  PROVE  Coming' = Coming
<1>1. Txs' = Txs
  BY DEF Txs, TxsOf
<1>2. PICK k : k = Decoded
  OBVIOUS
<1>3. k = Decoded'
  BY <1>2
<1>4. Coming = {t \in Txs : \E i \in DOMAIN given : i > k /\ t \in Carried(given[i])}
  BY <1>2 DEF Coming
<1>5. Coming' = {t \in Txs' : \E i \in DOMAIN given' : i > k /\ t \in Carried(given'[i])}
  BY <1>3 DEF Coming, Carried
<1>6. QED
  BY <1>1, <1>4, <1>5

\* No transaction is twice with decoder state r.
Apart(r) ==
    /\ Loose(r) \cap TxIn(r.batch) = {} /\ Loose(r) \cap InTask(r.task) = {}
    /\ TxIn(r.batch) \cap InTask(r.task) = {}

\* Transactions M are now with decoder d, which is r2, or gone.
MovesTo(p, p2, d, r2, M) ==
    \A t \in Txs :
        IF t \in M
        THEN /\ t \in Loose(r2) => p2[t] = Checks(d)
             /\ t \in Own(r2) \ Loose(r2) => p2[t] \in {InBatch(d), Sends(d)}
             /\ t \notin Own(r2) => p2[t] = Gone
        ELSE p2[t] = p[t]

LEMMA DecoderMoves ==
  ASSUME StateInv, NEW d \in Decoders, NEW p \in [Txs -> Places], PlaceMap(p), CountMap(p),
         NEW r2, dec' = [dec EXCEPT ![d] = r2],
         UNCHANGED <<kind, given, queue, ver, counted, validCount>>,
         NEW New, New \subseteq Coming, Coming' = Coming \ New,
         NEW M, M = Own(dec[d]) \cup New, Own(r2) \subseteq M, Apart(r2),
         r2.last = dec[d].last, r2.local = dec[d].local
  PROVE  \E p2 \in [Txs -> Places] :
            MovesTo(p, p2, d, r2, M) /\ PlaceMap(p2)' /\ CountMap(p2)'
<1> DEFINE g == [t \in M |-> IF t \in Loose(r2) THEN Checks(d)
                             ELSE IF t \in TxIn(r2.batch) THEN InBatch(d)
                             ELSE IF t \in InTask(r2.task) THEN Sends(d) ELSE Gone]
<1>1. \A t \in M : /\ t \in Loose(r2) => g[t] = Checks(d)
                   /\ t \in TxIn(r2.batch) => g[t] = InBatch(d)
                   /\ t \in InTask(r2.task) => g[t] = Sends(d)
                   /\ t \notin Own(r2) => g[t] = Gone
  BY DEF Apart, Own
<1> HIDE DEF g
<1>2. /\ Checks(d) # InBatch(d) /\ Checks(d) # Sends(d) /\ InBatch(d) # Sends(d)
      /\ Gone # Checks(d) /\ Gone # InBatch(d) /\ Gone # Sends(d)
      /\ {Checks(d), InBatch(d), Sends(d), Gone} \cap Counts = {}
  BY PlaceFacts, CountFacts
<1>3. ASSUME NEW t \in M PROVE Lands(d, r2, g[t], t)
  <2>1. CASE t \in Loose(r2)
    BY <1>1, <1>2, <2>1 DEF Lands, Apart
  <2>2. CASE t \in TxIn(r2.batch)
    BY <1>1, <1>2, <2>2 DEF Lands, Apart
  <2>3. CASE t \in InTask(r2.task)
    BY <1>1, <1>2, <2>3 DEF Lands, Apart
  <2>4. CASE t \notin Own(r2)
    BY <1>1, <1>2, <2>4 DEF Lands, Own
  <2>5. QED
    BY <2>1, <2>2, <2>3, <2>4 DEF Own
<1>4. PICK p2 : p2 = Move(p, M, g)
  OBVIOUS
<1>5. PICK C : C = {}
  OBVIOUS
<1>6. M = Own(dec[d]) \cup New \cup C /\ C \subseteq Txs /\ \A t \in C : p[t] \in Counts
  BY <1>5
<1>7. p2 \in [Txs -> Places] /\ PlaceMap(p2)'
  BY <1>3, <1>4, <1>6, DecoderMap
<1>8. MovesTo(p, p2, d, r2, M)
  <2>1. \A t \in Txs : p2[t] = IF t \in M THEN g[t] ELSE p[t]
    BY <1>4 DEF Move
  <2>2. QED
    BY <1>1, <2>1 DEF MovesTo, Own
<1>9. CountMap(p2)'
  <2>1. \A t \in M : t \in Txs /\ p[t] \notin Counts
    <3>1. \A t \in M : t \in Txs /\ p[t] \in {Checks(d), InBatch(d), Sends(d), ToCome}
      BY OwnFacts
    <3>2. ToCome \notin Counts
      BY PlaceFacts, CountFacts
    <3>3. QED
      BY <1>2, <3>1, <3>2
  <2>2. \A t \in M : p2[t] \notin Counts
    BY <1>2, <1>8, <2>1 DEF MovesTo, Own
  <2>3. \A t \in Txs : p2[t] = p[t] \/ (p2[t] \notin Counts /\ p[t] \notin Counts)
    BY <1>8, <2>1, <2>2 DEF MovesTo
  <2>4. \A e \in Decoders : dec'[e].last = dec[e].last /\ dec'[e].local = dec[e].local
    <3>1. dec'[d] = r2 /\ \A e \in Decoders : e # d => dec'[e] = dec[e]
      BY DEF StateInv
    <3>2. QED
      BY <3>1
  <2>5. \A v \in Verifiers : ver'[v].local = ver[v].local
                             /\ (ver'[v].pc = "exit" <=> ver[v].pc = "exit")
    OBVIOUS
  <2>6. QED
    BY <1>7, <2>3, <2>4, <2>5, SameCounts
<1>10. QED
  BY <1>7, <1>8, <1>9

\* Who is early before and after such a move of what r had and New.
Turns(p, p2, r, r2, New, M) ==
    /\ M \subseteq Txs
    /\ \A t \in Loose(r) \cup New : Early(p, t) /\ ~Passed(p, t)
    /\ \A t \in M : t \notin Loose(r) \cup New => ~Early(p, t) /\ Passed(p, t)
    /\ \A t \in M : /\ Early(p2, t) <=> t \in Loose(r2)
                    /\ Passed(p2, t) <=> t \in Own(r2) \ Loose(r2)
                    /\ p2[t] = Gone <=> t \notin Own(r2)
    /\ \A t \in Txs \ M : /\ Early(p2, t) <=> Early(p, t)
                          /\ Passed(p2, t) <=> Passed(p, t)
                          /\ p2[t] = Gone <=> p[t] = Gone

LEMMA EarlyFacts ==
  ASSUME NEW d \in Decoders, NEW p, PlaceMap(p), NEW New, New \subseteq Coming,
         NEW r2, NEW M, M = Own(dec[d]) \cup New, Own(r2) \subseteq M, Apart(r2),
         NEW p2, MovesTo(p, p2, d, r2, M)
  PROVE  Turns(p, p2, dec[d], r2, New, M)
<1>1. M \subseteq Txs
  BY OwnFacts
<1>2. \A e : /\ Checks(e) # InBatch(d) /\ Checks(e) # Sends(d) /\ Checks(e) # Gone
             /\ Checks(e) # ToCome
  BY PlaceFacts
<1>3. ToCome # InBatch(d) /\ ToCome # Sends(d) /\ ToCome # Gone
      /\ InBatch(d) # Gone /\ Sends(d) # Gone
  BY PlaceFacts
<1>4. \A t \in Loose(dec[d]) \cup New : Early(p, t) /\ ~Passed(p, t)
  BY OwnFacts DEF Early, Passed
<1>5. \A t \in M : t \notin Loose(dec[d]) \cup New => p[t] \in {InBatch(d), Sends(d)}
  BY OwnFacts DEF Own
<1>6. \A t \in M : t \notin Loose(dec[d]) \cup New => ~Early(p, t) /\ Passed(p, t)
  BY <1>2, <1>3, <1>5 DEF Early, Passed
<1>7. ASSUME NEW t \in M
      PROVE  /\ Early(p2, t) <=> t \in Loose(r2)
             /\ Passed(p2, t) <=> t \in Own(r2) \ Loose(r2)
             /\ p2[t] = Gone <=> t \notin Own(r2)
  <2>1. CASE t \in Loose(r2)
    <3>1. p2[t] = Checks(d) /\ t \in Own(r2)
      BY <1>1, <2>1 DEF MovesTo, Own
    <3>2. QED
      BY <1>2, <2>1, <3>1 DEF Early, Passed
  <2>2. CASE t \in Own(r2) \ Loose(r2)
    <3>1. p2[t] \in {InBatch(d), Sends(d)}
      BY <1>1, <2>2 DEF MovesTo
    <3>2. QED
      BY <1>2, <1>3, <2>2, <3>1 DEF Early, Passed
  <2>3. CASE t \notin Own(r2)
    <3>1. p2[t] = Gone /\ t \notin Loose(r2)
      BY <1>1, <2>3 DEF MovesTo, Own
    <3>2. QED
      BY <1>2, <1>3, <2>3, <3>1 DEF Early, Passed
  <2>4. QED
    BY <2>1, <2>2, <2>3
<1>8. \A t \in Txs \ M : /\ Early(p2, t) <=> Early(p, t)
                         /\ Passed(p2, t) <=> Passed(p, t)
                         /\ p2[t] = Gone <=> p[t] = Gone
  BY DEF MovesTo, Early, Passed
<1>9. QED
  BY <1>1, <1>4, <1>6, <1>7, <1>8 DEF Turns

\* Nothing comes back, nothing new passes the check of its order id, and nothing
\* reliable is lost.
LEMMA StillPlaced ==
  ASSUME UNCHANGED <<kind, given, crowded>>, SeenIds' = SeenIds,
         NEW p, NEW p2, Unique(p), Origin(p), Kept(p),
         \A t \in Txs : Early(p2, t) => Early(p, t),
         kind.dedup # "no" =>
            \A t \in Txs : Passed(p2, t) /\ t.oid # NoOrder => Passed(p, t),
         \A t \in Reliable : p2[t] = Gone => p[t] = Gone
  PROVE  Unique(p2)' /\ Origin(p2)' /\ Kept(p2)'
<1>1. Txs' = Txs /\ Reliable' = Reliable
  BY Rigid
<1>2. \A t : Early(p2, t)' <=> Early(p2, t)
  BY DEF Early, ToCome, Checks
<1>3. \A t : Passed(p2, t)' <=> Passed(p2, t)
  BY <1>2 DEF Passed, Gone
<1>4. Kept(p2)'
  BY <1>1 DEF Kept, Gone
<1>5. Unique(p2)'
  BY <1>1, <1>3 DEF Unique
<1>6. Origin(p2)'
  BY <1>1, <1>2 DEF Origin
<1>7. QED
  BY <1>4, <1>5, <1>6

\* What the reliable transactions are, sort by sort.
LEMMA ReliableFacts ==
  ASSUME Sort(kind)
  PROVE  /\ kind.verify = "none" => Reliable = {}
         /\ kind.gather = "count" => Reliable = {t \in Txs : t.uid # NoHeader}
         /\ kind.gather # "count" => Reliable \subseteq FullPipeline(given)
         /\ kind.verify = "whole" /\ Reliable # {} =>
               \A t \in Txs : Registered(t) => Verified(Signed(t, t.uid))
         /\ kind.gather = "user" /\ Reliable # {} => \A t \in Txs : t.uid # 0
         /\ kind.dedup = "bloom" => Reliable = {}
         /\ kind.dedup # "no" =>
               \A t \in Reliable :
                  /\ \A now \in 0 .. MaxTicks : Distance(t.time, now) <= MaxTimeDeviation
                  /\ \A s \in Txs : s.oid = t.oid /\ s # t => t.oid = NoOrder
         /\ Reliable \subseteq Txs
         /\ FullPipeline(given) = {t \in Txs : Registered(t) /\ Verified(Signed(t, t.uid))}
<1>1. FullPipeline(given) = {t \in Txs : Registered(t) /\ Verified(Signed(t, t.uid))}
  BY DEF FullPipeline, Txs
<1>2. CASE kind.verify = "none"
  <2>1. kind.gather # "count" /\ kind.dedup = "no" /\ kind.verify # "whole"
    BY <1>2 DEF Sort
  <2>2. Reliable = {}
    BY <1>2, <2>1 DEF Reliable
  <2>3. QED
    BY <1>1, <1>2, <2>1, <2>2
<1>3. CASE kind.gather = "count"
  <2>1. kind.verify = "each" /\ kind.dedup = "no"
    BY <1>3 DEF Sort
  <2>2. Reliable = {t \in Txs : t.uid # NoHeader}
    BY <1>3, <2>1 DEF Reliable, Txs
  <2>3. QED
    BY <1>1, <1>3, <2>1, <2>2
<1>4. CASE kind.verify = "whole"
  <2>1. kind.gather \notin {"user", "count"} /\ kind.dedup = "no"
    BY <1>4 DEF Sort
  <2>2. Reliable = IF \A t \in Txs : Registered(t) => Verified(Signed(t, t.uid))
                   THEN FullPipeline(given) ELSE {}
    BY <1>4, <2>1 DEF Reliable, Txs
  <2>3. QED
    BY <1>1, <1>4, <2>1, <2>2
<1>5. CASE kind.gather = "user" /\ kind.verify = "each"
  <2>1. kind.dedup = "no"
    BY <1>5 DEF Sort
  <2>2. Reliable = IF \A t \in Txs : t.uid # 0 THEN FullPipeline(given) ELSE {}
    BY <1>5, <2>1 DEF Reliable, Txs
  <2>3. QED
    BY <1>1, <1>5, <2>1, <2>2
<1>6. CASE kind.dedup = "bloom"
  <2>1. kind.gather = "each" /\ kind.verify = "each"
    BY <1>6 DEF Sort
  <2>2. Reliable = {}
    BY <1>6, <2>1 DEF Reliable
  <2>3. QED
    BY <1>1, <1>6, <2>1, <2>2
<1>7. CASE kind.dedup \in {"set", "flat"}
  <2>1. kind.gather = "each" /\ kind.verify = "each"
    BY <1>7 DEF Sort
  <2>2. Reliable = {t \in FullPipeline(given) :
                /\ \A now \in 0 .. MaxTicks : Distance(t.time, now) <= MaxTimeDeviation
                /\ \A s \in Txs : s.oid = t.oid /\ s # t => t.oid = NoOrder}
    BY <1>7, <2>1 DEF Reliable, Txs
  <2>3. QED
    BY <1>1, <1>7, <2>1, <2>2
<1>8. CASE kind.verify = "each" /\ kind.gather \notin {"count", "user"} /\ kind.dedup = "no"
  <2>1. Reliable = FullPipeline(given)
    BY <1>8 DEF Reliable
  <2>2. QED
    BY <1>1, <1>8, <2>1
<1>9. QED
  BY <1>2, <1>3, <1>4, <1>5, <1>6, <1>7, <1>8 DEF Sort

\* A decoder goes on, and counts nothing.
LEMMA DecoderPlaces ==
  ASSUME StateInv, NEW d \in Decoders, NEW p \in [Txs -> Places], Placed(p),
         NEW r2, dec' = [dec EXCEPT ![d] = r2],
         UNCHANGED <<kind, given, queue, ver, counted, validCount, crowded>>,
         SeenIds' = SeenIds,
         NEW New, New \subseteq Coming, Coming' = Coming \ New,
         NEW M, M = Own(dec[d]) \cup New, Own(r2) \subseteq M, Apart(r2),
         r2.last = dec[d].last, r2.local = dec[d].local,
         Loose(r2) \subseteq Loose(dec[d]) \cup New,
         \A t \in M : t \in Reliable => t \in Own(r2),
         kind.dedup # "no" =>
            \A t \in Loose(dec[d]) \cup New : t \in Own(r2) \ Loose(r2) => t.oid = NoOrder
  PROVE  \E p2 \in [Txs -> Places] : Placed(p2)'
<1>1. PlaceMap(p) /\ CountMap(p) /\ Unique(p) /\ Origin(p) /\ Kept(p)
  BY DEF Placed
<1>2. PICK p2 \in [Txs -> Places] :
            MovesTo(p, p2, d, r2, M) /\ PlaceMap(p2)' /\ CountMap(p2)'
  BY <1>1, DecoderMoves
<1>3. Turns(p, p2, dec[d], r2, New, M)
  BY <1>1, <1>2, EarlyFacts
<1>4. \A t \in Txs : Early(p2, t) => Early(p, t)
  BY <1>3 DEF Turns
<1>5. kind.dedup # "no" => \A t \in Txs : Passed(p2, t) /\ t.oid # NoOrder => Passed(p, t)
  BY <1>3 DEF Turns
<1>6. \A t \in Reliable : t \in Txs => (p2[t] = Gone => p[t] = Gone)
  BY <1>3 DEF Turns
<1>7. Reliable \subseteq Txs
  BY KindFacts, ReliableFacts DEF StateInv, InputInv
<1>8. Unique(p2)' /\ Origin(p2)' /\ Kept(p2)'
  BY <1>1, <1>4, <1>5, <1>6, <1>7, StillPlaced
<1>9. QED
  BY <1>2, <1>8 DEF Placed

-------------------------------------------------------------------------------
(* A decoder takes a message.                                              *)

\* What becomes of the transactions of message m.
Fate(r, r2, m) ==
    /\ Own(r2) \subseteq Own(r) \cup Carried(m) /\ Apart(r2)
    /\ r2.last = r.last /\ r2.local = r.local /\ Loose(r) = {}
    /\ Loose(r2) \subseteq Carried(m)
    /\ \A t \in Own(r) \cup Carried(m) : Registered(t) => t \in Own(r2)
    /\ Own(r) \subseteq Own(r2)
    /\ kind.dedup # "no" =>
          \A t \in Carried(m) : t \in Own(r2) \ Loose(r2) => t.oid = NoOrder

LEMMA DecodeFate ==
  ASSUME StateInv, BenchAssumption, NEW d \in Decoders, NEW r, r = dec[d], r.pc = "take",
         kind.gather # "count", NEW r2, NEW m, DecodeCases(r, r2, m),
         \A t \in Carried(m) : t \in Txs, Carried(m) \cap TxIn(r.batch) = {}
  PROVE  Fate(r, r2, m)
<1>1. /\ DecOk(r) /\ Free(r) /\ Loose(r) = {} /\ InTask(r.task) = {} /\ r.task = Poison
      /\ DOMAIN r = WorkFields
  BY FreeDec DEF StateInv, Free
<1>2. Own(r) = TxIn(r.batch)
  BY <1>1 DEF Own
<1>3. Sort(kind) /\ kind \in AllKinds
  BY KindFacts DEF StateInv, InputInv
<1>4. \A t : t.uid = NoHeader => ~Registered(t)
  <2>1. NoHeader \notin 1 .. NumUsers
    BY DEF NoHeader, BenchAssumption
  <2>2. QED
    BY <2>1 DEF Registered
<1>5. TxIn({}) = {}
  BY DEF TxIn
<1>6. Apart(r)
  BY <1>1 DEF Apart
<1>7. CASE r2 = r /\ \A t \in Carried(m) : t.uid = NoHeader
  BY <1>1, <1>2, <1>4, <1>6, <1>7 DEF Fate
<1>8. CASE Carried(m) = {} /\ kind.dedup = "bloom" /\ r2 = [r EXCEPT !.pc = "exit"]
  <2>1. r2.pc = "exit" /\ r2.batch = r.batch /\ r2.task = r.task /\ r2.last = r.last
        /\ r2.local = r.local
    BY <1>1, <1>8 DEF WorkFields
  <2>2. Loose(r2) = {} /\ InTask(r2.task) = {}
    BY <1>1, <2>1 DEF Loose, Looking
  <2>3. Own(r2) = Own(r)
    BY <1>1, <2>1, <2>2 DEF Own
  <2>4. QED
    BY <1>1, <1>8, <2>1, <2>2, <2>3 DEF Fate, Apart
<1>9. CASE kind.blocks /\ Carried(m) = ToSet(m.txs) /\ r2 = Block(r, m.txs)
  <2>1. PICK txs : txs = m.txs
    OBVIOUS
  <2>2. Carried(m) = ToSet(txs) /\ r2 = Block(r, txs) /\ \A t \in ToSet(txs) : t \in Txs
    BY <1>9, <2>1
  <2>3. /\ DOMAIN r2 = WorkFields
        /\ \A f \in WorkFields \ {"pc", "task", "local"} : r2[f] = r[f]
        /\ r2.pc = IF r2.task = Poison THEN r.pc ELSE "send"
        /\ r2.local = r.local
        /\ InTask(r2.task) = {t \in Carried(m) : Registered(t)}
    BY <1>1, <1>3, <1>9, <2>2, BlockFacts
  <2>4. r2.batch = r.batch /\ r2.last = r.last
    BY <2>3 DEF WorkFields
  <2>5. Loose(r2) = {}
    BY <2>3 DEF Loose, Looking
  <2>6. kind.gather = "block" /\ kind.dedup = "no"
    BY <1>3, <1>9 DEF Sort
  <2>7. Own(r2) = Own(r) \cup {t \in Carried(m) : Registered(t)}
    BY <1>2, <2>3, <2>4, <2>5 DEF Own
  <2>8. Apart(r2)
    BY <2>3, <2>4, <2>5 DEF Apart
  <2>9. QED
    BY <1>1, <2>3, <2>4, <2>5, <2>6, <2>7, <2>8 DEF Fate
<1>10. ASSUME NEW t \in Txs, Carried(m) = {t}, kind.dedup = "no" \/ t.oid = NoOrder,
              Took(r, r2, t)
       PROVE  Fate(r, r2, m)
  <2>1. Loose(r2) = {}
    BY <1>10 DEF Took, Loose, Looking
  <2>2. Own(r2) = TxIn(r2.batch) \cup InTask(r2.task)
    BY <2>1 DEF Own
  <2>3. /\ Own(r2) \subseteq Own(r) \cup {t} /\ Own(r) \subseteq Own(r2)
        /\ Registered(t) => t \in Own(r2)
        /\ TxIn(r2.batch) \cap InTask(r2.task) = {}
        /\ r2.last = r.last /\ r2.local = r.local
    BY <1>2, <1>10, <2>2 DEF Took
  <2>4. Apart(r2)
    BY <2>1, <2>3 DEF Apart
  <2>5. QED
    BY <1>1, <1>10, <2>1, <2>3, <2>4 DEF Fate
<1>11. ASSUME NEW t \in Txs, Carried(m) = {t}, kind.dedup # "no",
              r2 = [r EXCEPT !.pc = "check", !.tx = t]
       PROVE  Fate(r, r2, m)
  <2>1. r2.pc = "check" /\ r2.tx = t /\ r2.batch = r.batch /\ r2.task = r.task
        /\ r2.last = r.last /\ r2.local = r.local
    BY <1>1, <1>11 DEF WorkFields
  <2>2. r.batch = {} /\ Own(r) = {}
    BY <1>1, <1>2, <1>3, <1>5, <1>11 DEF Free, Sort
  <2>3. Loose(r2) = {t} /\ Own(r2) = {t} /\ Apart(r2)
    <3>1. Loose(r2) = {t}
      BY <2>1 DEF Loose, Looking
    <3>2. TxIn(r2.batch) = {} /\ InTask(r2.task) = {}
      BY <1>1, <1>5, <2>1, <2>2
    <3>3. QED
      BY <3>1, <3>2 DEF Own, Apart
  <2>4. QED
    BY <1>1, <1>11, <2>1, <2>2, <2>3 DEF Fate
<1>12. QED
  BY <1>7, <1>8, <1>9, <1>10, <1>11 DEF DecodeCases

\* Nothing of the invariants is about the transactions a decoder has taken when
\* nothing is counted.
LEMMA DecodePlaces ==
  ASSUME StateInv, BenchAssumption, InputAssumption, NEW d \in Decoders, Decode(d),
         kind.gather # "count", NEW p \in [Txs -> Places], Placed(p)
  PROVE  \E p2 \in [Txs -> Places] : Placed(p2)'
<1>1. PICK r : r = dec[d]
  OBVIOUS
<1>2. PICK m : m = given[Decoded + 1]
  OBVIOUS
<1>3. PICK r2 : dec' = [dec EXCEPT ![d] = r2] /\ DecodeCases(r, r2, m)
  BY <1>1, <1>2, DecodeResult
<1>4. /\ r.pc = "take" /\ rawChan # <<>> /\ rawChan' = Tail(rawChan)
      /\ UNCHANGED <<kind, given, feed, rawClosed, queue, ver, validCount, dedupVars, counted>>
  BY <1>1 DEF Decode
<1>5. /\ Decoded' = Decoded + 1 /\ Decoded \in Nat /\ Decoded + 1 \in DOMAIN given
  BY <1>4, DecodeMoves
<1>6. given \in Seq(Message) /\ Numbered(given) /\ Sort(kind)
  BY KindFacts DEF StateInv, InputInv
<1>7. Carried(m) \subseteq Coming /\ Coming' = Coming \ Carried(m)
  BY <1>2, <1>4, <1>5, <1>6, ComingMoves
<1>8. PlaceMap(p)
  BY DEF Placed
<1>9. \A t \in Carried(m) : t \in Txs /\ p[t] = ToCome
  BY <1>7, <1>8, OwnFacts
<1>10. Carried(m) \cap TxIn(r.batch) = {}
  <2>1. \A t \in TxIn(r.batch) : p[t] = InBatch(d)
    BY <1>1, <1>8, OwnFacts
  <2>2. ToCome # InBatch(d)
    BY PlaceFacts
  <2>3. QED
    BY <1>9, <2>1, <2>2
<1>11. Fate(r, r2, m)
  BY <1>1, <1>3, <1>4, <1>9, <1>10, DecodeFate
<1>12. PICK M : M = Own(r) \cup Carried(m)
  OBVIOUS
<1>13. SeenIds' = SeenIds /\ crowded' = crowded
  BY <1>4 DEF SeenIds, dedupVars
<1>14. \A t \in M : t \in Reliable => t \in Own(r2)
  <2>1. \A t \in Reliable : Registered(t)
    BY <1>6, ReliableFacts
  <2>2. QED
    BY <1>11, <1>12, <2>1 DEF Fate
<1>15. /\ Own(r2) \subseteq M /\ Apart(r2)
       /\ r2.last = r.last /\ r2.local = r.local
       /\ Loose(r2) \subseteq Loose(r) \cup Carried(m)
       /\ kind.dedup # "no" =>
            \A t \in Loose(r) \cup Carried(m) : t \in Own(r2) \ Loose(r2) => t.oid = NoOrder
  BY <1>11, <1>12 DEF Fate
<1>16. QED
  BY <1>1, <1>3, <1>4, <1>7, <1>12, <1>13, <1>14, <1>15, DecoderPlaces

\* The count of the next state, with the places of this one.
LEMMA CountNext ==
  ASSUME UNCHANGED <<kind, given>>, NEW p2,
         counted' = {t \in Txs : p2[t] \in Counts},
         validCount' = Cardinality(At(p2, Total)),
         \A d \in Decoders : IF dec'[d].last THEN At(p2, CountD(d)) = {}
                             ELSE dec'[d].local = Cardinality(At(p2, CountD(d))),
         kind.gather # "count" => \A d \in Decoders : At(p2, CountD(d)) = {},
         \A v \in Verifiers : IF ver'[v].pc = "exit" THEN At(p2, CountV(v)) = {}
                              ELSE ver'[v].local = Cardinality(At(p2, CountV(v))),
         ~kind.local => \A v \in Verifiers : At(p2, CountV(v)) = {}
  PROVE  CountMap(p2)'
<1>1. Txs' = Txs /\ \A x : At(p2, x)' = At(p2, x)
  BY Rigid
<1>2. counted' = {t \in Txs' : p2[t] \in Counts}
  BY <1>1
<1>3. validCount' = Cardinality(At(p2, Total)')
  BY <1>1
<1>4. \A d \in Decoders : IF dec'[d].last THEN At(p2, CountD(d))' = {}
                          ELSE dec'[d].local = Cardinality(At(p2, CountD(d))')
  BY <1>1
<1>5. kind'.gather # "count" => \A d \in Decoders : At(p2, CountD(d))' = {}
  BY <1>1
<1>6. \A v \in Verifiers : IF ver'[v].pc = "exit" THEN At(p2, CountV(v))' = {}
                           ELSE ver'[v].local = Cardinality(At(p2, CountV(v))')
  BY <1>1
<1>7. ~kind'.local => \A v \in Verifiers : At(p2, CountV(v))' = {}
  BY <1>1
<1>8. QED
  BY <1>2, <1>3, <1>4, <1>5, <1>6, <1>7 DEF CountMap

\* Counts of transactions that are apart add up.
LEMMA SumFacts ==
  ASSUME given \in Seq(Message), NEW S, NEW T, S \subseteq Txs, T \subseteq Txs, S \cap T = {}
  PROVE  /\ Cardinality(S \cup T) = Cardinality(S) + Cardinality(T)
         /\ Cardinality(S) \in Nat /\ Cardinality(T) \in Nat
<1>1. IsFiniteSet(S) /\ IsFiniteSet(T)
  BY InputTxs, FS_Subset
<1>2. Cardinality(S \cap T) = 0
  BY FS_EmptySet
<1>3. Cardinality(S) \in Nat /\ Cardinality(T) \in Nat
  BY <1>1, FS_CardinalityType
<1>4. Cardinality(S \cup T) = Cardinality(S) + Cardinality(T) - Cardinality(S \cap T)
  BY <1>1, FS_Union
<1>5. QED
  BY <1>2, <1>3, <1>4

\* A decoder that only counts counts the transactions with a header.
LEMMA CountPlaces ==
  ASSUME StateInv, BenchAssumption, InputAssumption, NEW d \in Decoders, Decode(d),
         kind.gather = "count", NEW p \in [Txs -> Places], Placed(p)
  PROVE  \E p2 \in [Txs -> Places] : Placed(p2)'
<1>1. PICK r : r = dec[d]
  OBVIOUS
<1>2. PICK m : m = given[Decoded + 1]
  OBVIOUS
<1>3. PICK r2 : dec' = [dec EXCEPT ![d] = r2] /\ DecodeCases(r, r2, m)
  BY <1>1, <1>2, DecodeResult
<1>4. /\ r.pc = "take" /\ rawChan # <<>> /\ rawChan' = Tail(rawChan)
      /\ UNCHANGED <<kind, given, feed, rawClosed, queue, ver, validCount, dedupVars>>
      /\ counted' = counted \cup {t \in TxsOf(<<Head(rawChan)>>) : t.uid # NoHeader}
  BY <1>1 DEF Decode
<1>5. /\ Decoded' = Decoded + 1 /\ Decoded \in Nat /\ Decoded + 1 \in DOMAIN given
      /\ m = Head(rawChan)
  BY <1>2, <1>4, DecodeMoves
<1>6. /\ given \in Seq(Message) /\ Numbered(given) /\ Sort(kind) /\ kind \in AllKinds
      /\ kind.blocks /\ kind.dedup = "no" /\ kind.local
  BY KindFacts DEF StateInv, InputInv, Sort
<1>7. Carried(m) \subseteq Coming /\ Coming' = Coming \ Carried(m)
  BY <1>2, <1>4, <1>5, <1>6, ComingMoves
<1>8. PlaceMap(p) /\ CountMap(p) /\ Kept(p)
  BY DEF Placed
<1>9. \A t \in Carried(m) : t \in Txs /\ p[t] = ToCome
  BY <1>7, <1>8, OwnFacts
<1>10. /\ DecOk(r) /\ Free(r) /\ Loose(r) = {} /\ InTask(r.task) = {} /\ r.last = FALSE
       /\ r.local \in Nat
  BY <1>1, <1>4, FreeDec DEF StateInv, DecOk
<1>11. r.batch = {} /\ Own(r) = {}
  BY <1>10 DEF Free, Own, TxIn
<1> DEFINE U == {t \in Carried(m) : t.uid # NoHeader}
<1>12. counted' = counted \cup U
  <2>1. ToSet(<<m>>) = {m}
    BY DEF ToSet
  <2>2. TxsOf(<<m>>) = Carried(m)
    BY <2>1 DEF TxsOf, Carried
  <2>3. QED
    BY <1>4, <1>5, <2>2
<1>13. U \subseteq Txs /\ U \subseteq Carried(m)
  BY <1>9
<1>14. r2.local = r.local + Cardinality(U) /\ Own(r2) = {} /\ r2.last = FALSE
       /\ Loose(r2) = {} /\ TxIn(r2.batch) = {} /\ InTask(r2.task) = {}
  <2>1. CASE Carried(m) = {} /\ r2 = r
    <3>1. Cardinality(U) = 0
      BY <2>1, FS_EmptySet
    <3>2. QED
      BY <2>1, <3>1, <1>10, <1>11 DEF Own
  <2>2. CASE kind.blocks /\ Carried(m) = ToSet(m.txs) /\ r2 = Block(r, m.txs)
    <3>1. PICK txs : txs = m.txs
      OBVIOUS
    <3>2. Carried(m) = ToSet(txs) /\ r2 = Block(r, txs) /\ \A t \in ToSet(txs) : t \in Txs
      BY <1>9, <2>2, <3>1
    <3>3. /\ DOMAIN r2 = WorkFields
          /\ \A f \in WorkFields \ {"pc", "task", "local"} : r2[f] = r[f]
          /\ r2.pc = IF r2.task = Poison THEN r.pc ELSE "send"
          /\ r2.task = Poison
          /\ r2.local = r.local + Cardinality({t \in ToSet(txs) : t.uid # NoHeader})
      <4>1. /\ DOMAIN Block(r, txs) = WorkFields
            /\ \A f \in WorkFields \ {"pc", "task", "local"} : Block(r, txs)[f] = r[f]
            /\ Block(r, txs).pc = IF Block(r, txs).task = Poison THEN r.pc ELSE "send"
            /\ IF kind.gather = "count"
               THEN /\ Block(r, txs).task = Poison
                    /\ Block(r, txs).local =
                         r.local + Cardinality({t \in ToSet(txs) : t.uid # NoHeader})
               ELSE Block(r, txs).local = r.local
        BY ZenonT(60), <1>6, <1>10, <3>2, BlockFacts
      <4>2. QED
        BY <3>2, <4>1
    <3>4. r2.batch = {} /\ r2.last = FALSE /\ r2.pc = "take"
      BY <1>4, <1>10, <1>11, <3>3 DEF WorkFields
    <3>5. /\ Loose(r2) = {} /\ TxIn(r2.batch) = {} /\ InTask(r2.task) = {}
      BY <3>3, <3>4 DEF Loose, Looking, TxIn, InTask
    <3>6. QED
      BY <3>2, <3>3, <3>4, <3>5 DEF Own
  <2>3. QED
    BY <1>3, <1>6, <2>1, <2>2 DEF DecodeCases
<1> HIDE DEF U
<1>15. PICK M : M = Carried(m)
  OBVIOUS
<1>16. PICK C : C = {}
  OBVIOUS
<1>17. PICK g : g = [t \in M |-> IF t \in U THEN CountD(d) ELSE Gone]
  OBVIOUS
<1>18. \A t \in M : /\ t \in U => g[t] = CountD(d)
                    /\ t \notin U => g[t] = Gone
  BY <1>17
<1>19. CountD(d) \in Counts
  BY PlacesHas
<1>20. \A x \in Counts \cup {Gone} : x # Checks(d) /\ x # InBatch(d) /\ x # Sends(d)
  BY PlaceFacts, CountFacts
<1>21. ASSUME NEW t \in M PROVE Lands(d, r2, g[t], t)
  <2>1. g[t] \in Counts \cup {Gone}
    BY <1>18, <1>19
  <2>2. QED
    BY <1>14, <1>20, <2>1 DEF Lands
<1>22. PICK p2 : p2 = Move(p, M, g)
  OBVIOUS
<1>23. M = Own(dec[d]) \cup Carried(m) \cup C /\ Own(r2) \subseteq M
       /\ C \subseteq Txs /\ \A t \in C : p[t] \in Counts
  BY <1>1, <1>11, <1>14, <1>15, <1>16
<1>24. p2 \in [Txs -> Places] /\ PlaceMap(p2)'
  BY <1>3, <1>4, <1>7, <1>8, <1>21, <1>22, <1>23, DecoderMap
<1>25. \A x : At(p2, x) = (At(p, x) \ M) \cup {t \in M : g[t] = x}
  BY <1>9, <1>15, <1>22, AtMove
<1>26. ToCome \notin Counts /\ Gone \notin Counts
  BY PlaceFacts, CountFacts
<1>27. \A x \in Counts : x # CountD(d) => At(p2, x) = At(p, x)
  <2> TAKE x \in Counts
  <2> HAVE x # CountD(d)
  <2>1. \A t \in M : g[t] # x /\ p[t] # x
    BY <1>9, <1>15, <1>18, <1>26
  <2>2. At(p, x) \ M = At(p, x) /\ {t \in M : g[t] = x} = {}
    BY <2>1 DEF At
  <2>3. QED
    BY <1>25, <2>2
<1>28. At(p2, CountD(d)) = At(p, CountD(d)) \cup U
  <2>1. \A t \in M : p[t] # CountD(d)
    BY <1>9, <1>15, <1>19, <1>26
  <2>2. {t \in M : g[t] = CountD(d)} = U
    BY <1>13, <1>15, <1>18, <1>19, <1>26
  <2>3. QED
    BY <1>25, <2>1, <2>2 DEF At
<1>29. Cardinality(At(p2, CountD(d))) = Cardinality(At(p, CountD(d))) + Cardinality(U)
  <2>1. At(p, CountD(d)) \cap U = {} /\ At(p, CountD(d)) \subseteq Txs
    BY <1>9, <1>13, <1>19, <1>26 DEF At
  <2>2. QED
    BY <1>6, <1>13, <1>28, <2>1, SumFacts
<1>30. counted' = {t \in Txs : p2[t] \in Counts}
  <2>1. counted = {t \in Txs : p[t] \in Counts}
    BY <1>8 DEF CountMap
  <2>2. \A t \in Txs : p2[t] = IF t \in M THEN g[t] ELSE p[t]
    BY <1>22 DEF Move
  <2>3. \A t \in M : (p2[t] \in Counts <=> t \in U) /\ p[t] \notin Counts
    BY <1>9, <1>15, <1>18, <1>19, <1>26, <2>2
  <2>4. QED
    BY <1>12, <1>13, <1>15, <2>1, <2>2, <2>3
<1>31. validCount' = Cardinality(At(p2, Total))
  <2>1. Total # CountD(d) /\ Total \in Counts
    BY PlaceFacts, PlacesHas
  <2>2. At(p2, Total) = At(p, Total)
    BY <1>27, <2>1
  <2>3. QED
    BY <1>4, <1>8, <2>2 DEF CountMap
<1>32. \A e \in Decoders : IF dec'[e].last THEN At(p2, CountD(e)) = {}
                           ELSE dec'[e].local = Cardinality(At(p2, CountD(e)))
  <2> TAKE e \in Decoders
  <2>1. CASE e = d
    <3>1. dec'[e] = r2 /\ ~r.last
      BY <1>3, <1>10, <2>1 DEF StateInv
    <3>2. r.local = Cardinality(At(p, CountD(d)))
      BY <1>1, <1>8, <3>1 DEF CountMap
    <3>3. ~r2.last
      BY <1>14
    <3>4. QED
      BY <1>14, <1>29, <2>1, <3>1, <3>2, <3>3
  <2>2. CASE e # d
    <3>1. dec'[e] = dec[e]
      BY <1>3, <2>2
    <3>2. CountD(e) # CountD(d) /\ CountD(e) \in Counts
      BY <2>2, PlaceFacts, PlacesHas
    <3>3. At(p2, CountD(e)) = At(p, CountD(e))
      BY <1>27, <3>2
    <3>4. QED
      BY <1>8, <3>1, <3>3 DEF CountMap
  <2>3. QED
    BY <2>1, <2>2
<1>33. \A v \in Verifiers : At(p2, CountV(v)) = At(p, CountV(v))
  <2> TAKE v \in Verifiers
  <2>1. CountV(v) # CountD(d) /\ CountV(v) \in Counts
    BY PlaceFacts, PlacesHas
  <2>2. QED
    BY <1>27, <2>1
<1>34. \A v \in Verifiers : IF ver'[v].pc = "exit" THEN At(p2, CountV(v)) = {}
                            ELSE ver'[v].local = Cardinality(At(p2, CountV(v)))
  BY <1>4, <1>8, <1>33 DEF CountMap
<1>35. CountMap(p2)'
  BY <1>4, <1>6, <1>30, <1>31, <1>32, <1>34, CountNext
<1>36. Unique(p2)' /\ Origin(p2)'
  BY <1>4, <1>6 DEF Unique, Origin
<1>37. Kept(p2)'
  <2>1. Reliable' = Reliable /\ Reliable = {t \in Txs : t.uid # NoHeader}
    BY <1>4, <1>6, Rigid, ReliableFacts
  <2>2. \A t \in Reliable : p2[t] # Gone
    <3> TAKE t \in Reliable
    <3>1. CASE t \in M
      BY <1>15, <1>18, <1>19, <1>22, <1>26, <2>1, <3>1 DEF Move, U
    <3>2. CASE t \notin M
      BY <1>8, <1>22, <2>1, <3>2 DEF Move, Kept
    <3>3. QED
      BY <3>1, <3>2
  <2>3. QED
    BY <2>1, <2>2 DEF Kept, Gone
<1>38. QED
  BY <1>24, <1>35, <1>36, <1>37 DEF Placed

-------------------------------------------------------------------------------
(* A decoder checks an order id.                                           *)

\* A decoder has no more than the transaction it checks.
LEMMA CheckOwn ==
  ASSUME NEW r, r.batch = {}, InTask(r.task) = {}, Loose(r) = {r.tx},
         NEW r2, CheckCases(r, r2), r.last = FALSE
  PROVE  /\ Own(r) = {r.tx} /\ Own(r2) = Loose(r2) \cup InTask(r2.task)
         /\ Own(r2) \subseteq {r.tx} /\ Apart(r2)
         /\ r2.last = r.last /\ r2.local = r.local
<1>1. TxIn(r.batch) = {} /\ TxIn(r2.batch) = {}
  BY DEF CheckCases, TxIn
<1>2. QED
  BY <1>1 DEF CheckCases, Own, Apart

\* Who has the order id of another transaction need not be kept.
LEMMA TakenOrder ==
  ASSUME StateInv, BenchAssumption, NEW d \in Decoders, dec[d].pc \in Looking,
         NEW p, PlaceMap(p), Origin(p), dec[d].tx.oid \in SeenIds
  PROVE  dec[d].tx \notin Reliable
<1>1. PICK r : r = dec[d]
  OBVIOUS
<1>2. r.tx \in Txs /\ r.tx.oid \in OrderIds /\ kind.dedup # "no" /\ Sort(kind)
      /\ Loose(r) = {r.tx}
  BY <1>1, LookingFacts
<1>3. PICK s \in Txs : s.oid = r.tx.oid /\ ~Early(p, s)
  BY <1>1, <1>2 DEF Origin
<1>4. p[r.tx] = Checks(d)
  BY <1>1, <1>2, OwnFacts
<1>5. s # r.tx
  BY <1>3, <1>4 DEF Early
<1>6. r.tx.oid # NoOrder
  BY <1>2 DEF BenchAssumption
<1>7. QED
  BY <1>1, <1>2, <1>3, <1>5, <1>6, ReliableFacts

\* The check goes on, or the transaction is dropped, and none passes.
LEMMA CheckPlaces ==
  ASSUME StateInv, BenchAssumption, NEW d \in Decoders, dec[d].pc \in Looking,
         NEW r2, dec' = [dec EXCEPT ![d] = r2], CheckCases(dec[d], r2), InTask(r2.task) = {},
         dec[d].tx \in Reliable => Loose(r2) = {dec[d].tx},
         UNCHANGED <<kind, given, channels, ver, counted, validCount, crowded>>,
         SeenIds' = SeenIds, NEW p \in [Txs -> Places], Placed(p)
  PROVE  \E p2 \in [Txs -> Places] : Placed(p2)'
<1>1. PICK r : r = dec[d]
  OBVIOUS
<1>2. /\ r.batch = {} /\ InTask(r.task) = {} /\ Loose(r) = {r.tx} /\ r.last = FALSE
  BY <1>1, LookingFacts
<1>3. CheckCases(r, r2)
  BY <1>1
<1>4. /\ Own(r) = {r.tx} /\ Own(r2) = Loose(r2)
      /\ Own(r2) \subseteq {r.tx} /\ Apart(r2)
      /\ r2.last = r.last /\ r2.local = r.local
  <2>1. /\ Own(r) = {r.tx} /\ Own(r2) = Loose(r2) \cup InTask(r2.task)
        /\ Own(r2) \subseteq {r.tx} /\ Apart(r2)
        /\ r2.last = r.last /\ r2.local = r.local
    BY <1>2, <1>3, CheckOwn
  <2>2. QED
    BY <2>1
<1>5. UNCHANGED <<feed, rawChan, queue>>
  BY DEF channels
<1>6. Coming' = Coming
  BY <1>5, ComingSame DEF Decoded
<1>7. PICK New : New = {}
  OBVIOUS
<1>8. PICK M : M = Own(r) \cup New
  OBVIOUS
<1>9. New \subseteq Coming /\ Coming' = Coming \ New
  BY <1>6, <1>7
<1>10. /\ Own(r2) \subseteq M /\ Loose(r2) \subseteq Loose(r) \cup New
       /\ \A t \in M : t \in Reliable => t \in Own(r2)
       /\ Own(r2) \ Loose(r2) = {}
  BY <1>1, <1>2, <1>4, <1>7, <1>8
<1>11. kind.dedup # "no" =>
            \A t \in Loose(r) \cup New : t \in Own(r2) \ Loose(r2) => t.oid = NoOrder
  BY <1>10
<1>12. QED
  BY <1>1, <1>4, <1>5, <1>8, <1>9, <1>10, <1>11, DecoderPlaces

LEMMA CheckTimePlaces ==
  ASSUME StateInv, BenchAssumption, NEW d \in Decoders, CheckTime(d),
         NEW p \in [Txs -> Places], Placed(p)
  PROVE  \E p2 \in [Txs -> Places] : Placed(p2)'
<1>1. dec[d].pc \in Looking
  BY DEF CheckTime, Looking
<1>2. PICK r2 : /\ dec' = [dec EXCEPT ![d] = r2] /\ CheckCases(dec[d], r2)
                /\ InTask(r2.task) = {}
                /\ IsValidUUIDv7(dec[d].tx) => Loose(r2) = {dec[d].tx}
  BY CheckTimeState
<1>3. dec[d].tx \in Reliable => IsValidUUIDv7(dec[d].tx)
  <2>1. Sort(kind) /\ kind.dedup # "no" /\ globalTime \in 0 .. MaxTicks
    BY <1>1, LookingFacts DEF StateInv, CacheInv
  <2>2. QED
    BY <2>1, ReliableFacts DEF IsValidUUIDv7
<1>4. /\ UNCHANGED <<kind, given, channels, ver, counted, validCount, crowded>>
      /\ SeenIds' = SeenIds
  BY DEF CheckTime, SeenIds
<1>5. QED
  BY <1>1, <1>2, <1>3, <1>4, CheckPlaces

LEMMA SeenReadPlaces ==
  ASSUME StateInv, BenchAssumption, NEW d \in Decoders, SeenRead(d),
         NEW p \in [Txs -> Places], Placed(p)
  PROVE  \E p2 \in [Txs -> Places] : Placed(p2)'
<1>1. dec[d].pc \in Looking /\ dec[d].pc \in {"set", "bloom"}
  BY DEF SeenRead, Looking
<1>2. PICK r2 : /\ dec' = [dec EXCEPT ![d] = r2] /\ CheckCases(dec[d], r2)
                /\ InTask(r2.task) = {}
                /\ dec[d].tx.oid \notin orderCache => Loose(r2) = {dec[d].tx}
  BY SeenReadState
<1>3. SeenIds = orderCache
  <2>1. dec[d].pc = kind.dedup
    BY <1>1 DEF StateInv, DecOk
  <2>2. QED
    BY <1>1, <2>1 DEF SeenIds
<1>4. dec[d].tx \in Reliable => Loose(r2) = {dec[d].tx}
  BY <1>1, <1>2, <1>3, TakenOrder DEF Placed
<1>5. /\ UNCHANGED <<kind, given, channels, ver, counted, validCount, crowded>>
      /\ SeenIds' = SeenIds
  BY DEF SeenRead, SeenIds
<1>6. QED
  BY <1>1, <1>2, <1>4, <1>5, CheckPlaces

\* The check is over: the order id is known now, and was if the transaction is a
\* duplicate.
LEMMA DonePlaces ==
  ASSUME StateInv, BenchAssumption, NEW d \in Decoders, dec[d].pc \in Looking,
         NEW r2, dec' = [dec EXCEPT ![d] = r2], NEW dup, CheckDone(dec[d], r2, dup),
         UNCHANGED <<kind, given, channels, ver, counted, validCount>>,
         dec[d].tx.oid \in SeenIds',
         SeenIds' \subseteq SeenIds \cup {dec[d].tx.oid},
         ~crowded' => ~crowded /\ SeenIds \subseteq SeenIds',
         dup => dec[d].tx.oid \in SeenIds,
         ~crowded' /\ dec[d].tx.oid \in SeenIds => dup,
         NEW p \in [Txs -> Places], Placed(p)
  PROVE  \E p2 \in [Txs -> Places] : Placed(p2)'
<1>1. PICK r : r = dec[d]
  OBVIOUS
<1>2. PICK t0 : t0 = r.tx
  OBVIOUS
<1>3. /\ r.batch = {} /\ InTask(r.task) = {} /\ Loose(r) = {t0} /\ r.last = FALSE
      /\ t0 \in Txs /\ t0.oid \in OrderIds /\ kind.dedup # "no" /\ Sort(kind)
  BY <1>1, <1>2, LookingFacts
<1>4. /\ CheckCases(r, r2) /\ Loose(r2) = {}
      /\ dup => InTask(r2.task) = {}
      /\ ~dup /\ Registered(t0) => InTask(r2.task) = {t0}
  BY <1>1, <1>2 DEF CheckDone
<1>5. /\ Own(r) = {t0} /\ Own(r2) = InTask(r2.task)
      /\ Own(r2) \subseteq {t0} /\ Apart(r2)
      /\ r2.last = r.last /\ r2.local = r.local
  <2>1. Loose(r) = {r.tx}
    BY <1>2, <1>3
  <2>2. /\ Own(r) = {r.tx} /\ Own(r2) = Loose(r2) \cup InTask(r2.task)
        /\ Own(r2) \subseteq {r.tx} /\ Apart(r2)
        /\ r2.last = r.last /\ r2.local = r.local
    BY <1>3, <1>4, <2>1, CheckOwn
  <2>3. QED
    BY <1>2, <1>4, <2>2
<1>6. UNCHANGED <<feed, rawChan, queue>>
  BY DEF channels
<1>7. Coming' = Coming
  BY <1>6, ComingSame DEF Decoded
<1>8. PICK New : New = {}
  OBVIOUS
<1>9. PICK M : M = Own(r) \cup New
  OBVIOUS
<1>10. M = {t0} /\ New \subseteq Coming /\ Coming' = Coming \ New
  BY <1>5, <1>7, <1>8, <1>9
<1>11. PlaceMap(p) /\ CountMap(p) /\ Unique(p) /\ Origin(p) /\ Kept(p)
  BY DEF Placed
<1>12. PICK p2 \in [Txs -> Places] :
            MovesTo(p, p2, d, r2, M) /\ PlaceMap(p2)' /\ CountMap(p2)'
  BY <1>1, <1>5, <1>6, <1>9, <1>10, <1>11, DecoderMoves
<1>13. Turns(p, p2, r, r2, New, M)
  BY <1>1, <1>5, <1>9, <1>10, <1>11, <1>12, EarlyFacts
<1>14. /\ Early(p, t0) /\ ~Passed(p, t0) /\ ~Early(p2, t0)
       /\ Passed(p2, t0) <=> t0 \in Own(r2)
       /\ p2[t0] = Gone <=> t0 \notin Own(r2)
       /\ \A t \in Txs : t # t0 => /\ Early(p2, t) <=> Early(p, t)
                                   /\ Passed(p2, t) <=> Passed(p, t)
                                   /\ p2[t] = Gone <=> p[t] = Gone
  BY <1>3, <1>4, <1>10, <1>13 DEF Turns
<1>15. Txs' = Txs /\ Reliable' = Reliable
  BY Rigid
<1>16. \A t : Early(p2, t)' <=> Early(p2, t)
  BY DEF Early, ToCome, Checks
<1>17. \A t : Passed(p2, t)' <=> Passed(p2, t)
  BY <1>16 DEF Passed, Gone
<1>18. Kept(p2)'
  <2>1. t0 \in Reliable => Registered(t0) /\ ~dup
    <3>1. t0 \in Reliable => Registered(t0)
      <4>1. kind.gather # "count"
        BY <1>3 DEF Sort
      <4>2. QED
        BY <1>3, <4>1, ReliableFacts
    <3>2. dup => t0 \notin Reliable
      BY <1>1, <1>2, <1>11, TakenOrder
    <3>3. QED
      BY <3>1, <3>2
  <2>2. t0 \in Reliable => p2[t0] # Gone
    BY <1>4, <1>5, <1>14, <2>1
  <2>3. \A t \in Reliable : t \in Txs
    BY <1>3, ReliableFacts
  <2>4. \A t \in Reliable : p2[t] # Gone
    BY <1>11, <1>14, <2>2, <2>3 DEF Kept
  <2>5. QED
    BY <1>15, <2>4 DEF Kept, Gone
<1>19. Origin(p2)'
  <2>1. \A o \in SeenIds' : \E s \in Txs : s.oid = o /\ ~Early(p2, s)
    <3> TAKE o \in SeenIds'
    <3>1. CASE o = t0.oid
      BY <1>3, <1>14, <3>1
    <3>2. CASE o # t0.oid
      <4>1. o \in SeenIds
        BY <1>1, <1>2, <3>2
      <4>2. PICK s \in Txs : s.oid = o /\ ~Early(p, s)
        BY <1>3, <1>11, <4>1 DEF Origin
      <4>3. QED
        BY <1>14, <4>2
    <3>3. QED
      BY <3>1, <3>2
  <2>2. QED
    BY <1>15, <1>16, <2>1 DEF Origin
<1>20. Unique(p2)'
  <2>1. ASSUME ~crowded'
        PROVE  /\ \A t \in Txs : Passed(p2, t) /\ t.oid # NoOrder => t.oid \in SeenIds'
               /\ \A s, t \in Txs : Passed(p2, s) /\ Passed(p2, t) /\ s.oid = t.oid
                                        /\ s.oid # NoOrder => s = t
    <3>1. ~crowded /\ SeenIds \subseteq SeenIds' /\ t0.oid \in SeenIds'
          /\ (t0.oid \in SeenIds => dup)
      BY <1>1, <1>2, <2>1
    <3>2. /\ \A t \in Txs : Passed(p, t) /\ t.oid # NoOrder => t.oid \in SeenIds
          /\ \A s, t \in Txs : Passed(p, s) /\ Passed(p, t) /\ s.oid = t.oid
                                   /\ s.oid # NoOrder => s = t
      BY <1>3, <1>11, <3>1 DEF Unique
    <3>3. \A t \in Txs : Passed(p2, t) /\ t.oid # NoOrder => t.oid \in SeenIds'
      BY <1>14, <3>1, <3>2
    <3>4. ASSUME Passed(p2, t0) PROVE t0.oid \notin SeenIds
      BY <1>4, <1>5, <1>14, <3>1, <3>4
    <3>5. ASSUME NEW s \in Txs, Passed(p2, s), Passed(p2, t0), s.oid = t0.oid,
                 t0.oid # NoOrder
          PROVE  s = t0
      BY <1>14, <3>2, <3>4, <3>5
    <3>6. ASSUME NEW s \in Txs, NEW t \in Txs, Passed(p2, s), Passed(p2, t),
                 s.oid = t.oid, s.oid # NoOrder
          PROVE  s = t
      <4>1. CASE s = t0
        BY <3>5, <3>6, <4>1
      <4>2. CASE t = t0
        BY <3>5, <3>6, <4>2
      <4>3. CASE s # t0 /\ t # t0
        BY <1>14, <3>2, <3>6, <4>3
      <4>4. QED
        BY <4>1, <4>2, <4>3
    <3>7. QED
      BY <3>3, <3>6
  <2>2. QED
    BY <1>15, <1>17, <2>1 DEF Unique
<1>21. QED
  BY <1>12, <1>18, <1>19, <1>20 DEF Placed

LEMMA SeenAddPlaces ==
  ASSUME StateInv, BenchAssumption, NEW d \in Decoders, SeenAdd(d),
         NEW p \in [Txs -> Places], Placed(p)
  PROVE  \E p2 \in [Txs -> Places] : Placed(p2)'
<1>1. dec[d].pc \in Looking /\ dec[d].pc = "add"
  BY DEF SeenAdd, Looking
<1>2. kind.dedup \in {"set", "bloom"}
  BY <1>1 DEF StateInv, DecOk
<1>3. PICK r2 : /\ dec' = [dec EXCEPT ![d] = r2]
                /\ CheckDone(dec[d], r2, dec[d].tx.oid \in orderCache)
  BY SeenAddState
<1>4. /\ UNCHANGED <<kind, given, channels, ver, counted, validCount, crowded>>
      /\ orderCache' = orderCache \cup {dec[d].tx.oid}
  BY DEF SeenAdd
<1>5. SeenIds = orderCache /\ SeenIds' = orderCache \cup {dec[d].tx.oid}
  BY <1>2, <1>4 DEF SeenIds
<1>6. PICK o : o = dec[d].tx.oid
  OBVIOUS
<1>7. CASE o \in orderCache
  <2>1. CheckDone(dec[d], r2, TRUE)
    <3>1. (dec[d].tx.oid \in orderCache) = TRUE
      BY <1>6, <1>7
    <3>2. QED
      BY <1>3, <3>1
  <2>2. /\ o \in SeenIds' /\ SeenIds' \subseteq SeenIds \cup {o}
        /\ ~crowded' => ~crowded /\ SeenIds \subseteq SeenIds'
        /\ TRUE => o \in SeenIds
        /\ ~crowded' /\ o \in SeenIds => TRUE
    BY <1>4, <1>5, <1>6, <1>7
  <2>3. QED
    BY <1>1, <1>3, <1>4, <1>6, <2>1, <2>2, DonePlaces
<1>8. CASE o \notin orderCache
  <2>1. CheckDone(dec[d], r2, FALSE)
    <3>1. (dec[d].tx.oid \in orderCache) = FALSE
      BY <1>6, <1>8
    <3>2. QED
      BY <1>3, <3>1
  <2>2. /\ o \in SeenIds' /\ SeenIds' \subseteq SeenIds \cup {o}
        /\ ~crowded' => ~crowded /\ SeenIds \subseteq SeenIds'
        /\ FALSE => o \in SeenIds
        /\ ~crowded' /\ o \in SeenIds => FALSE
    BY <1>4, <1>5, <1>6, <1>8
  <2>3. QED
    BY <1>1, <1>3, <1>4, <1>6, <2>1, <2>2, DonePlaces
<1>9. QED
  BY <1>7, <1>8

LEMMA FlatSeenPlaces ==
  ASSUME StateInv, FlatInv, BenchAssumption, NEW d \in Decoders, FlatSeen(d),
         NEW p \in [Txs -> Places], Placed(p)
  PROVE  \E p2 \in [Txs -> Places] : Placed(p2)'
<1>1. dec[d].pc \in Looking /\ dec[d].pc = "flat"
  BY DEF FlatSeen, Looking
<1>2. kind.dedup = "flat"
  BY <1>1 DEF StateInv, DecOk
<1>3. PICK o : o = dec[d].tx.oid
  OBVIOUS
<1>4. o \in OrderIds /\ o # NoOrder
  BY ZenonT(60), <1>1, <1>3, LookingFacts DEF BenchAssumption
<1>5. /\ o \in Range(flat') /\ Range(flat') \subseteq Range(flat) \cup {o}
      /\ ~crowded' => ~crowded /\ Range(flat) \subseteq Range(flat') \cup {NoOrder}
  BY <1>3, FlatSeenState
<1>6. PICK r2, dup :
                /\ dec' = [dec EXCEPT ![d] = r2] /\ CheckDone(dec[d], r2, dup)
                /\ dup \in BOOLEAN
                /\ dup => o \in Range(flat)
                /\ ~crowded' => (dup <=> o \in Range(flat))
  BY <1>3, FlatSeenState
<1>7. UNCHANGED <<kind, given, channels, ver, counted, validCount>>
  BY DEF FlatSeen
<1>8. SeenIds = Range(flat) \ {NoOrder} /\ SeenIds' = Range(flat') \ {NoOrder}
  BY <1>2, <1>7 DEF SeenIds, Range
<1>9. /\ o \in SeenIds' /\ SeenIds' \subseteq SeenIds \cup {o}
      /\ ~crowded' => ~crowded /\ SeenIds \subseteq SeenIds'
      /\ dup => o \in SeenIds
      /\ ~crowded' /\ o \in SeenIds => dup
  BY <1>4, <1>5, <1>6, <1>8
<1>10. QED
  BY <1>1, <1>3, <1>6, <1>7, <1>9, DonePlaces

-------------------------------------------------------------------------------
(* All the transactions of one place move to another.                      *)

Shift(p, a, b) == [t \in Txs |-> IF p[t] = a THEN b ELSE p[t]]

LEMMA ShiftFacts ==
  ASSUME NEW p \in [Txs -> Places], NEW a, NEW b \in Places, a # b,
         NEW p2, p2 = Shift(p, a, b)
  PROVE  /\ p2 \in [Txs -> Places]
         /\ At(p2, a) = {} /\ At(p2, b) = At(p, a) \cup At(p, b)
         /\ At(p, a) \cap At(p, b) = {}
         /\ \A x : x # a /\ x # b => At(p2, x) = At(p, x)
<1>1. \A t \in Txs : p2[t] = IF p[t] = a THEN b ELSE p[t]
  BY DEF Shift
<1>2. p2 \in [Txs -> Places]
  BY DEF Shift
<1>3. QED
  BY <1>1, <1>2 DEF At

\* What has passed the check stays so.
Later(x) == x # ToCome /\ x # Gone /\ \A d \in Decoders : x # Checks(d)

LEMMA LaterFacts ==
  /\ \A x \in Counts : Later(x)
  /\ \A d : Later(InBatch(d)) /\ Later(Sends(d)) /\ Later(Queued(d)) /\ Later(Verifies(d))
BY PlaceFacts, CountFacts DEF Later

LEMMA MovedOn ==
  ASSUME UNCHANGED <<kind, given, crowded>>, SeenIds' = SeenIds, Sort(kind),
         NEW p, NEW p2, Unique(p), Origin(p), Kept(p),
         \A t \in Txs : p2[t] = p[t] \/ (Later(p[t]) /\ Later(p2[t]))
  PROVE  Unique(p2)' /\ Origin(p2)' /\ Kept(p2)'
<1>1. Reliable \subseteq Txs
  BY ReliableFacts
<1>2. \A t \in Txs : Early(p2, t) => Early(p, t)
  BY DEF Later, Early
<1>3. \A t \in Txs : Passed(p2, t) => Passed(p, t)
  BY DEF Later, Early, Passed
<1>4. \A t \in Reliable : p2[t] = Gone => p[t] = Gone
  BY <1>1 DEF Later
<1>5. QED
  BY <1>2, <1>3, <1>4, StillPlaced

\* The rest of a decoder's batch is its last task, and its count is added.
LEMMA DecoderEndPlaces ==
  ASSUME StateInv, NEW d \in Decoders, DecoderEnd(d), NEW p \in [Txs -> Places], Placed(p)
  PROVE  \E p2 \in [Txs -> Places] : Placed(p2)'
<1>1. PICK r : r = dec[d]
  OBVIOUS
<1>2. PICK r2 : /\ dec' = [dec EXCEPT ![d] = r2]
                /\ r2.batch = {} /\ InTask(r2.task) = TxIn(r.batch)
                /\ Loose(r2) = {} /\ r2.last = TRUE
  BY <1>1, DecoderEndState
<1>3. /\ r.pc = "take" /\ DecOk(r)
      /\ UNCHANGED <<kind, given, channels, ver, counted, dedupVars>>
      /\ validCount' = validCount + r.local
  BY <1>1 DEF DecoderEnd, StateInv
<1>4. r.last = FALSE /\ Loose(r) = {} /\ InTask(r.task) = {} /\ r.local \in Nat
  BY <1>3, FreeDec DEF DecOk
<1>5. /\ given \in Seq(Message) /\ Sort(kind)
      /\ UNCHANGED <<feed, rawChan, queue, crowded>> /\ SeenIds' = SeenIds
  BY <1>3, KindFacts DEF StateInv, InputInv, channels, dedupVars, SeenIds
<1>6. PlaceMap(p) /\ CountMap(p) /\ Unique(p) /\ Origin(p) /\ Kept(p)
  BY DEF Placed
<1>7. Coming' = Coming
  BY <1>3, <1>5, ComingSame DEF Decoded
<1>8. Own(r) = TxIn(r.batch) /\ Own(r2) = TxIn(r.batch) /\ TxIn(r2.batch) = {}
  BY <1>2, <1>4 DEF Own, TxIn
<1>9. PICK C : C = At(p, CountD(d))
  OBVIOUS
<1>10. PICK New : New = {}
  OBVIOUS
<1>11. PICK M : M = Own(r) \cup New \cup C
  OBVIOUS
<1>12. PICK g : g = [t \in M |-> IF t \in C THEN Total ELSE Sends(d)]
  OBVIOUS
<1>13. CountD(d) \in Counts /\ Total \in Counts /\ Total # CountD(d)
       /\ Sends(d) \notin Counts /\ InBatch(d) \notin Counts
  BY PlacesHas, PlaceFacts, CountFacts
<1>14. C \subseteq Txs /\ \A t \in C : p[t] = CountD(d)
  BY <1>9 DEF At
<1>15. \A t \in Own(r) : t \in Txs /\ p[t] = InBatch(d) /\ t \notin C
  <2>1. \A t \in TxIn(r.batch) : p[t] = InBatch(d)
    BY <1>1, <1>6, OwnFacts
  <2>2. Own(r) \subseteq Txs
    BY <1>1, <1>6, OwnFacts
  <2>3. QED
    BY <1>8, <1>13, <1>14, <2>1, <2>2
<1>16. \A t \in M : /\ t \in C => g[t] = Total
                    /\ t \notin C => g[t] = Sends(d) /\ t \in TxIn(r.batch)
  BY <1>8, <1>10, <1>11, <1>12
<1>17. \A x \in Counts : x # Checks(d) /\ x # InBatch(d) /\ x # Sends(d)
  BY PlaceFacts, CountFacts
<1>18. Sends(d) # Checks(d) /\ Sends(d) # InBatch(d)
  BY PlaceFacts
<1>19. ASSUME NEW t \in M PROVE Lands(d, r2, g[t], t)
  <2>1. CASE t \in C
    <3>1. t \notin TxIn(r.batch)
      BY <1>8, <1>15, <2>1
    <3>2. QED
      BY <1>2, <1>8, <1>13, <1>16, <1>17, <2>1, <3>1 DEF Lands
  <2>2. CASE t \notin C
    BY <1>2, <1>8, <1>16, <1>18, <2>2 DEF Lands
  <2>3. QED
    BY <2>1, <2>2
<1>20. PICK p2 : p2 = Move(p, M, g)
  OBVIOUS
<1>21. /\ New \subseteq Coming /\ Coming' = Coming \ New
       /\ \A t \in C : p[t] \in Counts /\ Own(r2) \subseteq M
  BY <1>7, <1>8, <1>10, <1>11, <1>13, <1>14
<1>22. Own(r2) \subseteq M
  BY <1>8, <1>11
<1>23. p2 \in [Txs -> Places] /\ PlaceMap(p2)'
  BY <1>1, <1>2, <1>3, <1>5, <1>6, <1>11, <1>14, <1>19, <1>20, <1>21, <1>22, DecoderMap
<1>24. M \subseteq Txs
  BY <1>10, <1>11, <1>14, <1>15
<1>25. \A t \in Txs : p2[t] = IF t \in M THEN g[t] ELSE p[t]
  BY <1>20 DEF Move
<1>26. \A t \in Txs : \/ t \in C /\ p2[t] = Total /\ p[t] = CountD(d)
                      \/ p2[t] = Sends(d) /\ p[t] = InBatch(d)
                      \/ p2[t] = p[t] /\ t \notin C
  BY <1>11, <1>14, <1>15, <1>16, <1>25, <1>8
<1>27. \A x \in Counts : x # CountD(d) /\ x # Total => At(p2, x) = At(p, x)
  <2> TAKE x \in Counts
  <2> HAVE x # CountD(d) /\ x # Total
  <2>1. \A t \in Txs : p2[t] = x <=> p[t] = x
    BY <1>13, <1>26
  <2>2. QED
    BY <2>1 DEF At
<1>28. At(p2, Total) = At(p, Total) \cup C /\ At(p2, CountD(d)) = {}
  <2>1. \A t \in Txs : p2[t] = Total <=> (p[t] = Total \/ t \in C)
    <3> TAKE t \in Txs
    <3>1. t \in C => p[t] = CountD(d)
      BY <1>14
    <3>2. Sends(d) # Total /\ InBatch(d) # Total /\ InBatch(d) # CountD(d)
      BY <1>13
    <3>3. QED
      BY <1>13, <1>26, <3>1, <3>2
  <2>2. \A t \in Txs : p2[t] # CountD(d)
    <3> TAKE t \in Txs
    <3>1. p[t] = CountD(d) => t \in C
      BY <1>9 DEF At
    <3>2. QED
      BY <1>13, <1>26, <3>1
  <2>3. QED
    BY <1>14, <2>1, <2>2 DEF At
<1>29. counted' = {t \in Txs : p2[t] \in Counts}
  <2>1. \A t \in Txs : p2[t] \in Counts <=> p[t] \in Counts
    BY <1>13, <1>26
  <2>2. QED
    BY <1>3, <1>6, <2>1 DEF CountMap
<1>30. validCount' = Cardinality(At(p2, Total))
  <2>1. validCount = Cardinality(At(p, Total)) /\ r.local = Cardinality(C)
    <3>1. ~dec[d].last
      BY <1>1, <1>4
    <3>2. QED
      BY <1>1, <1>6, <1>9, <3>1 DEF CountMap
  <2>2. At(p, Total) \cap C = {} /\ At(p, Total) \subseteq Txs
    BY <1>13, <1>14 DEF At
  <2>3. QED
    BY <1>3, <1>5, <1>14, <1>28, <2>1, <2>2, SumFacts
<1>31. \A e \in Decoders : IF dec'[e].last THEN At(p2, CountD(e)) = {}
                           ELSE dec'[e].local = Cardinality(At(p2, CountD(e)))
  <2> TAKE e \in Decoders
  <2>1. CASE e = d
    <3>1. dec'[e] = r2
      BY <1>2, <2>1 DEF StateInv
    <3>2. QED
      BY <1>2, <1>28, <2>1, <3>1
  <2>2. CASE e # d
    <3>1. dec'[e] = dec[e]
      BY <1>2, <2>2
    <3>2. CountD(e) # CountD(d) /\ CountD(e) # Total /\ CountD(e) \in Counts
      BY <2>2, PlaceFacts, PlacesHas
    <3>3. At(p2, CountD(e)) = At(p, CountD(e))
      BY <1>27, <3>2
    <3>4. QED
      BY <1>6, <3>1, <3>3 DEF CountMap
  <2>3. QED
    BY <2>1, <2>2
<1>32. kind.gather # "count" => \A e \in Decoders : At(p2, CountD(e)) = {}
  <2> SUFFICES ASSUME kind.gather # "count", NEW e \in Decoders
               PROVE  At(p2, CountD(e)) = {}
    OBVIOUS
  <2>1. CASE e = d
    BY <1>28, <2>1
  <2>2. CASE e # d
    <3>1. CountD(e) # CountD(d) /\ CountD(e) # Total /\ CountD(e) \in Counts
      BY <2>2, PlaceFacts, PlacesHas
    <3>2. QED
      BY <1>6, <1>27, <3>1 DEF CountMap
  <2>3. QED
    BY <2>1, <2>2
<1>33. \A v \in Verifiers : At(p2, CountV(v)) = At(p, CountV(v))
  <2> TAKE v \in Verifiers
  <2>1. CountV(v) # CountD(d) /\ CountV(v) # Total /\ CountV(v) \in Counts
    BY PlaceFacts, PlacesHas
  <2>2. QED
    BY <1>27, <2>1
<1>34. \A v \in Verifiers : IF ver'[v].pc = "exit" THEN At(p2, CountV(v)) = {}
                            ELSE ver'[v].local = Cardinality(At(p2, CountV(v)))
  BY <1>3, <1>6, <1>33 DEF CountMap
<1>35. ~kind.local => \A v \in Verifiers : At(p2, CountV(v)) = {}
  BY <1>6, <1>33 DEF CountMap
<1>36. CountMap(p2)'
  BY <1>3, <1>29, <1>30, <1>31, <1>32, <1>34, <1>35, CountNext
<1>37. \A t \in Txs : p2[t] = p[t] \/ (Later(p[t]) /\ Later(p2[t]))
  BY <1>13, <1>26, LaterFacts
<1>38. Unique(p2)' /\ Origin(p2)' /\ Kept(p2)'
  BY <1>3, <1>5, <1>6, <1>37, MovedOn
<1>39. QED
  BY <1>23, <1>36, <1>38 DEF Placed

\* The map of the next state, with the places of this one.
LEMMA PlaceNext ==
  ASSUME UNCHANGED <<kind, given>>, NEW p2,
         At(p2, ToCome) = Coming',
         \A d \in Decoders : /\ At(p2, Checks(d)) = Loose(dec'[d])
                             /\ At(p2, InBatch(d)) = TxIn(dec'[d].batch)
                             /\ At(p2, Sends(d)) = InTask(dec'[d].task),
         \A i \in Nat : At(p2, Queued(i)) =
                            IF i \in 1 .. Len(queue') THEN InTask(queue'[i]) ELSE {},
         \A v \in Verifiers : At(p2, Verifies(v)) = InTask(ver'[v].task)
  PROVE  PlaceMap(p2)'
<1>1. \A x : At(p2, x)' = At(p2, x)
  BY Rigid
<1>2. At(p2, ToCome)' = Coming'
  BY <1>1
<1>3. ASSUME NEW d \in Decoders PROVE DecMap(p2, d)'
  <2>1. /\ At(p2, Checks(d))' = Loose(dec'[d])
        /\ At(p2, InBatch(d))' = TxIn(dec'[d].batch)
        /\ At(p2, Sends(d))' = InTask(dec'[d].task)
    BY <1>1
  <2>2. QED
    BY <2>1 DEF DecMap
<1>4. \A i \in Nat : At(p2, Queued(i))' =
                        IF i \in 1 .. Len(queue') THEN InTask(queue'[i]) ELSE {}
  <2> TAKE i \in Nat
  <2>1. At(p2, Queued(i))' = At(p2, Queued(i))
    BY <1>1
  <2>2. QED
    BY <2>1
<1>5. \A v \in Verifiers : At(p2, Verifies(v))' = InTask(ver'[v].task)
  BY <1>1
<1>6. QED
  BY <1>2, <1>3, <1>4, <1>5 DEF PlaceMap

\* A task goes to the end of the queue.
LEMMA SendPlaces ==
  ASSUME StateInv, NEW d \in Decoders, Send(d), NEW p \in [Txs -> Places], Placed(p)
  PROVE  \E p2 \in [Txs -> Places] : Placed(p2)'
<1>1. PICK r : r = dec[d]
  OBVIOUS
<1>2. PICK r2 : /\ dec' = [dec EXCEPT ![d] = r2]
                /\ r2.batch = r.batch /\ r2.task = Poison
                /\ Loose(r2) = {} /\ Loose(r) = {}
                /\ r2.last = r.last /\ r2.local = r.local
  BY <1>1, SendState
<1>3. /\ UNCHANGED <<kind, given, feed, rawChan, ver, counted, validCount, dedupVars>>
      /\ queue' = Append(queue, r.task) /\ TaskOk(r.task)
  BY <1>1, SendState DEF Send
<1>4. PICK n : n = Len(queue) + 1
  OBVIOUS
<1>5. /\ Len(queue) \in Nat /\ n \in Nat /\ Len(queue') = n
      /\ \A i \in 1 .. Len(queue) : queue'[i] = queue[i]
      /\ queue'[n] = r.task
  BY <1>3, <1>4, QueueFacts DEF StateInv
<1>6. PlaceMap(p) /\ CountMap(p) /\ Unique(p) /\ Origin(p) /\ Kept(p)
  BY DEF Placed
<1>7. Sort(kind) /\ SeenIds' = SeenIds /\ crowded' = crowded
  BY <1>3, KindFacts DEF StateInv, InputInv, SeenIds, dedupVars
<1>8. Coming' = Coming
  BY <1>3, ComingSame DEF Decoded
<1>9. PICK a : a = Sends(d)
  OBVIOUS
<1>10. PICK b : b = Queued(n)
  OBVIOUS
<1>11. PICK p2 : p2 = Shift(p, a, b)
  OBVIOUS
<1>12. a # b /\ b \in Places
  BY <1>5, <1>9, <1>10, PlaceFacts, PlacesHas
<1>13. /\ p2 \in [Txs -> Places]
       /\ At(p2, a) = {} /\ At(p2, b) = At(p, a) \cup At(p, b)
       /\ \A x : x # a /\ x # b => At(p2, x) = At(p, x)
  BY <1>11, <1>12, ShiftFacts
<1>14. At(p, a) = InTask(r.task)
  BY <1>1, <1>6, <1>9 DEF PlaceMap, DecMap
<1>15. At(p2, ToCome) = Coming'
  <2>1. ToCome # a /\ ToCome # b
    BY <1>9, <1>10, PlaceFacts
  <2>2. At(p2, ToCome) = At(p, ToCome)
    BY <1>13, <2>1
  <2>3. QED
    BY <1>6, <1>8, <2>2 DEF PlaceMap
<1>16. \A e \in Decoders : /\ At(p2, Checks(e)) = Loose(dec'[e])
                           /\ At(p2, InBatch(e)) = TxIn(dec'[e].batch)
                           /\ At(p2, Sends(e)) = InTask(dec'[e].task)
  <2> TAKE e \in Decoders
  <2>1. Checks(e) # a /\ Checks(e) # b /\ InBatch(e) # a /\ InBatch(e) # b /\ Sends(e) # b
    BY <1>9, <1>10, PlaceFacts
  <2>2. At(p2, Checks(e)) = Loose(dec[e])
    <3>1. At(p2, Checks(e)) = At(p, Checks(e))
      BY <1>13, <2>1
    <3>2. QED
      BY <1>6, <3>1 DEF PlaceMap, DecMap
  <2>3. At(p2, InBatch(e)) = TxIn(dec[e].batch)
    <3>1. At(p2, InBatch(e)) = At(p, InBatch(e))
      BY <1>13, <2>1
    <3>2. QED
      BY <1>6, <3>1 DEF PlaceMap, DecMap
  <2>4. CASE e = d
    <3>1. dec'[e] = r2 /\ dec[e] = r
      BY <1>1, <1>2, <2>4 DEF StateInv
    <3>2. InTask(r2.task) = {}
      BY <1>2 DEF InTask
    <3>3. QED
      BY <1>2, <1>9, <1>13, <2>2, <2>3, <2>4, <3>1, <3>2
  <2>5. CASE e # d
    <3>1. dec'[e] = dec[e]
      BY <1>2, <2>5
    <3>2. Sends(e) # a
      BY <1>9, <2>5, PlaceFacts
    <3>3. At(p2, Sends(e)) = At(p, Sends(e))
      BY <1>13, <2>1, <3>2
    <3>4. At(p2, Sends(e)) = InTask(dec[e].task)
      BY <1>6, <3>3 DEF PlaceMap, DecMap
    <3>5. QED
      BY <2>2, <2>3, <3>1, <3>4
  <2>6. QED
    BY <2>4, <2>5
<1>17. \A i \in Nat : At(p2, Queued(i)) =
                            IF i \in 1 .. Len(queue') THEN InTask(queue'[i]) ELSE {}
  <2> TAKE i \in Nat
  <2>1. At(p, Queued(i)) = IF i \in 1 .. Len(queue) THEN InTask(queue[i]) ELSE {}
    BY <1>6 DEF PlaceMap
  <2>2. CASE i = n
    <3>1. i \notin 1 .. Len(queue) /\ i \in 1 .. Len(queue')
      BY <1>4, <1>5, <2>2
    <3>2. At(p, b) = {}
      BY <1>10, <2>1, <2>2, <3>1
    <3>3. QED
      BY <1>5, <1>10, <1>13, <1>14, <2>2, <3>1, <3>2
  <2>3. CASE i # n
    <3>1. Queued(i) # b /\ Queued(i) # a
      BY <1>9, <1>10, <2>3, PlaceFacts
    <3>2. At(p2, Queued(i)) = At(p, Queued(i))
      BY <1>13, <3>1
    <3>3. i \in 1 .. Len(queue) <=> i \in 1 .. Len(queue')
      BY <1>4, <1>5, <2>3
    <3>4. i \in 1 .. Len(queue) => queue'[i] = queue[i]
      BY <1>5
    <3>5. QED
      BY <2>1, <3>2, <3>3, <3>4
  <2>4. QED
    BY <2>2, <2>3
<1>18. \A v \in Verifiers : At(p2, Verifies(v)) = InTask(ver'[v].task)
  <2> TAKE v \in Verifiers
  <2>1. Verifies(v) # a /\ Verifies(v) # b
    BY <1>9, <1>10, PlaceFacts
  <2>2. At(p2, Verifies(v)) = At(p, Verifies(v))
    BY <1>13, <2>1
  <2>3. QED
    BY <1>3, <1>6, <2>2 DEF PlaceMap
<1>19. PlaceMap(p2)'
  BY <1>3, <1>15, <1>16, <1>17, <1>18, PlaceNext
<1>20. \A t \in Txs : p2[t] = p[t] \/ (p2[t] = b /\ p[t] = a)
  BY <1>11 DEF Shift
<1>21. a \notin Counts /\ b \notin Counts /\ Later(a) /\ Later(b)
  BY <1>9, <1>10, PlaceFacts, CountFacts, LaterFacts
<1>22. CountMap(p2)'
  <2>1. \A t \in Txs : p2[t] = p[t] \/ (p2[t] \notin Counts /\ p[t] \notin Counts)
    BY <1>20, <1>21
  <2>2. \A e \in Decoders : dec'[e].last = dec[e].last /\ dec'[e].local = dec[e].local
    <3>1. dec'[d] = r2 /\ \A e \in Decoders : e # d => dec'[e] = dec[e]
      BY <1>2 DEF StateInv
    <3>2. QED
      BY <1>1, <1>2, <3>1
  <2>3. \A v \in Verifiers : ver'[v].local = ver[v].local
                             /\ (ver'[v].pc = "exit" <=> ver[v].pc = "exit")
    BY <1>3
  <2>4. QED
    BY <1>3, <1>6, <1>13, <2>1, <2>2, <2>3, SameCounts
<1>23. Unique(p2)' /\ Origin(p2)' /\ Kept(p2)'
  <2>1. \A t \in Txs : p2[t] = p[t] \/ (Later(p[t]) /\ Later(p2[t]))
    BY <1>20, <1>21
  <2>2. QED
    BY <1>3, <1>6, <1>7, <2>1, MovedOn
<1>24. QED
  BY <1>13, <1>19, <1>22, <1>23 DEF Placed

\* The first task goes to a verifier, and the others move up.
LEMMA ReceivePlaces ==
  ASSUME StateInv, main # "done", kind.gather # "count", NEW v \in Verifiers, Receive(v),
         NEW p \in [Txs -> Places], Placed(p)
  PROVE  \E p2 \in [Txs -> Places] : Placed(p2)'
<1>1. PICK r2 : /\ ver' = [ver EXCEPT ![v] = r2]
                /\ r2.task = queue[1] /\ r2.local = ver[v].local
                /\ ver[v].pc = "take" /\ ver[v].task = Poison
                /\ r2.pc = "exit" => kind.ring
  BY ReceiveState
<1>2. /\ UNCHANGED <<kind, given, feed, rawChan, dec, counted, validCount, dedupVars>>
      /\ queue # <<>> /\ queue' = Tail(queue)
  BY DEF Receive
<1>3. /\ Len(queue) \in Nat /\ Len(queue) > 0 /\ Len(queue') = Len(queue) - 1
      /\ \A i \in 1 .. Len(queue) - 1 : queue'[i] = queue[i + 1]
  BY <1>2, QueueFacts DEF StateInv
<1>4. PlaceMap(p) /\ CountMap(p) /\ Unique(p) /\ Origin(p) /\ Kept(p)
  BY DEF Placed
<1>5. Sort(kind) /\ SeenIds' = SeenIds /\ crowded' = crowded
  BY <1>2, KindFacts DEF StateInv, InputInv, SeenIds, dedupVars
<1>6. Coming' = Coming
  BY <1>2, ComingSame DEF Decoded
<1>7. PICK M : M = {t \in Txs : \E i \in Nat : p[t] = Queued(i)}
  OBVIOUS
<1>8. PICK g : g = [t \in M |-> IF p[t] = Queued(1) THEN Verifies(v) ELSE Queued(p[t][2] - 1)]
  OBVIOUS
<1>9. PICK p2 : p2 = Move(p, M, g)
  OBVIOUS
<1>10. \A i \in Nat : At(p, Queued(i)) =
                        IF i \in 1 .. Len(queue) THEN InTask(queue[i]) ELSE {}
  BY <1>4 DEF PlaceMap
<1>11. \A t \in M : \E i \in 1 .. Len(queue) : p[t] = Queued(i)
  <2> TAKE t \in M
  <2>1. PICK i \in Nat : p[t] = Queued(i) /\ t \in Txs
    BY <1>7
  <2>2. t \in At(p, Queued(i))
    BY <2>1 DEF At
  <2>3. i \in 1 .. Len(queue)
    BY <1>10, <2>1, <2>2
  <2>4. QED
    BY <2>1, <2>3
<1>12. \A i, j : Queued(i) = Queued(j) => i = j
  BY PlaceFacts
<1>13. \A t \in M : \E i \in 1 .. Len(queue) :
            /\ p[t] = Queued(i)
            /\ i = 1 => g[t] = Verifies(v)
            /\ i # 1 => g[t] = Queued(i - 1)
  <2> TAKE t \in M
  <2>1. PICK i \in 1 .. Len(queue) : p[t] = Queued(i)
    BY <1>11
  <2>2. p[t][2] = i
    BY <2>1, PlaceFacts
  <2>3. i # 1 => p[t] # Queued(1)
    BY <1>12, <2>1
  <2>4. QED
    BY <1>8, <2>1, <2>2, <2>3
<1>14. \A t \in Txs : p2[t] = IF t \in M THEN g[t] ELSE p[t]
  BY <1>9 DEF Move
<1>15. \A t \in Txs : t \notin M => p2[t] = p[t] /\ \A i \in Nat : p[t] # Queued(i)
  BY <1>7, <1>14
<1>16. M \subseteq Txs
  BY <1>7
<1>17. p2 \in [Txs -> Places]
  <2>1. \A t \in M : g[t] \in Places
    <3> TAKE t \in M
    <3>1. PICK i \in 1 .. Len(queue) :
            /\ i = 1 => g[t] = Verifies(v)
            /\ i # 1 => g[t] = Queued(i - 1)
      BY <1>13
    <3>2. i - 1 \in Nat
      BY <1>3
    <3>3. QED
      BY <3>1, <3>2, PlacesHas
  <2>2. QED
    BY <1>9, <2>1 DEF Move
<1>18. \A x : x # Verifies(v) /\ (\A i \in Nat : x # Queued(i)) => At(p2, x) = At(p, x)
  <2> SUFFICES ASSUME NEW x, x # Verifies(v), \A i \in Nat : x # Queued(i)
               PROVE  At(p2, x) = At(p, x)
    OBVIOUS
  <2>1. ASSUME NEW t \in M PROVE p[t] # x /\ p2[t] # x
    <3>1. PICK i \in 1 .. Len(queue) :
            /\ p[t] = Queued(i)
            /\ i = 1 => g[t] = Verifies(v)
            /\ i # 1 => g[t] = Queued(i - 1)
      BY <1>13
    <3>2. i - 1 \in Nat /\ i \in Nat
      BY <1>3
    <3>3. QED
      BY <1>14, <1>16, <3>1, <3>2
  <2>2. \A t \in Txs : p2[t] = x <=> p[t] = x
    BY <1>15, <2>1
  <2>3. QED
    BY <2>2 DEF At
<1>19. At(p2, Verifies(v)) = InTask(queue[1])
  <2>1. At(p, Verifies(v)) = {}
    BY <1>1, <1>4 DEF PlaceMap, InTask
  <2>2. At(p, Queued(1)) = InTask(queue[1])
    BY <1>3, <1>10
  <2>3. \A t \in Txs : p2[t] = Verifies(v) <=> p[t] = Queued(1)
    <3> TAKE t \in Txs
    <3>1. CASE t \in M
      <4>1. PICK i \in 1 .. Len(queue) :
                /\ p[t] = Queued(i)
                /\ i = 1 => g[t] = Verifies(v)
                /\ i # 1 => g[t] = Queued(i - 1)
        BY <1>13, <3>1
      <4>2. Queued(i - 1) # Verifies(v)
        BY PlaceFacts
      <4>3. i # 1 => Queued(i) # Queued(1)
        BY <1>12
      <4>4. QED
        BY <1>14, <3>1, <4>1, <4>2, <4>3
    <3>2. CASE t \notin M
      BY <1>15, <2>1, <3>2 DEF At
    <3>3. QED
      BY <3>1, <3>2
  <2>4. QED
    BY <2>2, <2>3 DEF At
<1>20. \A i \in Nat : At(p2, Queued(i)) =
                            IF i \in 1 .. Len(queue') THEN InTask(queue'[i]) ELSE {}
  <2> TAKE i \in Nat
  <2>1. \A t \in Txs : p2[t] = Queued(i) <=> i # 0 /\ p[t] = Queued(i + 1)
    <3> TAKE t \in Txs
    <3>1. CASE t \in M
      <4>1. PICK j \in 1 .. Len(queue) :
                /\ p[t] = Queued(j)
                /\ j = 1 => g[t] = Verifies(v)
                /\ j # 1 => g[t] = Queued(j - 1)
        BY <1>13, <3>1
      <4>2. Queued(i) # Verifies(v)
        BY PlaceFacts
      <4>3. p2[t] = g[t]
        BY <1>14, <3>1
      <4>4. CASE j = 1
        <5>1. i # 0 => i + 1 # j
          BY <4>4
        <5>2. QED
          BY <1>12, <4>1, <4>2, <4>3, <4>4, <5>1
      <4>5. CASE j # 1
        <5>1. (j - 1 = i) <=> (i # 0 /\ i + 1 = j)
          BY <1>3, <4>5
        <5>2. QED
          BY <1>12, <4>1, <4>3, <4>5, <5>1
      <4>6. QED
        BY <4>4, <4>5
    <3>2. CASE t \notin M
      <4>1. i + 1 \in Nat
        OBVIOUS
      <4>2. QED
        BY <1>15, <3>2, <4>1
    <3>3. QED
      BY <3>1, <3>2
  <2>2. CASE i = 0
    BY <2>1, <2>2 DEF At
  <2>3. CASE i # 0
    <3>1. At(p2, Queued(i)) = At(p, Queued(i + 1))
      BY <2>1, <2>3 DEF At
    <3>2. i + 1 \in Nat /\ (i + 1 \in 1 .. Len(queue) <=> i \in 1 .. Len(queue'))
      BY <1>3, <2>3
    <3>3. i \in 1 .. Len(queue') => queue'[i] = queue[i + 1]
      BY <1>3
    <3>4. QED
      BY <1>10, <3>1, <3>2, <3>3
  <2>4. QED
    BY <2>2, <2>3
<1>21. PlaceMap(p2)'
  <2>1. At(p2, ToCome) = Coming'
    <3>1. ToCome # Verifies(v) /\ \A i \in Nat : ToCome # Queued(i)
      BY PlaceFacts
    <3>2. QED
      BY <1>4, <1>6, <1>18, <3>1 DEF PlaceMap
  <2>2. \A e \in Decoders : /\ At(p2, Checks(e)) = Loose(dec'[e])
                            /\ At(p2, InBatch(e)) = TxIn(dec'[e].batch)
                            /\ At(p2, Sends(e)) = InTask(dec'[e].task)
    <3> TAKE e \in Decoders
    <3>1. /\ Checks(e) # Verifies(v) /\ InBatch(e) # Verifies(v) /\ Sends(e) # Verifies(v)
          /\ \A i \in Nat : /\ Checks(e) # Queued(i) /\ InBatch(e) # Queued(i)
                            /\ Sends(e) # Queued(i)
      BY PlaceFacts
    <3>2. At(p2, Checks(e)) = At(p, Checks(e)) /\ At(p2, InBatch(e)) = At(p, InBatch(e))
          /\ At(p2, Sends(e)) = At(p, Sends(e))
      BY <1>18, <3>1
    <3>3. QED
      BY <1>2, <1>4, <3>2 DEF PlaceMap, DecMap
  <2>3. \A w \in Verifiers : At(p2, Verifies(w)) = InTask(ver'[w].task)
    <3> TAKE w \in Verifiers
    <3>1. CASE w = v
      <4>1. ver'[w] = r2
        BY <1>1, <3>1 DEF StateInv
      <4>2. QED
        BY <1>1, <1>19, <3>1, <4>1
    <3>2. CASE w # v
      <4>1. ver'[w] = ver[w]
        BY <1>1, <3>2
      <4>2. Verifies(w) # Verifies(v) /\ \A i \in Nat : Verifies(w) # Queued(i)
        BY <3>2, PlaceFacts
      <4>3. At(p2, Verifies(w)) = At(p, Verifies(w))
        BY <1>18, <4>2
      <4>4. QED
        BY <1>4, <4>1, <4>3 DEF PlaceMap
    <3>3. QED
      BY <3>1, <3>2
  <2>4. QED
    BY <1>2, <1>20, <2>1, <2>2, <2>3, PlaceNext
<1>22. \A t \in Txs : \/ p2[t] = p[t]
                      \/ /\ p[t] \notin Counts /\ p2[t] \notin Counts
                         /\ Later(p[t]) /\ Later(p2[t])
  <2> TAKE t \in Txs
  <2>1. CASE t \in M
    <3>1. PICK i \in 1 .. Len(queue) :
            /\ p[t] = Queued(i)
            /\ i = 1 => g[t] = Verifies(v)
            /\ i # 1 => g[t] = Queued(i - 1)
      BY <1>13, <2>1
    <3>2. /\ Queued(i) \notin Counts /\ Queued(i - 1) \notin Counts
          /\ Verifies(v) \notin Counts
      BY PlaceFacts, CountFacts
    <3>3. Later(Queued(i)) /\ Later(Queued(i - 1)) /\ Later(Verifies(v))
      BY LaterFacts
    <3>4. QED
      BY <1>14, <2>1, <3>1, <3>2, <3>3
  <2>2. CASE t \notin M
    BY <1>15, <2>2
  <2>3. QED
    BY <2>1, <2>2
<1>23. CountMap(p2)'
  <2>1. \A w \in Verifiers :
            /\ ver'[w].local = ver[w].local
            /\ (ver'[w].pc = "exit" <=> ver[w].pc = "exit")
                 \/ (~kind.local /\ ver'[w].pc = "exit")
    <3> TAKE w \in Verifiers
    <3>1. CASE w = v
      <4>1. ver'[w] = r2
        BY <1>1, <3>1 DEF StateInv
      <4>2. r2.pc = "exit" => ~kind.local
        BY <1>1, <1>5 DEF Sort
      <4>3. QED
        BY <1>1, <3>1, <4>1, <4>2
    <3>2. CASE w # v
      BY <1>1, <3>2
    <3>3. QED
      BY <3>1, <3>2
  <2>2. \A e \in Decoders : dec'[e].last = dec[e].last /\ dec'[e].local = dec[e].local
    BY <1>2
  <2>3. \A t \in Txs : p2[t] = p[t] \/ (p2[t] \notin Counts /\ p[t] \notin Counts)
    BY <1>22
  <2>4. QED
    BY <1>2, <1>4, <1>17, <2>1, <2>2, <2>3, SameCounts
<1>24. Unique(p2)' /\ Origin(p2)' /\ Kept(p2)'
  <2>1. \A t \in Txs : p2[t] = p[t] \/ (Later(p[t]) /\ Later(p2[t]))
    BY <1>22
  <2>2. QED
    BY <1>2, <1>4, <1>5, <2>1, MovedOn
<1>25. QED
  BY <1>17, <1>21, <1>23, <1>24 DEF Placed

\* A verifier adds what it has counted.
LEMMA VerifierEndPlaces ==
  ASSUME StateInv, main # "done", kind.gather # "count", NEW v \in Verifiers, VerifierEnd(v),
         NEW p \in [Txs -> Places], Placed(p)
  PROVE  \E p2 \in [Txs -> Places] : Placed(p2)'
<1>1. PICK r2 : /\ ver' = [ver EXCEPT ![v] = r2]
                /\ r2.task = Poison /\ r2.pc = "exit"
                /\ ver[v].task = Poison /\ ver[v].pc = "take"
  BY VerifierEndState
<1>2. /\ UNCHANGED <<kind, given, channels, dec, dedupVars, counted>>
      /\ validCount' = validCount + ver[v].local
  BY DEF VerifierEnd
<1>3. /\ given \in Seq(Message) /\ Sort(kind) /\ SeenIds' = SeenIds /\ crowded' = crowded
      /\ UNCHANGED <<feed, rawChan, queue>>
  BY <1>2, KindFacts DEF StateInv, InputInv, SeenIds, dedupVars, channels
<1>4. PlaceMap(p) /\ CountMap(p) /\ Unique(p) /\ Origin(p) /\ Kept(p)
  BY DEF Placed
<1>5. Coming' = Coming
  BY <1>2, <1>3, ComingSame DEF Decoded
<1>6. PICK a : a = CountV(v)
  OBVIOUS
<1>7. PICK p2 : p2 = Shift(p, a, Total)
  OBVIOUS
<1>8. a \in Counts /\ Total \in Counts /\ a # Total /\ Total \in Places
  BY <1>6, PlacesHas, PlaceFacts
<1>9. /\ p2 \in [Txs -> Places]
      /\ At(p2, a) = {} /\ At(p2, Total) = At(p, a) \cup At(p, Total)
      /\ At(p, a) \cap At(p, Total) = {}
      /\ \A x : x # a /\ x # Total => At(p2, x) = At(p, x)
  BY <1>7, <1>8, ShiftFacts
<1>10. PlaceMap(p2)'
  <2>1. \A x : x \notin Counts => At(p2, x) = At(p, x)
    BY <1>8, <1>9
  <2>2. At(p2, ToCome) = Coming'
    <3>1. ToCome \notin Counts
      BY PlaceFacts, CountFacts
    <3>2. QED
      BY <1>4, <1>5, <2>1, <3>1 DEF PlaceMap
  <2>3. \A e \in Decoders : /\ At(p2, Checks(e)) = Loose(dec'[e])
                            /\ At(p2, InBatch(e)) = TxIn(dec'[e].batch)
                            /\ At(p2, Sends(e)) = InTask(dec'[e].task)
    <3> TAKE e \in Decoders
    <3>1. Checks(e) \notin Counts /\ InBatch(e) \notin Counts /\ Sends(e) \notin Counts
      BY PlaceFacts, CountFacts
    <3>2. At(p2, Checks(e)) = At(p, Checks(e)) /\ At(p2, InBatch(e)) = At(p, InBatch(e))
          /\ At(p2, Sends(e)) = At(p, Sends(e))
      BY <2>1, <3>1
    <3>3. QED
      BY <1>2, <1>4, <3>2 DEF PlaceMap, DecMap
  <2>4. \A i \in Nat : At(p2, Queued(i)) =
                            IF i \in 1 .. Len(queue') THEN InTask(queue'[i]) ELSE {}
    <3> TAKE i \in Nat
    <3>1. Queued(i) \notin Counts
      BY PlaceFacts, CountFacts
    <3>2. At(p2, Queued(i)) = At(p, Queued(i))
      BY <2>1, <3>1
    <3>3. At(p, Queued(i)) = IF i \in 1 .. Len(queue) THEN InTask(queue[i]) ELSE {}
      BY <1>4 DEF PlaceMap
    <3>4. QED
      BY <1>3, <3>2, <3>3
  <2>5. \A w \in Verifiers : At(p2, Verifies(w)) = InTask(ver'[w].task)
    <3> TAKE w \in Verifiers
    <3>1. Verifies(w) \notin Counts
      BY PlaceFacts, CountFacts
    <3>2. At(p2, Verifies(w)) = InTask(ver[w].task)
      BY <1>4, <2>1, <3>1 DEF PlaceMap
    <3>3. ver'[w] = IF w = v THEN r2 ELSE ver[w]
      BY <1>1 DEF StateInv
    <3>4. QED
      BY <1>1, <3>2, <3>3
  <2>6. QED
    BY <1>2, <2>2, <2>3, <2>4, <2>5, PlaceNext
<1>11. \A t \in Txs : p2[t] = p[t] \/ (p[t] = a /\ p2[t] = Total)
  BY <1>7 DEF Shift
<1>12. CountMap(p2)'
  <2>1. counted' = {t \in Txs : p2[t] \in Counts}
    <3>1. \A t \in Txs : p2[t] \in Counts <=> p[t] \in Counts
      BY <1>8, <1>11
    <3>2. QED
      BY <1>2, <1>4, <3>1 DEF CountMap
  <2>2. validCount' = Cardinality(At(p2, Total))
    <3>1. validCount = Cardinality(At(p, Total)) /\ ver[v].local = Cardinality(At(p, a))
      <4>1. ver[v].pc # "exit"
        BY <1>1
      <4>2. QED
        BY <1>4, <1>6, <4>1 DEF CountMap
    <3>2. At(p, a) \subseteq Txs /\ At(p, Total) \subseteq Txs
      BY DEF At
    <3>3. QED
      BY <1>2, <1>3, <1>9, <3>1, <3>2, SumFacts
  <2>3. \A e \in Decoders : At(p2, CountD(e)) = At(p, CountD(e))
    <3> TAKE e \in Decoders
    <3>1. CountD(e) # a /\ CountD(e) # Total
      BY <1>6, PlaceFacts
    <3>2. QED
      BY <1>9, <3>1
  <2>4. \A e \in Decoders : IF dec'[e].last THEN At(p2, CountD(e)) = {}
                            ELSE dec'[e].local = Cardinality(At(p2, CountD(e)))
    BY <1>2, <1>4, <2>3 DEF CountMap
  <2>5. kind.gather # "count" => \A e \in Decoders : At(p2, CountD(e)) = {}
    BY <1>4, <2>3 DEF CountMap
  <2>6. \A w \in Verifiers : w # v => At(p2, CountV(w)) = At(p, CountV(w))
    <3> SUFFICES ASSUME NEW w \in Verifiers, w # v PROVE At(p2, CountV(w)) = At(p, CountV(w))
      OBVIOUS
    <3>1. CountV(w) # a /\ CountV(w) # Total
      BY <1>6, PlaceFacts
    <3>2. QED
      BY <1>9, <3>1
  <2>7. \A w \in Verifiers : IF ver'[w].pc = "exit" THEN At(p2, CountV(w)) = {}
                             ELSE ver'[w].local = Cardinality(At(p2, CountV(w)))
    <3> TAKE w \in Verifiers
    <3>1. CASE w = v
      <4>1. ver'[w] = r2
        BY <1>1, <3>1 DEF StateInv
      <4>2. QED
        BY <1>1, <1>6, <1>9, <3>1, <4>1
    <3>2. CASE w # v
      <4>1. ver'[w] = ver[w]
        BY <1>1, <3>2
      <4>2. QED
        BY <1>4, <2>6, <3>2, <4>1 DEF CountMap
    <3>3. QED
      BY <3>1, <3>2
  <2>8. ~kind.local => \A w \in Verifiers : At(p2, CountV(w)) = {}
    <3> SUFFICES ASSUME ~kind.local, NEW w \in Verifiers PROVE At(p2, CountV(w)) = {}
      OBVIOUS
    <3>1. At(p, CountV(w)) = {}
      BY <1>4 DEF CountMap
    <3>2. QED
      BY <1>6, <1>9, <2>6, <3>1
  <2>9. QED
    BY <1>2, <2>1, <2>2, <2>4, <2>5, <2>7, <2>8, CountNext
<1>13. Unique(p2)' /\ Origin(p2)' /\ Kept(p2)'
  <2>1. \A t \in Txs : p2[t] = p[t] \/ (Later(p[t]) /\ Later(p2[t]))
    BY <1>8, <1>11, LaterFacts
  <2>2. QED
    BY <1>2, <1>3, <1>4, <2>1, MovedOn
<1>14. QED
  BY <1>9, <1>10, <1>12, <1>13 DEF Placed

\* What a task loses is nothing that had to be kept.
LEMMA PassedFacts ==
  ASSUME Sort(kind), kind.gather # "count", NEW items, Batch(items)
  PROVE  /\ \A t \in TxIn(items) : t \in Reliable => t \in Passing(items)
         /\ kind.gather # "user" => Passing(items) \subseteq FullPipeline(given)
<1>1. \A i \in items : /\ i.tx \in Txs
                       /\ kind.gather # "user" \/ i.tx.uid # 0 =>
                            Registered(i.tx) /\ i.key = i.tx.uid
  BY DEF Batch, Item
<1>2. \A t \in Txs : Verified(Signed(t, t.uid)) <=> t.key = t.uid
  BY SignedFacts DEF Verified
<1>3. \A i \in items : (kind.gather # "user" \/ i.tx.uid # 0) =>
          (Verified(i) <=> Verified(Signed(i.tx, i.tx.uid)))
  BY <1>1, <1>2 DEF Verified
<1>4. /\ FullPipeline(given) = {t \in Txs : Registered(t) /\ Verified(Signed(t, t.uid))}
      /\ Reliable \subseteq FullPipeline(given)
  BY ReliableFacts
<1>5. kind.gather = "user" /\ Reliable # {} => \A t \in Txs : t.uid # 0
  BY ReliableFacts
<1>6. ASSUME NEW t \in TxIn(items), t \in Reliable
      PROVE  /\ \A i \in items : Registered(i.tx) /\ i.key = i.tx.uid
             /\ \A i \in items : i.tx = t => Verified(i)
             /\ kind.verify = "whole" => \A i \in items : Verified(i)
  <2>1. \A i \in items : kind.gather # "user" \/ i.tx.uid # 0
    BY <1>1, <1>5, <1>6
  <2>2. \A i \in items : i.tx = t => Verified(i)
    BY <1>3, <1>4, <1>6, <2>1
  <2>3. kind.verify = "whole" => \A i \in items : Verified(i)
    <3>1. kind.verify = "whole" => \A s \in Txs : Registered(s) => Verified(Signed(s, s.uid))
      BY <1>6, ReliableFacts
    <3>2. QED
      BY <1>1, <1>3, <2>1, <3>1
  <2>4. QED
    BY <1>1, <2>1, <2>2, <2>3
<1>7. ASSUME NEW t \in TxIn(items), t \in Reliable PROVE t \in Passing(items)
  <2>1. PICK i \in items : i.tx = t
    BY <1>7 DEF TxIn
  <2>2. Verified(i)
    BY <1>6, <1>7, <2>1
  <2>3. CASE kind.verify = "none"
    BY <1>7, <2>3, ReliableFacts
  <2>4. CASE kind.verify = "each"
    BY <2>1, <2>2, <2>4 DEF Passing
  <2>5. CASE kind.verify = "whole"
    <3>1. \A j \in items : Verified(j)
      BY <1>6, <1>7, <2>5
    <3>2. QED
      BY <2>1, <2>5, <3>1 DEF Passing
  <2>6. QED
    BY <2>3, <2>4, <2>5 DEF Sort
<1>8. ASSUME kind.gather # "user", NEW t \in Passing(items) PROVE t \in FullPipeline(given)
  <2>1. PICK i \in items : i.tx = t /\ Verified(i)
    <3>1. CASE kind.verify = "none"
      BY <1>8, <3>1 DEF Passing
    <3>2. CASE kind.verify = "each"
      BY <1>8, <3>2 DEF Passing
    <3>3. CASE kind.verify = "whole"
      BY <1>8, <3>3 DEF Passing
    <3>4. QED
      BY <3>1, <3>2, <3>3 DEF Sort
  <2>2. QED
    BY <1>1, <1>3, <1>4, <1>8, <2>1
<1>9. QED
  BY <1>7, <1>8

\* What passes is counted, and the rest of the task is gone.
LEMMA VerifyPlaces ==
  ASSUME StateInv, main # "done", kind.gather # "count", NEW v \in Verifiers, Verify(v),
         ~panicked', NEW p \in [Txs -> Places], Placed(p)
  PROVE  \E p2 \in [Txs -> Places] : Placed(p2)'
<1>1. PICK items :
              /\ ver[v].task = Task(items) /\ Batch(items)
              /\ panicked' = Keyless(items)
              /\ Passing(items) \subseteq TxIn(items)
              /\ TxIn(items) \subseteq Txs
              /\ counted' = IF Keyless(items) THEN counted ELSE counted \cup Passing(items)
              /\ validCount' = IF kind.local \/ Keyless(items) THEN validCount
                               ELSE validCount + Cardinality(Passing(items))
              /\ \E r2 : /\ ver' = [ver EXCEPT ![v] = r2]
                         /\ r2.task = Poison /\ r2.pc = "take"
                         /\ r2.local = IF kind.local /\ ~Keyless(items)
                                       THEN ver[v].local + Cardinality(Passing(items))
                                       ELSE ver[v].local
                         /\ ver[v].pc = "verify"
  BY VerifyState
<1>2. ~Keyless(items)
  BY <1>1
<1>3. PICK M, S : M = TxIn(items) /\ S = Passing(items)
  OBVIOUS
<1>4. /\ S \subseteq M /\ M \subseteq Txs
      /\ counted' = counted \cup S
      /\ validCount' = IF kind.local THEN validCount ELSE validCount + Cardinality(S)
  BY <1>1, <1>2, <1>3
<1>5. PICK r2 : /\ ver' = [ver EXCEPT ![v] = r2]
                /\ r2.task = Poison /\ r2.pc = "take"
                /\ r2.local = IF kind.local THEN ver[v].local + Cardinality(S) ELSE ver[v].local
                /\ ver[v].pc = "verify"
  BY <1>1, <1>2, <1>3
<1>6. UNCHANGED <<kind, given, channels, dec, dedupVars>>
  BY DEF Verify
<1>7. /\ given \in Seq(Message) /\ Sort(kind) /\ SeenIds' = SeenIds /\ crowded' = crowded
      /\ UNCHANGED <<feed, rawChan, queue>>
  BY <1>6, KindFacts DEF StateInv, InputInv, SeenIds, dedupVars, channels
<1>8. PlaceMap(p) /\ CountMap(p) /\ Unique(p) /\ Origin(p) /\ Kept(p)
  BY DEF Placed
<1>9. Coming' = Coming
  BY <1>6, <1>7, ComingSame DEF Decoded
<1>10. PICK x : x = IF kind.local THEN CountV(v) ELSE Total
  OBVIOUS
<1>11. PICK g : g = [t \in M |-> IF t \in S THEN x ELSE Gone]
  OBVIOUS
<1>12. PICK p2 : p2 = Move(p, M, g)
  OBVIOUS
<1>13. x \in Counts /\ x \in Places /\ Gone \in Places /\ Gone \notin Counts
  BY <1>10, PlacesHas, PlaceFacts, CountFacts
<1>14. p2 \in [Txs -> Places]
  BY <1>4, <1>11, <1>12, <1>13 DEF Move
<1>15. At(p, Verifies(v)) = M
  <2>1. At(p, Verifies(v)) = InTask(ver[v].task)
    BY <1>8 DEF PlaceMap
  <2>2. InTask(Task(items)) = TxIn(items)
    BY TaskFacts DEF InTask
  <2>3. QED
    BY <1>1, <1>3, <2>1, <2>2
<1>16. \A t \in M : p[t] = Verifies(v)
  BY <1>15 DEF At
<1>17. /\ \A y : y # x /\ y # Gone /\ y # Verifies(v) => At(p2, y) = At(p, y)
       /\ At(p2, Verifies(v)) = {}
       /\ At(p2, x) = At(p, x) \cup S /\ At(p, x) \cap S = {}
  <2>1. Verifies(v) # x /\ Verifies(v) # Gone /\ x # Gone
    BY <1>13, PlaceFacts, CountFacts
  <2>2. \A y : At(p2, y) = (At(p, y) \ M) \cup {t \in M : g[t] = y}
    BY <1>4, <1>12, AtMove
  <2>3. \A y : y # Verifies(v) => At(p, y) \cap M = {}
    BY <1>16 DEF At
  <2>4. \A t \in M : g[t] = IF t \in S THEN x ELSE Gone
    BY <1>11
  <2>5. ASSUME NEW y, y # x, y # Gone, y # Verifies(v) PROVE At(p2, y) = At(p, y)
    BY <2>2, <2>3, <2>4, <2>5
  <2>6. At(p2, Verifies(v)) = {}
    BY <1>15, <2>1, <2>2, <2>4
  <2>7. {t \in M : g[t] = x} = S
    BY <1>4, <2>1, <2>4
  <2>8. At(p, x) \cap M = {}
    BY <2>1, <2>3
  <2>9. At(p2, x) = At(p, x) \cup S /\ At(p, x) \cap S = {}
    BY <1>4, <2>2, <2>7, <2>8
  <2>10. QED
    BY <2>5, <2>6, <2>9
<1>18. PlaceMap(p2)'
  <2>1. \A y : y \notin Counts /\ y # Gone /\ y # Verifies(v) => At(p2, y) = At(p, y)
    BY <1>13, <1>17
  <2>2. At(p2, ToCome) = Coming'
    <3>1. ToCome \notin Counts /\ ToCome # Gone /\ ToCome # Verifies(v)
      BY PlaceFacts, CountFacts
    <3>2. QED
      BY <1>8, <1>9, <2>1, <3>1 DEF PlaceMap
  <2>3. \A e \in Decoders : /\ At(p2, Checks(e)) = Loose(dec'[e])
                            /\ At(p2, InBatch(e)) = TxIn(dec'[e].batch)
                            /\ At(p2, Sends(e)) = InTask(dec'[e].task)
    <3> TAKE e \in Decoders
    <3>1. /\ Checks(e) \notin Counts /\ InBatch(e) \notin Counts /\ Sends(e) \notin Counts
          /\ Checks(e) # Gone /\ InBatch(e) # Gone /\ Sends(e) # Gone
          /\ Checks(e) # Verifies(v) /\ InBatch(e) # Verifies(v) /\ Sends(e) # Verifies(v)
      BY PlaceFacts, CountFacts
    <3>2. At(p2, Checks(e)) = At(p, Checks(e)) /\ At(p2, InBatch(e)) = At(p, InBatch(e))
          /\ At(p2, Sends(e)) = At(p, Sends(e))
      BY <2>1, <3>1
    <3>3. QED
      BY <1>6, <1>8, <3>2 DEF PlaceMap, DecMap
  <2>4. \A i \in Nat : At(p2, Queued(i)) =
                            IF i \in 1 .. Len(queue') THEN InTask(queue'[i]) ELSE {}
    <3> TAKE i \in Nat
    <3>1. Queued(i) \notin Counts /\ Queued(i) # Gone /\ Queued(i) # Verifies(v)
      BY PlaceFacts, CountFacts
    <3>2. At(p2, Queued(i)) = At(p, Queued(i))
      BY <2>1, <3>1
    <3>3. At(p, Queued(i)) = IF i \in 1 .. Len(queue) THEN InTask(queue[i]) ELSE {}
      BY <1>8 DEF PlaceMap
    <3>4. QED
      BY <1>7, <3>2, <3>3
  <2>5. \A w \in Verifiers : At(p2, Verifies(w)) = InTask(ver'[w].task)
    <3> TAKE w \in Verifiers
    <3>1. CASE w = v
      <4>1. ver'[w].task = Poison
        BY <1>5, <3>1 DEF StateInv
      <4>2. QED
        BY <1>17, <3>1, <4>1 DEF InTask
    <3>2. CASE w # v
      <4>1. ver'[w] = ver[w]
        BY <1>5, <3>2
      <4>2. Verifies(w) \notin Counts /\ Verifies(w) # Gone /\ Verifies(w) # Verifies(v)
        BY <3>2, PlaceFacts, CountFacts
      <4>3. At(p2, Verifies(w)) = InTask(ver[w].task)
        BY <1>8, <2>1, <4>2 DEF PlaceMap
      <4>4. QED
        BY <4>1, <4>3
    <3>3. QED
      BY <3>1, <3>2
  <2>6. QED
    BY <1>6, <2>2, <2>3, <2>4, <2>5, PlaceNext
<1>19. \A t \in Txs : \/ p2[t] = p[t] /\ t \notin M
                      \/ t \in S /\ p2[t] = x
                      \/ t \in M \ S /\ p2[t] = Gone
  BY <1>4, <1>11, <1>12 DEF Move
<1>20. CountMap(p2)'
  <2>1. counted' = {t \in Txs : p2[t] \in Counts}
    <3>1. \A t \in Txs : p2[t] \in Counts <=> p[t] \in Counts \/ t \in S
      <4>1. \A t \in M : p[t] \notin Counts
        BY <1>16, PlaceFacts, CountFacts
      <4>2. QED
        BY <1>4, <1>13, <1>19, <4>1
    <3>2. counted = {t \in Txs : p[t] \in Counts}
      BY <1>8 DEF CountMap
    <3>3. QED
      BY <1>4, <3>1, <3>2
  <2>2. At(p, x) \subseteq Txs /\ S \subseteq Txs
    BY <1>4 DEF At
  <2>3. Cardinality(At(p2, x)) = Cardinality(At(p, x)) + Cardinality(S)
    BY <1>7, <1>17, <2>2, SumFacts
  <2>4. validCount' = Cardinality(At(p2, Total))
    <3>1. validCount = Cardinality(At(p, Total))
      BY <1>8 DEF CountMap
    <3>2. CASE kind.local
      <4>1. Total # x /\ Total # Gone /\ Total # Verifies(v)
        BY <1>10, <3>2, PlaceFacts
      <4>2. QED
        BY <1>4, <1>17, <3>1, <3>2, <4>1
    <3>3. CASE ~kind.local
      BY <1>4, <1>10, <2>3, <3>1, <3>3
    <3>4. QED
      BY <3>2, <3>3
  <2>5. \A e \in Decoders : At(p2, CountD(e)) = At(p, CountD(e))
    <3> TAKE e \in Decoders
    <3>1. CountD(e) # x /\ CountD(e) # Gone /\ CountD(e) # Verifies(v)
      BY <1>10, PlaceFacts
    <3>2. QED
      BY <1>17, <3>1
  <2>6. \A e \in Decoders : IF dec'[e].last THEN At(p2, CountD(e)) = {}
                            ELSE dec'[e].local = Cardinality(At(p2, CountD(e)))
    BY <1>6, <1>8, <2>5 DEF CountMap
  <2>7. kind.gather # "count" => \A e \in Decoders : At(p2, CountD(e)) = {}
    BY <1>8, <2>5 DEF CountMap
  <2>8. \A w \in Verifiers : w # v \/ ~kind.local => At(p2, CountV(w)) = At(p, CountV(w))
    <3> SUFFICES ASSUME NEW w \in Verifiers, w # v \/ ~kind.local
                 PROVE At(p2, CountV(w)) = At(p, CountV(w))
      OBVIOUS
    <3>1. CountV(w) # x /\ CountV(w) # Gone /\ CountV(w) # Verifies(v)
      BY <1>10, PlaceFacts
    <3>2. QED
      BY <1>17, <3>1
  <2>9. \A w \in Verifiers : IF ver[w].pc = "exit" THEN At(p, CountV(w)) = {}
                             ELSE ver[w].local = Cardinality(At(p, CountV(w)))
    BY <1>8 DEF CountMap
  <2>10. \A w \in Verifiers : IF ver'[w].pc = "exit" THEN At(p2, CountV(w)) = {}
                              ELSE ver'[w].local = Cardinality(At(p2, CountV(w)))
    <3> TAKE w \in Verifiers
    <3>1. CASE w = v
      <4>1. ver'[w] = r2
        BY <1>5, <3>1 DEF StateInv
      <4>2. ver[v].local = Cardinality(At(p, CountV(v)))
        BY <1>5, <2>9
      <4>3. CASE kind.local
        BY <1>5, <1>10, <2>3, <3>1, <4>1, <4>2, <4>3
      <4>4. CASE ~kind.local
        BY <1>5, <2>8, <3>1, <4>1, <4>2, <4>4
      <4>5. QED
        BY <4>3, <4>4
    <3>2. CASE w # v
      <4>1. ver'[w] = ver[w]
        BY <1>5, <3>2
      <4>2. QED
        BY <2>8, <2>9, <3>2, <4>1
    <3>3. QED
      BY <3>1, <3>2
  <2>11. ~kind.local => \A w \in Verifiers : At(p2, CountV(w)) = {}
    BY <1>8, <2>8 DEF CountMap
  <2>12. QED
    BY <1>6, <2>1, <2>4, <2>6, <2>7, <2>10, <2>11, CountNext
<1>21. Unique(p2)' /\ Origin(p2)' /\ Kept(p2)'
  <2>1. \A t \in M : ~Early(p, t) /\ p[t] # Gone
    <3>1. Later(Verifies(v))
      BY LaterFacts
    <3>2. QED
      BY <1>16, <3>1 DEF Later, Early
  <2>2. Later(x)
    BY <1>13, LaterFacts
  <2>3. \A t \in Txs : Early(p2, t) => Early(p, t)
    <3> SUFFICES ASSUME NEW t \in Txs, Early(p2, t) PROVE Early(p, t)
      OBVIOUS
    <3>1. p2[t] # x
      BY <2>2 DEF Later, Early
    <3>2. p2[t] # Gone
      BY PlaceFacts DEF Early
    <3>3. QED
      BY <1>19, <3>1, <3>2 DEF Early
  <2>4. \A t \in Txs : Passed(p2, t) => Passed(p, t)
    <3> SUFFICES ASSUME NEW t \in Txs, Passed(p2, t) PROVE Passed(p, t)
      OBVIOUS
    <3>1. CASE t \in M
      BY <2>1, <3>1 DEF Passed
    <3>2. CASE t \notin M
      BY <1>4, <1>19, <3>2 DEF Passed, Early
    <3>3. QED
      BY <3>1, <3>2
  <2>5. \A t \in Reliable : p2[t] = Gone => p[t] = Gone
    <3> SUFFICES ASSUME NEW t \in Reliable, p2[t] = Gone PROVE p[t] = Gone
      OBVIOUS
    <3>1. t \in Txs
      BY <1>7, ReliableFacts
    <3>2. t \in M => t \in S
      BY <1>1, <1>3, <1>7, PassedFacts
    <3>3. x # Gone
      BY <1>13
    <3>4. QED
      BY <1>19, <3>1, <3>2, <3>3
  <2>6. QED
    BY <1>6, <1>7, <1>8, <2>3, <2>4, <2>5, StillPlaced
<1>22. QED
  BY <1>14, <1>18, <1>20, <1>21 DEF Placed

\* What is counted is what the sequential pipeline counts.
LEMMA VerifyHonest ==
  ASSUME StateInv, Honest, main # "done", kind.gather # "count", NEW v \in Verifiers, Verify(v)
  PROVE  Honest'
<1>1. PICK items : /\ Batch(items)
                   /\ counted' = IF Keyless(items) THEN counted ELSE counted \cup Passing(items)
  <2>1. \E items :
              /\ ver[v].task = Task(items) /\ Batch(items)
              /\ panicked' = Keyless(items)
              /\ Passing(items) \subseteq TxIn(items)
              /\ TxIn(items) \subseteq Txs
              /\ counted' = IF Keyless(items) THEN counted ELSE counted \cup Passing(items)
              /\ validCount' = IF kind.local \/ Keyless(items) THEN validCount
                               ELSE validCount + Cardinality(Passing(items))
              /\ \E r2 : /\ ver' = [ver EXCEPT ![v] = r2]
                         /\ r2.task = Poison /\ r2.pc = "take"
                         /\ r2.local = IF kind.local /\ ~Keyless(items)
                                       THEN ver[v].local + Cardinality(Passing(items))
                                       ELSE ver[v].local
                         /\ ver[v].pc = "verify"
    BY VerifyState
  <2>2. QED
    BY <2>1
<1>2. Sort(kind)
  BY KindFacts DEF StateInv, InputInv
<1>3. kind.gather # "user" => Passing(items) \subseteq FullPipeline(given)
  BY <1>1, <1>2, PassedFacts
<1>4. UNCHANGED <<kind, given>>
  BY DEF Verify
<1>5. FullPipeline(given)' = FullPipeline(given)
  BY <1>4, Rigid
<1>6. QED
  BY <1>1, <1>3, <1>4, <1>5 DEF Honest

\* What main and the feeder do, and a stutter, moves no transaction.
LEMMA IdlePlaces ==
  ASSUME StateInv, UNCHANGED <<kind, given, dec, ver, validCount, dedupVars, counted>>,
         Decoded' = Decoded,
         \/ queue' = queue
         \/ /\ queue' = Append(queue, Poison) /\ TaskOk(Poison)
            /\ \A i \in 1 .. Len(queue) : queue'[i] = queue[i]
            /\ Len(queue') = Len(queue) + 1 /\ Len(queue) \in Nat
            /\ queue'[Len(queue) + 1] = Poison,
         NEW p \in [Txs -> Places], Placed(p)
  PROVE  Placed(p)'
<1>1. PlaceMap(p) /\ CountMap(p) /\ Unique(p) /\ Origin(p) /\ Kept(p)
  BY DEF Placed
<1>2. SeenIds' = SeenIds /\ crowded' = crowded /\ Sort(kind)
  BY KindFacts DEF StateInv, InputInv, SeenIds, dedupVars
<1>3. Coming' = Coming
  BY ComingSame
<1>4. PICK q : q = p
  OBVIOUS
<1>5. PlaceMap(q)'
  <2>1. At(q, ToCome) = Coming'
    BY <1>1, <1>3, <1>4 DEF PlaceMap
  <2>2. \A e \in Decoders : /\ At(q, Checks(e)) = Loose(dec'[e])
                            /\ At(q, InBatch(e)) = TxIn(dec'[e].batch)
                            /\ At(q, Sends(e)) = InTask(dec'[e].task)
    BY <1>1, <1>4 DEF PlaceMap, DecMap
  <2>3. \A i \in Nat : At(q, Queued(i)) =
                            IF i \in 1 .. Len(queue') THEN InTask(queue'[i]) ELSE {}
    <3> TAKE i \in Nat
    <3>1. At(q, Queued(i)) = IF i \in 1 .. Len(queue) THEN InTask(queue[i]) ELSE {}
      BY <1>1, <1>4 DEF PlaceMap
    <3>2. CASE queue' = queue
      BY <3>1, <3>2
    <3>3. CASE /\ queue' = Append(queue, Poison) /\ TaskOk(Poison)
               /\ \A j \in 1 .. Len(queue) : queue'[j] = queue[j]
               /\ Len(queue') = Len(queue) + 1 /\ Len(queue) \in Nat
               /\ queue'[Len(queue) + 1] = Poison
      <4>1. CASE i \in 1 .. Len(queue)
        BY <3>1, <3>3, <4>1
      <4>2. CASE i = Len(queue) + 1
        BY <3>1, <3>3, <4>2 DEF InTask
      <4>3. CASE i \notin 1 .. Len(queue) /\ i # Len(queue) + 1
        BY <3>1, <3>3, <4>3
      <4>4. QED
        BY <4>1, <4>2, <4>3
    <3>4. QED
      BY <3>2, <3>3
  <2>4. \A w \in Verifiers : At(q, Verifies(w)) = InTask(ver'[w].task)
    BY <1>1, <1>4 DEF PlaceMap
  <2>5. QED
    BY <2>1, <2>2, <2>3, <2>4, PlaceNext
<1>6. CountMap(q)'
  BY <1>1, <1>4, SameCounts
<1>7. Unique(q)' /\ Origin(q)' /\ Kept(q)'
  BY <1>1, <1>2, <1>4, MovedOn
<1>8. QED
  BY <1>4, <1>5, <1>6, <1>7 DEF Placed

\* At first every transaction is to come.
LEMMA InitPlaces ==
  ASSUME BenchInit, StateInv, BenchAssumption
  PROVE  PlaceInv /\ FlatInv /\ Honest
<1>1. /\ given \in Seq(Message) /\ Sort(kind)
      /\ DOMAIN dec = Decoders /\ DOMAIN ver = Verifiers
  BY KindFacts DEF StateInv, InputInv
<1>2. PICK p : p = [t \in Txs |-> ToCome]
  OBVIOUS
<1>3. p \in [Txs -> Places]
  BY <1>2, PlacesHas
<1>4. At(p, ToCome) = Txs /\ \A x : x # ToCome => At(p, x) = {}
  BY <1>2 DEF At
<1>5. queue = <<>> /\ Len(queue) = 0
  BY DEF BenchInit
<1>6. AtWork.pc = "take" /\ AtWork.batch = {} /\ AtWork.task = Poison /\ AtWork.last = FALSE
      /\ AtWork.local = 0
  BY DEF AtWork
<1>7. /\ \A d \in Decoders : dec[d] = AtWork
      /\ \A v \in Verifiers : ver[v] = AtWork
  BY DEF BenchInit
<1>8. PlaceMap(p)
  <2>1. Coming = Txs
    <3>1. Decoded = 0
      <4>1. Len(given) \in Nat /\ feed = given /\ rawChan = <<>>
        BY <1>1 DEF BenchInit
      <4>2. Len(rawChan) = 0 /\ Len(feed) = Len(given)
        BY <4>1
      <4>3. Decoded = Len(given) - Len(given) - 0
        BY <4>2 DEF Decoded
      <4>4. QED
        BY <4>1, <4>3
    <3>2. \A i \in DOMAIN given : i > Decoded
      BY <1>1, <3>1
    <3>3. Txs = UNION {Carried(given[i]) : i \in DOMAIN given}
      BY <1>1, InputTxs
    <3>4. Coming = {t \in Txs : \E i \in DOMAIN given : t \in Carried(given[i])}
      BY <3>2 DEF Coming
    <3>5. \A t \in Txs : \E i \in DOMAIN given : t \in Carried(given[i])
      BY <3>3
    <3>6. QED
      BY <3>4, <3>5
  <2>2. \A d \in Decoders : DecMap(p, d)
    <3> TAKE d \in Decoders
    <3>1. Checks(d) # ToCome /\ InBatch(d) # ToCome /\ Sends(d) # ToCome
      BY PlaceFacts
    <3>2. Loose(AtWork) = {} /\ TxIn(AtWork.batch) = {} /\ InTask(AtWork.task) = {}
      BY <1>6 DEF Loose, Looking, TxIn, InTask
    <3>3. QED
      BY <1>4, <1>7, <3>1, <3>2 DEF DecMap
  <2>3. \A i \in Nat : At(p, Queued(i)) = IF i \in 1 .. Len(queue) THEN InTask(queue[i]) ELSE {}
    <3> TAKE i \in Nat
    <3>1. Queued(i) # ToCome
      BY PlaceFacts
    <3>2. QED
      BY <1>4, <1>5, <3>1
  <2>4. \A v \in Verifiers : At(p, Verifies(v)) = InTask(ver[v].task)
    <3> TAKE v \in Verifiers
    <3>1. Verifies(v) # ToCome
      BY PlaceFacts
    <3>2. QED
      BY <1>4, <1>6, <1>7, <3>1 DEF InTask
  <2>5. QED
    BY <1>4, <2>1, <2>2, <2>3, <2>4 DEF PlaceMap
<1>9. CountMap(p)
  <2>1. ToCome \notin Counts
    BY PlaceFacts, CountFacts
  <2>2. counted = {t \in Txs : p[t] \in Counts}
    BY <1>2, <2>1 DEF BenchInit
  <2>3. \A x \in Counts : At(p, x) = {}
    BY <1>4, <2>1
  <2>4. At(p, Total) = {} /\ \A d \in Decoders : At(p, CountD(d)) = {}
        /\ \A v \in Verifiers : At(p, CountV(v)) = {}
    BY <2>3, PlacesHas
  <2>5. validCount = Cardinality(At(p, Total))
    BY <2>4, FS_EmptySet DEF BenchInit
  <2>6. \A d \in Decoders : IF dec[d].last THEN At(p, CountD(d)) = {}
                            ELSE dec[d].local = Cardinality(At(p, CountD(d)))
    BY <1>6, <1>7, <2>4, FS_EmptySet
  <2>7. \A v \in Verifiers : IF ver[v].pc = "exit" THEN At(p, CountV(v)) = {}
                             ELSE ver[v].local = Cardinality(At(p, CountV(v)))
    BY <1>6, <1>7, <2>4, FS_EmptySet
  <2>8. QED
    BY <2>2, <2>4, <2>5, <2>6, <2>7 DEF CountMap
<1>10. flat = [i \in 0 .. TableSize - 1 |-> NoOrder] /\ orderCache = {} /\ counted = {}
  BY DEF BenchInit
<1>11. Range(flat) \subseteq {NoOrder}
  <2>1. \A x \in Range(flat) : \E i \in DOMAIN flat : flat[i] = x
    BY DEF Range
  <2>2. \A i \in DOMAIN flat : flat[i] = NoOrder
    BY <1>10
  <2>3. QED
    BY <2>1, <2>2
<1>12. SeenIds = {}
  BY <1>10, <1>11 DEF SeenIds
<1>13. \A t \in Txs : Early(p, t) /\ p[t] # Gone
  BY <1>2, PlaceFacts DEF Early
<1>14. Unique(p) /\ Origin(p)
  <2>1. \A t \in Txs : ~Passed(p, t)
    BY <1>13 DEF Passed
  <2>2. QED
    BY <1>12, <2>1 DEF Unique, Origin
<1>15. Kept(p)
  <2>1. Reliable \subseteq Txs
    BY <1>1, ReliableFacts
  <2>2. QED
    BY <1>13, <2>1 DEF Kept
<1>16. FlatInv
  <2>1. \A o \in OrderIds : o \notin Range(flat)
    BY <1>11 DEF BenchAssumption
  <2>2. QED
    BY <2>1 DEF FlatInv
<1>17. QED
  BY <1>3, <1>8, <1>9, <1>10, <1>14, <1>15, <1>16 DEF Placed, PlaceInv, Honest

-------------------------------------------------------------------------------
(* Every step keeps the invariant.                                         *)

LEMMA PlaceKept ==
  ASSUME UNCHANGED <<kind, given>>,
         ~panicked' => \E p2 \in [Txs -> Places] : Placed(p2)'
  PROVE  PlaceInv'
<1>1. Txs' = Txs
  BY Rigid
<1>2. Places' = Places
  BY DEF Places, Counts, ToCome, Gone, Total, Checks, InBatch, Sends, Queued, Verifies,
         CountD, CountV
<1>3. QED
  BY <1>1, <1>2 DEF PlaceInv

LEMMA OthersKept ==
  ASSUME UNCHANGED <<kind, given, flat, crowded, counted>>, FlatInv, Honest
  PROVE  FlatInv' /\ Honest'
<1>1. FlatInv'
  BY DEF FlatInv, Slot
<1>2. FullPipeline(given)' = FullPipeline(given)
  BY Rigid
<1>3. Honest'
  BY <1>2 DEF Honest
<1>4. QED
  BY <1>1, <1>3

LEMMA DecoderKeeps ==
  ASSUME IInv, BenchAssumption, InputAssumption, ~panicked, NEW d \in Decoders, Decoder(d)
  PROVE  IInv'
<1>1. StateInv /\ FlatInv /\ Honest
  BY DEF IInv
<1>2. PICK p \in [Txs -> Places] : Placed(p)
  BY DEF IInv, PlaceInv
<1>3. UNCHANGED <<kind, given, panicked>>
  BY DEF Decoder, Decode, DecoderEnd, Send, CheckTime, SeenRead, SeenAdd, FlatSeen
<1>4. CASE Decode(d)
  <2>1. StateInv'
    BY <1>1, <1>4, DecodeState
  <2>2. \E p2 \in [Txs -> Places] : Placed(p2)'
    BY <1>1, <1>2, <1>4, DecodePlaces, CountPlaces
  <2>3. UNCHANGED <<flat, crowded>>
    BY <1>4 DEF Decode, dedupVars
  <2>4. FlatInv'
    BY <1>1, <2>3 DEF FlatInv, Slot
  <2>5. Honest'
    <3>1. FullPipeline(given)' = FullPipeline(given)
      BY <1>3, Rigid
    <3>2. kind.gather # "count" => counted' = counted
      BY <1>4 DEF Decode
    <3>3. QED
      BY <1>1, <1>3, <3>1, <3>2 DEF Honest
  <2>6. PlaceInv'
    BY <1>3, <2>2, PlaceKept
  <2>7. QED
    BY <2>1, <2>4, <2>5, <2>6 DEF IInv
<1>5. CASE DecoderEnd(d)
  <2>1. StateInv'
    BY <1>1, <1>5, DecoderEndState
  <2>2. \E p2 \in [Txs -> Places] : Placed(p2)'
    BY <1>1, <1>2, <1>5, DecoderEndPlaces
  <2>3. UNCHANGED <<flat, crowded, counted>>
    BY <1>5 DEF DecoderEnd, dedupVars
  <2>4. QED
    BY <1>1, <1>3, <2>1, <2>2, <2>3, PlaceKept, OthersKept DEF IInv
<1>6. CASE Send(d)
  <2>1. StateInv'
    BY <1>1, <1>6, SendState
  <2>2. \E p2 \in [Txs -> Places] : Placed(p2)'
    BY <1>1, <1>2, <1>6, SendPlaces
  <2>3. UNCHANGED <<flat, crowded, counted>>
    BY <1>6 DEF Send, dedupVars
  <2>4. QED
    BY <1>1, <1>3, <2>1, <2>2, <2>3, PlaceKept, OthersKept DEF IInv
<1>7. CASE CheckTime(d)
  <2>1. StateInv'
    BY <1>1, <1>7, CheckTimeState
  <2>2. \E p2 \in [Txs -> Places] : Placed(p2)'
    BY <1>1, <1>2, <1>7, CheckTimePlaces
  <2>3. UNCHANGED <<flat, crowded, counted>>
    BY <1>7 DEF CheckTime
  <2>4. QED
    BY <1>1, <1>3, <2>1, <2>2, <2>3, PlaceKept, OthersKept DEF IInv
<1>8. CASE SeenRead(d)
  <2>1. StateInv'
    BY <1>1, <1>8, SeenReadState
  <2>2. \E p2 \in [Txs -> Places] : Placed(p2)'
    BY <1>1, <1>2, <1>8, SeenReadPlaces
  <2>3. UNCHANGED <<flat, crowded, counted>>
    BY <1>8 DEF SeenRead
  <2>4. QED
    BY <1>1, <1>3, <2>1, <2>2, <2>3, PlaceKept, OthersKept DEF IInv
<1>9. CASE SeenAdd(d)
  <2>1. StateInv'
    BY <1>1, <1>9, SeenAddState
  <2>2. \E p2 \in [Txs -> Places] : Placed(p2)'
    BY <1>1, <1>2, <1>9, SeenAddPlaces
  <2>3. UNCHANGED <<flat, crowded, counted>>
    BY <1>9 DEF SeenAdd
  <2>4. QED
    BY <1>1, <1>3, <2>1, <2>2, <2>3, PlaceKept, OthersKept DEF IInv
<1>10. CASE FlatSeen(d)
  <2>1. StateInv' /\ FlatInv'
    BY <1>1, <1>10, FlatSeenState
  <2>2. \E p2 \in [Txs -> Places] : Placed(p2)'
    BY <1>1, <1>2, <1>10, FlatSeenPlaces
  <2>3. Honest'
    <3>1. FullPipeline(given)' = FullPipeline(given)
      BY <1>3, Rigid
    <3>2. counted' = counted
      BY <1>10 DEF FlatSeen
    <3>3. QED
      BY <1>1, <1>3, <3>1, <3>2 DEF Honest
  <2>4. PlaceInv'
    BY <1>3, <2>2, PlaceKept
  <2>5. QED
    BY <2>1, <2>3, <2>4 DEF IInv
<1>11. QED
  BY <1>4, <1>5, <1>6, <1>7, <1>8, <1>9, <1>10 DEF Decoder

LEMMA VerifierKeeps ==
  ASSUME IInv, ~panicked, main # "done", NEW v \in Verifiers, Verifier(v)
  PROVE  IInv'
<1>1. StateInv /\ FlatInv /\ Honest /\ kind.gather # "count"
  BY DEF IInv, Verifier
<1>2. PICK p \in [Txs -> Places] : Placed(p)
  BY DEF IInv, PlaceInv
<1>3. UNCHANGED <<kind, given, flat, crowded>>
  BY DEF Verifier, Receive, Verify, VerifierEnd, dedupVars
<1>4. CASE Receive(v)
  <2>1. StateInv'
    BY <1>1, <1>4, ReceiveState
  <2>2. \E p2 \in [Txs -> Places] : Placed(p2)'
    BY <1>1, <1>2, <1>4, ReceivePlaces
  <2>3. UNCHANGED counted
    BY <1>4 DEF Receive
  <2>4. QED
    BY <1>1, <1>3, <2>1, <2>2, <2>3, PlaceKept, OthersKept DEF IInv
<1>5. CASE Verify(v)
  <2>1. StateInv'
    BY <1>1, <1>5, VerifyState
  <2>2. ~panicked' => \E p2 \in [Txs -> Places] : Placed(p2)'
    BY <1>1, <1>2, <1>5, VerifyPlaces
  <2>3. Honest'
    BY <1>1, <1>5, VerifyHonest
  <2>4. FlatInv'
    BY <1>1, <1>3 DEF FlatInv, Slot
  <2>5. QED
    BY <1>3, <2>1, <2>2, <2>3, <2>4, PlaceKept DEF IInv
<1>6. CASE VerifierEnd(v)
  <2>1. StateInv'
    BY <1>1, <1>6, VerifierEndState
  <2>2. \E p2 \in [Txs -> Places] : Placed(p2)'
    BY <1>1, <1>2, <1>6, VerifierEndPlaces
  <2>3. UNCHANGED counted
    BY <1>6 DEF VerifierEnd
  <2>4. QED
    BY <1>1, <1>3, <2>1, <2>2, <2>3, PlaceKept, OthersKept DEF IInv
<1>7. QED
  BY <1>4, <1>5, <1>6 DEF Verifier

LEMMA MainKeeps ==
  ASSUME IInv, BenchAssumption, ~panicked, main # "done",
         Feed \/ CloseRaw \/ Tick \/ Main
  PROVE  IInv'
<1>1. StateInv /\ FlatInv /\ Honest
  BY DEF IInv
<1>2. PICK p \in [Txs -> Places] : Placed(p)
  BY DEF IInv, PlaceInv
<1>3. /\ StateInv' /\ Decoded' = Decoded
      /\ UNCHANGED <<kind, given, dec, ver, validCount, dedupVars, panicked, counted>>
      /\ \/ queue' = queue
         \/ /\ queue' = Append(queue, Poison) /\ TaskOk(Poison)
            /\ \A i \in 1 .. Len(queue) : queue'[i] = queue[i]
            /\ Len(queue') = Len(queue) + 1 /\ Len(queue) \in Nat
            /\ queue'[Len(queue) + 1] = Poison
  <2>1. CASE Feed \/ CloseRaw \/ Tick
    BY <1>1, <2>1, FeedState
  <2>2. CASE Main
    BY <1>1, <2>2, MainState DEF Decoded
  <2>3. QED
    BY <2>1, <2>2
<1>4. UNCHANGED <<flat, crowded>>
  BY <1>3 DEF dedupVars
<1>5. Placed(p)'
  BY <1>1, <1>2, <1>3, IdlePlaces
<1>6. QED
  BY <1>1, <1>2, <1>3, <1>4, <1>5, PlaceKept, OthersKept DEF IInv

LEMMA IInvNext ==
  ASSUME IInv, BenchAssumption, InputAssumption, [BenchNext]_benchVars
  PROVE  IInv'
<1>1. CASE BenchNext
  <2>1. ~panicked /\ main # "done" /\ Running
    BY <1>1 DEF BenchNext
  <2>2. CASE Feed \/ CloseRaw \/ Tick \/ Main
    BY <2>1, <2>2, MainKeeps
  <2>3. CASE \E d \in Decoders : Decoder(d)
    BY <2>1, <2>3, DecoderKeeps
  <2>4. CASE \E v \in Verifiers : Verifier(v)
    BY <2>1, <2>4, VerifierKeeps
  <2>5. QED
    BY <2>1, <2>2, <2>3, <2>4 DEF Running
<1>2. CASE UNCHANGED benchVars
  <2>1. /\ UNCHANGED <<kind, given, feed, rawChan, rawClosed, queue, queueClosed>>
        /\ UNCHANGED <<dec, ver, main, pills, validCount, globalTime, panicked, counted>>
        /\ UNCHANGED <<logicErrors, orderCache, flat, crowded>>
    BY <1>2 DEF benchVars, channels, dedupVars
  <2>2. StateInv /\ FlatInv /\ Honest /\ PlaceInv
    BY DEF IInv
  <2>3. StateInv'
    <3>1. InputInv' /\ \A r : TaskOk(r)' = TaskOk(r)
      BY <2>1, <2>2, Rigid DEF StateInv
    <3>2. FeedInv' /\ MainInv' /\ CacheInv' /\ DecodersDone' = DecodersDone
      BY <2>1, <2>2 DEF StateInv, FeedInv, MainInv, CacheInv, DecodersDone, VerifiersDone,
         Decoded
    <3>3. QueueInv'
      BY <2>1, <2>2, <3>1, <3>2 DEF StateInv, QueueInv
    <3>4. AllPills' = AllPills
      BY <2>1 DEF AllPills
    <3>5. QED
      BY <2>1, <2>2, <3>1, <3>2, <3>3, <3>4, OtherState DEF StateInv
  <2>4. FlatInv' /\ Honest'
    BY <2>1, <2>2, OthersKept
  <2>5. Decoded' = Decoded
    BY <2>1 DEF Decoded
  <2>6. PlaceInv'
    <3>1. CASE panicked
      BY <2>1, <3>1 DEF PlaceInv
    <3>2. CASE ~panicked
      <4>1. PICK p \in [Txs -> Places] : Placed(p)
        BY <2>2, <3>2 DEF PlaceInv
      <4>2. UNCHANGED dedupVars
        BY <2>1 DEF dedupVars
      <4>3. Placed(p)'
        BY <2>1, <2>2, <2>5, <4>1, <4>2, IdlePlaces
      <4>4. QED
        BY <2>1, <4>1, <4>3, PlaceKept
    <3>3. QED
      BY <3>1, <3>2
  <2>7. QED
    BY <2>3, <2>4, <2>6 DEF IInv
<1>3. QED
  BY <1>1, <1>2

-------------------------------------------------------------------------------
(* What the invariant says at the end.                                     *)

\* When main is done, whatever was not counted is gone: of the transactions to
\* keep, none is left on the way.
LEMMA DoneCounts ==
  ASSUME StateInv, BenchAssumption, NEW p \in [Txs -> Places], Placed(p), main = "done"
  PROVE  /\ Reliable \subseteq counted
         /\ validCount = Cardinality(counted)
<1>1. PlaceMap(p) /\ CountMap(p) /\ Kept(p)
  BY DEF Placed
<1>2. /\ Sort(kind) /\ given \in Seq(Message)
      /\ DecodersDone /\ (kind.gather = "count" \/ VerifiersDone)
      /\ \A d \in Decoders : DecOk(dec[d])
      /\ \A v \in Verifiers : VerOk(ver[v])
  BY KindFacts DEF StateInv, InputInv, MainInv
<1>3. \A d \in Decoders : dec[d].pc = "exit" /\ dec[d].batch = {} /\ dec[d].task = Poison
                          /\ (dec[d].last \/ kind.dedup = "bloom")
  BY <1>2 DEF DecOk, DecodersDone
<1>4. \A v \in Verifiers : ver[v].task = Poison
  BY <1>2 DEF VerOk, VerifiersDone, AtWork
<1>5. counted = {t \in Txs : p[t] \in Counts}
  BY <1>1 DEF CountMap
<1>6. \A d \in Decoders : At(p, CountD(d)) = {}
  <2> TAKE d \in Decoders
  <2>1. CASE dec[d].last
    BY <1>1, <2>1 DEF CountMap
  <2>2. CASE ~dec[d].last
    <3>1. kind.gather # "count"
      BY <1>2, <1>3, <2>2 DEF Sort
    <3>2. QED
      BY <1>1, <3>1 DEF CountMap
  <2>3. QED
    BY <2>1, <2>2
<1>7. \A v \in Verifiers : At(p, CountV(v)) = {}
  <2> TAKE v \in Verifiers
  <2>1. IF ver[v].pc = "exit" THEN At(p, CountV(v)) = {}
        ELSE ver[v].local = Cardinality(At(p, CountV(v)))
    BY <1>1 DEF CountMap
  <2>2. CASE ver[v].pc = "exit"
    BY <2>1, <2>2
  <2>3. CASE ver[v].pc # "exit"
    <3>1. kind.gather = "count"
      BY <1>2, <2>3 DEF VerifiersDone
    <3>2. ver[v].local = 0
      BY <1>2, <3>1 DEF VerOk, AtWork
    <3>3. IsFiniteSet(At(p, CountV(v)))
      BY <1>2, AtFacts
    <3>4. QED
      BY <2>1, <2>3, <3>2, <3>3, FS_EmptySet
  <2>4. QED
    BY <2>2, <2>3
<1>8. counted = At(p, Total)
  <2>1. \A t \in Txs : p[t] \in Counts => p[t] = Total
    BY <1>6, <1>7 DEF Counts, At
  <2>2. Total \in Counts
    BY PlacesHas
  <2>3. QED
    BY <1>5, <2>1, <2>2 DEF At
<1>9. validCount = Cardinality(counted)
  BY <1>1, <1>8 DEF CountMap
<1>10. ASSUME NEW t \in Reliable PROVE t \in counted
  <2>1. t \in Txs /\ kind.dedup # "bloom" /\ p[t] # Gone /\ p[t] \in Places
    BY <1>1, <1>2, <1>10, ReliableFacts DEF Kept
  <2>2. \A d \in Decoders : dec[d].last
    BY <1>3, <2>1
  <2>3. p[t] # ToCome
    <3>1. PICK d : d \in Decoders
      BY DEF BenchAssumption
    <3>2. feed = <<>> /\ rawChan = <<>>
      BY <1>2, <2>2, <3>1 DEF DecOk
    <3>3. Len(feed) = 0 /\ Len(rawChan) = 0 /\ Len(given) \in Nat
          /\ DOMAIN given = 1 .. Len(given)
      BY <1>2, <3>2
    <3>4. Decoded = Len(given)
      BY <3>3 DEF Decoded
    <3>5. \A i \in DOMAIN given : ~(i > Decoded)
      BY <3>3, <3>4
    <3>6. Coming = {}
      BY <3>5 DEF Coming
    <3>7. QED
      BY <1>1, <2>1, <3>6 DEF PlaceMap, At
  <2>4. \A d \in Decoders : p[t] # Checks(d) /\ p[t] # InBatch(d) /\ p[t] # Sends(d)
    <3> TAKE d \in Decoders
    <3>1. Loose(dec[d]) = {} /\ TxIn(dec[d].batch) = {} /\ InTask(dec[d].task) = {}
      BY <1>3 DEF Loose, Looking, TxIn, InTask
    <3>2. DecMap(p, d)
      BY <1>1 DEF PlaceMap
    <3>3. QED
      BY <2>1, <3>1, <3>2 DEF DecMap, At
  <2>5. \A i \in Nat : p[t] # Queued(i)
    <3> TAKE i \in Nat
    <3>1. At(p, Queued(i)) = IF i \in 1 .. Len(queue) THEN InTask(queue[i]) ELSE {}
      BY <1>1 DEF PlaceMap
    <3>2. queue = <<>> \/ \A j \in 1 .. Len(queue) : queue[j] = Poison
      <4>1. CASE kind.gather = "count"
        BY <4>1 DEF StateInv, QueueInv
      <4>2. CASE kind.gather # "count"
        <5>1. PICK v : v \in Verifiers
          BY DEF BenchAssumption
        <5>2. VerOk(ver[v]) /\ ver[v].pc = "exit"
          BY <1>2, <4>2, <5>1 DEF VerifiersDone
        <5>3. QED
          BY <5>2 DEF VerOk
      <4>3. QED
        BY <4>1, <4>2
    <3>3. At(p, Queued(i)) = {}
      <4>1. CASE queue = <<>>
        <5>1. i \notin 1 .. Len(queue)
          BY <4>1
        <5>2. QED
          BY <3>1, <5>1
      <4>2. CASE \A j \in 1 .. Len(queue) : queue[j] = Poison
        BY <3>1, <4>2 DEF InTask
      <4>3. QED
        BY <3>2, <4>1, <4>2
    <3>4. QED
      BY <2>1, <3>3 DEF At
  <2>6. \A v \in Verifiers : p[t] # Verifies(v)
    <3> TAKE v \in Verifiers
    <3>1. At(p, Verifies(v)) = {}
      BY <1>1, <1>4 DEF PlaceMap, InTask
    <3>2. QED
      BY <2>1, <3>1 DEF At
  <2>7. p[t] \in Counts
    BY <2>1, <2>3, <2>4, <2>5, <2>6 DEF Places
  <2>8. QED
    BY <1>5, <2>1, <2>7
<1>11. QED
  BY <1>9, <1>10

LEMMA DoneOnce ==
  ASSUME StateInv, NEW p, Placed(p), kind.dedup # "no", ~crowded,
         NEW s \in counted, NEW t \in counted, s.oid = t.oid, s.oid # NoOrder
  PROVE  s = t
<1>1. counted = {x \in Txs : p[x] \in Counts} /\ Unique(p)
  BY DEF Placed, CountMap
<1>2. \A x \in Txs : p[x] \in Counts => Passed(p, x)
  BY LaterFacts DEF Later, Passed, Early
<1>3. s \in Txs /\ t \in Txs /\ Passed(p, s) /\ Passed(p, t)
  BY <1>1, <1>2
<1>4. QED
  BY <1>1, <1>3 DEF Unique

LEMMA IInvRight ==
  ASSUME IInv, BenchAssumption
  PROVE  CountRight
<1> SUFFICES ASSUME main = "done"
             PROVE  /\ validCount = Cardinality(counted)
                    /\ Reliable \subseteq counted
                    /\ kind.gather \in {"count", "user"} \/ counted \subseteq FullPipeline(given)
                    /\ kind.dedup # "no" /\ ~crowded =>
                         \A s, t \in counted : s.oid = t.oid /\ s.oid # NoOrder => s = t
  BY DEF CountRight
<1>1. StateInv /\ Honest /\ ~panicked
  BY DEF IInv, StateInv, MainInv
<1>2. PICK p \in [Txs -> Places] : Placed(p)
  BY <1>1 DEF IInv, PlaceInv
<1>3. validCount = Cardinality(counted) /\ Reliable \subseteq counted
  BY <1>1, <1>2, DoneCounts
<1>4. kind.dedup # "no" /\ ~crowded =>
         \A s, t \in counted : s.oid = t.oid /\ s.oid # NoOrder => s = t
  BY <1>1, <1>2, DoneOnce
<1>5. QED
  BY <1>1, <1>3, <1>4 DEF Honest

\* When main reads the count of a benchmark, it is right: every goroutine has
\* added its own, no valid transaction was left behind or counted twice, and no
\* order id got through twice, whatever the number of decoders and verifiers, the
\* capacities of the channels, the size of a batch and the input.
THEOREM CountIsRight == BenchSpec => []CountRight
<1>1. BenchInit => IInv
  BY BenchAssumption, InputAssumption, KindAssumption, StateInit, InitPlaces DEF IInv
<1>2. IInv /\ [BenchNext]_benchVars => IInv'
  BY BenchAssumption, InputAssumption, IInvNext
<1>3. IInv => CountRight
  BY BenchAssumption, IInvRight
<1>4. QED
  BY <1>1, <1>2, <1>3, PTL DEF BenchSpec

==============================================================================
