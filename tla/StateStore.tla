------------------------------ MODULE StateStore ------------------------------
(***************************************************************************)
(* The store of orders below the pipeline, v2-tx-pipeline/state/state.go:  *)
(* maps in memory, one goroutine per call that hands its write to a        *)
(* channel, a writer that commits batches to pebble, and a calculator that *)
(* hashes the dirty entries into a root and saves it.                      *)
(*                                                                         *)
(* Every order marshals to the same bytes, and loading restores the id     *)
(* alone, so the map of orders is the set of its ids.  Accounts, balances  *)
(* and positions have no operation that changes them.                      *)
(***************************************************************************)
EXTENDS Integers, Sequences, FiniteSets, SequencesExt

CONSTANTS
  Ids,        \* order ids
  ChanCap,    \* capacity of writeCh (256 * 1024)
  BatchSize,  \* writes after which a batch is committed without a tick (8192)
  MaxCalls,   \* bound on the calls of SetOrder and CancelOrder
  MaxStops    \* bound on the number of crashes and of calls of Close

ASSUME StoreAssumption ==
  /\ ChanCap \in Nat \ {0}
  /\ BatchSize \in Nat \ {0}
  /\ MaxCalls \in Nat
  /\ MaxStops \in Nat

VARIABLES
  phase,        \* "up", "closing", "closed" or "crashed"
  orders,       \* s.orders
  dirty,        \* s.dirtyOrders
  currentRoot,  \* s.currentRoot
  version,      \* s.version
  senders,      \* goroutines that are about to send a write to writeCh
  writeCh,      \* s.writeCh
  writer,       \* backgroundWriter: "run" or "stopped"
  batch,        \* its batch; count is the length of it
  calc,         \* backgroundRootCalculator: its point and the root it hashed
  disk,         \* what pebble may recover: the contents since the last sync
  calls, stops, \* how many calls and stops there were
  changed,      \* history: ids changed since a root last collected them
  missed,       \* history: ids changed between collecting and clearing
  raced         \* history: ids changed while an older write was not yet sent

memVars   == <<orders, dirty, currentRoot, version>>
writeVars == <<senders, writeCh, writer, batch>>
histVars  == <<changed, missed, raced>>
vars == <<phase, memVars, writeVars, calc, disk, calls, stops, histVars>>

\* A root is the hash of the entries it covers: id |-> is it in the map.
NoRoot == [id \in {} |-> FALSE]
Roots  == UNION {[S -> BOOLEAN] : S \in SUBSET Ids}
Empty  == [orders |-> {}, root |-> NoRoot]

\* What the database holds now.
Stored == Last(disk)

\* A batch applied to the stored orders: the last write of an id decides.
Apply(stored, tasks) ==
  LET Writes(id) == {i \in DOMAIN tasks : tasks[i].id = id}
  IN  {id \in Ids : IF Writes(id) = {} THEN id \in stored
                                       ELSE tasks[Max(Writes(id))].live}
Committed(tasks) == [Stored EXCEPT !.orders = Apply(@, tasks)]

Running == phase \in {"up", "closing"}

-------------------------------------------------------------------------------
Init ==
  /\ phase = "up"
  /\ orders = {}
  /\ dirty = {}
  /\ currentRoot = NoRoot
  /\ version = 0
  /\ senders = {}
  /\ writeCh = <<>>
  /\ writer = "run"
  /\ batch = <<>>
  /\ calc = [pc |-> "idle", root |-> NoRoot]
  /\ disk = <<Empty>>
  /\ calls = 0
  /\ stops = 0
  /\ changed = {}
  /\ missed = {}
  /\ raced = {}

\* Mutant of Change: the id is not marked dirty when it is deleted.
ChangeUnmarked(id, live) ==
  /\ phase = "up"
  /\ calls < MaxCalls
  /\ calls' = calls + 1
  /\ dirty' = IF live THEN dirty \cup {id} ELSE dirty
  /\ senders' = senders \cup {[n |-> calls, id |-> id, live |-> live]}
  /\ changed' = changed \cup {id}
  /\ missed' = IF calc.pc = "publish" THEN missed \cup {id} ELSE missed
  /\ raced' = IF \E s \in senders : s.id = id THEN raced \cup {id} ELSE raced
  /\ UNCHANGED <<phase, currentRoot, version, writeCh, writer, batch>>
  /\ UNCHANGED <<calc, disk, stops>>

\* What SetOrder and CancelOrder share: the id becomes dirty under the lock,
\* and a goroutine is started that will send the write.
Change(id, live) ==
  /\ phase = "up"
  /\ calls < MaxCalls
  /\ calls' = calls + 1
  /\ dirty' = dirty \cup {id}
  /\ senders' = senders \cup {[n |-> calls, id |-> id, live |-> live]}
  /\ changed' = changed \cup {id}
  /\ missed' = IF calc.pc = "publish" THEN missed \cup {id} ELSE missed
  /\ raced' = IF \E s \in senders : s.id = id THEN raced \cup {id} ELSE raced
  /\ UNCHANGED <<phase, currentRoot, version, writeCh, writer, batch>>
  /\ UNCHANGED <<calc, disk, stops>>

SetOrder(id) ==
  /\ orders' = orders \cup {id}
  /\ Change(id, TRUE)

CancelOrder(id) ==
  /\ orders' = orders \ {id}
  /\ Change(id, FALSE)

\* A goroutine sends its write; which one comes first is up to the scheduler.
Send(s) ==
  /\ Running
  /\ s \in senders
  /\ Len(writeCh) < ChanCap
  /\ writeCh' = Append(writeCh, s)
  /\ senders' = senders \ {s}
  /\ UNCHANGED <<phase, memVars, writer, batch, calc, disk, calls, stops, histVars>>

-------------------------------------------------------------------------------
(* backgroundWriter.                                                       *)

\* A write enters the batch; a full batch is committed without a sync.
WriterTake ==
  LET b == Append(batch, Head(writeCh))
  IN  /\ Running
      /\ writer = "run"
      /\ writeCh # <<>>
      /\ writeCh' = Tail(writeCh)
      /\ batch' = IF Len(b) >= BatchSize THEN <<>> ELSE b
      /\ disk' = IF Len(b) >= BatchSize THEN Append(disk, Committed(b)) ELSE disk
      /\ UNCHANGED <<phase, memVars, senders, writer, calc, calls, stops, histVars>>

\* Mutant of WriterTick: the batch is reset before it is committed.
WriterTickReset ==
  /\ Running
  /\ writer = "run"
  /\ batch # <<>>
  /\ disk' = <<Stored>>
  /\ batch' = <<>>
  /\ UNCHANGED <<phase, memVars, senders, writeCh, writer, calc, calls, stops, histVars>>

\* The ticker: a batch that is not empty is committed with a sync.
WriterTick ==
  /\ Running
  /\ writer = "run"
  /\ batch # <<>>
  /\ disk' = <<Committed(batch)>>
  /\ batch' = <<>>
  /\ UNCHANGED <<phase, memVars, senders, writeCh, writer, calc, calls, stops, histVars>>

\* The context is cancelled: the writer returns, with its batch.
WriterStop ==
  /\ phase = "closing"
  /\ writer = "run"
  /\ writer' = "stopped"
  /\ batch' = <<>>
  /\ UNCHANGED <<phase, memVars, senders, writeCh, calc, disk, calls, stops, histVars>>

-------------------------------------------------------------------------------
(* computeAndSaveRoot, cut where it releases and takes the lock.           *)

CalcCollect ==
  /\ Running
  /\ calc.pc = "idle"
  /\ dirty # {}
  /\ calc' = [pc |-> "publish", root |-> [id \in dirty |-> id \in orders]]
  /\ changed' = changed \ dirty
  /\ UNCHANGED <<phase, memVars, writeVars, disk, calls, stops, missed, raced>>

\* Under the lock: publish the root and clear the dirty set, including the
\* ids that became dirty after CalcCollect.
CalcPublish ==
  /\ Running
  /\ calc.pc = "publish"
  /\ currentRoot' = calc.root
  /\ version' = version + 1
  /\ dirty' = {}
  /\ calc' = [calc EXCEPT !.pc = "save"]
  /\ UNCHANGED <<phase, orders, writeVars, disk, calls, stops, histVars>>

\* Mutant of CalcSave: the root is saved without a sync.
CalcSaveNoSync ==
  /\ Running
  /\ calc.pc = "save"
  /\ disk' = Append(disk, [Stored EXCEPT !.root = calc.root])
  /\ calc' = [pc |-> "idle", root |-> NoRoot]
  /\ UNCHANGED <<phase, memVars, writeVars, calls, stops, histVars>>

\* After the lock: db.Set(RootKey, ...) with a sync.
CalcSave ==
  /\ Running
  /\ calc.pc = "save"
  /\ disk' = <<[Stored EXCEPT !.root = calc.root]>>
  /\ calc' = [pc |-> "idle", root |-> NoRoot]
  /\ UNCHANGED <<phase, memVars, writeVars, calls, stops, histVars>>

CalcStop ==
  /\ phase = "closing"
  /\ calc.pc = "idle"
  /\ calc' = [calc EXCEPT !.pc = "stopped"]
  /\ UNCHANGED <<phase, memVars, writeVars, disk, calls, stops, histVars>>

-------------------------------------------------------------------------------
(* Close, a crash, and NewState on the same directory.                     *)

Close ==
  /\ phase = "up"
  /\ stops < MaxStops
  /\ phase' = "closing"
  /\ stops' = stops + 1
  /\ UNCHANGED <<memVars, writeVars, calc, disk, calls, histVars>>

\* After 500 ms the database is closed.  The writer has returned by then;
\* a root computation may take longer, its db.Set then panics.
CloseDB ==
  /\ phase = "closing"
  /\ writer = "stopped"
  /\ phase' = "closed"
  /\ disk' = <<Stored>>
  /\ UNCHANGED <<memVars, writeVars, calc, calls, stops, histVars>>

\* What was not synced is lost, but never from the middle.
Crash ==
  /\ Running
  /\ stops < MaxStops
  /\ phase' = "crashed"
  /\ stops' = stops + 1
  /\ \E i \in DOMAIN disk : disk' = <<disk[i]>>
  /\ UNCHANGED <<memVars, writeVars, calc, calls, histVars>>

\* NewState starts its goroutines before it loads, but nothing is dirty and
\* nobody can call SetOrder until it returns: loading is one step.
Restart ==
  /\ phase \in {"closed", "crashed"}
  /\ phase' = "up"
  /\ orders' = Stored.orders
  /\ dirty' = {}
  /\ currentRoot' = Stored.root
  /\ version' = 0
  /\ senders' = {}
  /\ writeCh' = <<>>
  /\ writer' = "run"
  /\ batch' = <<>>
  /\ calc' = [pc |-> "idle", root |-> NoRoot]
  /\ changed' = {}
  /\ missed' = {}
  /\ raced' = {}
  /\ UNCHANGED <<disk, calls, stops>>

Next ==
  \/ \E id \in Ids : SetOrder(id) \/ CancelOrder(id)
  \/ \E s \in senders : Send(s)
  \/ WriterTake
  \/ WriterTick
  \/ WriterStop
  \/ CalcCollect
  \/ CalcPublish
  \/ CalcSave
  \/ CalcStop
  \/ Close
  \/ CloseDB
  \/ Crash
  \/ Restart

Spec == Init /\ [][Next]_vars

\* The goroutines of the store run whenever they can; the tickers tick.
Fairness ==
  /\ WF_vars(\E s \in senders : Send(s))
  /\ WF_vars(WriterTake)
  /\ WF_vars(WriterTick)
  /\ WF_vars(CalcCollect)
  /\ WF_vars(CalcPublish)
  /\ WF_vars(CalcSave)

FairSpec == Spec /\ Fairness

-------------------------------------------------------------------------------
(* Properties.                                                             *)

Tasks   == [n : Nat, id : Ids, live : BOOLEAN]
Content == [orders : SUBSET Ids, root : Roots]

\* Type invariant: maps, channel, batch and database hold writes and entries
\* of known ids, and there is always a content pebble can recover.
TypeOK ==
  /\ phase \in {"up", "closing", "closed", "crashed"}
  /\ orders \subseteq Ids
  /\ dirty \subseteq Ids
  /\ currentRoot \in Roots
  /\ version \in Nat
  /\ senders \subseteq Tasks
  /\ writeCh \in Seq(Tasks)
  /\ writer \in {"run", "stopped"}
  /\ batch \in Seq(Tasks)
  /\ calc \in [pc : {"idle", "publish", "save", "stopped"}, root : Roots]
  /\ disk \in Seq(Content) /\ disk # <<>>
  /\ calls \in 0..MaxCalls
  /\ stops \in 0..MaxStops
  /\ changed \subseteq Ids
  /\ missed \subseteq Ids
  /\ raced \subseteq Ids

\* The root in memory is the root a restart would load, also after crashes
\* and after commits that are not synced, except while computeAndSaveRoot is
\* between publishing a root and saving it.
RootStored ==
  /\ Running /\ calc.pc # "save" => currentRoot = Stored.root
  /\ \A i \in DOMAIN disk : disk[i].root = Stored.root

\* Every change is dirty until a root has collected it, except a change that
\* arrives between the collection and the clearing of the dirty set.
RootMissesOnly == Running => changed \ missed \subseteq dirty

\* If the store stays up, database and maps agree in the end on every order
\* whose changes were not made in quick succession: with two goroutines on
\* the way to the channel for one id the older write may win for ever.
Converges ==
  <>[](phase = "up")
    => <>[](\A id \in Ids \ raced : id \in orders <=> id \in Stored.orders)

===============================================================================
