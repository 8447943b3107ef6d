------------------------------ MODULE Snapshots ------------------------------
(***************************************************************************)
(* mt-manager/merkletree/snapshot.go and snapshot_storage.go on top of     *)
(* the tree manager: snapshots of all trees are taken while the trees go   *)
(* on changing, stored under the global root, listed, deleted and loaded,  *)
(* and the process may crash and start again with the same database.       *)
(*                                                                         *)
(* The database is Pebble.  A batch is atomic; one that is not synced may  *)
(* be lost in a crash with all that came after it.                         *)
(***************************************************************************)
EXTENDS TreeManager

VARIABLES
    db,             \* what is in the database
    past,           \* what a crash may put it back to
    snap,           \* what each caller has in hand of a snapshot
    mixed,          \* history: versions stored while their trees changed, that
                    \* had leaves of deleted items, or stored more than once
    skewed          \* history: the count was read or changed in a way that
                    \* does not count: two calls overlapped, or a version was
                    \* stored that was there, or deleted that was not

svars == <<db, past, snap, mixed, skewed>>
allVars == <<vars, svars>>

\* metas: the versions with metadata; data: the items by version and tree.
Empty == [metas |-> {}, data |-> <<>>, first |-> None, last |-> None, count |-> 0]

NoSnapshot == [refs |-> <<>>, data |-> <<>>, version |-> None, names |-> {},
               first |-> None, count |-> 0, alone |-> TRUE]

TreesOf(d, v) == {k[2] : k \in {x \in DOMAIN d.data : x[1] = v}}

SnapshotsInit ==
    /\ Init
    /\ db = Empty
    /\ past = {}
    /\ snap = [c \in Callers |-> NoSnapshot]
    /\ mixed = {}
    /\ skewed = FALSE

\* Whoever else is about to change the count.
Counting(c) == {d \in Callers \ {c} : call[d].pc \in {"commit", "delete"}}

\* The count is read for a change of db that is committed later.
ReadCount(c, r) ==
    /\ snap' = [d \in Callers |->
            IF d = c THEN [r EXCEPT !.first = db.first, !.count = db.count]
            ELSE snap[d]]
    /\ skewed' = (skewed \/ Counting(c) # {})

\* Mutant of Decremented: the count stays.
DecrementedNot(count) == count

Decremented(count) == IF count > 0 THEN count - 1 ELSE 0

-----------------------------------------------------------------------------
(* CreateSnapshot *)

\* captureTreeReferences, under the read lock; ComputeGlobalRoot comes next.
Capture(c) ==
    /\ MayRead
    /\ Begin(c, "save", [NoCall EXCEPT !.pc = "check", !.then = "snapshot"])
    /\ snap' = [snap EXCEPT ![c] = [NoSnapshot EXCEPT !.refs = trees]]
    /\ UNCHANGED <<trees, content, caches, lock, forgot, unproved, db, past, mixed, skewed>>

\* The trees are serialised without locks, one after another in any order.
Serialize(c, name) ==
    LET s == snap[c]
    IN  /\ call[c].pc = "answered"
        /\ name \in DOMAIN s.refs
        /\ snap' = [snap EXCEPT
                ![c].refs = Without(@, name),
                ![c].data = With(@, name, content[s.refs[name]].items)]
        /\ call' = [call EXCEPT ![c].calm = @ /\ content[s.refs[name]].holes = {}]
        /\ UNCHANGED <<trees, content, caches, lock, budget, forgot, unproved,
                       db, past, mixed, skewed>>

\* SaveSnapshot fills a batch, for which it reads whether there is a first
\* version, and the count.
SaveSnapshot(c) ==
    /\ call[c].pc = "answered"
    /\ snap[c].refs = <<>>
    /\ ReadCount(c, snap[c])
    /\ call' = [call EXCEPT ![c].pc = "commit"]
    /\ UNCHANGED <<trees, content, caches, lock, budget, forgot, unproved, db, past, mixed>>

\* Trees of that version that were there before stay there.
CommitSave(c) ==
    LET v == call[c].root
        s == snap[c]
        keys == {v} \X DOMAIN s.data
    IN  /\ call[c].pc = "commit"
        /\ db' = [metas |-> db.metas \cup {v},
                  data |-> [k \in keys \cup DOMAIN db.data |->
                              IF k \in keys THEN s.data[k[2]] ELSE db.data[k]],
                  first |-> IF s.first = None THEN v ELSE db.first,
                  last |-> v,
                  count |-> s.count + 1]
        /\ past' = past \cup {db}
        /\ mixed' = IF call[c].calm /\ TreesOf(db, v) \subseteq DOMAIN s.data THEN mixed
                    ELSE mixed \cup {v}
        /\ skewed' = (skewed \/ v \in db.metas)
        /\ snap' = [snap EXCEPT ![c] = NoSnapshot]
        /\ call' = Returned(c)
        /\ UNCHANGED <<trees, content, caches, lock, budget, forgot, unproved>>

-----------------------------------------------------------------------------
(* DeleteSnapshot; Flush *)

DeleteSnapshot(c, v) ==
    /\ Begin(c, "drop", [NoCall EXCEPT !.pc = "delete"])
    /\ ReadCount(c, [NoSnapshot EXCEPT !.version = v, !.names = TreesOf(db, v)])
    /\ UNCHANGED <<trees, content, caches, lock, forgot, unproved, db, past, mixed>>

\* This batch is synced.  The first and the last version stay as they are.
CommitDelete(c) ==
    LET s == snap[c]
    IN  /\ call[c].pc = "delete"
        /\ db' = [db EXCEPT
                !.metas = @ \ {s.version},
                !.data = Restrict(@, DOMAIN @ \ ({s.version} \X s.names)),
                !.count = Decremented(s.count)]
        /\ past' = {}
        /\ mixed' = IF TreesOf(db, s.version) \subseteq s.names THEN mixed
                    ELSE mixed \cup {s.version}
        /\ skewed' = (skewed \/ s.version \notin db.metas)
        /\ snap' = [snap EXCEPT ![c] = NoSnapshot]
        /\ call' = Returned(c)
        /\ UNCHANGED <<trees, content, caches, lock, budget, forgot, unproved>>

Flush ==
    /\ past # {}
    /\ past' = {}
    /\ UNCHANGED <<vars, db, snap, mixed, skewed>>

-----------------------------------------------------------------------------
(* LoadSnapshot, of a given version or of the last *)

\* The metadata is read and the trees are listed, or the load fails.
LoadSnapshot(c, v) ==
    /\ v \in db.metas
    /\ Begin(c, "load", [NoCall EXCEPT !.pc = "load"])
    /\ snap' = [snap EXCEPT ![c] = [NoSnapshot EXCEPT
                    !.version = v, !.names = TreesOf(db, v)]]
    /\ UNCHANGED <<trees, content, caches, lock, forgot, unproved, db, past, mixed, skewed>>

\* The trees are read, and built from their items; a deleted one is an error.
ReadTrees(c) ==
    LET s == snap[c]
    IN  /\ call[c].pc = "load"
        /\ \/ /\ s.names \subseteq TreesOf(db, s.version)
              /\ snap' = [snap EXCEPT ![c].data =
                            [n \in s.names |-> db.data[<<s.version, n>>]]]
              /\ call' = [call EXCEPT ![c].pc = "lock", ![c].op = "install"]
           \/ /\ ~(s.names \subseteq TreesOf(db, s.version))
              /\ snap' = [snap EXCEPT ![c] = NoSnapshot]
              /\ call' = Returned(c)
        /\ UNCHANGED <<trees, content, caches, lock, budget, forgot, unproved,
                       db, past, mixed, skewed>>

\* The cached roots of the trees that were there stay.
Install(c) ==
    LET s == snap[c]
        names == Sorted(DOMAIN s.data)
    IN  /\ Holding(c, "install")
        /\ Rearranged(c, [n \in DOMAIN s.data |->
                              Len(content) + Cardinality({m \in DOMAIN s.data : m <= n})],
                      content \o [i \in DOMAIN names |-> Inserted(NoItems, s.data[names[i]])],
                      TRUE, FALSE)
        /\ snap' = [snap EXCEPT ![c] = NoSnapshot]
        /\ UNCHANGED <<treeRootCache, db, past, mixed, skewed>>

-----------------------------------------------------------------------------

\* The process dies, and NewManagerWithSnapshot opens the database again.
Crash ==
    /\ budget.crash > 0
    /\ db' \in past \cup {db}
    /\ past' = {}
    /\ snap' = [c \in Callers |-> NoSnapshot]
    /\ trees' = <<>> /\ content' = <<>>
    /\ treeRootCache' = <<>> /\ globalRootCache' = Zero /\ globalRootDirty' = TRUE
    /\ readers' = [c \in Callers |-> 0] /\ writer' = None
    /\ call' = [c \in Callers |-> NoCall]
    /\ budget' = [budget EXCEPT !.crash = @ - 1]
    /\ forgot' = FALSE
    /\ UNCHANGED <<unproved, mixed, skewed>>

SnapshotCalls(c) ==
    \/ Capture(c)
    \/ \E v \in db.metas \cup {db.last, Zero} : DeleteSnapshot(c, v) \/ LoadSnapshot(c, v)

SnapshotSteps(c) ==
    \/ \E name \in Names : Serialize(c, name)
    \/ SaveSnapshot(c) \/ CommitSave(c) \/ CommitDelete(c) \/ ReadTrees(c) \/ Install(c)

SnapshotsNext ==
    \/ \E c \in Callers : (Calls(c) \/ Steps(c)) /\ UNCHANGED svars
    \/ \E c \in Callers : SnapshotCalls(c) \/ SnapshotSteps(c)
    \/ Flush
    \/ Crash

SnapshotsFairness ==
    \A c \in Callers :
        WF_allVars((Steps(c) /\ UNCHANGED svars) \/ SnapshotSteps(c))

SnapshotsSpec == SnapshotsInit /\ [][SnapshotsNext]_allVars /\ SnapshotsFairness

-----------------------------------------------------------------------------
(* Properties *)

\* The trees of version v as they would be loaded.
Loaded(v) == [n \in TreesOf(db, v) |-> TreeRoot(Inserted(NoItems, db.data[<<v, n>>]))]

\* A version in the database loads into trees with that global root, whatever
\* was stored, deleted, lost in a crash or loaded before; unless its trees
\* changed while it was taken, had deleted items, or it was stored twice with
\* other names of trees.  And snapshots taken and deleted one at a time, each
\* version once, are counted.
SnapshotTrue ==
    /\ \A v \in db.metas \ mixed : MerkleRoot(RootsOf(Loaded(v))) = v
    /\ ~skewed => db.count = Cardinality(db.metas)

=============================================================================
