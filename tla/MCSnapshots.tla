----------------------------- MODULE MCSnapshots -----------------------------
(* One item and two callers; calls of a few kinds at a time: two at once    *)
(* about two names, or longer sequences one after another about three.      *)
EXTENDS Snapshots

NoCalls == [create |-> 0, move |-> 0, remove |-> 0, insert |-> 0, direct |-> 0,
            root |-> 0, proof |-> 0, save |-> 0, drop |-> 0, load |-> 0,
            crash |-> 0, crowd |-> 2, names |-> {1, 3}]

ManagerBudgets ==
    {[NoCalls EXCEPT !.create = 1, !.move = 1, !.remove = 1, !.insert = 1, !.root = 2],
     [NoCalls EXCEPT !.create = 2, !.insert = 1, !.direct = 1, !.root = 2],
     [NoCalls EXCEPT !.create = 2, !.insert = 2, !.proof = 1, !.root = 1],
     [NoCalls EXCEPT !.create = 3, !.insert = 1, !.proof = 1, !.root = 1, !.crowd = 1,
                     !.names = Names]}

SnapshotBudgets ==
    {[NoCalls EXCEPT !.create = 1, !.direct = 1, !.save = 2, !.load = 1, !.crash = 1],
     [NoCalls EXCEPT !.create = 1, !.move = 1, !.save = 2, !.drop = 1],
     [NoCalls EXCEPT !.create = 1, !.direct = 2, !.save = 1, !.load = 1],
     [NoCalls EXCEPT !.create = 1, !.insert = 1, !.save = 2, !.drop = 1, !.load = 1,
                     !.crash = 1, !.crowd = 1,
                     !.names = Names],
     [NoCalls EXCEPT !.create = 1, !.save = 2, !.drop = 1, !.load = 1, !.crash = 1]}

AllBudgets == ManagerBudgets \cup SnapshotBudgets
=============================================================================
