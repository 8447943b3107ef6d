----------------------------- MODULE MCTreeItems -----------------------------
(* Calls of one tree's items, how many of them at once, or allocations from *)
(* its arena: each initial state allows a few calls and no others.  In one  *)
(* that allows none, an order book runs instead.                            *)
EXTENDS TreeItems, ConcurrentArena, TreeBook

MCAllocations == {0, 6}

NoCalls == [insert |-> 0, batch |-> 0, delete |-> 0, get |-> 0, clear |-> 0,
            resize |-> 0, buffer |-> 0, close |-> 0, crowd |-> 2, ids |-> {1, 2}]

ItemsBudgets ==
    {NoCalls,
     [NoCalls EXCEPT !.buffer = 3, !.close = 1],
     [NoCalls EXCEPT !.insert = 1, !.delete = 1, !.get = 1, !.resize = 1],
     [NoCalls EXCEPT !.insert = 2, !.delete = 1],
     [NoCalls EXCEPT !.insert = 2, !.delete = 2, !.crowd = 1],
     [NoCalls EXCEPT !.insert = 4, !.crowd = 1, !.ids = Ids],
     [NoCalls EXCEPT !.batch = 1, !.delete = 1],
     [NoCalls EXCEPT !.batch = 1, !.clear = 1]}

MCInit ==
    /\ Init /\ ArenaInit /\ NewOrderBook
    /\ left > 0 => budget = NoCalls
    /\ budget = NoCalls => cacheSize = 1

NothingElse == budget = NoCalls /\ Init /\ ArenaInit /\ left = 0

MCNext ==
    \/ Next /\ deals = 0 /\ UNCHANGED <<arenaVars, bookVars>>
    \/ ArenaNext /\ UNCHANGED <<vars, bookVars>>
    \/ NothingElse /\ BookNext /\ UNCHANGED <<vars, arenaVars>>

MCSpec == MCInit /\ [][MCNext]_<<vars, arenaVars, bookVars>> /\ Fairness
=============================================================================
