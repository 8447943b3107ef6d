---------------------------- MODULE MCVerkleCommits ----------------------------
(* The optimized tree, or the first one: an initial state allows calls of    *)
(* one of them only.                                                         *)
EXTENDS VerkleCommits, VerkleTree

CONSTANTS c1, k1    \* a caller of each

(* Two children of the root: the first with the leaves of two users, so that *)
(* a second insert meets a child whose hash is being computed.               *)
MCGroupOf == [u \in Users |-> IF u = 3 THEN 2 ELSE 1]
MCBatches == {<<2, 3>>}

(* a and b share a place, c is next to them, d has a node of its own.        *)
MCPathOf == [m \in Members |-> CASE m = "a" -> <<0, 0>> [] m = "b" -> <<0, 0>>
                                 [] m = "c" -> <<0, 1>> [] m = "d" -> <<1, 0>>]
MCUpdates == {[a |-> 1], [a |-> 2, c |-> 1], [b |-> 2, d |-> 2]}

NoOrders == [commit |-> 0, enable |-> 0, disable |-> 0, level |-> 0, parallel |-> 0,
             final |-> 0, diff |-> 0, save |-> 0, fail |-> 0, callers |-> {}]
MCOrders ==
    {NoOrders,
     [NoOrders EXCEPT !.commit = 3, !.fail = 1, !.callers = {k1}],
     [NoOrders EXCEPT !.commit = 2, !.parallel = 1, !.callers = {k1}],
     [NoOrders EXCEPT !.commit = 1, !.diff = 1, !.save = 1, !.callers = Clients],
     [NoOrders EXCEPT !.commit = 2, !.enable = 1, !.final = 1, !.callers = {k1}],
     [NoOrders EXCEPT !.commit = 1, !.enable = 1, !.final = 1, !.callers = Clients],
     [NoOrders EXCEPT !.commit = 1, !.enable = 2, !.disable = 2, !.callers = Clients],
     [NoOrders EXCEPT !.commit = 1, !.level = 1, !.final = 1, !.callers = Clients]}

MCInit ==
    /\ Init /\ TreeInit
    /\ orders.callers # {k1} \/ orders.enable > 0 => (stored <=> orders.save = 1) /\ ~autoGrow

\* Bounds.  The callers are alike: the first call is c1's.  User 1 is inserted
\* alone, the others by the batch.
MCNext ==
    \/ /\ orders.callers = {} /\ Next /\ UNCHANGED treeState
       /\ calls = 0 => \A c \in Callers \ {c1} : UNCHANGED actor[c]
       /\ \A c \in Callers : actor'[c].kind = "insert" => actor'[c].todo \in {<<1>>, <<>>}
    \/ orders.callers # {} /\ TreeNext /\ UNCHANGED vars

MCSpec == MCInit /\ [][MCNext]_<<vars, treeState>> /\ Fairness /\ TreeFairness

\* Neither tree leaves a call waiting for ever that no caller of its own locked
\* out: commitWG comes down to zero on every way a commit can take.
CommitsSettle == ComesToRest /\ CommitsEnd
=============================================================================
