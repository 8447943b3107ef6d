------------------------- MODULE MCBenchmarkPipelines -------------------------
(* Two users; inputs that repeat an order id, have a bad signature, unknown *)
(* signers, a stale order id, no header or bytes that are no message.  The  *)
(* client runs when one of the benchmarks is over.                          *)
EXTENDS BenchmarkPipelines, AsyncClient

Tx(n, uid, key, oid, time) == [n |-> n, uid |-> uid, key |-> key, oid |-> oid, time |-> time]
One(t) == [form |-> "good", txs |-> <<t>>]
Bad(form) == [form |-> form, txs |-> <<>>]
Good(txs) == [form |-> "good", txs |-> txs]

Alice == Tx(1, 1, 1, 1, 0)
Again == Tx(2, 1, 1, 1, 0)
Bob   == Tx(3, 2, 2, 2, 1)
Carol == Tx(4, 2, 2, 3, 1)
Stale == Tx(5, 1, 1, 3, 2)
Wrong == Tx(6, 1, 2, NoOrder, 0)
Ghost == Tx(7, 3, 3, NoOrder, 0)
Zero  == Tx(8, 0, 1, NoOrder, 0)
Nil   == Tx(10, 0, 1, NoOrder, 0)
Echo  == Tx(11, 2, 2, 2, 1)
Bare  == Tx(9, NoHeader, 1, NoOrder, 0)

MCTxInputs ==
    {<<One(Alice), One(Again), One(Bob)>>,
     <<One(Alice), One(Bob), One(Echo)>>,
     <<One(Alice), One(Bob), One(Carol)>>,
     <<One(Bob), One(Wrong), One(Ghost)>>,
     <<Bad("garbled"), One(Stale), One(Carol)>>,
     <<Bad("unscannable"), One(Alice), One(Bob)>>,
     <<One(Zero), One(Alice), One(Ghost), One(Nil)>>,
     <<One(Bare), One(Alice), One(Wrong)>>}

MCBlockInputs ==
    {<<Good(<<Alice, Bob>>), Good(<<Ghost>>), Good(<<Carol, Wrong>>)>>,
     <<Bad("garbled"), Good(<<Bare, Alice>>), Good(<<>>)>>,
     <<Good(<<Alice>>), Good(<<Bob>>), Good(<<Carol>>)>>}

MCHashOf == [o \in OrderIds |-> 0]

First == kind = MetaTxDecoding /\ given = <<Good(<<Alice>>), Good(<<Bob>>), Good(<<Carol>>)>>

MCInit == BenchInit /\ ClientInit /\ (gathers \/ First)

MCNext ==
    \/ BenchNext /\ UNCHANGED clientVars
    \/ First /\ main = "done" /\ ClientNext /\ UNCHANGED benchVars

MCSpec == MCInit /\ [][MCNext]_<<benchVars, clientVars>> /\ BenchFairness /\ ClientFairness
=============================================================================
