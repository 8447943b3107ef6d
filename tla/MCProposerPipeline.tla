-------------------------- MODULE MCProposerPipeline --------------------------
(***************************************************************************)
(* Small instances of ProposerPipeline for TLC.  User 1 is a system user,  *)
(* 2 and 3 are ordinary users (on different prepare workers), 4 has a key  *)
(* that cannot be expanded, 5 is not registered.  Market 1 has a worker of *)
(* its own, markets 2 and 3 are served by the pool.                        *)
(***************************************************************************)
EXTENDS ProposerPipeline, TLC

T(u, n, m, f) == [uid |-> u, nonce |-> n, market |-> m, form |-> f]

\* Valid transactions: a replay, a gap, equal nonces on two markets, two
\* users on one market, a system user on the same market and on another.
OrderTxs ==
  {T(1, 1, 1, "signed"), T(2, 1, 1, "signed"), T(2, 3, 1, "signed"),
   T(2, 3, 2, "signed"), T(3, 1, 1, "signed"), T(1, 2, 3, "signed")}

\* Everything a stage may refuse.
HostileTxs ==
  {T(2, 1, 1, "signed"), T(2, 2, 2, "signed"), T(2, 3, 2, "forged"),
   T(4, 1, 2, "signed"), T(5, 1, 1, "signed"), T(2, 1, 1, "garbled"),
   T(2, 2, 1, "headless"), T(2, 4, 2, "spam"),
   T(2, 4, 1, "short")}

NoRoutes == [u \in {} |-> 0]
Symmetry == Permutations(Decoders) \cup Permutations(Verifiers)
===============================================================================
