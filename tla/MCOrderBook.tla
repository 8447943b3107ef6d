----------------------------- MODULE MCOrderBook -----------------------------
(***************************************************************************)
(* Small instances of OrderBook for TLC.  Ids are interchangeable: nothing *)
(* but the price, the slot and the time of arrival decides who trades.     *)
(***************************************************************************)
EXTENDS OrderBook, TLC

Symmetry == Permutations(Ids)
===============================================================================
