----------------------------- MODULE MCStateStore -----------------------------
(***************************************************************************)
(* Small instances of StateStore for TLC: interchangeable order ids.       *)
(***************************************************************************)
EXTENDS StateStore, TLC

Symmetry == Permutations(Ids)
===============================================================================
