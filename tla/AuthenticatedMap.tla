---------------------------- MODULE AuthenticatedMap ----------------------------
(***************************************************************************)
(* What a tree of commitments promises its user: it is a map.  Values are  *)
(* set first and committed together, or written at once; a committed map   *)
(* can be kept under a tag and returned to; a restart forgets everything   *)
(* but the kept maps.  No node, hash, cache or file is visible here.       *)
(***************************************************************************)
EXTENDS Functions, TLC

CONSTANTS
  Keys,
  Values,
  Nil,      \* the value of a key that is not in the map
  Tags

VARIABLES
  map,      \* what was committed
  pending,  \* what was set and not committed yet
  kept      \* the map behind every tag in use

mapVars == <<map, pending, kept>>

Empty   == [k \in Keys |-> Nil]
Nothing == [k \in {} |-> Nil]

Init == map = Empty /\ pending = Nothing /\ kept = [t \in {} |-> Empty]

Set(k, v) == pending' = (k :> v) @@ pending /\ UNCHANGED <<map, kept>>

Commit == map' = pending @@ map /\ pending' = Nothing /\ UNCHANGED kept

\* A direct write does not look at what is pending: a commit that follows
\* puts the pending value of the key over it.
Update(k, v) == map' = [map EXCEPT ![k] = v] /\ UNCHANGED <<pending, kept>>

Keep(t) == kept' = (t :> map) @@ kept /\ UNCHANGED <<map, pending>>

Return(t) == t \in DOMAIN kept /\ map' = kept[t] /\ UNCHANGED <<pending, kept>>

Restart == map' = Empty /\ pending' = Nothing /\ UNCHANGED kept

Next ==
  \/ Commit \/ Restart
  \/ \E k \in Keys, v \in Values \cup {Nil} : Set(k, v) \/ Update(k, v)
  \/ \E t \in Tags : Keep(t) \/ Return(t)

Spec == Init /\ [][Next]_mapVars
=============================================================================
