-------------------------------- MODULE NonceLog --------------------------------
(***************************************************************************)
(* What the pipeline of the proposer promises whoever reads its results: a *)
(* log to which only genuine transactions are appended, those of one user  *)
(* with rising nonces, and of which lanes are executed independently, each *)
(* in the order of the log and without leaving anything out.  The system   *)
(* users share one lane, every market is another.  No channel, worker,     *)
(* buffer or counter is visible here.                                      *)
(***************************************************************************)
EXTENDS Integers, Sequences

CONSTANTS
  Genuine,      \* signed transactions: a user, a nonce and a market
  SystemMaxUID  \* users up to this one are system users

VARIABLES
  log,   \* the transactions in the order they were put in
  done   \* those that were executed, in that order

logVars == <<log, done>>

Init == log = <<>> /\ done = <<>>

Newest(t) == \A i \in DOMAIN log : log[i].uid = t.uid => log[i].nonce < t.nonce

Enter(t) == Newest(t) /\ log' = Append(log, t) /\ UNCHANGED done

SystemTx(t)    == t.uid <= SystemMaxUID
SameLane(s, t) == /\ SystemTx(s) <=> SystemTx(t)
                  /\ SystemTx(s) \/ s.market = t.market

Executed(t) == \E p \in DOMAIN done : done[p] = t

Execute(k) ==
  /\ ~Executed(log[k])
  /\ \A i \in DOMAIN log : i < k /\ SameLane(log[i], log[k]) => Executed(log[i])
  /\ done' = Append(done, log[k])
  /\ UNCHANGED log

Next ==
  \/ \E t \in Genuine : Enter(t)
  \/ \E k \in DOMAIN log : Execute(k)

Spec == Init /\ [][Next]_logVars
=============================================================================
