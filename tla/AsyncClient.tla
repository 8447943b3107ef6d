------------------------------ MODULE AsyncClient ------------------------------
(***************************************************************************)
(* The client of tx-header/grpc_client.go: main and goroutines of its own  *)
(* push transactions into a channel, never waiting for room, and a worker  *)
(* hands them to the connection, one by one or gathered until a tick.  A   *)
(* signal closes the client, the program ends.                             *)
(*                                                                         *)
(* A transaction stands for its nonce.  The pings have no effect.          *)
(***************************************************************************)
EXTENDS Naturals, Sequences, SequencesExt, FiniteSets

CONSTANTS
    BlobMakers,     \* goroutines that make blobs
    BufferSize,
    MaxTxs          \* bound on the nonces

ASSUME ClientAssumption == BufferSize \in Nat \ {0}

VARIABLES
    gathers,        \* is flushInterval positive?
    txNonce, txChan,
    stopChan, conn, \* "open" or "closed"
    program,        \* main: where it is and the nonce it has taken
    blob,           \* the same for the goroutines
    worker, buffer, sending, \* the worker, what it gathers and what it is sending
    late,           \* is the deadline of the sending over?
    accepted, handed \* history: what went into the channel and to the connection

clientVars == <<gathers, txNonce, txChan, stopChan, conn, program, blob, worker, buffer,
                sending, late, accepted, handed>>

At(pc, nonce) == [pc |-> pc, nonce |-> nonce]

ClientInit ==
    /\ gathers \in BOOLEAN
    /\ txNonce = 0 /\ txChan = <<>> /\ stopChan = "open" /\ conn = "open"
    /\ program = At("select", 0) /\ blob = [g \in BlobMakers |-> At("none", 0)]
    /\ worker = "select" /\ buffer = <<>> /\ sending = <<>> /\ late = FALSE
    /\ accepted = <<>> /\ handed = <<>>

-----------------------------------------------------------------------------
(* Push: a transaction that finds the channel full is dropped.              *)

Push(n) ==
    IF Len(txChan) < BufferSize
    THEN txChan' = Append(txChan, n) /\ accepted' = Append(accepted, n)
    ELSE UNCHANGED <<txChan, accepted>>

TxTick ==
    /\ program.pc = "select" /\ txNonce < MaxTxs
    /\ txNonce' = txNonce + 1 /\ program' = At("push", txNonce')
    /\ UNCHANGED <<gathers, txChan, stopChan, conn, blob, worker, buffer, sending, late,
                   accepted, handed>>

PushNoop ==
    /\ program.pc = "push"
    /\ Push(program.nonce) /\ program' = At("select", 0)
    /\ UNCHANGED <<gathers, txNonce, stopChan, conn, blob, worker, buffer, sending, late, handed>>

BlobTick(g) ==
    /\ program.pc = "select" /\ blob[g].pc = "none"
    /\ blob' = [blob EXCEPT ![g] = At("start", 0)]
    /\ UNCHANGED <<gathers, txNonce, txChan, stopChan, conn, program, worker, buffer, sending,
                   late, accepted, handed>>

BlobNonce(g) ==
    /\ blob[g].pc = "start" /\ txNonce < MaxTxs
    /\ txNonce' = txNonce + 1 /\ blob' = [blob EXCEPT ![g] = At("push", txNonce')]
    /\ UNCHANGED <<gathers, txChan, stopChan, conn, program, worker, buffer, sending, late,
                   accepted, handed>>

PushBlob(g) ==
    /\ blob[g].pc = "push"
    /\ Push(blob[g].nonce) /\ blob' = [blob EXCEPT ![g] = At("none", 0)]
    /\ UNCHANGED <<gathers, txNonce, stopChan, conn, program, worker, buffer, sending, late, handed>>

-----------------------------------------------------------------------------
(* Close is called at the signal and once more as main returns, where it    *)
(* closes a closed channel: the program ends in a panic, whatever the       *)
(* worker is doing.                                                         *)

Close ==
    /\ program.pc = "select"
    /\ stopChan' = "closed" /\ program' = At("close", 0)
    /\ UNCHANGED <<gathers, txNonce, txChan, conn, blob, worker, buffer, sending, late,
                   accepted, handed>>

CloseConn ==
    /\ program.pc = "close"
    /\ conn' = "closed" /\ program' = At("return", 0)
    /\ UNCHANGED <<gathers, txNonce, txChan, stopChan, blob, worker, buffer, sending, late,
                   accepted, handed>>

CloseAgain ==
    /\ program.pc = "return"
    /\ program' = At("panic", 0)
    /\ UNCHANGED <<gathers, txNonce, txChan, stopChan, conn, blob, worker, buffer, sending,
                   late, accepted, handed>>

-----------------------------------------------------------------------------
(* The worker.                                                              *)

Flush(txs, then) == worker' = then /\ sending' = txs /\ buffer' = <<>> /\ late' = FALSE

TakeTx ==
    /\ worker = "select" /\ txChan # <<>>
    /\ txChan' = Tail(txChan)
    /\ IF gathers THEN buffer' = Append(buffer, Head(txChan)) /\ UNCHANGED <<worker, sending, late>>
                  ELSE Flush(<<Head(txChan)>>, "send")
    /\ UNCHANGED <<gathers, txNonce, stopChan, conn, program, blob, accepted, handed>>

\* A flush that does not empty the buffer.
FlushAgain ==
    /\ worker = "select" /\ buffer # <<>>
    /\ worker' = "send" /\ sending' = buffer /\ late' = FALSE
    /\ UNCHANGED <<gathers, txNonce, txChan, stopChan, conn, program, blob, buffer, accepted, handed>>

FlushTick ==
    /\ worker = "select" /\ buffer # <<>>
    /\ Flush(buffer, "send")
    /\ UNCHANGED <<gathers, txNonce, txChan, stopChan, conn, program, blob, accepted, handed>>

\* What is still in the channel stays there.
StopWorker ==
    /\ worker = "select" /\ stopChan = "closed"
    /\ Flush(buffer, IF buffer = <<>> THEN "done" ELSE "last")
    /\ UNCHANGED <<gathers, txNonce, txChan, stopChan, conn, program, blob, accepted, handed>>

\* One deadline for all that is sent together; SendTx fails when it is over or the
\* connection closed, and may fail at any time.  What failed is not sent again.
SendTx ==
    /\ sending # <<>>
    /\ \E ok \in BOOLEAN :
           /\ ok => conn = "open" /\ ~late
           /\ handed' = Append(handed, [nonce |-> Head(sending), ok |-> ok])
    /\ sending' = Tail(sending)
    /\ worker' = IF sending' # <<>> THEN worker ELSE IF worker = "last" THEN "done" ELSE "select"
    /\ UNCHANGED <<gathers, txNonce, txChan, stopChan, conn, program, blob, buffer, late, accepted>>

Deadline ==
    /\ sending # <<>> /\ ~late
    /\ late' = TRUE
    /\ UNCHANGED <<gathers, txNonce, txChan, stopChan, conn, program, blob, worker, buffer,
                   sending, accepted, handed>>

Worker == TakeTx \/ FlushTick \/ SendTx

ClientNext ==
    /\ program.pc # "panic"
    /\ \/ TxTick \/ PushNoop \/ Close \/ CloseConn \/ CloseAgain
       \/ \E g \in BlobMakers : BlobTick(g) \/ BlobNonce(g) \/ PushBlob(g)
       \/ Worker \/ StopWorker \/ Deadline

\* The worker is scheduled, its ticker ticks and SendTx returns at its deadline.
ClientFairness == WF_clientVars(program.pc # "panic" /\ Worker)

ClientSpec == ClientInit /\ [][ClientNext]_clientVars /\ ClientFairness

-----------------------------------------------------------------------------
(* Properties.                                                              *)

Nonces(sent) == [i \in DOMAIN sent |-> sent[i].nonce]

\* However many goroutines push while the worker gathers, flushes and fails, a
\* transaction that was accepted is in one place, in the order of acceptance, and
\* none is sent twice; and the connection gets it in the end, unless the client
\* is closed first.
HandedOver ==
    /\ [](/\ accepted = Nonces(handed) \o sending \o buffer \o txChan
          /\ IsInjective(accepted))
    /\ \A n \in 1 .. MaxTxs :
           (\E i \in DOMAIN accepted : accepted[i] = n)
               ~> (stopChan = "closed" \/ \E i \in DOMAIN handed : handed[i].nonce = n)
=============================================================================
