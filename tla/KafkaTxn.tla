------------------------------ MODULE KafkaTxn ------------------------------
(***************************************************************************)
(* Transactions end to end: the coordinator, the broker store's buffers    *)
(* and logs, the connection threads that serve requests, and the producers *)
(* that send them.                                                         *)
(*                                                                         *)
(* The coordinator and the store have a mutex each.  A request that needs  *)
(* both (InitProducerId, Produce, EndTxn) takes them one after the other,  *)
(* so it is several actions here, one per critical section, and the        *)
(* requests of other connections run in between.  A producer waits for one *)
(* answer at a time; when it gives up waiting for the answer to EndTxn it  *)
(* sends EndTxn again on a new connection, while the thread of the old one *)
(* goes on.                                                                *)
(*                                                                         *)
(* A producer instance p runs the transactions <<p, 1>>, <<p, 2>>, ...     *)
(* That pair stands for the record the transaction writes to each of its   *)
(* partitions, and for the consumer offset it stages.                      *)
(***************************************************************************)
EXTENDS TxnCoordinator, SequencesExt

CONSTANTS
    Producers,      \* producer instances
    Owner,          \* the transactional id each one is configured with
    MaxTxns,        \* bound: transactions per instance
    MaxConns,       \* bound: connections per instance
    MaxErrors,      \* bound: store errors
    MaxCrashes      \* bound: broker restarts

ASSUME KafkaTxnAssumption ==
    /\ Owner \in [Producers -> Tids]
    /\ MaxTxns \in Nat /\ MaxConns \in Nat \ {0} /\ MaxErrors \in Nat /\ MaxCrashes \in Nat
    /\ Producers \X (1..MaxTxns) \subseteq Offsets

VARIABLES
    prod,           \* each producer: what it knows and waits for
    op,             \* what the thread of each connection is doing
    buffers,        \* BrokerInner.txn_buffers; an absent key is <<>>
    logs,           \* BrokerInner.logs: the durable partition logs
    committed,      \* every offset the offset store was ever given
    written,        \* the partitions whose Produce was answered with success
    staged,         \* transactions whose TxnOffsetCommit was
    asked,          \* transactions whose producer sent EndTxn(commit)
    confirmed,      \* commits that were answered with success
    errors,
    crashes

store == <<buffers, logs, committed>>
history == <<written, staged, asked, confirmed>>
faults == <<errors, crashes>>
vars == <<coordinator, prod, op, store, history, faults>>

TxnIds == Producers \X (1..MaxTxns)
Conns == 1..MaxConns
Phases == {"new", "open", "waiting", "retry", "fenced", "stopped"}
Steps == {"none", "init_abort", "buffer", "end", "commit", "offsets", "abort", "finish"}

Idle == [step |-> "none", n |-> 0, part |-> {}, commit |-> FALSE, offsets |-> <<>>]

\* The shape of the coordinator, the store, the threads and the producers.
TypeOK ==
    /\ TxnTypeOK
    /\ prod \in [Producers ->
          [phase : Phases, pid : Pids \cup {NoPid}, epoch : Epochs, n : 0..MaxTxns,
           conn : Conns, enrolled : SUBSET Partitions, grouped : BOOLEAN]]
    /\ \A p \in Producers, c \in Conns :
          /\ op[p][c].step \in Steps
          /\ op[p][c].n \in 0..MaxTxns
          /\ op[p][c].part \subseteq Partitions
          /\ op[p][c].commit \in BOOLEAN
          /\ op[p][c].offsets \in Seq(TxnIds)
    /\ \A k \in Pids \X Epochs \X Partitions : buffers[k] \in Seq(TxnIds)
    /\ \A q \in Partitions : logs[q] \in Seq(TxnIds)
    /\ committed \subseteq TxnIds
    /\ written \in [TxnIds -> SUBSET Partitions] /\ staged \subseteq TxnIds
    /\ asked \subseteq TxnIds /\ confirmed \subseteq TxnIds
    /\ errors \in 0..MaxErrors /\ crashes \in 0..MaxCrashes

NoBuffers == [k \in Pids \X Epochs \X Partitions |-> <<>>]

Init ==
    /\ TxnInit
    /\ prod = [p \in Producers |->
          [phase |-> "new", pid |-> NoPid, epoch |-> 0, n |-> 0, conn |-> 1,
           enrolled |-> {}, grouped |-> FALSE]]
    /\ op = [p \in Producers |-> [c \in Conns |-> Idle]]
    /\ buffers = NoBuffers
    /\ logs = [q \in Partitions |-> <<>>]
    /\ committed = {}
    /\ written = [x \in TxnIds |-> {}] /\ staged = {}
    /\ asked = {} /\ confirmed = {}
    /\ errors = 0 /\ crashes = 0

-----------------------------------------------------------------------------
(* Threads and answers.                                                    *)

Current(p) == op[p][prod[p].conn]

\* The thread of connection c is at this step of its request.
At(p, c, step) == op[p][c].step = step

Goto(p, c, step) == op' = [op EXCEPT ![p][c].step = step]

\* The thread answers; the producer hears it if it still listens there.
Answer(p, c, next) ==
    /\ op' = [op EXCEPT ![p][c] = Idle]
    /\ prod' = [prod EXCEPT ![p] = IF prod[p].conn = c THEN next ELSE @]

\* What an error code makes of a producer: a stale epoch is fatal, the
\* wrong state ends its work, CONCURRENT_TRANSACTIONS is tried again.
AfterCode(p, code) ==
    [prod[p] EXCEPT !.phase = CASE code = INVALID_PRODUCER_EPOCH -> "fenced"
                                [] code = INVALID_TXN_STATE -> "stopped"
                                [] OTHER -> prod[p].phase]

\* Producer p may send the next request of its current transaction.
Ready(p) == prod[p].phase = "open" /\ Current(p).step = "none"

-----------------------------------------------------------------------------
(* InitProducerId.                                                         *)

\* The coordinator's half: fence the prior incarnation.
SendInit(p) ==
    /\ prod[p].phase = "new"
    /\ InitProducerId(Owner[p])
    /\ prod' = [prod EXCEPT ![p].phase = "waiting",
                            ![p].pid = txns'[Owner[p]].producer_id,
                            ![p].epoch = txns'[Owner[p]].epoch]
    /\ Goto(p, prod[p].conn, "init_abort")
    /\ UNCHANGED <<store, history, faults>>

\* Bug: the buffers of older epochs stay.
AbortExactEpoch(pid, epoch) ==
    [k \in DOMAIN buffers |-> IF k[1] = pid /\ k[2] = epoch THEN <<>> ELSE buffers[k]]

\* abort_txn: drop the buffers of this epoch and of the older ones.
AbortTxn(pid, epoch) ==
    [k \in DOMAIN buffers |-> IF k[1] = pid /\ k[2] <= epoch THEN <<>> ELSE buffers[k]]

\* The store's half, and the answer.
InitAbort(p, c) ==
    /\ At(p, c, "init_abort")
    /\ buffers' = AbortTxn(prod[p].pid, prod[p].epoch)
    /\ Answer(p, c, [prod[p] EXCEPT !.phase = "open", !.n = 1])
    /\ UNCHANGED <<coordinator, logs, committed, history, faults>>

-----------------------------------------------------------------------------
(* AddPartitionsToTxn, AddOffsetsToTxn and TxnOffsetCommit take only the   *)
(* coordinator's mutex.                                                    *)

SendAddPartitions(p, ps) ==
    LET t == Owner[p]  pid == prod[p].pid  e == prod[p].epoch
        code == AddPartitionsCode(t, pid, e, ps)
    IN  /\ Ready(p) /\ ps # {} /\ ps \cap prod[p].enrolled = {}
        /\ AddPartitions(t, pid, e, ps)
        /\ prod' = [prod EXCEPT ![p] =
              [AfterCode(p, code) EXCEPT !.enrolled = IF code = NONE THEN @ \cup ps ELSE @]]
        /\ UNCHANGED <<op, store, history, faults>>

SendAddOffsets(p) ==
    LET t == Owner[p]  pid == prod[p].pid  e == prod[p].epoch
    IN  /\ Ready(p) /\ ~ prod[p].grouped
        /\ AddOffsets(t, pid, e)
        /\ prod' = [prod EXCEPT ![p] =
              [AfterCode(p, Fence(t, pid, e)) EXCEPT !.grouped = Fence(t, pid, e) = NONE]]
        /\ UNCHANGED <<op, store, history, faults>>

\* The client sends it after AddOffsetsToTxn, once a transaction.
SendTxnOffsetCommit(p) ==
    LET t == Owner[p]  pid == prod[p].pid  e == prod[p].epoch
        x == <<p, prod[p].n>>
    IN  /\ Ready(p) /\ prod[p].grouped /\ x \notin staged
        /\ StageOffsets(t, pid, e, <<x>>)
        /\ prod' = [prod EXCEPT ![p] = AfterCode(p, Fence(t, pid, e))]
        /\ staged' = IF Fence(t, pid, e) = NONE THEN staged \cup {x} ELSE staged
        /\ UNCHANGED <<op, store, written, asked, confirmed, faults>>

-----------------------------------------------------------------------------
(* Produce: produce_check under the coordinator's mutex, then buffer_txn   *)
(* under the store's.                                                      *)

SendProduce(p, q) ==
    LET code == ProduceCheckCode(prod[p].pid, prod[p].epoch, q)
    IN  /\ Ready(p) /\ q \in prod[p].enrolled \ written[<<p, prod[p].n>>]
        /\ IF code = NONE
           THEN /\ prod' = [prod EXCEPT ![p].phase = "waiting"]
                /\ op' = [op EXCEPT ![p][prod[p].conn] =
                      [Idle EXCEPT !.step = "buffer", !.n = prod[p].n, !.part = {q}]]
           ELSE prod' = [prod EXCEPT ![p] = AfterCode(p, code)] /\ UNCHANGED op
        /\ UNCHANGED <<coordinator, store, history, faults>>

\* Bug: the buffer is keyed by the producer id alone.
BufferKeyNoEpoch(pid, epoch, q) == <<pid, txns[by_producer[pid]].epoch, q>>

\* The key of txn_buffers.
BufferKey(pid, epoch, q) == <<pid, epoch, q>>

BufferTxn(p, c) ==
    /\ At(p, c, "buffer")
    /\ LET q == CHOOSE x \in Partitions : x \in op[p][c].part
       IN  /\ buffers' = [buffers EXCEPT ![BufferKey(prod[p].pid, prod[p].epoch, q)] =
                            Append(@, <<p, op[p][c].n>>)]
           /\ written' = [written EXCEPT ![<<p, op[p][c].n>>] = @ \cup {q}]
           /\ Answer(p, c, [prod[p] EXCEPT !.phase = "open"])
    /\ UNCHANGED <<coordinator, logs, committed, staged, asked, confirmed, faults>>

-----------------------------------------------------------------------------
(* EndTxn: end_txn under the coordinator's mutex; commit_txn, then one     *)
(* commit_offset per staged offset, or abort_txn, under the store's; and   *)
(* finish_txn under the coordinator's again.                               *)

SendEndTxn(p, commit) ==
    /\ Ready(p) /\ (prod[p].enrolled # {} \/ prod[p].grouped)
    /\ prod' = [prod EXCEPT ![p].phase = "waiting"]
    /\ op' = [op EXCEPT ![p][prod[p].conn] =
          [Idle EXCEPT !.step = "end", !.n = prod[p].n, !.commit = commit]]
    /\ asked' = IF commit THEN asked \cup {<<p, prod[p].n>>} ELSE asked
    /\ UNCHANGED <<coordinator, store, written, staged, confirmed, faults>>

\* After 56 the producer sends the same EndTxn again.
ResendEndTxn(p) ==
    /\ prod[p].phase = "retry" /\ Current(p).step = "none"
    /\ prod' = [prod EXCEPT ![p].phase = "waiting"]
    /\ op' = [op EXCEPT ![p][prod[p].conn] =
          [Idle EXCEPT !.step = "end", !.n = prod[p].n, !.commit = TRUE]]
    /\ UNCHANGED <<coordinator, store, history, faults>>

\* The producer gives up on the connection its EndTxn went out on and sends
\* it again on a new one.
TimeoutEndTxn(p) ==
    LET o == Current(p)
    IN  /\ prod[p].phase = "waiting" /\ prod[p].conn < MaxConns
        /\ o.step \in {"end", "commit", "offsets", "abort", "finish"}
        /\ prod' = [prod EXCEPT ![p].conn = @ + 1]
        /\ op' = [op EXCEPT ![p][prod[p].conn + 1] =
              [Idle EXCEPT !.step = "end", !.n = o.n, !.commit = o.commit]]
        /\ UNCHANGED <<coordinator, store, history, faults>>

\* PREPARE: validate and read out, reset nothing.
PrepareEndTxn(p, c) ==
    LET t == Owner[p]
        code == EndTxnCode(t, prod[p].pid, prod[p].epoch)
        o == op[p][c]
    IN  /\ At(p, c, "end")
        /\ IF code = NONE
           THEN /\ op' = [op EXCEPT ![p][c] =
                      [o EXCEPT !.step = IF o.commit THEN "commit" ELSE "abort",
                                !.offsets = IF o.commit THEN EndTxnOffsets(t) ELSE <<>>]]
                /\ UNCHANGED prod
           ELSE Answer(p, c, AfterCode(p, code))
        /\ UNCHANGED <<coordinator, store, history, faults>>

\* What commit_txn appends to the log of q: this epoch's buffer only.
Flushed(pid, epoch, q) == buffers[<<pid, epoch, q>>]

\* What commit_txn leaves in the buffers: the flushed ones are removed, and
\* the older epochs' dropped.
Drained(pid, epoch) ==
    [k \in DOMAIN buffers |-> IF k[1] = pid /\ k[2] <= epoch THEN <<>> ELSE buffers[k]]

CommitTxn(p, c) ==
    LET pid == prod[p].pid  e == prod[p].epoch
    IN  /\ At(p, c, "commit")
        /\ logs' = [q \in Partitions |-> logs[q] \o Flushed(pid, e, q)]
        /\ buffers' = Drained(pid, e)
        /\ Goto(p, c, "offsets")
        /\ UNCHANGED <<coordinator, prod, committed, history, faults>>

\* Bug: the error of the flush is swallowed.
ErrorSwallowed(p, c) == Goto(p, c, "offsets") /\ UNCHANGED prod

\* On any error the answer is 56 and the transaction is not finished.
AfterFlushError(p, c) == Answer(p, c, [prod[p] EXCEPT !.phase = "retry"])

\* An append or a sync fails at partition q.  The partitions of done were
\* flushed before it; of q's own batch the first k records are in the log
\* all the same (append_durable publishes whatever was framed), and its
\* buffer stays.
CommitTxnFails(p, c) ==
    LET pid == prod[p].pid  e == prod[p].epoch
        Full == {q \in Partitions : buffers[<<pid, e, q>>] # <<>>}
        Older == {k \in DOMAIN buffers : k[1] = pid /\ k[2] < e /\ buffers[k] # <<>>}
    IN  /\ At(p, c, "commit") /\ errors < MaxErrors
        /\ \E q \in Full : \E done \in SUBSET (Full \ {q}), older \in SUBSET Older :
             \E k \in 0..Len(buffers[<<pid, e, q>>]) :
               /\ logs' = [r \in Partitions |->
                     CASE r \in done -> logs[r] \o Flushed(pid, e, r)
                       [] r = q -> logs[r] \o SubSeq(buffers[<<pid, e, q>>], 1, k)
                       [] OTHER -> logs[r]]
               /\ buffers' = [x \in DOMAIN buffers |->
                     IF x \in older \/ \E r \in done : x = <<pid, e, r>>
                     THEN <<>> ELSE buffers[x]]
        /\ errors' = errors + 1
        /\ AfterFlushError(p, c)
        /\ UNCHANGED <<coordinator, committed, history, crashes>>

CommitOffset(p, c) ==
    /\ At(p, c, "offsets") /\ op[p][c].offsets # <<>>
    /\ committed' = committed \cup {Head(op[p][c].offsets)}
    /\ op' = [op EXCEPT ![p][c].offsets = Tail(@)]
    /\ UNCHANGED <<coordinator, prod, buffers, logs, history, faults>>

CommitOffsetFails(p, c) ==
    /\ At(p, c, "offsets") /\ op[p][c].offsets # <<>> /\ errors < MaxErrors
    /\ errors' = errors + 1
    /\ AfterFlushError(p, c)
    /\ UNCHANGED <<coordinator, store, history, crashes>>

OffsetsDone(p, c) ==
    /\ At(p, c, "offsets") /\ op[p][c].offsets = <<>>
    /\ Goto(p, c, "finish")
    /\ UNCHANGED <<coordinator, prod, store, history, faults>>

AbortBuffers(p, c) ==
    /\ At(p, c, "abort")
    /\ buffers' = AbortTxn(prod[p].pid, prod[p].epoch)
    /\ Goto(p, c, "finish")
    /\ UNCHANGED <<coordinator, prod, logs, committed, history, faults>>

\* finish_txn and the answer; the producer goes on to its next transaction.
Finish(p, c) ==
    LET n == op[p][c].n
    IN  /\ At(p, c, "finish")
        /\ FinishTxn(Owner[p], prod[p].pid, prod[p].epoch)
        /\ Answer(p, c, [prod[p] EXCEPT
              !.phase = IF n < MaxTxns THEN "open" ELSE "stopped",
              !.n = IF n < MaxTxns THEN n + 1 ELSE n, !.enrolled = {}, !.grouped = FALSE])
        /\ confirmed' = IF op[p][c].commit /\ prod[p].conn = c
                        THEN confirmed \cup {<<p, n>>} ELSE confirmed
        /\ UNCHANGED <<store, written, staged, asked, faults>>

-----------------------------------------------------------------------------
\* The broker restarts: serve_broker builds a new coordinator, whose producer
\* ids start over; the store reopens its logs with empty buffers.  A producer
\* that was waiting for EndTxn sends it again; one that waited for something
\* else gives up.
Crash ==
    /\ crashes < MaxCrashes
    /\ txns' = [t \in Tids |-> NewTxn(NoPid)]
    /\ claimed' = [q \in Partitions |-> NoTid]
    /\ by_producer' = [pid \in Pids |-> NoTid]
    /\ next_producer_id' = 1
    /\ buffers' = NoBuffers
    /\ op' = [p \in Producers |-> [c \in Conns |-> Idle]]
    /\ prod' = [p \in Producers |->
          [prod[p] EXCEPT !.phase =
             CASE @ # "waiting" -> @
               [] Current(p).step \in {"end", "commit", "offsets", "finish"} /\ Current(p).commit
                    -> "retry"
               [] OTHER -> "stopped"]]
    /\ crashes' = crashes + 1
    /\ UNCHANGED <<logs, committed, history, errors>>

Next ==
    \/ \E p \in Producers :
         \/ SendInit(p)
         \/ \E ps \in SUBSET Partitions : SendAddPartitions(p, ps)
         \/ SendAddOffsets(p)
         \/ SendTxnOffsetCommit(p)
         \/ \E q \in Partitions : SendProduce(p, q)
         \/ \E commit \in BOOLEAN : SendEndTxn(p, commit)
         \/ ResendEndTxn(p)
         \/ TimeoutEndTxn(p)
         \/ \E c \in Conns :
              \/ InitAbort(p, c)
              \/ BufferTxn(p, c)
              \/ PrepareEndTxn(p, c)
              \/ CommitTxn(p, c)
              \/ CommitTxnFails(p, c)
              \/ CommitOffset(p, c)
              \/ CommitOffsetFails(p, c)
              \/ OffsetsDone(p, c)
              \/ AbortBuffers(p, c)
              \/ Finish(p, c)
    \/ Crash

Spec == Init /\ [][Next]_vars

-----------------------------------------------------------------------------
(* Properties.                                                             *)

\* A record is in a partition log only when its own producer sent
\* EndTxn(commit) for its own transaction: nothing open or aborted is ever
\* visible to a Fetch (buffer_txn, commit_txn, abort_txn).
OpenInvisible ==
    \A q \in Partitions : \A i \in DOMAIN logs[q] : logs[q][i] \in asked

\* A transaction's record is in a partition log once, however often EndTxn is
\* sent, and once more at most for each flush that failed half way: the retry
\* appends again what the failed append had already put there (commit_txn).
CopiesPerError ==
    \A q \in Partitions, x \in TxnIds :
        Cardinality({i \in DOMAIN logs[q] : logs[q][i] = x}) <= 1 + errors

\* The partition logs under transactions: they hold only what its own producer
\* asked to commit, once, and once more for each flush that failed half way.
StoreInv == TypeOK /\ OpenInvisible /\ CopiesPerError

\* A commit that was answered with success has its record in every partition
\* it was written to, and its offset if it staged one, no matter what other
\* requests ran between the mutexes (EndTxn of dispatch_txn_api).
ConfirmedAtomic ==
    \A x \in confirmed :
        /\ \A q \in written[x] : \E i \in DOMAIN logs[q] : logs[q][i] = x
        /\ x \in staged => x \in committed

\* p was answered its InitProducerId, and its incarnation is newer than z's.
Fences(p, z) ==
    /\ Owner[p] = Owner[z] /\ p # z
    /\ prod[p].phase \notin {"new"} /\ Current(p).step # "init_abort"
    /\ prod[z].pid # NoPid
    /\ \/ prod[p].pid > prod[z].pid
       \/ prod[p].pid = prod[z].pid /\ prod[p].epoch > prod[z].epoch

\* Once a new incarnation has its answer, no record of a fenced one reaches a
\* log any more, not even one that slipped between produce_check and
\* buffer_txn (init_producer_id, abort_txn, the epoch in the buffer key).
FencedNeverLands ==
    [][\A p, z \in Producers : Fences(p, z) =>
         \A q \in Partitions : \A i \in (Len(logs[q]) + 1)..Len(logs'[q]) :
             logs'[q][i][1] # z]_vars
=============================================================================
