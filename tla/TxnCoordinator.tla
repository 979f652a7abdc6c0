--------------------------- MODULE TxnCoordinator ---------------------------
(***************************************************************************)
(* The transaction coordinator of datarail-kafka (TxnCoordinator): one     *)
(* mutex over the state of every transactional id, the table of claimed    *)
(* partitions and the producer-id index.  Every method takes the mutex     *)
(* once, so every method is one action.                                    *)
(*                                                                         *)
(* A method M that can refuse has an operator MCode, the code it answers,  *)
(* and an action M, what it does to the state.                             *)
(***************************************************************************)
EXTENDS Integers, Sequences

CONSTANTS
    Tids,           \* transactional ids
    Partitions,     \* (topic, partition) pairs
    Offsets,        \* consumer offsets a transaction may stage
    NoTid,          \* no holder, no owner
    MaxEpoch,       \* i16::MAX
    MaxPid,         \* bound on the producer ids handed out
    MaxStaged       \* bound on the offsets staged in one transaction

ASSUME TxnAssumption ==
    /\ NoTid \notin Tids
    /\ MaxEpoch \in Nat /\ MaxPid \in Nat /\ MaxStaged \in Nat

VARIABLES
    txns,               \* TxnInner.txns; producer_id NoPid when there is no entry
    claimed,            \* TxnInner.claimed
    by_producer,        \* TxnInner.by_producer
    next_producer_id

coordinator == <<txns, claimed, by_producer, next_producer_id>>

NONE == 0
INVALID_PRODUCER_EPOCH == 47
INVALID_TXN_STATE == 48
CONCURRENT_TRANSACTIONS == 51

NoPid == 0
Pids == 1..MaxPid
Epochs == 0..MaxEpoch

TxnState ==
    [producer_id : Pids \cup {NoPid},
     epoch : Epochs,
     ongoing : BOOLEAN,
     partitions : SUBSET Partitions,
     group : BOOLEAN,               \* a consumer group was added
     staged_offsets : Seq(Offsets)]

\* TxnState::new(pid); with NoPid, the absence of an entry.
NewTxn(pid) ==
    [producer_id |-> pid, epoch |-> 0, ongoing |-> FALSE, partitions |-> {},
     group |-> FALSE, staged_offsets |-> <<>>]

Known(t) == txns[t].producer_id # NoPid

\* The shape of the coordinator (TxnInner).
TxnTypeOK ==
    /\ txns \in [Tids -> TxnState]
    /\ claimed \in [Partitions -> Tids \cup {NoTid}]
    /\ by_producer \in [Pids -> Tids \cup {NoTid}]
    /\ next_producer_id \in 1..(MaxPid + 1)

TxnInit ==
    /\ txns = [t \in Tids |-> NewTxn(NoPid)]
    /\ claimed = [p \in Partitions |-> NoTid]
    /\ by_producer = [pid \in Pids |-> NoTid]
    /\ next_producer_id = 1

-----------------------------------------------------------------------------
\* TxnState::reset_txn
ResetTxn(st) ==
    [st EXCEPT !.ongoing = FALSE, !.partitions = {}, !.group = FALSE,
               !.staged_offsets = <<>>]

\* Bug: the claims of a finished or fenced transaction stay.
KeepClaims(t) == claimed

\* TxnInner::release_claims
ReleaseClaims(t) == [p \in Partitions |-> IF claimed[p] = t THEN NoTid ELSE claimed[p]]

\* The new incarnation is minted: a first init, or an epoch that would
\* overflow.
MintsPid(t) == ~ Known(t) \/ txns[t].epoch = MaxEpoch

\* The state of a new incarnation: whatever was open is aborted.
Incarnate(t, pid, epoch) ==
    /\ pid \in Pids
    /\ txns' = [txns EXCEPT ![t] =
          [ResetTxn(@) EXCEPT !.producer_id = pid, !.epoch = epoch]]
    /\ claimed' = ReleaseClaims(t)
    /\ by_producer' = [by_producer EXCEPT ![pid] = t]

\* init_producer_id: fence the prior incarnation and abort its transaction.
InitProducerId(t) ==
    IF MintsPid(t)
    THEN /\ Incarnate(t, next_producer_id, 0)
         /\ next_producer_id' = next_producer_id + 1
    ELSE /\ Incarnate(t, txns[t].producer_id, txns[t].epoch + 1)
         /\ UNCHANGED next_producer_id

\* An unknown transactional id and fence() answer the same code.
Fence(t, pid, epoch) ==
    IF Known(t) /\ txns[t].producer_id = pid /\ txns[t].epoch = epoch
    THEN NONE ELSE INVALID_PRODUCER_EPOCH

\* produce_check: only (producer_id, epoch) and the partition are at hand.
ProduceCheckCode(pid, epoch, p) ==
    LET t == by_producer[pid]
    IN  IF t = NoTid THEN INVALID_PRODUCER_EPOCH
        ELSE IF Fence(t, pid, epoch) # NONE THEN INVALID_PRODUCER_EPOCH
        ELSE IF ~ txns[t].ongoing \/ p \notin txns[t].partitions THEN INVALID_TXN_STATE
        ELSE NONE

AddPartitionsCode(t, pid, epoch, ps) ==
    IF Fence(t, pid, epoch) # NONE THEN INVALID_PRODUCER_EPOCH
    ELSE IF \E p \in ps : claimed[p] \notin {t, NoTid} THEN CONCURRENT_TRANSACTIONS
    ELSE NONE

AddPartitions(t, pid, epoch, ps) ==
    /\ IF AddPartitionsCode(t, pid, epoch, ps) = NONE
       THEN /\ txns' = [txns EXCEPT ![t].ongoing = TRUE, ![t].partitions = @ \cup ps]
            /\ claimed' = [p \in Partitions |-> IF p \in ps THEN t ELSE claimed[p]]
       ELSE UNCHANGED <<txns, claimed>>
    /\ UNCHANGED <<by_producer, next_producer_id>>

AddOffsets(t, pid, epoch) ==
    /\ txns' = IF Fence(t, pid, epoch) = NONE
               THEN [txns EXCEPT ![t].ongoing = TRUE, ![t].group = TRUE] ELSE txns
    /\ UNCHANGED <<claimed, by_producer, next_producer_id>>

\* stage_offsets: fenced, and nothing else is asked of the transaction.
StageOffsets(t, pid, epoch, offsets) ==
    /\ Len(txns[t].staged_offsets) + Len(offsets) <= MaxStaged
    /\ txns' = IF Fence(t, pid, epoch) = NONE
               THEN [txns EXCEPT ![t].staged_offsets = @ \o offsets] ELSE txns
    /\ UNCHANGED <<claimed, by_producer, next_producer_id>>

\* end_txn, the PREPARE: it validates and changes nothing.
EndTxnCode(t, pid, epoch) ==
    IF Fence(t, pid, epoch) # NONE THEN INVALID_PRODUCER_EPOCH
    ELSE IF ~ txns[t].ongoing THEN INVALID_TXN_STATE
    ELSE NONE

\* The staged offsets end_txn hands out: none unless a group was added.
EndTxnOffsets(t) == IF txns[t].group THEN txns[t].staged_offsets ELSE <<>>

\* finish_txn: a stale completion must not reset a newer incarnation.
FinishTxn(t, pid, epoch) ==
    /\ IF Fence(t, pid, epoch) = NONE
       THEN /\ txns' = [txns EXCEPT ![t] = ResetTxn(@)]
            /\ claimed' = ReleaseClaims(t)
       ELSE UNCHANGED <<txns, claimed>>
    /\ UNCHANGED <<by_producer, next_producer_id>>

-----------------------------------------------------------------------------
(* The coordinator on its own: any request, in any order, with any         *)
(* producer id and epoch, a zombie's included.                             *)

TxnNext ==
    \E t \in Tids :
        \/ InitProducerId(t)
        \/ \E pid \in Pids, epoch \in Epochs :
              \/ \E ps \in SUBSET Partitions : AddPartitions(t, pid, epoch, ps)
              \/ AddOffsets(t, pid, epoch)
              \/ \E o \in Offsets : StageOffsets(t, pid, epoch, <<o>>)
              \/ FinishTxn(t, pid, epoch)

TxnSpec == TxnInit /\ [][TxnNext]_coordinator

-----------------------------------------------------------------------------
(* Properties.                                                             *)

\* The claim table is exactly the union of the enrolled partitions, so no
\* partition is in two open transactions and no claim outlives its
\* transaction (add_partitions, finish_txn, init_producer_id).
ClaimsExact ==
    \A p \in Partitions, t \in Tids : claimed[p] = t <=> p \in txns[t].partitions

\* Two transactional ids never act under the same producer id, and the index
\* that fences a Produce request leads from a current producer id to its owner
\* (init_producer_id's minting and by_producer).
ProducersDistinct ==
    /\ \A s, t \in Tids : Known(s) /\ Known(t) /\ s # t =>
          txns[s].producer_id # txns[t].producer_id
    /\ \A t \in Tids : Known(t) => by_producer[txns[t].producer_id] = t
    /\ \A t \in Tids : txns[t].producer_id < next_producer_id

\* What is enrolled or grouped belongs to an open transaction, so EndTxn can
\* always resolve it (reset_txn clears everything together).
EnrolledIsOngoing ==
    \A t \in Tids : (txns[t].partitions # {} \/ txns[t].group) => txns[t].ongoing

TxnInv == TxnTypeOK /\ ClaimsExact /\ ProducersDistinct /\ EnrolledIsOngoing

\* An incarnation, once replaced, is never current again: the pair (producer
\* id, epoch) of a transactional id only moves forward, across the overflow of
\* the epoch too (init_producer_id).
IncarnationsMoveForward ==
    [][\A t \in Tids :
         \/ <<txns'[t].producer_id, txns'[t].epoch>> = <<txns[t].producer_id, txns[t].epoch>>
         \/ txns'[t].producer_id > txns[t].producer_id
         \/ /\ txns'[t].producer_id = txns[t].producer_id
            /\ txns'[t].epoch > txns[t].epoch]_coordinator
=============================================================================
