------------------------ MODULE TxnCoordinatorProofs ------------------------
(***************************************************************************)
(* Proofs about the transaction coordinator, for any number of             *)
(* transactional ids, partitions, epochs and producer ids.                 *)
(***************************************************************************)
EXTENDS TxnCoordinator, TLAPS

\* The codes a caller compares with NONE are all different from it.
LEMMA FenceSpec ==
    ASSUME NEW t \in Tids, NEW pid \in Pids, NEW epoch \in Epochs,
           Fence(t, pid, epoch) = NONE
    PROVE  Known(t) /\ txns[t].producer_id = pid /\ txns[t].epoch = epoch
BY DEF Fence, NONE, INVALID_PRODUCER_EPOCH

\* What reset_txn leaves.
LEMMA ResetSpec ==
    ASSUME NEW st \in TxnState
    PROVE  /\ ResetTxn(st) \in TxnState
           /\ ResetTxn(st).producer_id = st.producer_id
           /\ ResetTxn(st).epoch = st.epoch
           /\ ResetTxn(st).ongoing = FALSE
           /\ ResetTxn(st).partitions = {}
           /\ ResetTxn(st).group = FALSE
<1>1. <<>> \in Seq(Offsets)
    OBVIOUS
<1> DEFINE none == <<>>
<1>2. ResetTxn(st) = [st EXCEPT !.ongoing = FALSE, !.partitions = {}, !.group = FALSE,
                                !.staged_offsets = none]
    BY DEF ResetTxn
<1>3. none \in Seq(Offsets)
    BY <1>1
<1> HIDE DEF none
<1> QED
    BY <1>2, <1>3 DEF TxnState

\* A step that touches the transaction of t only inside one incarnation keeps
\* the invariant when it keeps the claims in step with the partitions.
LEMMA SameIncarnation ==
    ASSUME TxnInv, NEW t \in Tids, NEW st \in TxnState,
           txns' = [txns EXCEPT ![t] = st],
           st.producer_id = txns[t].producer_id, st.epoch = txns[t].epoch,
           (st.partitions # {} \/ st.group) => st.ongoing,
           claimed' \in [Partitions -> Tids \cup {NoTid}],
           \A p \in Partitions : claimed'[p] = t <=> p \in st.partitions,
           \A p \in Partitions, s \in Tids \ {t} : claimed'[p] = s <=> claimed[p] = s,
           UNCHANGED <<by_producer, next_producer_id>>
    PROVE  TxnInv'
<1>1. \A s \in Tids : txns'[s] = IF s = t THEN st ELSE txns[s]
    BY DEF TxnInv, TxnTypeOK
<1>2. TxnTypeOK'
    BY DEF TxnInv, TxnTypeOK
<1>3. ClaimsExact'
    BY <1>1 DEF TxnInv, ClaimsExact
<1>4. ProducersDistinct'
    BY <1>1 DEF TxnInv, ProducersDistinct, Known
<1>5. EnrolledIsOngoing'
    BY <1>1 DEF TxnInv, EnrolledIsOngoing
<1> QED
    BY <1>2, <1>3, <1>4, <1>5 DEF TxnInv

\* init_producer_id keeps the invariant.
LEMMA InitKeepsInv ==
    ASSUME TxnInv, NEW t \in Tids, InitProducerId(t)
    PROVE  TxnInv'
<1> DEFINE pid == IF MintsPid(t) THEN next_producer_id ELSE txns[t].producer_id
           ep == IF MintsPid(t) THEN 0 ELSE txns[t].epoch + 1
           st == [ResetTxn(txns[t]) EXCEPT !.producer_id = pid, !.epoch = ep]
<1>0. next_producer_id' = next_producer_id + (IF MintsPid(t) THEN 1 ELSE 0)
    BY DEF InitProducerId, TxnInv, TxnTypeOK
<1>1. /\ txns[t] \in TxnState /\ pid \in Pids
      /\ claimed' = ReleaseClaims(t)
      /\ by_producer' = [by_producer EXCEPT ![pid] = t]
      /\ next_producer_id' = next_producer_id + (IF MintsPid(t) THEN 1 ELSE 0)
    BY <1>0 DEF InitProducerId, Incarnate, TxnInv, TxnTypeOK
<1>2. ep \in Epochs
    BY <1>1, TxnAssumption DEF TxnState, Epochs, MintsPid
<1>3. /\ st \in TxnState /\ st.producer_id = pid /\ st.epoch = ep
      /\ st.ongoing = FALSE /\ st.partitions = {} /\ st.group = FALSE
    <2>1. /\ ResetTxn(txns[t]) \in TxnState
          /\ ResetTxn(txns[t]).ongoing = FALSE
          /\ ResetTxn(txns[t]).partitions = {}
          /\ ResetTxn(txns[t]).group = FALSE
        BY <1>1, ResetSpec
    <2> HIDE DEF pid, ep
    <2> QED
        BY <1>1, <1>2, <2>1 DEF TxnState
<1>4. txns' = [txns EXCEPT ![t] = st]
    BY DEF InitProducerId, Incarnate
<1> HIDE DEF st
<1>5. \A s \in Tids : txns'[s] = IF s = t THEN st ELSE txns[s]
    BY <1>4 DEF TxnInv, TxnTypeOK
<1>6. \A p \in Partitions : claimed'[p] = IF claimed[p] = t THEN NoTid ELSE claimed[p]
    BY <1>1 DEF ReleaseClaims
<1>7. next_producer_id \in 1..(MaxPid + 1) /\ MaxPid \in Nat
    BY TxnAssumption DEF TxnInv, TxnTypeOK
<1>8. TxnTypeOK'
    <2>1. txns' \in [Tids -> TxnState]
        BY <1>3, <1>4 DEF TxnInv, TxnTypeOK
    <2>2. claimed' \in [Partitions -> Tids \cup {NoTid}]
        BY <1>1 DEF ReleaseClaims, TxnInv, TxnTypeOK
    <2>3. by_producer' \in [Pids -> Tids \cup {NoTid}]
        <3> HIDE DEF pid
        <3> QED
            BY <1>1 DEF TxnInv, TxnTypeOK
    <2>4. next_producer_id' \in 1..(MaxPid + 1)
        BY <1>1, <1>7 DEF Pids
    <2> QED
        BY <2>1, <2>2, <2>3, <2>4 DEF TxnTypeOK
<1>9. ClaimsExact'
    BY <1>3, <1>5, <1>6, TxnAssumption DEF TxnInv, ClaimsExact
<1>10. /\ \A s \in Tids \ {t} : Known(s) => txns[s].producer_id # pid
       /\ pid < next_producer_id'
       /\ pid # NoPid
       /\ next_producer_id' >= next_producer_id
    <2>1. CASE MintsPid(t)
        BY <1>1, <1>7, <2>1 DEF TxnInv, ProducersDistinct, Pids, NoPid
    <2>2. CASE ~ MintsPid(t)
        BY <1>1, <1>7, <2>2 DEF TxnInv, ProducersDistinct, MintsPid, Pids, NoPid
    <2> QED
        BY <2>1, <2>2
<1>11. ProducersDistinct'
    <2>1. \A x \in Pids : by_producer'[x] = IF x = pid THEN t ELSE by_producer[x]
        <3> HIDE DEF pid
        <3> QED
            BY <1>1 DEF TxnInv, TxnTypeOK
    <2> HIDE DEF pid
    <2>2. ASSUME NEW s \in Tids, NEW u \in Tids, Known(s)', Known(u)', s # u
          PROVE  txns'[s].producer_id # txns'[u].producer_id
        BY <1>3, <1>5, <1>10, <2>2 DEF TxnInv, ProducersDistinct, Known
    <2>3. ASSUME NEW s \in Tids, Known(s)'
          PROVE  by_producer'[txns'[s].producer_id] = s
        <3>1. CASE s = t
            BY <1>1, <1>3, <1>5, <2>1, <3>1
        <3>2. CASE s # t
            <4>1. Known(s) /\ txns'[s] = txns[s]
                BY <1>5, <2>3, <3>2 DEF Known
            <4>2. txns[s].producer_id \in Pids /\ txns[s].producer_id # pid
                BY <1>10, <3>2, <4>1 DEF TxnInv, TxnTypeOK, TxnState, Known
            <4> QED
                BY <2>1, <4>1, <4>2 DEF TxnInv, ProducersDistinct
        <3> QED
            BY <3>1, <3>2
    <2>4. ASSUME NEW s \in Tids PROVE txns'[s].producer_id < next_producer_id'
        <3>1. next_producer_id \in Int /\ next_producer_id' \in Int
            BY <1>1, <1>7
        <3>2. txns[s].producer_id \in Int /\ txns[s].producer_id < next_producer_id
            BY TxnAssumption DEF TxnInv, TxnTypeOK, TxnState, ProducersDistinct, Pids, NoPid
        <3> QED
            BY <1>3, <1>5, <1>10, <3>1, <3>2
    <2> QED
        BY <2>2, <2>3, <2>4 DEF ProducersDistinct
<1>12. EnrolledIsOngoing'
    BY <1>3, <1>5 DEF TxnInv, EnrolledIsOngoing
<1> QED
    BY <1>8, <1>9, <1>11, <1>12 DEF TxnInv

\* Every request to the coordinator keeps the invariant.
LEMMA StepKeepsInv ==
    ASSUME TxnInv, [TxnNext]_coordinator
    PROVE  TxnInv'
<1>1. ASSUME NEW t \in Tids, InitProducerId(t) PROVE TxnInv'
    BY <1>1, InitKeepsInv
<1>2. ASSUME NEW t \in Tids, NEW pid \in Pids, NEW epoch \in Epochs,
             NEW ps \in SUBSET Partitions, AddPartitions(t, pid, epoch, ps)
      PROVE  TxnInv'
    <2>1. CASE AddPartitionsCode(t, pid, epoch, ps) = NONE
        <3> DEFINE st == [txns[t] EXCEPT !.ongoing = TRUE, !.partitions = @ \cup ps]
        <3>1. txns[t] \in TxnState
            BY DEF TxnInv, TxnTypeOK
        <3>2. /\ st \in TxnState /\ st.producer_id = txns[t].producer_id
              /\ st.epoch = txns[t].epoch /\ st.ongoing = TRUE
              /\ st.partitions = txns[t].partitions \cup ps
            BY <3>1 DEF TxnState
        <3>3. /\ txns' = [txns EXCEPT ![t] = st]
              /\ claimed' = [p \in Partitions |-> IF p \in ps THEN t ELSE claimed[p]]
              /\ UNCHANGED <<by_producer, next_producer_id>>
            BY <1>2, <2>1 DEF AddPartitions, TxnInv, TxnTypeOK
        <3>4. \A p \in ps : claimed[p] \in {t, NoTid}
            BY <2>1 DEF AddPartitionsCode, NONE, INVALID_PRODUCER_EPOCH, CONCURRENT_TRANSACTIONS
        <3> HIDE DEF st
        <3>5. claimed' \in [Partitions -> Tids \cup {NoTid}]
            BY <3>3 DEF TxnInv, TxnTypeOK
        <3>6. \A p \in Partitions : claimed'[p] = t <=> p \in st.partitions
            BY <3>2, <3>3 DEF TxnInv, ClaimsExact
        <3>7. \A p \in Partitions, s \in Tids \ {t} : claimed'[p] = s <=> claimed[p] = s
            BY <3>3, <3>4, TxnAssumption
        <3> QED
            BY <3>2, <3>3, <3>5, <3>6, <3>7, SameIncarnation
    <2>2. CASE AddPartitionsCode(t, pid, epoch, ps) # NONE
        BY <1>2, <2>2 DEF AddPartitions, TxnInv, TxnTypeOK, ClaimsExact,
                          ProducersDistinct, EnrolledIsOngoing, Known
    <2> QED
        BY <2>1, <2>2
<1>3. ASSUME NEW t \in Tids, NEW pid \in Pids, NEW epoch \in Epochs,
             AddOffsets(t, pid, epoch)
      PROVE  TxnInv'
    <2>1. CASE Fence(t, pid, epoch) = NONE
        <3> DEFINE st == [txns[t] EXCEPT !.ongoing = TRUE, !.group = TRUE]
        <3>1. txns[t] \in TxnState
            BY DEF TxnInv, TxnTypeOK
        <3>2. /\ st \in TxnState /\ st.producer_id = txns[t].producer_id
              /\ st.epoch = txns[t].epoch /\ st.ongoing = TRUE
              /\ st.partitions = txns[t].partitions
            BY <3>1 DEF TxnState
        <3>3. txns' = [txns EXCEPT ![t] = st]
              /\ UNCHANGED <<claimed, by_producer, next_producer_id>>
            BY <1>3, <2>1 DEF AddOffsets, TxnInv, TxnTypeOK
        <3> HIDE DEF st
        <3>4. /\ claimed' \in [Partitions -> Tids \cup {NoTid}]
              /\ \A p \in Partitions : claimed'[p] = t <=> p \in st.partitions
              /\ \A p \in Partitions, s \in Tids \ {t} : claimed'[p] = s <=> claimed[p] = s
            BY <3>2, <3>3 DEF TxnInv, TxnTypeOK, ClaimsExact
        <3> QED
            BY <3>2, <3>3, <3>4, SameIncarnation
    <2>2. CASE Fence(t, pid, epoch) # NONE
        BY <1>3, <2>2 DEF AddOffsets, TxnInv, TxnTypeOK, ClaimsExact,
                          ProducersDistinct, EnrolledIsOngoing, Known
    <2> QED
        BY <2>1, <2>2
<1>4. ASSUME NEW t \in Tids, NEW pid \in Pids, NEW epoch \in Epochs, NEW o \in Offsets,
             StageOffsets(t, pid, epoch, <<o>>)
      PROVE  TxnInv'
    <2>1. CASE Fence(t, pid, epoch) = NONE
        <3> DEFINE st == [txns[t] EXCEPT !.staged_offsets = @ \o <<o>>]
        <3>1. txns[t] \in TxnState /\ txns[t].staged_offsets \in Seq(Offsets)
            BY DEF TxnInv, TxnTypeOK, TxnState
        <3>2. txns[t].staged_offsets \o <<o>> \in Seq(Offsets)
            BY <3>1
        <3>3. /\ st \in TxnState /\ st.producer_id = txns[t].producer_id
              /\ st.epoch = txns[t].epoch /\ st.ongoing = txns[t].ongoing
              /\ st.partitions = txns[t].partitions /\ st.group = txns[t].group
            BY <3>1, <3>2 DEF TxnState
        <3>4. txns' = [txns EXCEPT ![t] = st]
              /\ UNCHANGED <<claimed, by_producer, next_producer_id>>
            BY <1>4, <2>1 DEF StageOffsets, TxnInv, TxnTypeOK
        <3> HIDE DEF st
        <3>5. /\ claimed' \in [Partitions -> Tids \cup {NoTid}]
              /\ \A p \in Partitions : claimed'[p] = t <=> p \in st.partitions
              /\ \A p \in Partitions, s \in Tids \ {t} : claimed'[p] = s <=> claimed[p] = s
            BY <3>3, <3>4 DEF TxnInv, TxnTypeOK, ClaimsExact
        <3>6. (st.partitions # {} \/ st.group) => st.ongoing
            BY <3>3 DEF TxnInv, EnrolledIsOngoing
        <3> QED
            BY <3>3, <3>4, <3>5, <3>6, SameIncarnation
    <2>2. CASE Fence(t, pid, epoch) # NONE
        BY <1>4, <2>2 DEF StageOffsets, TxnInv, TxnTypeOK, ClaimsExact,
                          ProducersDistinct, EnrolledIsOngoing, Known
    <2> QED
        BY <2>1, <2>2
<1>5. ASSUME NEW t \in Tids, NEW pid \in Pids, NEW epoch \in Epochs,
             FinishTxn(t, pid, epoch)
      PROVE  TxnInv'
    <2>1. CASE Fence(t, pid, epoch) = NONE
        <3> DEFINE st == ResetTxn(txns[t])
        <3>1. /\ st \in TxnState /\ st.producer_id = txns[t].producer_id
              /\ st.epoch = txns[t].epoch /\ st.ongoing = FALSE
              /\ st.partitions = {} /\ st.group = FALSE
            BY ResetSpec DEF TxnInv, TxnTypeOK
        <3>2. /\ txns' = [txns EXCEPT ![t] = st]
              /\ claimed' = ReleaseClaims(t)
              /\ UNCHANGED <<by_producer, next_producer_id>>
            BY <1>5, <2>1 DEF FinishTxn, TxnInv, TxnTypeOK
        <3> HIDE DEF st
        <3>3. \A p \in Partitions : claimed'[p] = IF claimed[p] = t THEN NoTid ELSE claimed[p]
            BY <3>2 DEF ReleaseClaims
        <3>4. /\ claimed' \in [Partitions -> Tids \cup {NoTid}]
              /\ \A p \in Partitions : claimed'[p] = t <=> p \in st.partitions
              /\ \A p \in Partitions, s \in Tids \ {t} : claimed'[p] = s <=> claimed[p] = s
            BY <3>1, <3>2, <3>3, TxnAssumption DEF TxnInv, TxnTypeOK, ReleaseClaims
        <3> QED
            BY <3>1, <3>2, <3>4, SameIncarnation
    <2>2. CASE Fence(t, pid, epoch) # NONE
        BY <1>5, <2>2 DEF FinishTxn, TxnInv, TxnTypeOK, ClaimsExact,
                          ProducersDistinct, EnrolledIsOngoing, Known
    <2> QED
        BY <2>1, <2>2
<1>6. CASE UNCHANGED coordinator
    BY <1>6 DEF coordinator, TxnInv, TxnTypeOK, ClaimsExact,
                ProducersDistinct, EnrolledIsOngoing, Known
<1> QED
    BY <1>1, <1>2, <1>3, <1>4, <1>5, <1>6 DEF TxnNext

\* The coordinator's invariant: types, exact claims, distinct producers
\* (TxnCoordinator).
THEOREM CoordinatorInvariant == TxnSpec => []TxnInv
<1>1. TxnInit => TxnInv
    BY TxnAssumption DEF TxnInit, TxnInv, TxnTypeOK, ClaimsExact, ProducersDistinct,
        EnrolledIsOngoing, NewTxn, TxnState, Known, Epochs, NoPid, Pids
<1>2. TxnInv /\ [TxnNext]_coordinator => TxnInv'
    BY StepKeepsInv
<1> QED
    BY <1>1, <1>2, PTL DEF TxnSpec

\* No partition is ever in two open transactions, and no claim outlives its
\* transaction (add_partitions, finish_txn, init_producer_id).
THEOREM ClaimsAlwaysExact == TxnSpec => []ClaimsExact
BY CoordinatorInvariant, PTL DEF TxnInv

\* A Produce request is fenced against the right transactional id, for ever
\* (init_producer_id's minting and by_producer).
THEOREM ProducersAlwaysDistinct == TxnSpec => []ProducersDistinct
BY CoordinatorInvariant, PTL DEF TxnInv

\* A fenced incarnation stays fenced: no later request makes a replaced pair of
\* producer id and epoch current again, not even the one that overflows the
\* epoch (init_producer_id).
THEOREM FencedForEver == TxnSpec => IncarnationsMoveForward
<1> DEFINE Forward == \A t \in Tids :
             \/ <<txns'[t].producer_id, txns'[t].epoch>> = <<txns[t].producer_id, txns[t].epoch>>
             \/ txns'[t].producer_id > txns[t].producer_id
             \/ /\ txns'[t].producer_id = txns[t].producer_id
                /\ txns'[t].epoch > txns[t].epoch
<1>1. TxnInv /\ [TxnNext]_coordinator => [Forward]_coordinator
    <2> SUFFICES ASSUME TxnInv, TxnNext, NEW u \in Tids
                 PROVE  \/ /\ txns'[u].producer_id = txns[u].producer_id
                           /\ txns'[u].epoch = txns[u].epoch
                        \/ txns'[u].producer_id > txns[u].producer_id
                        \/ /\ txns'[u].producer_id = txns[u].producer_id
                           /\ txns'[u].epoch > txns[u].epoch
        OBVIOUS
    <2>1. PICK t \in Tids :
            \/ InitProducerId(t)
            \/ \E pid \in Pids, epoch \in Epochs :
                  \/ \E ps \in SUBSET Partitions : AddPartitions(t, pid, epoch, ps)
                  \/ AddOffsets(t, pid, epoch)
                  \/ \E o \in Offsets : StageOffsets(t, pid, epoch, <<o>>)
                  \/ FinishTxn(t, pid, epoch)
        BY DEF TxnNext
    <2>2. txns \in [Tids -> TxnState] /\ txns[t] \in TxnState
        BY DEF TxnInv, TxnTypeOK
    <2>3. CASE InitProducerId(t)
        <3> DEFINE pid == IF MintsPid(t) THEN next_producer_id ELSE txns[t].producer_id
                   ep == IF MintsPid(t) THEN 0 ELSE txns[t].epoch + 1
        <3>1. ResetTxn(txns[t]) \in TxnState /\ ResetTxn(txns[t]).epoch = txns[t].epoch
            BY <2>2, ResetSpec
        <3>2. txns' = [txns EXCEPT ![t] =
                         [ResetTxn(txns[t]) EXCEPT !.producer_id = pid, !.epoch = ep]]
            BY <2>3 DEF InitProducerId, Incarnate
        <3>3. \/ pid > txns[t].producer_id
              \/ pid = txns[t].producer_id /\ ep > txns[t].epoch
            BY <2>2, TxnAssumption
               DEF TxnInv, TxnTypeOK, ProducersDistinct, TxnState, Pids, NoPid, Epochs
        <3> HIDE DEF pid, ep
        <3>4. txns'[t].producer_id = pid /\ txns'[t].epoch = ep
            BY <2>2, <3>1, <3>2 DEF TxnState
        <3>5. u # t => txns'[u] = txns[u]
            BY <2>2, <3>2
        <3> QED
            BY <3>3, <3>4, <3>5
    <2>4. CASE ~ InitProducerId(t)
        <3>1. ResetTxn(txns[t]).producer_id = txns[t].producer_id
              /\ ResetTxn(txns[t]).epoch = txns[t].epoch
            BY <2>2, ResetSpec
        <3> DEFINE Same == /\ txns'[u].producer_id = txns[u].producer_id
                           /\ txns'[u].epoch = txns[u].epoch
        <3>2. ASSUME NEW pid \in Pids, NEW epoch \in Epochs, NEW ps \in SUBSET Partitions,
                     AddPartitions(t, pid, epoch, ps)
              PROVE  Same
            <4> DEFINE st == [txns[t] EXCEPT !.ongoing = TRUE, !.partitions = @ \cup ps]
            <4>1. st.producer_id = txns[t].producer_id /\ st.epoch = txns[t].epoch
                BY <2>2 DEF TxnState
            <4>2. txns' = txns \/ txns' = [txns EXCEPT ![t] = st]
                BY <2>2, <3>2 DEF AddPartitions
            <4> HIDE DEF st
            <4> QED
                BY <2>2, <4>1, <4>2
        <3>3. ASSUME NEW pid \in Pids, NEW epoch \in Epochs, AddOffsets(t, pid, epoch)
              PROVE  Same
            BY <2>2, <3>3 DEF AddOffsets, TxnState
        <3>4. ASSUME NEW pid \in Pids, NEW epoch \in Epochs, NEW o \in Offsets,
                     StageOffsets(t, pid, epoch, <<o>>)
              PROVE  Same
            BY <2>2, <3>4 DEF StageOffsets, TxnState
        <3>5. ASSUME NEW pid \in Pids, NEW epoch \in Epochs, FinishTxn(t, pid, epoch)
              PROVE  Same
            BY <2>2, <3>1, <3>5 DEF FinishTxn
        <3>6. Same
            <4> HIDE DEF Same
            <4> QED
                BY <2>1, <2>4, <3>2, <3>3, <3>4, <3>5
        <3> QED
            BY <3>6
    <2> QED
        BY <2>3, <2>4
<1> QED
    BY <1>1, CoordinatorInvariant, PTL DEF TxnSpec, IncarnationsMoveForward
=============================================================================
