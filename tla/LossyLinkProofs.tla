-------------------------- MODULE LossyLinkProofs ---------------------------
(***************************************************************************)
(* The two links that lose what they carry, for every value of the         *)
(* constants.                                                              *)
(*                                                                         *)
(* The resumable link passes over no cofre, for any number of cofres,      *)
(* partitions and drops and any order of acknowledgements.  Beyond the     *)
(* property the induction needs only where the cursor can be: resume puts  *)
(* it before the first entry that is not acknowledged.                     *)
(*                                                                         *)
(* Reliable UDP forgets no message before the receiver has it, and a lost  *)
(* datagram never shrinks its congestion window, for any windows and any   *)
(* number of messages and failed sends.                                    *)
(***************************************************************************)
EXTENDS Resumable, FaspLink, NaturalMinimum

-----------------------------------------------------------------------------
(* The resumable link.                                                     *)

ResTypeOK ==
    /\ outbox \in Seq(Nat) /\ resNext \in Nat
    /\ resCursor \in 0..Len(outbox)
    /\ partitioned \in BOOLEAN

ResInv == ResTypeOK /\ ResNonePassedOver

\* The link keeps a cofre at the end of the outbox or drops it.
LEMMA WanSendSpec ==
    ASSUME ResTypeOK, NEW c \in Nat, WanSend(c)
    PROVE  /\ outbox' \in Seq(Nat) /\ Len(outbox) <= Len(outbox')
           /\ \A i \in 1..Len(outbox) : outbox'[i] = outbox[i]
BY DEF ResTypeOK, WanSend

\* A send leaves what lies before the cursor alone.
LEMMA SendKeepsInv ==
    ASSUME ResInv, NEW c \in Nat, WanSend(c), resNext' \in Nat,
           UNCHANGED <<resAcked, resCursor, partitioned, held_acks>>
    PROVE  ResInv'
<1>1. /\ outbox' \in Seq(Nat) /\ Len(outbox) <= Len(outbox')
      /\ \A i \in 1..Len(outbox) : outbox'[i] = outbox[i]
    BY WanSendSpec DEF ResInv
<1>2. resCursor \in 0..Len(outbox) /\ Len(outbox) \in Nat /\ Len(outbox') \in Nat
    BY <1>1 DEF ResInv, ResTypeOK
<1>3. ResTypeOK'
    BY <1>1, <1>2 DEF ResInv, ResTypeOK
<1>4. \A i \in 1..resCursor : outbox'[i] = outbox[i]
    BY <1>1, <1>2
<1> QED
    BY <1>3, <1>4 DEF ResInv, ResNonePassedOver

\* Everything before the cursor of resume is acknowledged.
LEMMA ResumeCursorSpec ==
    ASSUME ResTypeOK
    PROVE  /\ resume_cursor \in 0..Len(outbox)
           /\ \A i \in 1..resume_cursor : outbox[i] \in resAcked
<1> DEFINE open == {i \in 1..Len(outbox) : outbox[i] \notin resAcked}
<1>0. Len(outbox) \in Nat
    BY DEF ResTypeOK
<1>1. CASE open = {}
    BY <1>0, <1>1 DEF resume_cursor
<1>2. CASE open # {}
    <2>1. open \subseteq Nat
        BY <1>0
    <2>2. \E i \in open : \A j \in open : i <= j
        BY <1>2, <2>1, LeastNatural
    <2>3. PICK i \in open : (\A j \in open : i <= j) /\ resume_cursor = i - 1
        BY <1>2, <2>2 DEF resume_cursor
    <2>4. i \in 1..Len(outbox)
        OBVIOUS
    <2>5. ASSUME NEW k \in 1..(i - 1) PROVE outbox[k] \in resAcked
        BY <1>0, <2>3, <2>4, <2>5
    <2> QED
        BY <1>0, <2>3, <2>4, <2>5
<1> QED
    BY <1>1, <1>2

\* Every step of the source, the link and the destination keeps the invariant.
LEMMA ResStepInv == ResInv /\ [ResNext]_resVars => ResInv'
<1> SUFFICES ASSUME ResInv, [ResNext]_resVars PROVE ResInv'
    OBVIOUS
<1>a. ResTypeOK /\ ResNonePassedOver /\ Len(outbox) \in Nat
    BY DEF ResInv, ResTypeOK
<1>1. CASE ResSend
    <2>1. resNext \in Nat /\ resNext' \in Nat
        BY <1>1, <1>a DEF ResSend, ResTypeOK
    <2> QED
        BY <1>1, <2>1, SendKeepsInv DEF ResSend
<1>2. CASE Redrive
    <2>1. PICK c \in 1..(resNext - 1) : WanSend(c)
        BY <1>2 DEF Redrive
    <2>2. c \in Nat /\ resNext' \in Nat
        BY <1>2, <1>a DEF Redrive, ResTypeOK
    <2> QED
        BY <1>2, <2>1, <2>2, SendKeepsInv DEF Redrive
<1>3. CASE ResRecv
    <2>1. /\ resCursor' = resCursor + 1 /\ resCursor < Len(outbox) /\ ~ partitioned
          /\ held_acks' = held_acks \cup {outbox[resCursor + 1]}
          /\ UNCHANGED <<outbox, resAcked, partitioned, resNext>>
        BY <1>3 DEF ResRecv
    <2>2. ResTypeOK'
        BY <1>a, <2>1 DEF ResTypeOK
    <2>3. ASSUME NEW i \in 1..resCursor' PROVE outbox[i] \in resAcked \cup held_acks'
        <3>1. i \in 1..resCursor \/ i = resCursor + 1
            BY <1>a, <2>1 DEF ResTypeOK
        <3> QED
            BY <1>a, <2>1, <3>1 DEF ResNonePassedOver
    <2> QED
        BY <2>1, <2>2, <2>3 DEF ResInv, ResNonePassedOver
<1>4. ASSUME NEW c \in 1..ResCofres, ResAck(c) PROVE ResInv'
    BY <1>4, <1>a DEF ResAck, ResInv, ResTypeOK, ResNonePassedOver
<1>5. CASE Partition
    BY <1>5, <1>a DEF Partition, ResInv, ResTypeOK, ResNonePassedOver
<1>6. CASE Resume
    <2>1. /\ resume_cursor \in 0..Len(outbox)
          /\ \A i \in 1..resume_cursor : outbox[i] \in resAcked
        BY <1>a, ResumeCursorSpec
    <2>2. resCursor' = resume_cursor /\ partitioned' = FALSE /\ UNCHANGED <<outbox, resAcked, resNext, held_acks>>
        BY <1>6 DEF Resume
    <2> QED
        BY <1>a, <2>1, <2>2 DEF ResInv, ResTypeOK, ResNonePassedOver
<1>7. CASE UNCHANGED resVars
    BY <1>7, <1>a DEF resVars, ResInv, ResTypeOK, ResNonePassedOver
<1> QED
    BY <1>1, <1>2, <1>3, <1>4, <1>5, <1>6, <1>7 DEF ResNext, ResFairStep

\* Through any number of partitions, lost and reordered acknowledgements, no
\* unacknowledged cofre lies behind the cursor unless the destination has it
\* (recv, ack, resume of ResumableSubstrate).
THEOREM ResNeverPassesOver == ResSpec => []ResNonePassedOver
<1>1. ASSUME ResInit PROVE ResInv
    <2>1. outbox = <<>> /\ resCursor = 0 /\ resNext = 1 /\ partitioned = FALSE
        BY <1>1 DEF ResInit
    <2>2. outbox \in Seq(Nat) /\ Len(outbox) = 0
        BY <2>1
    <2>3. ResTypeOK
        <3>1. partitioned \in BOOLEAN
            BY <2>1
        <3>2. resCursor \in 0..Len(outbox) /\ resNext \in Nat
            BY <2>1, <2>2
        <3> QED
            BY <2>2, <3>1, <3>2 DEF ResTypeOK
    <2>4. ResNonePassedOver
        BY <2>1 DEF ResNonePassedOver
    <2> QED
        BY <2>3, <2>4 DEF ResInv
<1>2. ResInv => ResNonePassedOver
    BY DEF ResInv
<1> QED
    BY <1>1, <1>2, ResStepInv, PTL DEF ResSpec

-----------------------------------------------------------------------------
(* Reliable UDP.                                                           *)

\* What the receiver has delivered to its queue, or holds for later.
Received(n) == n < next_deliver \/ n \in reorder

FaspTypeOK ==
    /\ fseq \in Nat /\ next_deliver \in Nat
    /\ cwnd \in min_window..max_window
    /\ next_deliver <= MaxMessages
    /\ fseq <= MaxMessages
    /\ dataNet \subseteq Numbers /\ reorder \subseteq Numbers
    /\ ackNet \subseteq Numbers /\ pending_acks \subseteq Numbers

\* An acknowledgement, sent or about to be, is of a received message.
AcksAreOfReceived == \A n \in ackNet \cup pending_acks : Received(n)

FaspIndInv == FaspTypeOK /\ AcksAreOfReceived /\ FaspNoSilentLoss


\* The loop of on_data ends at the first number that is missing, and every
\* number it passed was there.
LEMMA RunEndSpec ==
    ASSUME NEW have, have \subseteq Numbers,
           MaxMessages \in Nat, next_deliver \in Nat, next_deliver <= MaxMessages
    PROVE  /\ RunEnd(have) \in next_deliver..MaxMessages
           /\ \A k \in next_deliver..(RunEnd(have) - 1) : k \in have
<1> DEFINE Gaps == {e \in next_deliver..MaxMessages : e \notin have}
<1>1. Gaps \subseteq Nat
    OBVIOUS
<1>2. MaxMessages \in Gaps
    BY DEF Numbers
<1>3. PICK e \in Gaps : \A m \in Gaps : e <= m
    BY <1>1, <1>2, LeastNatural
<1>4. \A k \in next_deliver..(e - 1) : k \in have
    BY <1>3
<1>5. \E d \in next_deliver..MaxMessages :
          d \notin have /\ \A k \in next_deliver..(d - 1) : k \in have
    BY <1>3, <1>4
<1> QED
    BY <1>5 DEF RunEnd

\* What arrives is never un-received: the receiver's memory only grows.
LEMMA DataKeepsReceived ==
    ASSUME FaspTypeOK, NEW n \in Numbers, DataArrives(n)
    PROVE  /\ next_deliver' \in Nat /\ next_deliver' <= MaxMessages
           /\ reorder' \subseteq Numbers
           /\ \A m \in Int : Received(m) => Received(m)'
           /\ InWindow(n) => Received(n)'
<1>0. MaxMessages \in Nat /\ n \in Int
    BY FaspAssumption DEF Numbers
<1>1. CASE InWindow(n) /\ n >= next_deliver
    <2> DEFINE have == reorder \cup {n}
               end == RunEnd(have)
    <2>1. have \subseteq Numbers
        BY DEF FaspTypeOK
    <2>2. /\ end \in next_deliver..MaxMessages
          /\ \A k \in next_deliver..(end - 1) : k \in have
        BY <2>1, <1>0, RunEndSpec DEF FaspTypeOK
    <2>3. reorder' = {m \in have : m >= end} /\ next_deliver' = end
        BY <1>1 DEF DataArrives
    <2> HIDE DEF end
    <2>4. end \in Nat /\ next_deliver \in Nat /\ end >= next_deliver /\ end <= MaxMessages
        BY <2>2, <1>0 DEF FaspTypeOK
    <2>5. ASSUME NEW m \in Int, Received(m) \/ m = n PROVE Received(m)'
        BY <2>3, <2>4, <2>5 DEF Received
    <2> QED
        BY <2>1, <2>3, <2>4, <2>5, <1>0
<1>2. CASE ~ (InWindow(n) /\ n >= next_deliver)
    <2>1. UNCHANGED <<reorder, next_deliver>>
        BY <1>2 DEF DataArrives
    <2>2. InWindow(n) => n < next_deliver
        BY <1>0, <1>2 DEF FaspTypeOK
    <2> QED
        BY <2>1, <2>2 DEF FaspTypeOK, Received
<1> QED
    BY <1>1, <1>2

LEMMA FaspSendInv ==
    ASSUME FaspIndInv, FaspSend \/ FaspSendFails
    PROVE  FaspIndInv'
<1>0. MaxMessages \in Nat /\ fseq \in Nat /\ fseq < MaxMessages /\ fseq \in Numbers
    BY FaspAssumption DEF FaspIndInv, FaspTypeOK, Numbers, FaspSend, FaspSendFails
<1>1. /\ fseq' = fseq + 1
      /\ dataNet' \subseteq dataNet \cup {fseq}
      /\ inflight' \cup holes' = inflight \cup holes \cup {fseq}
      /\ UNCHANGED <<cwnd, ackNet, pending_acks, next_deliver, reorder>>
    BY DEF FaspSend, FaspSendFails, faspReceiver
<1>2. FaspTypeOK'
    BY <1>0, <1>1 DEF FaspIndInv, FaspTypeOK, Numbers
<1>3. AcksAreOfReceived'
    BY <1>1 DEF FaspIndInv, AcksAreOfReceived, Received
<1>4. FaspNoSilentLoss'
    <2> SUFFICES ASSUME NEW n \in 0..(fseq' - 1)
                 PROVE  n \in inflight' \cup holes' \/ n < next_deliver' \/ n \in reorder'
        BY DEF FaspNoSilentLoss
    <2>1. CASE n = fseq
        BY <2>1, <1>1
    <2>2. CASE n # fseq
        <3>1. n \in 0..(fseq - 1)
            BY <1>0, <1>1, <2>2
        <3> QED
            BY <3>1, <1>1 DEF FaspIndInv, FaspNoSilentLoss
    <2> QED
        BY <2>1, <2>2
<1> QED
    BY <1>2, <1>3, <1>4 DEF FaspIndInv

LEMMA FaspAckInv ==
    ASSUME FaspIndInv, NEW n \in Numbers, AckArrives(n)
    PROVE  FaspIndInv'
<1>0. MaxMessages \in Nat /\ n \in Int
    BY FaspAssumption DEF Numbers
<1>1. /\ n \in ackNet /\ ackNet' \subseteq ackNet
      /\ inflight' = inflight \ {n}
      /\ UNCHANGED <<fseq, holes, dataNet, pending_acks, next_deliver, reorder>>
    BY DEF AckArrives, Retires, faspReceiver
<1>2. cwnd' \in min_window..max_window
    BY FaspAssumption DEF AckArrives, on_rtt_sample, FaspIndInv, FaspTypeOK
<1>3. FaspTypeOK'
    BY <1>1, <1>2 DEF FaspIndInv, FaspTypeOK
<1>4. AcksAreOfReceived'
    BY <1>1 DEF FaspIndInv, AcksAreOfReceived, Received
<1>5. Received(n)
    BY <1>1 DEF FaspIndInv, AcksAreOfReceived
<1>6. FaspNoSilentLoss'
    BY <1>1, <1>5 DEF FaspIndInv, FaspNoSilentLoss, Received
<1> QED
    BY <1>3, <1>4, <1>6 DEF FaspIndInv

LEMMA FaspDataInv ==
    ASSUME FaspIndInv, NEW n \in Numbers, DataArrives(n)
    PROVE  FaspIndInv'
<1>1. /\ dataNet' \subseteq dataNet
      /\ pending_acks' = pending_acks \cup {m \in {n} : InWindow(m)}
      /\ UNCHANGED <<fseq, inflight, cwnd, holes, ackNet>>
    BY DEF DataArrives, Acknowledged, faspSender
<1>2. /\ next_deliver' \in Nat /\ next_deliver' <= MaxMessages
      /\ reorder' \subseteq Numbers
      /\ \A m \in Int : Received(m) => Received(m)'
      /\ InWindow(n) => Received(n)'
    BY DataKeepsReceived DEF FaspIndInv
<1>3. FaspTypeOK'
    <2>1. pending_acks' \subseteq Numbers
        BY <1>1 DEF FaspIndInv, FaspTypeOK
    <2> QED
        BY <1>1, <1>2, <2>1 DEF FaspIndInv, FaspTypeOK
<1>4. FaspNoSilentLoss'
    BY <1>1, <1>2 DEF FaspIndInv, FaspNoSilentLoss, Received
<1>5. AcksAreOfReceived'
    <2> SUFFICES ASSUME NEW m \in ackNet' \cup pending_acks' PROVE Received(m)'
        BY DEF AcksAreOfReceived, Received
    <2>1. CASE m = n /\ InWindow(n)
        BY <2>1, <1>2
    <2>2. CASE m \in ackNet \cup pending_acks
        BY <2>2, <1>2 DEF FaspIndInv, FaspTypeOK, AcksAreOfReceived, Numbers
    <2> QED
        BY <2>1, <2>2, <1>1
<1> QED
    BY <1>3, <1>4, <1>5 DEF FaspIndInv

\* Retransmissions, losses, the sending of acknowledgements and deliveries to
\* the application change nothing that the receiver has.
LEMMA FaspQuietInv ==
    ASSUME FaspIndInv,
           \/ \E n \in Numbers : Retransmit(n) \/ FaspLose(n)
           \/ flush_acks \/ FaspRecv \/ UNCHANGED faspVars
    PROVE  FaspIndInv'
<1>1. /\ UNCHANGED <<fseq, inflight, holes, cwnd, next_deliver, reorder>>
      /\ dataNet' \subseteq Numbers
      /\ ackNet' \cup pending_acks' \subseteq ackNet \cup pending_acks
    BY DEF FaspIndInv, FaspTypeOK, Retransmit, on_loss, FaspLose, flush_acks, FaspRecv,
           faspSender, faspReceiver, faspVars
<1>2. FaspTypeOK'
    BY <1>1 DEF FaspIndInv, FaspTypeOK
<1>3. AcksAreOfReceived'
    BY <1>1 DEF FaspIndInv, AcksAreOfReceived, Received
<1>4. FaspNoSilentLoss'
    BY <1>1 DEF FaspIndInv, FaspNoSilentLoss
<1> QED
    BY <1>2, <1>3, <1>4 DEF FaspIndInv

LEMMA FaspAlwaysInv == FaspSpec => []FaspIndInv
<1>1. FaspInit => FaspIndInv
    BY FaspAssumption
    DEF FaspInit, FaspIndInv, FaspTypeOK, AcksAreOfReceived, FaspNoSilentLoss, Numbers
<1>2. FaspIndInv /\ [FaspNext]_faspVars => FaspIndInv'
    BY FaspSendInv, FaspAckInv, FaspDataInv, FaspQuietInv DEF FaspNext
<1> QED
    BY <1>1, <1>2, PTL DEF FaspSpec

\* Whatever the network loses, duplicates or reorders, and however many sends
\* fail, a message that was numbered is one whose send returned an error, one
\* the sender can still retransmit, or one the receiver has (on_ack removes
\* from inflight only what on_data acknowledged).
THEOREM FaspForgetsNothing == FaspSpec => []FaspNoSilentLoss
<1>1. FaspIndInv => FaspNoSilentLoss
    BY DEF FaspIndInv
<1> QED
    BY <1>1, FaspAlwaysInv, PTL

\* The congestion window shrinks only on the acknowledgement of a frame that
\* was sent exactly once, never on a loss or a retransmission (on_loss,
\* on_rtt_sample and the Karn rule in on_ack).
THEOREM FaspWindowIgnoresLoss == FaspSpec => FaspLossKeepsWindow
<1>1. ASSUME FaspIndInv, [FaspNext]_faspVars, cwnd' < cwnd
      PROVE  \E n \in inflight \ resent : inflight' = inflight \ {n}
    <2>0. cwnd \in Int
        BY <1>1, FaspAssumption DEF FaspIndInv, FaspTypeOK
    <2>1. cwnd' # cwnd
        BY <2>0, <1>1
    <2>2. PICK n \in Numbers : AckArrives(n)
        BY <1>1, <2>1 DEF FaspNext, FaspSend, FaspSendFails, Retransmit, on_loss, DataArrives,
                          FaspLose, flush_acks, FaspRecv, faspSender, faspVars
    <2>3. n \in inflight \ resent
        BY <2>1, <2>2 DEF AckArrives
    <2>4. inflight' = inflight \ {n}
        BY <2>2 DEF AckArrives, Retires
    <2> QED
        BY <2>3, <2>4
<1>2. FaspIndInv /\ [FaspNext]_faspVars
      => [cwnd' < cwnd => \E n \in inflight \ resent : inflight' = inflight \ {n}]_faspVars
    BY <1>1
<1> QED
    BY <1>2, FaspAlwaysInv, PTL DEF FaspSpec, FaspLossKeepsWindow
=============================================================================
