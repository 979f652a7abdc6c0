------------------------------ MODULE FaspLink ------------------------------
(***************************************************************************)
(* The reliable datagram mover over UDP (datarail-rail, reliable_udp.rs):  *)
(* numbered DATA frames, acknowledgements, retransmission, an in-flight    *)
(* limit, a delay-based congestion window and a receive window.            *)
(*                                                                         *)
(* One direction of a link.  The network loses, duplicates and reorders    *)
(* datagrams; a corrupt or foreign datagram is dropped by on_datagram and  *)
(* is a lost one here.  Coalesced ACK frames may be lost one by one, which *)
(* includes losing them together.                                          *)
(***************************************************************************)
EXTENDS Integers, Sequences, FiniteSets
LOCAL INSTANCE SequencesExt

CONSTANTS
    MaxMessages,        \* numbers considered: 0..MaxMessages-1
    max_inflight, recv_window,
    init_window, min_window, max_window,
    MaxSendErrors

ASSUME FaspAssumption ==
    /\ MaxMessages \in Nat
    /\ max_inflight \in Nat \ {0} /\ recv_window \in Nat \ {0}
    /\ min_window \in Nat \ {0} /\ max_window \in Nat /\ min_window <= max_window
    /\ init_window \in min_window..max_window

VARIABLES
    fseq,               \* the sender's next_seq
    inflight,           \* un-acknowledged numbers, with a copy of their frame
    resent,             \* those retransmitted at least once
    cwnd,               \* DelayController.window
    dataNet, ackNet,    \* datagrams that may still arrive
    pending_acks,
    next_deliver, reorder, ready,
    consumed,           \* numbers recv returned, in order
    holes               \* numbers whose first transmission failed

faspVars == <<fseq, inflight, resent, cwnd, dataNet, ackNet, pending_acks, next_deliver,
              reorder, ready, consumed, holes>>

faspSender == <<fseq, inflight, resent, cwnd, holes>>
faspReceiver == <<pending_acks, next_deliver, reorder, ready, consumed>>

FaspInit ==
    /\ fseq = 0 /\ inflight = {} /\ resent = {} /\ holes = {}
    /\ cwnd = init_window
    /\ dataNet = {} /\ ackNet = {}
    /\ pending_acks = {} /\ next_deliver = 0 /\ reorder = {}
    /\ ready = <<>> /\ consumed = <<>>

-----------------------------------------------------------------------------
(* The sender.                                                             *)

can_send == Cardinality(inflight) < max_inflight /\ Cardinality(inflight) < cwnd

FaspSend ==
    /\ fseq < MaxMessages /\ can_send
    /\ fseq' = fseq + 1
    /\ dataNet' = dataNet \cup {fseq}
    /\ inflight' = inflight \cup {fseq}
    /\ UNCHANGED <<resent, cwnd, holes, ackNet, faspReceiver>>

\* send_to fails: the number is used up, and nothing will retransmit it.
FaspSendFails ==
    /\ fseq < MaxMessages /\ can_send
    /\ Cardinality(holes) < MaxSendErrors
    /\ fseq' = fseq + 1
    /\ holes' = holes \cup {fseq}
    /\ UNCHANGED <<inflight, resent, cwnd, dataNet, ackNet, faspReceiver>>

\* A loss leaves the window alone.
on_loss == cwnd

\* retransmit_due, when the frame's timeout has passed.
Retransmit(n) ==
    /\ n \in inflight
    /\ dataNet' = dataNet \cup {n}
    /\ resent' = resent \cup {n}
    /\ cwnd' = on_loss
    /\ UNCHANGED <<fseq, inflight, holes, ackNet, faspReceiver>>

\* on_rtt_sample: the queue is shallow, or too deep.
on_rtt_sample ==
    {IF cwnd < max_window THEN cwnd + 1 ELSE max_window,
     IF cwnd > min_window THEN cwnd - 1 ELSE min_window}

\* Bug: an acknowledgement retires everything sent before it too.
RetiresCumulative(n) == {m \in inflight : m <= n}

Retires(n) == {m \in inflight : m = n}

AckArrives(n) ==
    /\ n \in ackNet
    /\ ackNet' \in {ackNet, ackNet \ {n}}
    /\ inflight' = inflight \ Retires(n)
    /\ resent' = resent \ Retires(n)
    /\ cwnd' \in IF n \in inflight \ resent THEN on_rtt_sample ELSE {cwnd}
    /\ UNCHANGED <<fseq, holes, dataNet, faspReceiver>>

-----------------------------------------------------------------------------
(* The receiver.                                                           *)

InWindow(n) == n < next_deliver - Len(ready) + recv_window

\* Where the run of deliverable numbers ends.
RunEnd(have) ==
    CHOOSE e \in next_deliver..MaxMessages :
        e \notin have /\ \A k \in next_deliver..(e - 1) : k \in have

\* The drain loop moves numbers to ready one by one, each the next after the last.
Ascending(S) == SetToSortSeq(S, <)

\* Bug: a duplicate of a delivered frame is not acknowledged again.
AcknowledgedNew(n) == InWindow(n) /\ n >= next_deliver

\* Every frame inside the window is acknowledged, duplicates included.
Acknowledged(n) == InWindow(n)

DataArrives(n) ==
    /\ n \in dataNet
    /\ dataNet' \in {dataNet, dataNet \ {n}}
    /\ pending_acks' = pending_acks \cup {m \in {n} : Acknowledged(m)}
    /\ IF InWindow(n) /\ n >= next_deliver
       THEN LET have == reorder \cup {n}
                end == RunEnd(have)
            IN  /\ reorder' = {m \in have : m >= end}
                /\ next_deliver' = end
                /\ ready' = ready \o Ascending({m \in have : m < end})
       ELSE UNCHANGED <<reorder, next_deliver, ready>>
    /\ UNCHANGED <<faspSender, ackNet, consumed>>

\* The end of pump.  A send error here loses the acknowledgements, as the
\* network may.
flush_acks ==
    /\ pending_acks # {}
    /\ ackNet' = ackNet \cup pending_acks
    /\ pending_acks' = {}
    /\ UNCHANGED <<faspSender, dataNet, next_deliver, reorder, ready, consumed>>

\* recv: after a pump, the application takes the next message.
FaspRecv ==
    /\ pending_acks = {} /\ ready # <<>>
    /\ consumed' = Append(consumed, Head(ready))
    /\ ready' = Tail(ready)
    /\ UNCHANGED <<faspSender, dataNet, ackNet, pending_acks, next_deliver, reorder>>

\* The network.
FaspLose(n) ==
    /\ n \in dataNet \cup ackNet
    /\ \/ n \in dataNet /\ dataNet' = dataNet \ {n} /\ UNCHANGED ackNet
       \/ n \in ackNet /\ ackNet' = ackNet \ {n} /\ UNCHANGED dataNet
    /\ UNCHANGED <<faspSender, faspReceiver>>

Numbers == 0..(MaxMessages - 1)

FaspNext ==
    \/ FaspSend \/ FaspSendFails
    \/ \E n \in Numbers :
          Retransmit(n) \/ AckArrives(n) \/ DataArrives(n) \/ FaspLose(n)
    \/ flush_acks \/ FaspRecv

\* The owner of each end keeps pumping; of the oldest frame in flight the
\* network does not lose every copy, nor every acknowledgement.
Oldest(n) == n \in inflight /\ \A m \in inflight : n <= m
OldestArrives == \E n \in Numbers : Oldest(n) /\ DataArrives(n)
OldestAcked == \E n \in Numbers : Oldest(n) /\ AckArrives(n)
FaspFair ==
    /\ WF_faspVars(FaspSend) /\ SF_faspVars(FaspRecv) /\ WF_faspVars(flush_acks)
    /\ \A n \in Numbers : WF_faspVars(Retransmit(n))
    /\ SF_faspVars(OldestArrives) /\ SF_faspVars(OldestAcked)

FaspSpec == FaspInit /\ [][FaspNext]_faspVars /\ FaspFair

-----------------------------------------------------------------------------
(* Properties.                                                             *)

\* Messages come out once each and in order, whatever the network did.
FaspInOrder == \A i \in 1..Len(consumed) : consumed[i] = i - 1

\* INV-FASP-BOUNDED on both sides.
FaspBounded ==
    /\ Cardinality(reorder) + Len(ready) <= recv_window
    /\ Cardinality(inflight) <= max_inflight

\* The sender forgets a message only when the receiver has it.
FaspNoSilentLoss ==
    \A n \in 0..(fseq - 1) :
       n \in holes \/ n \in inflight \/ n < next_deliver \/ n \in reorder

\* Reliable UDP: in order and once, within both windows, and no message is
\* forgotten before the receiver has it.
FaspInv == FaspInOrder /\ FaspBounded /\ FaspNoSilentLoss

\* Every message is delivered in the end, also when more may be in flight than
\* the receive window holds, as long as no earlier send returned an error: the
\* number of a failed send is never transmitted, and nothing after it comes out.
FaspDelivers ==
    <>(\A n \in Numbers : \/ \E i \in 1..Len(consumed) : consumed[i] = n
                          \/ \E h \in holes : h <= n)

\* A lost datagram never shrinks the congestion window: it shrinks only when a
\* frame sent exactly once is acknowledged (Karn's rule).
FaspLossKeepsWindow ==
    [][cwnd' < cwnd => \E n \in inflight \ resent : inflight' = inflight \ {n}]_faspVars
=============================================================================
