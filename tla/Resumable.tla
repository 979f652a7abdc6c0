----------------------------- MODULE Resumable ------------------------------
(***************************************************************************)
(* ResumableSubstrate behind a WanLink (datarail-rail): the outbox of a    *)
(* source, a link that loses every drop_every-th send and can be           *)
(* partitioned, and a destination that offloads what it is handed, once    *)
(* each, and acknowledges in any order.  The source sends again what it    *)
(* sees unacknowledged after a partition.                                  *)
(***************************************************************************)
EXTENDS Integers, Sequences, FiniteSets

CONSTANTS
    ResCofres,          \* cofres the source sends, 1..ResCofres
    drop_every,         \* WanProfile; 0 never drops
    MaxPartitions, MaxRedrives

VARIABLES
    outbox, resAcked, resCursor, partitioned,      \* ResumableSubstrate
    wanSent,                                       \* sends the WanLink saw
    resNext, redrives, partitions,                 \* the source
    held_acks,                                     \* handed out, not yet acknowledged
    landed                                         \* what the destination's gate let through

resVars == <<outbox, resAcked, resCursor, partitioned, wanSent, resNext, redrives, partitions,
             held_acks, landed>>

ResInit ==
    /\ outbox = <<>> /\ resAcked = {} /\ resCursor = 0 /\ partitioned = FALSE
    /\ wanSent = 0 /\ resNext = 1 /\ redrives = 0 /\ partitions = 0
    /\ held_acks = {} /\ landed = {}

\* WanLink::send, then ResumableSubstrate::send when the link keeps it.
WanSend(c) ==
    /\ wanSent' = wanSent + 1
    /\ outbox' = IF drop_every # 0 /\ wanSent' % drop_every = 0 THEN outbox ELSE Append(outbox, c)

ResSend ==
    /\ resNext <= ResCofres
    /\ WanSend(resNext)
    /\ resNext' = resNext + 1
    /\ UNCHANGED <<resAcked, resCursor, partitioned, redrives, partitions, held_acks, landed>>

Redrive ==
    /\ resNext > ResCofres /\ ~ partitioned /\ redrives < MaxRedrives
    /\ \E c \in 1..(resNext - 1) \ resAcked : WanSend(c)
    /\ redrives' = redrives + 1
    /\ UNCHANGED <<resAcked, resCursor, partitioned, resNext, partitions, held_acks, landed>>

\* recv and the offload that follows; landed is a set because the gate of the
\* destination lets a cofre through once.
ResRecv ==
    /\ ~ partitioned /\ resCursor < Len(outbox)
    /\ resCursor' = resCursor + 1
    /\ landed' = landed \cup {outbox[resCursor']}
    /\ held_acks' = held_acks \cup {outbox[resCursor']}
    /\ UNCHANGED <<outbox, resAcked, partitioned, wanSent, resNext, redrives, partitions>>

ResAck(c) ==
    /\ c \in held_acks /\ ~ partitioned
    /\ resAcked' = resAcked \cup {c}
    /\ held_acks' = held_acks \ {c}
    /\ UNCHANGED <<outbox, resCursor, partitioned, wanSent, resNext, redrives, partitions, landed>>

\* The acknowledgements that were under way are lost.
Partition ==
    /\ ~ partitioned /\ partitions < MaxPartitions
    /\ partitioned' = TRUE
    /\ partitions' = partitions + 1
    /\ held_acks' = {}
    /\ UNCHANGED <<outbox, resAcked, resCursor, wanSent, resNext, redrives, landed>>

\* Bug: the position is counted from the number of acknowledgements.
resume_cursor_counted == Cardinality(resAcked)

\* The index before the first entry that is not acknowledged.
resume_cursor ==
    LET open == {i \in 1..Len(outbox) : outbox[i] \notin resAcked}
    IN  IF open = {} THEN Len(outbox) ELSE (CHOOSE i \in open : \A j \in open : i <= j) - 1

Resume ==
    /\ partitioned
    /\ partitioned' = FALSE
    /\ resCursor' = resume_cursor
    /\ UNCHANGED <<outbox, resAcked, wanSent, resNext, redrives, partitions, held_acks, landed>>

ResFairStep == ResSend \/ ResRecv \/ Resume \/ \E c \in 1..ResCofres : ResAck(c)

ResNext == ResFairStep \/ Redrive \/ Partition

ResSpec == ResInit /\ [][ResNext]_resVars

-----------------------------------------------------------------------------
(* Properties.                                                             *)

\* While the link is up, every unacknowledged cofre of the outbox is ahead of
\* the cursor or in the hands of the destination: a partition passes none over,
\* whatever the order of the acknowledgements.
ResNonePassedOver ==
    ~ partitioned =>
       \A i \in 1..resCursor : outbox[i] \in resAcked \cup held_acks

\* Everything the link did not lose is handed out and acknowledged, through any
\* number of partitions that end.
ResDelivers == []<>(\A i \in DOMAIN outbox : outbox[i] \in resAcked)
=============================================================================
