------------------------- MODULE ObjectStoreProofs --------------------------
(***************************************************************************)
(* The bucket is a durable substrate, for any streams and any number of    *)
(* cofres and restarts: it implements Holding, and the receiver's cursors  *)
(* pass over no object but one a skewed listing hid.                       *)
(*                                                                         *)
(* ObjInv is not inductive.  It needs that every number in the bucket and  *)
(* under a cursor is below the sender's next one, so that a PUT lands in   *)
(* front of the cursor, and that a listing under way is still a part of    *)
(* the bucket, which the receiver alone shrinks.                           *)
(***************************************************************************)
EXTENDS ObjectStore, TLAPS

ObjTypeOK ==
    /\ objects \subseteq ObjCofres /\ objHanded \subseteq ObjCofres
    /\ put \in [stage : {"idle", "write", "rename"}, work : SUBSET ObjCofres]
    /\ rcv \in [stage : {"idle", "list", "drained", "rmdir"}, work : SUBSET ObjCofres]
    /\ nextPut \in [ObjStreams -> Nat]
    /\ cursors \in [ObjStreams -> Int]

\* The sender is ahead of everything in the bucket and of every cursor.
SenderAhead ==
    /\ put.stage # "idle" => \A c \in put.work : c[2] = nextPut[c[1]]
    /\ \A c \in objects : c[2] < nextPut[c[1]]
    /\ \A s \in ObjStreams : cursors[s] < nextPut[s]

\* What the receiver holds on to is in the bucket and was handed out.
ReceiverAgrees ==
    /\ by_id \subseteq objHanded
    /\ rcv.stage = "list" => rcv.work \subseteq objects
    /\ rcv.stage = "drained" => \A c, d \in rcv.work : c = d

ObjIndInv == ObjTypeOK /\ SenderAhead /\ ReceiverAgrees /\ ObjInv

\* The bucket and every book of a new receiver are empty.
LEMMA ObjInitInv == ObjInit => ObjIndInv
BY ObjAssumption DEF ObjInit, ObjIndInv, ObjTypeOK, SenderAhead, ReceiverAgrees, ObjInv,
   ObjNonePassedOver, ObjBookkeepingLive, Resting, NoCursor, ObjCofres

\* remove_dir takes an empty directory or none.
LEMMA RmdirKeepsObjects == AckRmdir => objects' = objects
BY DEF AckRmdir, Removable

\* The shape of the state, through every operation of both processes.
LEMMA ObjStepType == ObjTypeOK /\ [ObjNext]_objVars => ObjTypeOK'
<1> SUFFICES ASSUME ObjTypeOK, [ObjNext]_objVars PROVE ObjTypeOK'
    OBVIOUS
<1> USE ObjAssumption DEF ObjTypeOK, senderVars, receiverVars, Resting
<1>1. ASSUME NEW s \in ObjStreams, PutMkdir(s) PROVE ObjTypeOK'
    BY <1>1 DEF PutMkdir, ObjCofres
<1>2. CASE PutWrite
    BY <1>2 DEF PutWrite
<1>3. CASE PutRename
    <2>1. PICK c \in put.work :
             objects' = objects \cup {c} /\ nextPut' = [nextPut EXCEPT ![c[1]] = @ + 1]
        BY <1>3 DEF PutRename
    <2>2. c \in ObjCofres
        OBVIOUS
    <2>3. \A s \in ObjStreams : nextPut[s] + 1 \in Nat
        OBVIOUS
    <2>4. nextPut' \in [ObjStreams -> Nat]
        BY <2>1, <2>3
    <2> QED
        BY <1>3, <2>1, <2>2, <2>4 DEF PutRename
<1>4. CASE AckDrained
    BY <1>4 DEF AckDrained, NoCursor
<1>5. CASE AckRmdir
    BY <1>5 DEF AckRmdir
<1>6. CASE ListBegin
    BY <1>6 DEF ListBegin
<1>7. CASE RecvObject
    <2>1. PICK listing \in Listings : \E c \in listing :
             /\ cursors' = [cursors EXCEPT ![c[1]] = c[2]]
             /\ objHanded' = objHanded \cup {c}
        BY <1>7 DEF RecvObject
    <2>2. listing \subseteq ObjCofres
        BY <2>1 DEF Listings
    <2>3. PICK c \in ObjCofres :
             /\ cursors' = [cursors EXCEPT ![c[1]] = c[2]]
             /\ objHanded' = objHanded \cup {c}
        BY <2>1, <2>2
    <2>4. c[2] \in Int
        BY DEF ObjCofres
    <2> QED
        BY <1>7, <2>3, <2>4 DEF RecvObject
<1>8. CASE RecvNothing
    BY <1>8 DEF RecvNothing
<1>9. CASE Reopen
    BY <1>9 DEF Reopen, NoCursor
<1>10. ASSUME NEW c \in ObjCofres, AckRemove(c) PROVE ObjTypeOK'
    BY <1>10 DEF AckRemove
<1>11. CASE UNCHANGED objVars
    BY <1>11 DEF objVars
<1> QED
    BY <1>1, <1>2, <1>3, <1>4, <1>5, <1>6, <1>7, <1>8, <1>9, <1>10, <1>11
    DEF ObjNext, ObjWork, ObjRead

\* The sender's numbers only grow, and a cursor is the number of an object.
LEMMA ObjStepSender == ObjIndInv /\ [ObjNext]_objVars => SenderAhead'
<1> SUFFICES ASSUME ObjIndInv, [ObjNext]_objVars PROVE SenderAhead'
    OBVIOUS
<1> USE ObjAssumption DEF ObjIndInv, ObjTypeOK, SenderAhead, senderVars, receiverVars, Resting
<1>1. ASSUME NEW s \in ObjStreams, PutMkdir(s) PROVE SenderAhead'
    BY <1>1 DEF PutMkdir, ObjCofres
<1>2. CASE PutWrite
    BY <1>2 DEF PutWrite
<1>3. CASE PutRename
    <2>1. PICK c \in put.work :
             objects' = objects \cup {c} /\ nextPut' = [nextPut EXCEPT ![c[1]] = @ + 1]
        BY <1>3 DEF PutRename
    <2>2. c \in ObjCofres /\ c[1] \in ObjStreams /\ c[2] = nextPut[c[1]]
        BY <1>3 DEF PutRename, ObjCofres
    <2>3. \A s \in ObjStreams : nextPut'[s] \in Nat /\ nextPut[s] <= nextPut'[s]
        BY <2>1
    <2>4. \A d \in ObjCofres : d[1] \in ObjStreams /\ d[2] \in Nat
        BY DEF ObjCofres
    <2>5. \A d \in objects' : d[2] < nextPut'[d[1]]
        <3> SUFFICES ASSUME NEW d \in objects' PROVE d[2] < nextPut'[d[1]]
            OBVIOUS
        <3>1. CASE d = c
            <4>1. nextPut[c[1]] \in Nat /\ nextPut'[c[1]] = nextPut[c[1]] + 1
                BY <2>1, <2>2
            <4> QED
                BY <3>1, <4>1, <2>2
        <3>2. CASE d \in objects
            <4>1. d[1] \in ObjStreams /\ d[2] \in Nat /\ d[2] < nextPut[d[1]]
                BY <3>2, <2>4
            <4>2. nextPut[d[1]] \in Nat /\ nextPut'[d[1]] \in Nat /\ nextPut[d[1]] <= nextPut'[d[1]]
                BY <4>1, <2>3
            <4> QED
                BY <4>1, <4>2
        <3> QED
            BY <2>1, <3>1, <3>2
    <2>6. \A s \in ObjStreams : cursors'[s] < nextPut'[s]
        BY <1>3, <2>3 DEF PutRename
    <2> QED
        BY <1>3, <2>5, <2>6 DEF PutRename
<1>4. CASE AckDrained
    BY <1>4 DEF AckDrained, NoCursor
<1>5. CASE AckRmdir
    BY <1>5 DEF AckRmdir
<1>6. CASE ListBegin
    BY <1>6 DEF ListBegin
<1>7. CASE RecvObject
    <2>1. PICK listing \in Listings : \E c \in listing : cursors' = [cursors EXCEPT ![c[1]] = c[2]]
        BY <1>7 DEF RecvObject
    <2>2. listing \subseteq objects
        BY <1>7, <2>1 DEF Listings, RecvObject, ReceiverAgrees
    <2>3. PICK c \in objects : cursors' = [cursors EXCEPT ![c[1]] = c[2]]
        BY <2>1, <2>2
    <2> QED
        BY <1>7, <2>3 DEF RecvObject
<1>8. CASE RecvNothing
    BY <1>8 DEF RecvNothing
<1>9. CASE Reopen
    BY <1>9 DEF Reopen, NoCursor
<1>10. ASSUME NEW c \in ObjCofres, AckRemove(c) PROVE SenderAhead'
    BY <1>10 DEF AckRemove
<1>11. CASE UNCHANGED objVars
    BY <1>11 DEF objVars
<1> QED
    BY <1>1, <1>2, <1>3, <1>4, <1>5, <1>6, <1>7, <1>8, <1>9, <1>10, <1>11
    DEF ObjNext, ObjWork, ObjRead

\* The receiver shrinks the bucket only when no listing is under way.
LEMMA ObjStepReceiver == ObjIndInv /\ [ObjNext]_objVars => ReceiverAgrees'
<1> SUFFICES ASSUME ObjIndInv, [ObjNext]_objVars PROVE ReceiverAgrees'
    OBVIOUS
<1> USE DEF ObjIndInv, ObjTypeOK, ReceiverAgrees, senderVars, receiverVars, Resting
<1>1. ASSUME NEW s \in ObjStreams, PutMkdir(s) PROVE ReceiverAgrees'
    BY <1>1 DEF PutMkdir
<1>2. CASE PutWrite
    BY <1>2 DEF PutWrite
<1>3. CASE PutRename
    BY <1>3 DEF PutRename
<1>4. CASE AckDrained
    BY <1>4 DEF AckDrained
<1>5. CASE AckRmdir
    BY <1>5 DEF AckRmdir
<1>6. CASE ListBegin
    BY <1>6 DEF ListBegin
<1>7. CASE RecvObject
    BY <1>7 DEF RecvObject
<1>8. CASE RecvNothing
    BY <1>8 DEF RecvNothing
<1>9. CASE Reopen
    BY <1>9 DEF Reopen
<1>10. ASSUME NEW c \in ObjCofres, AckRemove(c) PROVE ReceiverAgrees'
    BY <1>10 DEF AckRemove
<1>11. CASE UNCHANGED objVars
    BY <1>11 DEF objVars
<1> QED
    BY <1>1, <1>2, <1>3, <1>4, <1>5, <1>6, <1>7, <1>8, <1>9, <1>10, <1>11
    DEF ObjNext, ObjWork, ObjRead

\* A PUT lands in front of the cursor, recv takes the lowest object it lists,
\* and a restarted receiver starts at the beginning.
LEMMA ObjStepNonePassed == ObjIndInv /\ [ObjNext]_objVars => ObjNonePassedOver'
<1> SUFFICES ASSUME ObjIndInv, [ObjNext]_objVars PROVE ObjNonePassedOver'
    OBVIOUS
<1> USE ObjAssumption DEF ObjIndInv, ObjTypeOK, ObjInv, ObjNonePassedOver, Covered,
        senderVars, receiverVars
<1>a. \A d \in ObjCofres : d[1] \in ObjStreams /\ d[2] \in Nat
    BY DEF ObjCofres
<1>1. ASSUME NEW s \in ObjStreams, PutMkdir(s) PROVE ObjNonePassedOver'
    BY <1>1 DEF PutMkdir
<1>2. CASE PutWrite
    BY <1>2 DEF PutWrite
<1>3. CASE PutRename
    <2>1. PICK c \in put.work : objects' = objects \cup {c}
        BY <1>3 DEF PutRename
    <2>2. c \in ObjCofres /\ c[1] \in ObjStreams /\ c[2] = nextPut[c[1]]
        BY <1>3, <1>a DEF PutRename, SenderAhead
    <2>3. cursors[c[1]] < c[2] /\ cursors[c[1]] \in Int /\ c[2] \in Nat
        BY <2>2, <1>a DEF SenderAhead
    <2>4. ~ Covered(c)'
        BY <1>3, <2>3 DEF PutRename
    <2> QED
        BY <1>3, <2>1, <2>4 DEF PutRename
<1>4. CASE AckDrained
    <2>1. PICK c \in rcv.work :
             cursors' = [cursors EXCEPT ![c[1]] = NoCursor] \/ UNCHANGED cursors
        BY <1>4 DEF AckDrained
    <2>2. \A s \in ObjStreams : cursors'[s] = cursors[s] \/ cursors'[s] = NoCursor
        BY <2>1
    <2>3. ASSUME NEW d \in objects, Covered(d)' PROVE Covered(d)
        <3>1. d[1] \in ObjStreams /\ d[2] \in Nat /\ d[2] <= cursors'[d[1]]
            BY <2>3, <1>a
        <3>2. cursors'[d[1]] # NoCursor
            BY <3>1 DEF NoCursor
        <3> QED
            BY <2>2, <3>1, <3>2
    <2> QED
        BY <1>4, <2>3 DEF AckDrained
<1>5. CASE AckRmdir
    BY <1>5 DEF AckRmdir
<1>6. CASE ListBegin
    BY <1>6 DEF ListBegin
<1>7. CASE RecvObject
    <2> DEFINE Fresh(l) == {c \in l : ~ Covered(c)}
    <2>1. PICK listing \in Listings : \E c \in Fresh(listing) :
             /\ \A d \in Fresh(listing) : Sorted(c, d)
             /\ cursors' = [cursors EXCEPT ![c[1]] = c[2]]
             /\ by_id' = by_id \cup {c}
             /\ skewed' = skewed \cup {d \in objects \ listing : d[1] = c[1] /\ d[2] < c[2]}
        BY <1>7 DEF RecvObject
    <2>2. listing \subseteq objects
        BY <1>7, <2>1 DEF Listings, RecvObject, ReceiverAgrees
    <2>3. PICK c \in Fresh(listing) :
             /\ \A d \in Fresh(listing) : Sorted(c, d)
             /\ cursors' = [cursors EXCEPT ![c[1]] = c[2]]
             /\ by_id' = by_id \cup {c}
             /\ skewed' = skewed \cup {d \in objects \ listing : d[1] = c[1] /\ d[2] < c[2]}
        BY <2>1
    <2>4. c \in ObjCofres /\ c[1] \in ObjStreams /\ c[2] \in Nat /\ c[1] \in Int
        BY <2>2, <1>a
    <2>5. ASSUME NEW d \in objects, Covered(d)', ~ Covered(d), d # c PROVE d \in skewed'
        <3>1. d \in ObjCofres /\ d[1] \in ObjStreams /\ d[2] \in Nat
            BY <1>a
        <3>2. d[1] = c[1] /\ d[2] <= c[2]
            BY <2>3, <2>4, <2>5, <3>1
        <3>3. d[2] # c[2]
            BY <2>4, <2>5, <3>1, <3>2 DEF ObjCofres
        <3>4. d \notin listing
            BY <2>3, <2>4, <2>5, <3>1, <3>2, <3>3 DEF Sorted
        <3> QED
            BY <2>3, <2>4, <3>1, <3>2, <3>3, <3>4
    <2>6. objects' = objects /\ objAsked' = objAsked /\ skewed \subseteq skewed' /\ c \in by_id'
             /\ by_id \subseteq by_id'
        BY <1>7, <2>3 DEF RecvObject
    <2> QED
        BY <2>5, <2>6
<1>8. CASE RecvNothing
    BY <1>8 DEF RecvNothing
<1>9. CASE Reopen
    <2>1. \A d \in objects : ~ Covered(d)'
        BY <1>9, <1>a DEF Reopen, NoCursor
    <2> QED
        BY <1>9, <2>1 DEF Reopen
<1>10. ASSUME NEW c \in ObjCofres, AckRemove(c) PROVE ObjNonePassedOver'
    BY <1>10 DEF AckRemove
<1>11. CASE UNCHANGED objVars
    BY <1>11 DEF objVars
<1> QED
    BY <1>1, <1>2, <1>3, <1>4, <1>5, <1>6, <1>7, <1>8, <1>9, <1>10, <1>11
    DEF ObjNext, ObjWork, ObjRead

\* An acknowledged object leaves the map before the bucket, and a drained
\* stream loses its cursor.
LEMMA ObjStepBookkeeping == ObjIndInv /\ [ObjNext]_objVars => ObjBookkeepingLive'
<1> SUFFICES ASSUME ObjIndInv, [ObjNext]_objVars PROVE ObjBookkeepingLive'
    OBVIOUS
<1> USE DEF ObjIndInv, ObjTypeOK, ObjInv, ObjBookkeepingLive, senderVars, receiverVars, Resting
<1>1. ASSUME NEW s \in ObjStreams, PutMkdir(s) PROVE ObjBookkeepingLive'
    BY <1>1 DEF PutMkdir
<1>2. CASE PutWrite
    BY <1>2 DEF PutWrite
<1>3. CASE PutRename
    BY <1>3 DEF PutRename
<1>4. CASE AckDrained
    <2>1. PICK c \in rcv.work :
             IF stream_drained(c[1])
             THEN /\ cursors' = [cursors EXCEPT ![c[1]] = NoCursor]
                  /\ rcv' = [rcv EXCEPT !.stage = "rmdir"]
             ELSE rcv' = Resting /\ UNCHANGED cursors
        BY <1>4 DEF AckDrained
    <2>2. \A d \in rcv.work : d = c
        BY <1>4 DEF AckDrained, ReceiverAgrees
    <2>3. ASSUME NEW s \in ObjStreams, cursors'[s] # NoCursor PROVE \E d \in objects : d[1] = s
        <3>1. c[1] \in ObjStreams
            BY DEF ObjCofres
        <3>2. CASE stream_drained(c[1])
            BY <2>1, <2>2, <2>3, <3>1, <3>2
        <3>3. CASE ~ stream_drained(c[1])
            BY <2>1, <2>2, <2>3, <3>3 DEF stream_drained
        <3> QED
            BY <3>2, <3>3
    <2> QED
        BY <1>4, <2>3 DEF AckDrained
<1>5. CASE AckRmdir
    <2>1. objects' = objects
        BY <1>5, RmdirKeepsObjects
    <2> QED
        BY <1>5, <2>1 DEF AckRmdir
<1>6. CASE ListBegin
    BY <1>6 DEF ListBegin
<1>7. CASE RecvObject
    <2>1. PICK listing \in Listings : \E c \in listing :
             /\ cursors' = [cursors EXCEPT ![c[1]] = c[2]]
             /\ by_id' = by_id \cup {c}
        BY <1>7 DEF RecvObject
    <2>2. listing \subseteq objects
        BY <1>7, <2>1 DEF Listings, RecvObject, ReceiverAgrees
    <2>3. PICK c \in objects :
             /\ cursors' = [cursors EXCEPT ![c[1]] = c[2]]
             /\ by_id' = by_id \cup {c}
        BY <2>1, <2>2
    <2>4. objects' = objects
        BY <1>7 DEF RecvObject
    <2>5. ASSUME NEW s \in ObjStreams, cursors'[s] # NoCursor PROVE \E d \in objects : d[1] = s
        BY <1>7, <2>3, <2>5 DEF RecvObject
    <2> QED
        BY <2>3, <2>4, <2>5
<1>8. CASE RecvNothing
    BY <1>8 DEF RecvNothing
<1>9. CASE Reopen
    BY <1>9 DEF Reopen
<1>10. ASSUME NEW c \in ObjCofres, AckRemove(c) PROVE ObjBookkeepingLive'
    <2>1. rcv.stage = "idle" /\ cursors' = cursors /\ by_id' = by_id \ {c}
        BY <1>10 DEF AckRemove
    <2>2. CASE objects' = objects \ {c} /\ rcv' = [stage |-> "drained", work |-> {c}]
        BY <2>1, <2>2
    <2>3. CASE UNCHANGED <<objects, rcv>>
        BY <2>1, <2>3
    <2> QED
        BY <1>10, <2>2, <2>3 DEF AckRemove
<1>11. CASE UNCHANGED objVars
    BY <1>11 DEF objVars
<1> QED
    BY <1>1, <1>2, <1>3, <1>4, <1>5, <1>6, <1>7, <1>8, <1>9, <1>10, <1>11
    DEF ObjNext, ObjWork, ObjRead

\* A step of the sender or the receiver keeps the whole invariant.
LEMMA ObjStepInv == ObjIndInv /\ [ObjNext]_objVars => ObjIndInv'
BY ObjStepType, ObjStepSender, ObjStepReceiver, ObjStepNonePassed, ObjStepBookkeeping
DEF ObjIndInv, ObjInv

\* Whatever the two processes interleave, no object is passed over unless a
\* listing hid it, and the receiver's maps hold only what is in the bucket
\* (send, recv, ack of the object-store substrate).
THEOREM ObjAlwaysSound == ObjSpec => []ObjInv
<1>1. ObjIndInv => ObjInv
    BY DEF ObjIndInv
<1> QED
    BY <1>1, ObjInitInv, ObjStepInv, PTL DEF ObjSpec

\* Every step of the bucket is a step of Holding or leaves it unchanged.
LEMMA ObjStepHolds ==
    ASSUME ObjIndInv, [ObjNext]_objVars
    PROVE  [FALSE \/ ObjPromise!HoldNext]_(ObjPromise!holdingVars)
<1> USE DEF senderVars, receiverVars
<1> DEFINE Held == objects \ objAsked
<1>a. SUFFICES \/ Held' = Held /\ objHanded' = objHanded
               \/ ObjPromise!HoldNext
    BY DEF ObjPromise!holdingVars
<1>1. ASSUME NEW s \in ObjStreams, PutMkdir(s) PROVE Held' = Held /\ objHanded' = objHanded
    BY <1>1 DEF PutMkdir
<1>2. CASE PutWrite
    BY <1>2 DEF PutWrite
<1>3. CASE PutRename
    <2>1. PICK c \in put.work : objects' = objects \cup {c}
        BY <1>3 DEF PutRename
    <2>2. c \in ObjCofres /\ objAsked' = objAsked /\ objHanded' = objHanded
        BY <1>3 DEF PutRename, ObjIndInv, ObjTypeOK
    <2>3. CASE c \in objAsked
        BY <2>1, <2>2, <2>3
    <2>4. CASE c \notin objAsked
        <3>1. Held' = Held \cup {c}
            BY <2>1, <2>2, <2>4
        <3>2. {c} \in SUBSET ObjCofres /\ {c} # {}
            BY <2>2
        <3>3. ObjPromise!Take({c})
            BY <2>2, <3>1, <3>2 DEF ObjPromise!Take
        <3> QED
            BY <3>2, <3>3 DEF ObjPromise!HoldNext
    <2> QED
        BY <2>3, <2>4
<1>4. CASE AckDrained
    BY <1>4 DEF AckDrained
<1>5. CASE AckRmdir
    <2>1. objects' = objects
        BY <1>5, RmdirKeepsObjects
    <2> QED
        BY <1>5, <2>1 DEF AckRmdir
<1>6. CASE ListBegin
    BY <1>6 DEF ListBegin
<1>7. CASE RecvObject
    <2>1. PICK listing \in Listings : \E c \in listing : objHanded' = objHanded \cup {c}
        BY <1>7 DEF RecvObject
    <2>2. listing \subseteq ObjCofres
        BY <2>1 DEF Listings, ObjIndInv, ObjTypeOK
    <2>3. PICK c \in ObjCofres : objHanded' = objHanded \cup {c}
        BY <2>1, <2>2
    <2>4. ObjPromise!Hand(c)
        BY <1>7, <2>3 DEF RecvObject, ObjPromise!Hand
    <2> QED
        BY <2>3, <2>4 DEF ObjPromise!HoldNext
<1>8. CASE RecvNothing
    BY <1>8 DEF RecvNothing
<1>9. CASE Reopen
    BY <1>9 DEF Reopen
<1>10. ASSUME NEW c \in ObjCofres, AckRemove(c) PROVE ObjPromise!HoldNext
    <2>1. c \in objHanded
        BY <1>10 DEF AckRemove, ObjIndInv, ReceiverAgrees
    <2>2. Held' = Held \ {c} /\ objHanded' = objHanded
        BY <1>10 DEF AckRemove
    <2>3. ObjPromise!Release(c)
        BY <2>1, <2>2 DEF ObjPromise!Release
    <2> QED
        BY <2>3 DEF ObjPromise!HoldNext
<1>11. CASE UNCHANGED objVars
    BY <1>11 DEF objVars
<1> QED
    BY <1>1, <1>2, <1>3, <1>4, <1>5, <1>6, <1>7, <1>8, <1>9, <1>10, <1>11
    DEF ObjNext, ObjWork, ObjRead

\* The object-store substrate implements the durable substrate: what was PUT
\* stays until its acknowledgement is asked for after it was handed out, through
\* every restart of the receiver and every race with the removal of a
\* directory (send, recv, ack).
THEOREM BucketIsHolding == ObjSpec => ObjIsHolding
<1>1. ObjInit => ObjPromise!HoldInit
    BY DEF ObjInit, ObjPromise!HoldInit
<1> QED
    BY <1>1, ObjInitInv, ObjStepInv, ObjStepHolds, PTL
    DEF ObjSpec, ObjIsHolding, ObjPromise!HoldSpec
=============================================================================
