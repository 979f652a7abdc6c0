----------------------------- MODULE ShmemRing ------------------------------
(***************************************************************************)
(* The shared-memory substrate (datarail-substrate-shmem): a lock-free     *)
(* byte ring between one producer and one consumer process.  The cursors   *)
(* are atomics; the data bytes are not, so they are copied one at a time   *)
(* and any step of the peer may fall between two of them.                  *)
(*                                                                         *)
(* The length prefix is one cell here; a frame's body cells carry its      *)
(* number and their place in it, so that a mixed-up frame shows.           *)
(***************************************************************************)
EXTENDS Integers, Sequences

CONSTANTS
    RingCells,      \* capacity of the data region
    BodyLens,       \* body lengths send is called with
    MaxFrames       \* frames sent

VARIABLES
    ring,           \* the data region
    writeAt, readAt,\* the two monotonic cursors of the header
    prod, cons,     \* the two processes, between their accesses
    framed,         \* bodies whose send returned Ok
    popped,         \* what recv returned
    ringError       \* whether an InvalidData error was ever returned

ringVars == <<ring, writeAt, readAt, prod, cons, framed, popped, ringError>>

Still == [stage |-> "idle", pos |-> 0, left |-> <<>>, frame |-> <<>>]

RingInit ==
    /\ ring = [i \in 0..(RingCells - 1) |-> 0]
    /\ writeAt = 0 /\ readAt = 0
    /\ prod = Still /\ cons = Still
    /\ framed = <<>> /\ popped = <<>>
    /\ ringError = FALSE

Body(k, l) == [i \in 1..l |-> 10 * k + i]

consumerSide == <<readAt, cons, popped>>
producerSide == <<writeAt, prod, framed>>

-----------------------------------------------------------------------------

Fits(total, used) == total <= RingCells - used

\* send: the consumer's cursor is loaded, the frame fits in what is free.
SendCheck(l) ==
    /\ prod.stage = "idle" /\ Len(framed) < MaxFrames
    /\ 1 + l <= RingCells
    /\ LET used == writeAt - readAt
           body == Body(Len(framed) + 1, l)
       IN  IF used < 0 \/ used > RingCells
           THEN ringError' = TRUE /\ UNCHANGED prod
           ELSE /\ Fits(1 + l, used)
                /\ prod' = [stage |-> "copy", pos |-> writeAt, left |-> <<l>> \o body,
                            frame |-> body]
                /\ UNCHANGED ringError
    /\ UNCHANGED <<ring, writeAt, framed, consumerSide>>

\* write_ring, wrapping.
SendCopy ==
    /\ prod.stage = "copy" /\ prod.left # <<>>
    /\ ring' = [ring EXCEPT ![prod.pos % RingCells] = Head(prod.left)]
    /\ prod' = [prod EXCEPT !.pos = @ + 1, !.left = Tail(@)]
    /\ UNCHANGED <<writeAt, framed, ringError, consumerSide>>

SendPublish ==
    /\ prod.stage = "copy" /\ prod.left = <<>>
    /\ writeAt' = prod.pos
    /\ framed' = Append(framed, prod.frame)
    /\ prod' = Still
    /\ UNCHANGED <<ring, ringError, consumerSide>>

-----------------------------------------------------------------------------
\* Bug: the cells are released before they are copied.
RecvCheckReleasing ==
    /\ cons.stage = "idle"
    /\ LET len == ring[readAt % RingCells]
       IN  /\ writeAt - readAt >= 1 + len
           /\ readAt' = readAt + 1 + len
           /\ cons' = [stage |-> "copy", pos |-> readAt + 1,
                       left |-> [i \in 1..len |-> 0], frame |-> <<>>]
    /\ UNCHANGED <<ring, popped, ringError, producerSide>>

\* recv: the producer's cursor is loaded; nothing is there until a whole frame
\* is.  The header of a corrupted ring is refused.
RecvCheck ==
    /\ cons.stage = "idle"
    /\ LET avail == writeAt - readAt
           len == ring[readAt % RingCells]
           bad == avail < 0 \/ (avail >= 1 /\ 1 + len > RingCells)
       IN  /\ avail # 0
           /\ ringError' = (ringError \/ bad)
           /\ IF ~ bad /\ avail >= 1 + len
              THEN cons' = [stage |-> "copy", pos |-> readAt + 1,
                            left |-> [i \in 1..len |-> 0], frame |-> <<>>]
              ELSE UNCHANGED cons
    /\ UNCHANGED <<ring, readAt, popped, producerSide>>

\* read_ring, wrapping.
RecvCopy ==
    /\ cons.stage = "copy" /\ cons.left # <<>>
    /\ cons' = [cons EXCEPT !.pos = @ + 1, !.left = Tail(@),
                            !.frame = Append(@, ring[cons.pos % RingCells])]
    /\ UNCHANGED <<ring, readAt, popped, ringError, producerSide>>

RecvRelease ==
    /\ cons.stage = "copy" /\ cons.left = <<>>
    /\ readAt' = cons.pos
    /\ popped' = Append(popped, cons.frame)
    /\ cons' = Still
    /\ UNCHANGED <<ring, ringError, producerSide>>

RingNext ==
    \/ \E l \in BodyLens : SendCheck(l)
    \/ SendCopy \/ SendPublish
    \/ RecvCheck \/ RecvCopy \/ RecvRelease

-----------------------------------------------------------------------------
\* Every frame comes out once, whole and in the order of the sends, although
\* the bytes are copied outside the atomics and wrap around the ring.
RingFifo ==
    /\ Len(popped) <= Len(framed)
    /\ \A i \in 1..Len(popped) : popped[i] = framed[i]

\* Two well-behaved processes never see the errors that guard against corrupt
\* cursors, and the producer never runs more than the capacity ahead.
RingCursorsSound == ~ ringError /\ readAt <= writeAt /\ writeAt - readAt <= RingCells

\* The ring is a queue of whole frames between two processes.
RingInv == RingFifo /\ RingCursorsSound
=============================================================================
