------------------------------ MODULE Streams -------------------------------
(***************************************************************************)
(* The byte-stream substrates (datarail-rail StreamSubstrate over Unix and *)
(* TCP sockets, datarail-identity NoiseSubstrate after its handshake,      *)
(* datarail-substrate-quic): a sender process writes length-prefixed       *)
(* frames, a receiver process calls recv.  StreamSubstrate and Noise drain *)
(* what is readable and then take one frame; QUIC reads only while it has  *)
(* no whole frame.                                                         *)
(*                                                                         *)
(* The length prefix is one cell; the cells of a body carry the frame's    *)
(* number.  Writes reach the receiver in pieces of any size.  Noise adds a *)
(* message counter on each side, with which every frame is sealed.         *)
(***************************************************************************)
EXTENDS Integers, Sequences

CONSTANTS
    MaxFrame,       \* MAX_COFRE_WIRE_LEN or MAX_NOISE_FRAME, in cells
    StreamLens,     \* body lengths the terminals send
    MaxSends

VARIABLES
    pipe,           \* cells written and not yet read
    unwritten,      \* cells of the frame being written
    streamSent,     \* bodies whose send has begun
    decodeFirst,    \* whether this is the QUIC substrate
    drain,          \* whether recv is in its reading loop
    buf,            \* the receiver's buffer
    streamGot,      \* what recv returned
    refused         \* whether recv returned an InvalidData error

streamVars == <<pipe, unwritten, streamSent, decodeFirst, drain, buf, streamGot, refused>>

HeaderCells == 1
StreamBody(k, l) == [i \in 1..l |-> 10 * k + i]

StreamInit ==
    /\ pipe = <<>> /\ unwritten = <<>> /\ streamSent = <<>>
    /\ decodeFirst \in BOOLEAN
    /\ drain = FALSE /\ buf = <<>> /\ streamGot = <<>>
    /\ refused = FALSE

\* send: a body over the cap is refused before anything is written.
StreamSend(l) ==
    /\ unwritten = <<>> /\ Len(streamSent) < MaxSends
    /\ l <= MaxFrame
    /\ streamSent' = Append(streamSent, StreamBody(Len(streamSent) + 1, l))
    /\ unwritten' = <<l>> \o StreamBody(Len(streamSent) + 1, l)
    /\ UNCHANGED <<pipe, decodeFirst, drain, buf, streamGot, refused>>

\* write_all, in pieces.
StreamWrite(n) ==
    /\ n <= Len(unwritten)
    /\ pipe' = pipe \o SubSeq(unwritten, 1, n)
    /\ unwritten' = SubSeq(unwritten, n + 1, Len(unwritten))
    /\ UNCHANGED <<streamSent, decodeFirst, drain, buf, streamGot, refused>>

\* The callers give the link up on an error of recv.
RecvBegin ==
    /\ ~ drain /\ ~ refused
    /\ drain' = TRUE
    /\ UNCHANGED <<pipe, unwritten, streamSent, decodeFirst, buf, streamGot, refused>>

\* Bug: the bound leaves no room for the length prefix.
OverBoundShort(n) == n > MaxFrame

OverBound(n) == n > MaxFrame + HeaderCells

Complete(b) == Len(b) >= HeaderCells /\ Len(b) >= HeaderCells + b[1]

\* One read of the loop; more may be written before the next.
RecvRead(n) ==
    /\ drain /\ n <= Len(pipe)
    /\ decodeFirst => ~ Complete(buf)
    /\ buf' = buf \o SubSeq(pipe, 1, n)
    /\ pipe' = SubSeq(pipe, n + 1, Len(pipe))
    /\ refused' = OverBound(Len(buf) + n)
    /\ drain' = ~ OverBound(Len(buf) + n)
    /\ UNCHANGED <<unwritten, streamSent, decodeFirst, streamGot>>

\* Nothing more to read right now: take a frame if a whole one is there.  With
\* Noise the frame is opened with the receiver's counter, which fails unless
\* the frame is the next one sent.
RecvTake ==
    /\ drain /\ (pipe = <<>> \/ (decodeFirst /\ Complete(buf)))
    /\ drain' = FALSE
    /\ IF Complete(buf)
       THEN LET end == IF HeaderCells + buf[1] < Len(buf) THEN HeaderCells + buf[1] ELSE Len(buf)
            IN  /\ streamGot' = Append(streamGot, SubSeq(buf, HeaderCells + 1, end))
                /\ buf' = SubSeq(buf, end + 1, Len(buf))
       ELSE UNCHANGED <<buf, streamGot>>
    /\ UNCHANGED <<pipe, unwritten, streamSent, decodeFirst, refused>>

StreamNext ==
    \/ \E l \in StreamLens : StreamSend(l)
    \/ \E n \in 1..(MaxFrame + HeaderCells) : StreamWrite(n) \/ RecvRead(n)
    \/ RecvBegin \/ RecvTake

-----------------------------------------------------------------------------
\* Cofres come out whole and in the order of the sends, however the stream cut
\* the frames up; so the Noise counters of the two ends agree on every frame.
StreamFifo ==
    /\ Len(streamGot) <= Len(streamSent)
    /\ \A i \in 1..Len(streamGot) : streamGot[i] = streamSent[i]

\* recv refuses a stream of well-formed cofres only when more than one of them
\* was waiting: a cofre of the largest size by itself always passes.
StreamRefusesOnlyBacklog == refused => Len(streamSent) >= Len(streamGot) + 2

\* A framed stream is a queue of whole cofres, refused only when a backlog
\* outgrows the receive buffer.
StreamInv == StreamFifo /\ StreamRefusesOnlyBacklog
=============================================================================
