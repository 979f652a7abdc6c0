------------------------------ MODULE SendRecv ------------------------------
(***************************************************************************)
(* `datarail send` and `datarail recv`: two processes, one connection, one *)
(* cofre, over plain TCP or over a Noise_KK hop (datarail-identity noise.rs*)
(* and noise_substrate.rs; cmd_send, cmd_recv, build_hop of the CLI).      *)
(*                                                                         *)
(* Each side is configured on its own: with or without --noise-secret, and *)
(* with a pinned peer that may be wrong.  Noise is symbolic: a handshake   *)
(* message can be read by the side whose static and pin are the ones it    *)
(* was made with; a transport message by the holder of the session key.    *)
(***************************************************************************)
EXTENDS Integers, Sequences

CONSTANT HopCounts              \* values of --count

VARIABLES
    hop,                        \* the two configurations, chosen before the start
    snd, rcvr,                  \* the processes: what they do next, session key, nonce
    toRecv, toSend,             \* frames of the connection
    sinkFile,                   \* cofres whose records the sink holds
    received, hopAltered

hopVars == <<hop, snd, rcvr, toRecv, toSend, sinkFile, received, hopAltered>>

SendStatic == 1
RecvStatic == 2
Stranger == 3
TheCofre == 7

\* What the static-static and ephemeral-static agreements of KK mix in.
KkSecret(local, remote) == {local, remote}

\* Bug: the responder does not mix in the static it pinned.
ResponderKeyUnpinned(pin) == KkSecret(SendStatic, RecvStatic)

ResponderKey(pin) == KkSecret(pin, RecvStatic)

SendKey == KkSecret(SendStatic, hop.sendPin)

\* A frame: kind, the statics it is keyed with, and a counter or a cofre.
Frame(kind, statics, n) == [kind |-> kind, statics |-> statics, n |-> n]

HopInit ==
    /\ hop \in [sendNoise : BOOLEAN, recvNoise : BOOLEAN, sendPin : {RecvStatic, Stranger},
                recvPin : {SendStatic, Stranger}, count : HopCounts, lands : BOOLEAN]
    /\ snd = [at |-> "connect", session |-> {}, nonce |-> 0]
    /\ rcvr = [at |-> "accept", session |-> {}, nonce |-> 0]
    /\ toRecv = <<>> /\ toSend = <<>>
    /\ sinkFile = <<>> /\ received = 0 /\ hopAltered = FALSE

-----------------------------------------------------------------------------
(* The two ends.                                                           *)

\* The listener is bound before it is announced; connect_with_retry waits for it.
Connected ==
    /\ snd.at = "connect" /\ rcvr.at = "accept"
    /\ snd' = [snd EXCEPT !.at = IF hop.sendNoise THEN "write1" ELSE "send"]
    /\ rcvr' = [rcvr EXCEPT !.at = IF hop.recvNoise THEN "read1" ELSE "recv"]
    /\ UNCHANGED <<hop, toRecv, toSend, sinkFile, received, hopAltered>>

SendHandshake1 ==
    /\ snd.at = "write1"
    /\ toRecv' = Append(toRecv, Frame("kk1", SendKey, 0))
    /\ snd' = [snd EXCEPT !.at = "read2"]
    /\ UNCHANGED <<hop, rcvr, toSend, sinkFile, received, hopAltered>>

\* read_handshake, then write_handshake and into_transport: the responder holds
\* its transport before the initiator has read the reply.
RecvHandshake ==
    LET m == Head(toRecv)
        key == ResponderKey(hop.recvPin)
        ok == m.kind = "kk1" /\ m.statics = key
    IN  /\ rcvr.at = "read1" /\ toRecv # <<>>
        /\ toRecv' = Tail(toRecv)
        /\ toSend' = IF ok THEN Append(toSend, Frame("kk2", key, 0)) ELSE toSend
        /\ rcvr' = IF ok THEN [rcvr EXCEPT !.at = "recv", !.session = key]
                         ELSE [rcvr EXCEPT !.at = "failed"]
        /\ UNCHANGED <<hop, snd, sinkFile, received, hopAltered>>

SendHandshake2 ==
    LET m == Head(toSend)
        ok == m.kind = "kk2" /\ m.statics = SendKey
    IN  /\ snd.at = "read2" /\ toSend # <<>>
        /\ toSend' = Tail(toSend)
        /\ snd' = IF ok THEN [snd EXCEPT !.at = "send", !.session = SendKey]
                        ELSE [snd EXCEPT !.at = "failed"]
        /\ UNCHANGED <<hop, rcvr, toRecv, sinkFile, received, hopAltered>>

\* The write of the one cofre; success is reported once it is in the socket.
SendCofre ==
    /\ snd.at = "send"
    /\ toRecv' = Append(toRecv, IF hop.sendNoise THEN Frame("sealed", snd.session, snd.nonce)
                                                 ELSE Frame("plain", {}, 0))
    /\ snd' = [snd EXCEPT !.at = "sent", !.nonce = @ + 1]
    /\ UNCHANGED <<hop, rcvr, toSend, sinkFile, received, hopAltered>>

Decodes(m) ==
    IF hop.recvNoise
    THEN m.kind = "sealed" /\ m.statics = rcvr.session /\ m.n = rcvr.nonce
    ELSE m.kind = "plain"

\* rail.recv, offload and ack: a cofre that fails verification or its contract is
\* set aside by the terminal and still counts.
RecvCofre ==
    /\ rcvr.at = "recv" /\ received < hop.count /\ toRecv # <<>>
    /\ toRecv' = Tail(toRecv)
    /\ IF Decodes(Head(toRecv))
       THEN /\ received' = received + 1
            /\ rcvr' = [rcvr EXCEPT !.nonce = @ + 1, !.at = IF hop.lands THEN "commit" ELSE "recv"]
       ELSE rcvr' = [rcvr EXCEPT !.at = "failed"] /\ UNCHANGED received
    /\ UNCHANGED <<hop, snd, toSend, sinkFile, hopAltered>>

SinkTakes ==
    /\ rcvr.at = "commit"
    /\ rcvr' = [rcvr EXCEPT !.at = "recv"]
    /\ sinkFile' = Append(sinkFile, TheCofre)
    /\ UNCHANGED <<hop, snd, toRecv, toSend, received, hopAltered>>

Enough == received >= hop.count

RecvReports ==
    /\ rcvr.at = "recv" /\ Enough
    /\ rcvr' = [rcvr EXCEPT !.at = "done"]
    /\ UNCHANGED <<hop, snd, toRecv, toSend, sinkFile, received, hopAltered>>

-----------------------------------------------------------------------------
(* Deadlines and faults.                                                   *)

\* A read that nothing will answer: the handshake's deadline, or recv's 30 s.
SendGivesUp ==
    /\ snd.at \in {"connect", "read2"} /\ toSend = <<>> /\ rcvr.at = "failed"
    /\ snd' = [snd EXCEPT !.at = "failed"]
    /\ UNCHANGED <<hop, rcvr, toRecv, toSend, sinkFile, received, hopAltered>>

Overdue == toRecv = <<>> /\ ~ Enough /\ snd.at \in {"sent", "failed"}

RecvGivesUp ==
    /\ rcvr.at \in {"accept", "read1", "recv"} /\ Overdue
    /\ rcvr' = [rcvr EXCEPT !.at = "failed"]
    /\ UNCHANGED <<hop, snd, toRecv, toSend, sinkFile, received, hopAltered>>

\* Two sides that both wait on the connection, one of them for a handshake.
BothWait ==
    /\ snd.at = "read2" /\ toSend = <<>> /\ toRecv = <<>> /\ rcvr.at \in {"read1", "recv"}
    /\ snd' = [snd EXCEPT !.at = "failed"]
    /\ UNCHANGED <<hop, rcvr, toRecv, toSend, sinkFile, received, hopAltered>>

SendDies ==
    /\ snd.at \notin {"sent", "failed"}
    /\ snd' = [snd EXCEPT !.at = "failed"]
    /\ UNCHANGED <<hop, rcvr, toRecv, toSend, sinkFile, received, hopAltered>>

\* Killed, or its sink's write fails.
RecvDies ==
    /\ rcvr.at \notin {"done", "failed"}
    /\ rcvr' = [rcvr EXCEPT !.at = "failed"]
    /\ UNCHANGED <<hop, snd, toRecv, toSend, sinkFile, received, hopAltered>>

AlterHop ==
    /\ ~ hopAltered /\ toRecv # <<>>
    /\ hopAltered' = TRUE
    /\ toRecv' = [toRecv EXCEPT ![1] = Frame("noise", {}, 0)]
    /\ UNCHANGED <<hop, snd, rcvr, toSend, sinkFile, received>>

SendStep == SendHandshake1 \/ SendHandshake2 \/ SendCofre \/ SendGivesUp \/ BothWait
RecvStep == RecvHandshake \/ RecvCofre \/ SinkTakes \/ RecvReports \/ RecvGivesUp
HopNext == Connected \/ SendStep \/ RecvStep \/ SendDies \/ RecvDies \/ AlterHop

-----------------------------------------------------------------------------
(* Properties.                                                             *)

\* A receiver with --noise-secret lands only what the peer it pinned sealed for
\* it, and a sender with one reports success only when the receiver holds the
\* same session.
HopMutual ==
    /\ hop.recvNoise /\ sinkFile # <<>> =>
          hop.recvPin = SendStatic /\ hop.sendPin = RecvStatic /\ hop.sendNoise
    /\ hop.sendNoise /\ snd.at = "sent" =>
          hop.recvNoise /\ rcvr.session = snd.session

\* When recv reports, its sink holds the records of every cofre it counted that
\* was not set aside, once each; and the count was met.
RecvReportHolds ==
    rcvr.at = "done" =>
       /\ received = hop.count
       /\ Len(sinkFile) = IF hop.lands THEN received ELSE 0

\* The hop: with keys pinned only the pinned peer is heard, and a reported count
\* is in the sink.
HopInv == HopMutual /\ RecvReportHolds

\* Whatever the two configurations, both processes end.
HopEnds == <>(snd.at \in {"sent", "failed"} /\ rcvr.at \in {"done", "failed"})
=============================================================================
