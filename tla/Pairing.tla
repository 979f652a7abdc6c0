------------------------------ MODULE Pairing -------------------------------
(***************************************************************************)
(* Short-code pairing: the state machine of datarail-identity pairing.rs,  *)
(* driven by two `datarail pair` processes over a TCP connection           *)
(* (cmd_pair_remote), and by a caller that uses it directly in any order.  *)
(*                                                                         *)
(* SPAKE2 is symbolic: a message is its side and a nonce, and the key is   *)
(* the code, the two bound identities and the two messages.  The           *)
(* connection delivers frames in order; one frame may be altered on the     *)
(* way.                                                                    *)
(***************************************************************************)
EXTENDS Integers, Sequences

CONSTANTS
    Codes,              \* codes the two users may type
    MAX_ATTEMPTS,
    MaxApiCalls

VARIABLES
    pairs,              \* the two processes: stage, code, statics, pairing, result
    lines,              \* frames under way, by their sender
    altered,            \* whether a frame was altered in transit
    api, apiWrong, apiKeys, apiCalls    \* a Pairing called directly

pairVars == <<pairs, lines, altered, api, apiWrong, apiKeys, apiCalls>>

Initiator == 1
Responder == 2
Sides == {Initiator, Responder}
PeerSide(s) == 3 - s

\* The static public key of an endpoint, and one that belongs to neither.
Static(s) == 10 + s
Foreign == 19

-----------------------------------------------------------------------------
(* pairing.rs.                                                             *)

\* Bug: the static keys are not bound.
bound_identity_none(a, b) == <<0, 0>>

bound_identity(a, b) == <<a, b>>

Start(side, code, a, b) ==
    [phase |-> "started", side |-> side, code |-> code, bound |-> bound_identity(a, b),
     failures |-> 0, key |-> <<>>]

OutMessage(p) == <<p.side, 30 + p.side>>

SharedKey(p, peer) == <<p.code>> \o p.bound \o <<peer[2] + OutMessage(p)[2]>>

confirm_tag(side, p) == <<side>> \o p.bound \o p.key

Result(p, what) == [pairing |-> p, what |-> what]

\* A message that is not the other side's leaves the pairing burned.
derive(p, peer) ==
    IF p.phase = "burned" THEN Result(p, "Burned")
    ELSE IF p.phase # "started" THEN Result(p, "WrongState")
    ELSE IF Len(peer) # 2 \/ peer[1] # PeerSide(p.side)
         THEN Result([p EXCEPT !.phase = "burned"], "BadPeerMessage")
    ELSE Result([p EXCEPT !.phase = "deriving", !.key = SharedKey(p, peer)], "derived")

register_failure(p) ==
    [p EXCEPT !.failures = @ + 1, !.phase = IF p.failures + 1 >= MAX_ATTEMPTS THEN "burned" ELSE @]

confirm(p, tag) ==
    IF p.phase = "burned" THEN Result(p, "Burned")
    ELSE IF p.phase # "deriving" THEN Result(p, "WrongState")
    ELSE IF tag = confirm_tag(PeerSide(p.side), p) THEN Result([p EXCEPT !.phase = "done"], "key")
    ELSE Result(register_failure(p), "ConfirmFailed")

-----------------------------------------------------------------------------
(* cmd_pair_remote: the order of reads and writes of the two roles.        *)

Fresh(c) ==
    [stage |-> 1, code |-> c, peerStatic |-> 0, pairing |-> Start(Initiator, c, 0, 0),
     frame |-> <<>>, out |-> "running"]

PairInit ==
    /\ \E f \in [Sides -> Codes] : pairs = [s \in Sides |-> Fresh(f[s])]
    /\ lines = [s \in Sides |-> <<>>]
    /\ altered = FALSE
    /\ api = Start(Initiator, 1, Static(1), Static(2))
    /\ apiWrong = 0 /\ apiKeys = 0 /\ apiCalls = 0

Script(s) ==
    IF s = Initiator
    THEN <<"writeStatic", "readStatic", "start", "writeMsg", "readMsg", "derive", "writeTag", "readTag", "confirm">>
    ELSE <<"readStatic", "writeStatic", "start", "readMsg", "writeMsg", "derive", "readTag", "writeTag", "confirm">>

Running(s) == pairs[s].out = "running"
Doing(s, what) == Running(s) /\ Script(s)[pairs[s].stage] = what
Advance(s, p) == pairs' = [pairs EXCEPT ![s] = [p EXCEPT !.stage = @ + 1]]
aside == <<altered, api, apiWrong, apiKeys, apiCalls>>

PairWrite(s) ==
    \E w \in {[what |-> "writeStatic", frame |-> <<Static(s)>>],
              [what |-> "writeMsg", frame |-> OutMessage(pairs[s].pairing)],
              [what |-> "writeTag", frame |-> confirm_tag(s, pairs[s].pairing)]} :
       /\ Doing(s, w.what)
       /\ lines' = [lines EXCEPT ![s] = Append(@, w.frame)]
       /\ Advance(s, pairs[s])
       /\ UNCHANGED aside

Reading(s) == \E what \in {"readStatic", "readMsg", "readTag"} : Doing(s, what)

PairRead(s) ==
    LET peer == PeerSide(s)
    IN  /\ Reading(s) /\ lines[peer] # <<>>
        /\ lines' = [lines EXCEPT ![peer] = Tail(@)]
        /\ Advance(s, [pairs[s] EXCEPT !.frame = Head(lines[peer])])
        /\ UNCHANGED aside

\* Both statics are known: the Pairing is built on them, in the same order.
Started(s, peer) ==
    IF s = Initiator THEN Start(s, pairs[s].code, Static(s), peer)
                     ELSE Start(s, pairs[s].code, peer, Static(s))

PairStart(s) ==
    LET peer == pairs[s].frame[1]
    IN  /\ Doing(s, "start")
        /\ Advance(s, [pairs[s] EXCEPT !.peerStatic = peer, !.pairing = Started(s, peer)])
        /\ UNCHANGED <<lines, aside>>

\* derive and confirm take the frame read last; an error ends the process.
PairCompute(s) ==
    \E c \in {[what |-> "derive", res |-> derive(pairs[s].pairing, pairs[s].frame), ok |-> "derived", out |-> "running"],
              [what |-> "confirm", res |-> confirm(pairs[s].pairing, pairs[s].frame), ok |-> "key", out |-> "paired"]} :
       /\ Doing(s, c.what)
       /\ Advance(s, [pairs[s] EXCEPT !.pairing = c.res.pairing,
                                      !.out = IF c.res.what = c.ok THEN c.out ELSE "failed"])
       /\ UNCHANGED <<lines, aside>>

\* The peer is gone: the read fails.
PairHangUp(s) ==
    /\ Reading(s) /\ lines[PeerSide(s)] = <<>> /\ pairs[PeerSide(s)].out = "failed"
    /\ pairs' = [pairs EXCEPT ![s].out = "failed"]
    /\ UNCHANGED <<lines, aside>>

\* A process is killed, or its 30 s read deadline passes on a slow peer.
PairDies(s) ==
    /\ Running(s)
    /\ pairs' = [pairs EXCEPT ![s].out = "failed"]
    /\ UNCHANGED <<lines, aside>>

AlterFrame(s) ==
    /\ ~ altered /\ lines[s] # <<>>
    /\ altered' = TRUE
    /\ lines' = [lines EXCEPT ![s][1] = IF Len(@) = 1 THEN <<Foreign>> ELSE <<Foreign, Foreign>>]
    /\ UNCHANGED <<pairs, api, apiWrong, apiKeys, apiCalls>>

-----------------------------------------------------------------------------
(* A Pairing under direct calls.                                           *)

Matching == Start(Responder, 1, Static(1), Static(2))
RightTag == confirm_tag(Responder, derive(Matching, OutMessage(api)).pairing)

ApiDerive(m) ==
    /\ apiCalls < MaxApiCalls /\ apiCalls' = apiCalls + 1
    /\ api' = derive(api, m).pairing
    /\ UNCHANGED <<pairs, lines, altered, apiWrong, apiKeys>>

ApiConfirm(t) ==
    LET r == confirm(api, t)
    IN  /\ apiCalls < MaxApiCalls /\ apiCalls' = apiCalls + 1
        /\ api' = r.pairing
        /\ apiKeys' = IF r.what = "key" THEN apiKeys + 1 ELSE apiKeys
        /\ apiWrong' = IF r.what = "ConfirmFailed" THEN apiWrong + 1 ELSE apiWrong
        /\ UNCHANGED <<pairs, lines, altered>>

PairStep(s) == PairWrite(s) \/ PairRead(s) \/ PairStart(s) \/ PairCompute(s) \/ PairHangUp(s)

PairNext ==
    \E s \in Sides : PairStep(s) \/ PairDies(s) \/ AlterFrame(s)

ApiNext ==
    \/ \E m \in {OutMessage(Matching), <<>>} : ApiDerive(m)
    \/ \E t \in {RightTag, <<Responder>>} : ApiConfirm(t)

PairFair == \A s \in Sides : WF_pairVars(PairStep(s))

-----------------------------------------------------------------------------
(* Properties.                                                             *)

\* A side that reports a pairing has the other's real static key, and the other
\* typed the same code; two sides that do hold the same secret.
PairAuthentic ==
    /\ \A s \in Sides : pairs[s].out = "paired" =>
          /\ pairs[s].peerStatic = Static(PeerSide(s))
          /\ pairs[s].code = pairs[PeerSide(s)].code
    /\ (\A s \in Sides : pairs[s].out = "paired")
          => pairs[Initiator].pairing.key = pairs[Responder].pairing.key

\* The reads and writes of the two roles never leave both waiting: every
\* pairing ends, with a result or an error, on both sides.
PairTerminates == <>(\A s \in Sides : pairs[s].out # "running")

\* Two users with the same code whose frames arrive as sent are never told
\* that confirmation failed.
PairSucceeds ==
    \A s \in Sides : pairs[s].pairing.failures > 0 =>
       altered \/ pairs[Initiator].code # pairs[Responder].code

\* In whatever order the methods are called, the key is given out at most once,
\* only for the right tag, and a code never survives MAX_ATTEMPTS wrong tags.
PairingBurnsAtCap ==
    /\ apiKeys <= 1
    /\ apiWrong <= MAX_ATTEMPTS
    /\ apiWrong = MAX_ATTEMPTS => api.phase = "burned" /\ apiKeys = 0

\* Pairing: who pairs has the right peer, who should pair is not refused, and a
\* code is good for one key and MAX_ATTEMPTS wrong tags.
PairingInv == PairAuthentic /\ PairSucceeds /\ PairingBurnsAtCap
=============================================================================
