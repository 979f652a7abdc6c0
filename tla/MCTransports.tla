---------------------------- MODULE MCTransports ----------------------------
(***************************************************************************)
(* The substrates and the hop between two machines, on small instances.    *)
(* They share no state, so a behaviour is a behaviour of one of them.      *)
(***************************************************************************)
EXTENDS Wal, ObjectStore, ShmemRing, Streams, FaspLink, Resumable, Pairing, SendRecv

VARIABLE link   \* the component that runs

durableVars == <<walVars, objVars>>
pipeVars == <<ringVars, streamVars>>
lossyVars == <<faspVars, resVars>>
peerVars == <<pairVars, hopVars>>

LinkInit ==
    /\ link \in {"wal", "objects", "ring", "stream", "fasp", "resumable", "pair", "api", "hop"}
    /\ WalInit /\ ObjInit /\ RingInit /\ FaspInit /\ ResInit
    /\ StreamInit /\ (link # "stream" => decodeFirst)
    /\ PairInit /\ (link # "pair" => \A s \in Sides : pairs[s].code = 1)
    /\ HopInit
    /\ link # "hop" => hop = [sendNoise |-> FALSE, recvNoise |-> FALSE, sendPin |-> RecvStatic,
                              recvPin |-> SendStatic, count |-> 1, lands |-> TRUE]

LinkNext ==
    /\ UNCHANGED link
    /\ \/ /\ UNCHANGED <<pipeVars, lossyVars, peerVars>>
          /\ \/ link = "wal" /\ WalNext /\ UNCHANGED objVars
             \/ link = "objects" /\ ObjNext /\ UNCHANGED walVars
       \/ /\ UNCHANGED <<durableVars, lossyVars, peerVars>>
          /\ \/ link = "ring" /\ RingNext /\ UNCHANGED streamVars
             \/ link = "stream" /\ StreamNext /\ UNCHANGED ringVars
       \/ /\ UNCHANGED <<durableVars, pipeVars, peerVars>>
          /\ \/ link = "fasp" /\ FaspNext /\ UNCHANGED resVars
             \/ link = "resumable" /\ ResNext /\ UNCHANGED faspVars
       \/ /\ UNCHANGED <<durableVars, pipeVars, lossyVars>>
          /\ \/ link = "pair" /\ PairNext /\ UNCHANGED hopVars
             \/ link = "api" /\ ApiNext /\ UNCHANGED hopVars
             \/ link = "hop" /\ HopNext /\ UNCHANGED pairVars

LinkFair ==
    /\ WF_walVars(link = "wal" /\ WalWork) /\ SF_walVars(link = "wal" /\ WalRead)
    /\ WF_faspVars(link = "fasp" /\ FaspSend) /\ SF_faspVars(link = "fasp" /\ FaspRecv)
    /\ WF_faspVars(link = "fasp" /\ flush_acks)
    /\ \A n \in Numbers : WF_faspVars(link = "fasp" /\ Retransmit(n))
    /\ SF_faspVars(link = "fasp" /\ OldestArrives)
    /\ SF_faspVars(link = "fasp" /\ OldestAcked)
    /\ WF_resVars(link = "resumable" /\ ResFairStep)
    /\ \A s \in Sides : WF_pairVars(link = "pair" /\ PairStep(s))
    /\ WF_hopVars(link = "hop" /\ Connected)
    /\ WF_hopVars(link = "hop" /\ SendStep) /\ WF_hopVars(link = "hop" /\ RecvStep)

LinkSpec == LinkInit /\ [][LinkNext]_<<link, durableVars, pipeVars, lossyVars, peerVars>> /\ LinkFair

\* Each link makes progress: the WAL hands over what is stored, reliable UDP
\* delivers every message send accepted and never slows down for a lost one, the
\* resumable link delivers through partitions, and neither cmd_pair_remote nor
\* cmd_send and cmd_recv wait for ever.
LinkProgress ==
    /\ WalDelivers /\ ResDelivers /\ FaspLossKeepsWindow
    /\ link = "fasp" => FaspDelivers
    /\ link = "pair" => PairTerminates
    /\ link = "hop" => HopEnds
=============================================================================
