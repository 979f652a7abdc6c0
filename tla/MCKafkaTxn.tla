----------------------------- MODULE MCKafkaTxn -----------------------------
(* Two deployments for KafkaTxn.  "zombie": two instances of one application, *)
(* of which the first to call InitProducerId becomes the zombie, on one       *)
(* connection each and without faults.  "alone": one instance that may        *)
(* reconnect, with store errors and a broker restart.                         *)
EXTENDS KafkaTxn, TLC

CONSTANTS t1, t2, a1, a2, b1

VARIABLE deployment

TwoInstances == {a1, a2}

OwnerOf == [p \in Producers |-> IF p = b1 THEN t2 ELSE t1]
MCOffsets == Producers \X (1..MaxTxns)

PartitionSymmetry == Permutations(Partitions)

Deployed ==
    \/ deployment = "zombie" /\ errors' = 0 /\ crashes' = 0 /\ \A p \in Producers : prod'[p].conn = 1
    \/ deployment = "alone" /\ \A p \in Producers \ {a1} : prod'[p] = prod[p]

MCInit == Init /\ deployment \in {"zombie", "alone"}
MCNext == Next /\ Deployed /\ UNCHANGED deployment
MCSpec == MCInit /\ [][MCNext]_<<vars, deployment>>

\* ConfirmedAtomic, for an instance that is alone.
AloneConfirmedAtomic == deployment = "alone" => ConfirmedAtomic
=============================================================================
