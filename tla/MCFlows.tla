------------------------------ MODULE MCFlows ------------------------------
(***************************************************************************)
(* The components that carry records in, on small instances: a pair of     *)
(* terminals, the Kafka ingest daemon and the Kafka broker's request path. *)
(* They share no state, so a behaviour is a behaviour of one of them.      *)
(***************************************************************************)
EXTENDS Offloading, Ingest, KafkaEdge

VARIABLE flow   \* the component that runs

\* One route, one contract, one sender credential; a record that breaks the
\* contract is among the batches.
TheContract == ContentContract(2, <<1>>)
TheSource ==
    [route_id |-> <<11>>, stream_id |-> <<12>>, aead_alg |-> <<1>>,
     dest_x25519_pk |-> x25519_public(40), tenant_secret |-> 41, contract |-> TheContract,
     source_seed |-> 42, sender |-> <<SenderCredential(43, <<60>>, 44, <<3>>)>>]
TheDest ==
    [route_id |-> <<11>>, stream_id |-> <<12>>, dest_x25519_secret |-> 40,
     contract |-> TheContract, pinned_source_vk |-> verifying_key(42),
     sender_issuer_vk |-> verifying_key(43), min_sender_epoch |-> 2]
NoKeyValue == <<0>>
TheKeys == {hmac_blake3(41, <<q>>) : q \in {0, 1, 2, 99}}
TheBatches == {<<<<1>>, <<1, 5>>>>, <<<<1, 6>>>>, <<<<2>>>>}

\* Kafka requests: null values, a damaged batch, an unknown format, a value
\* the contract refuses, a partition listed twice, acks=0.
RecordBatch(magic, intact, values) == [magic |-> magic, intact |-> intact, values |-> values]
Listed(part, at, blob) == [part |-> part, at |-> at, blob |-> blob]
Kafka(api, acks, entries) == [api |-> api, acks |-> acks, entries |-> entries]
TheRequests ==
    {Kafka("api_versions", 0, <<>>), Kafka("handshake", 0, <<>>), Kafka("unknown", 0, <<>>),
     Kafka("authenticate", 1, <<>>), Kafka("authenticate", 0, <<>>),
     Kafka("produce", 1, <<Listed(1, 0, <<RecordBatch(2, TRUE, <<1, 0, 3>>), RecordBatch(1, FALSE, <<2>>)>>),
                           Listed(2, 0, <<RecordBatch(2, FALSE, <<3>>)>>)>>),
     Kafka("produce", 0, <<Listed(1, 0, <<RecordBatch(2, TRUE, <<4>>)>>)>>),
     Kafka("produce", 1, <<Listed(1, 0, <<RecordBatch(2, TRUE, <<5, 9>>)>>),
                           Listed(1, 0, <<RecordBatch(2, TRUE, <<6>>)>>)>>),
     Kafka("produce", 1, <<Listed(1, 0, <<RecordBatch(2, TRUE, <<7, 9>>)>>)>>),
     Kafka("produce", 1, <<Listed(1, 0, <<RecordBatch(2, TRUE, <<8>>)>>),
                           Listed(2, 0, <<RecordBatch(3, TRUE, <<8>>)>>)>>),
     Kafka("fetch", 0, <<Listed(1, 0, <<>>), Listed(2, 0, <<>>)>>),
     Kafka("fetch", 0, <<Listed(1, 1, <<>>)>>),
     Kafka("list_offsets", 0, <<Listed(1, -2, <<>>), Listed(1, -1, <<>>)>>),
     Kafka("offset_commit", 0, <<Listed(1, 1, <<>>), Listed(2, 1, <<>>)>>),
     Kafka("offset_fetch", 0, <<Listed(1, 0, <<>>)>>)}

FlowInit ==
    /\ flow \in {"terminals", "ingest", "edge"}
    /\ OffInit /\ IngestInit /\ EdgeInit
    /\ flow # "edge" => ~esasl

FlowNext ==
    /\ UNCHANGED flow
    /\ \/ flow = "terminals" /\ OffNext /\ UNCHANGED <<ingestVars, edgeVars>>
       \/ flow = "ingest" /\ IngestNext /\ UNCHANGED <<offVars, edgeVars>>
       \/ flow = "edge" /\ EdgeNext /\ UNCHANGED <<offVars, ingestVars>>
=============================================================================
