------------------------------- MODULE Ingest -------------------------------
(***************************************************************************)
(* `datarail kafka-ingest` into Postgres: idempotent Kafka producers, the  *)
(* connection threads of datarail-kafka's ingest server, and the one loop  *)
(* of cmd_kafka_ingest that ships a batch at a time (ship_batch_seq) and   *)
(* commits it under the producer's sequence (commit_at_seq).               *)
(*                                                                         *)
(* A producer's n-th batch is the pair <<producer, n>>; it holds one       *)
(* record, so its base_sequence is n - 1 and its high watermark n.  The    *)
(* stream of a batch is the producer id the daemon handed out: topic,      *)
(* partition and epoch are the same for all.                               *)
(***************************************************************************)
EXTENDS PostgresSink, FiniteSets

CONSTANTS
    Producers,      \* Kafka clients
    Daemon,         \* the daemon's session
    MaxBatches,     \* batches of each producer
    MaxInFlight,    \* max.in.flight.requests.per.connection of the clients
    MaxIngestFaults,\* refused statements, lost connections, rail errors, resets
    MaxRestarts

VARIABLES
    next_producer_id,   \* Shared.next_producer_id
    pid,                \* the producer id of each client, 0 before InitProducerId
    wire,               \* requests on each client's connection, oldest first
    unacked,            \* batches each client has sent and has no answer for
    sent,               \* how many batches each client has produced
    acked,              \* batches answered with code 0
    loop,               \* the batch cmd_kafka_ingest is shipping, or NoBatch
    rail,               \* cofres on the daemon's rail
    sink,               \* DestTerminal.sink: records committed and not yet taken
    ingestFaults, restarts,
    disturbed,          \* whether a rail operation failed behind a send
    handed              \* how often each producer id was handed out

ingestVars == <<pgVars, next_producer_id, pid, wire, unacked, sent, acked, loop, rail, sink,
                ingestFaults, restarts, disturbed, handed>>

clientVars == <<pid, wire, unacked, sent, acked>>
daemonVars == <<next_producer_id, loop, rail, sink>>
historyVars == <<ingestFaults, restarts, disturbed, handed>>

NoBatch == <<>>
Batch(p, n) == <<p, n>>

IngestInit ==
    /\ PgInit
    /\ next_producer_id = 1
    /\ pid = [p \in Producers |-> 0]
    /\ wire = [p \in Producers |-> <<>>]
    /\ unacked = [p \in Producers |-> <<>>]
    /\ sent = [p \in Producers |-> 0]
    /\ acked = {}
    /\ loop = NoBatch
    /\ rail = <<>> /\ sink = <<>>
    /\ ingestFaults = 0 /\ restarts = 0
    /\ disturbed = FALSE
    /\ handed = [n \in DedupStreams |-> 0]

-----------------------------------------------------------------------------
(* The clients (external) and the connection threads.                      *)

\* InitProducerId: fetch_add on the counter.
InitProducerId(p) ==
    /\ pid[p] = 0
    /\ pid' = [pid EXCEPT ![p] = next_producer_id]
    /\ next_producer_id' = next_producer_id + 1
    /\ handed' = [handed EXCEPT ![next_producer_id] = @ + 1]
    /\ UNCHANGED <<pgVars, wire, unacked, sent, acked, loop, rail, sink,
                   ingestFaults, restarts, disturbed>>

ClientSends(p) ==
    /\ pid[p] # 0
    /\ sent[p] < MaxBatches
    /\ Len(unacked[p]) < MaxInFlight
    /\ LET n == sent[p] + 1
       IN  /\ sent' = [sent EXCEPT ![p] = n]
           /\ wire' = [wire EXCEPT ![p] = Append(@, n)]
           /\ unacked' = [unacked EXCEPT ![p] = Append(@, n)]
    /\ UNCHANGED <<pgVars, pid, acked, daemonVars, historyVars>>

\* The client loses its connection and its pending answers, and sends every
\* batch it has no answer for again.
ClientReconnects(p) ==
    /\ ingestFaults < MaxIngestFaults
    /\ ingestFaults' = ingestFaults + 1
    /\ unacked[p] # <<>>
    /\ wire' = [wire EXCEPT ![p] = unacked[p]]
    /\ loop' = IF loop # NoBatch /\ loop[1] = p THEN <<p, loop[2], "unheard">> ELSE loop
    /\ UNCHANGED <<pgVars, pid, unacked, sent, acked, next_producer_id, rail, sink,
                   restarts, disturbed, handed>>

-----------------------------------------------------------------------------
(* deliver_batch on the daemon's own rail, by the operation that fails.    *)
(* Every cofre has a fresh sequence number and a fresh key, so the gate    *)
(* delivers it.                                                            *)

Behind(queue) == IF queue = <<>> THEN <<>> ELSE Tail(queue)

\* Bug: the terminal's sink is read and not drained.
TakeWithoutDrain(b) ==
    LET queue == Append(rail, b)
    IN  [fresh |-> Append(sink, Head(queue)), rail |-> Behind(queue),
         sink |-> Append(sink, Head(queue))]

\* Nothing fails: send, recv (the oldest cofre), offload, ack, take_committed.
Delivered(b) ==
    LET queue == Append(rail, b)
    IN  [fresh |-> Append(sink, Head(queue)), rail |-> Behind(queue), sink |-> <<>>]

Ship(p) ==
    /\ loop = NoBatch
    /\ wire[p] # <<>>
    /\ LET n == Head(wire[p])
           out == Delivered(Batch(p, n))
       IN  /\ wire' = [wire EXCEPT ![p] = Tail(@)]
           /\ loop' = <<p, n, "heard">>
           /\ rail' = out.rail /\ sink' = out.sink
           /\ sess' = [sess EXCEPT ![Daemon] = PgCall(Daemon, "seq", pid[p], n, out.fresh)]
    /\ UNCHANGED <<rows, marks, limbo, next_producer_id, pid, unacked, sent, acked, historyVars>>

\* An error before the sink is asked: the batch is answered with code 56 and
\* the client puts it on the wire again.  A failed send leaves no cofre; a
\* failed recv leaves it on the rail; a failed ack leaves its records in the
\* terminal's sink.
ShipFails(p) ==
    /\ loop = NoBatch
    /\ wire[p] # <<>>
    /\ ingestFaults < MaxIngestFaults
    /\ ingestFaults' = ingestFaults + 1
    /\ LET n == Head(wire[p])
           queue == Append(rail, Batch(p, n))
       IN  /\ \/ /\ UNCHANGED <<rail, sink, disturbed>>
              \/ /\ rail' = queue /\ disturbed' = TRUE
                 /\ UNCHANGED sink
              \/ /\ rail' = Behind(queue) /\ sink' = Append(sink, Head(queue))
                 /\ disturbed' = TRUE
           /\ wire' = [wire EXCEPT ![p] = Append(Tail(@), n)]
    /\ UNCHANGED <<pgVars, next_producer_id, pid, unacked, sent, acked, loop, restarts, handed>>

\* done.send(result): code 0 only for a durable landing.
Accepted(result) == result = "ok"

\* The result of commit_at_seq goes back to the connection thread, and its
\* code to the client, which tries a failed batch again.
Answer ==
    /\ loop # NoBatch
    /\ sess[Daemon].pc \in {"ok", "err"}
    /\ LET p == loop[1]
           n == loop[2]
           heard == loop[3] = "heard"
           ok == Accepted(sess[Daemon].pc)
       IN  /\ acked' = IF heard /\ ok THEN acked \cup {Batch(p, n)} ELSE acked
           /\ unacked' = IF heard /\ ok
                         THEN [unacked EXCEPT ![p] = SelectSeq(@, LAMBDA m : m # n)]
                         ELSE unacked
           /\ wire' = IF heard /\ ~ ok THEN [wire EXCEPT ![p] = Append(@, n)] ELSE wire
    /\ loop' = NoBatch
    /\ sess' = [sess EXCEPT ![Daemon].pc = "idle"]
    /\ UNCHANGED <<rows, marks, limbo, next_producer_id, pid, sent, rail, sink,
                   ingestFaults, restarts, disturbed, handed>>

\* The daemon is killed and started again: every connection is lost, and the
\* clients with a producer id keep it and send again.
Restart ==
    /\ restarts < MaxRestarts
    /\ restarts' = restarts + 1
    /\ next_producer_id' = 1
    /\ wire' = unacked
    /\ loop' = NoBatch
    /\ rail' = <<>> /\ sink' = <<>>
    /\ PgGone(Daemon)
    /\ sess' = [sess EXCEPT ![Daemon] = PgIdle]
    /\ UNCHANGED <<rows, marks, pid, unacked, sent, acked, ingestFaults, disturbed, handed>>

IngestDatabase ==
    /\ \/ PgStep /\ UNCHANGED ingestFaults
       \/ ingestFaults < MaxIngestFaults /\ PgFault /\ ingestFaults' = ingestFaults + 1
    /\ UNCHANGED <<clientVars, daemonVars, restarts, disturbed, handed>>

IngestNext ==
    \/ \E p \in Producers :
          InitProducerId(p) \/ ClientSends(p) \/ ClientReconnects(p) \/ Ship(p) \/ ShipFails(p)
    \/ Answer
    \/ Restart
    \/ IngestDatabase

IngestSpec == IngestInit /\ [][IngestNext]_ingestVars

-----------------------------------------------------------------------------

Copies(b) == Cardinality({i \in DOMAIN rows : rows[i] = b})

\* A pipelined successor of b is in the table.
Overtaken(b) ==
    MaxInFlight > 1 /\ \E m \in (b[2] + 1)..MaxBatches : Copies(Batch(b[1], m)) > 0

\* No batch of an idempotent producer lands twice, whatever is retried, refused,
\* lost or restarted, as long as the rail fails no receive or acknowledgement
\* (ship_batch_seq and commit_at_seq).
IngestAtMostOnce ==
    ~ disturbed => \A p \in Producers, n \in 1..MaxBatches : Copies(Batch(p, n)) <= 1

\* An acknowledged batch is in the table, except for two causes: a producer id
\* handed out twice shares its watermark, and a batch that failed while its
\* pipelined successor landed is taken for done (ack after durable landing).
IngestAckedLands ==
    ~ disturbed => \A b \in acked :
        \/ Copies(b) = 1
        \/ handed[pid[b[1]]] > 1
        \/ Overtaken(b)

\* A producer's batches land in the order of their sequence numbers, also when
\* some fail and are tried again behind later ones: the watermark only grows.
IngestInOrder ==
    ~ disturbed => \A i, j \in DOMAIN rows :
        (i < j /\ rows[i][1] = rows[j][1]) => rows[i][2] < rows[j][2]

\* Kafka into Postgres: a producer's batches land in order, none twice, and what
\* is acknowledged is there but for the two causes IngestAckedLands names.
IngestInv == IngestAtMostOnce /\ IngestAckedLands /\ IngestInOrder

\* What the design says of the watermark: every acknowledged batch of every
\* producer is in the table, also after the daemon was restarted
\* (eos_stream_id: distinct substreams never collide).
AckedAlwaysLands == \A b \in acked : Copies(b) >= 1
=============================================================================
