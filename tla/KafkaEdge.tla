------------------------------ MODULE KafkaEdge ------------------------------
(***************************************************************************)
(* The Kafka broker's connections (serve_broker): the accept loop and its  *)
(* limit, the SASL gate, and the thread of each connection taking requests *)
(* off its socket, working on the store one critical section at a time and *)
(* writing the answers.  Clients send without waiting for answers.         *)
(*                                                                         *)
(* A request is [api, acks, entries]; an entry names a partition and holds *)
(* the record blob of a Produce, the offset of a Fetch or of an            *)
(* OffsetCommit.  A blob is a sequence of batches [magic, intact, values], *)
(* a value is a number and 0 is the null value.  The requests of groups    *)
(* and transactions are GroupCoordinator's and KafkaTxn's subject, the     *)
(* files below the log PartitionLog's.                                     *)
(***************************************************************************)
EXTENDS Integers, Sequences, FiniteSets, SequencesExt

CONSTANTS
    EClients, EPartitions,
    MAX_CONNECTIONS,
    ERequests,          \* the requests the clients send
    Refused,            \* values the onboarding contract refuses
    MaxERequests, MaxESessions, MaxEErrors, MaxRot

VARIABLES
    esock,              \* per client: its socket, as the client sees it
    ethread,            \* per client: the thread serving it, or NoThread
    esasl,              \* creds.is_some(), fixed when the broker starts
    active,             \* the connections counted against the limit
    elog, erot,         \* per partition: <<request, value>>, and <<partition, index>> unreadable
    eoffsets,           \* the committed offsets, -1 for none
    esent, esessions, eerrors,
    eproved, elanded,   \* history: sessions with the right password, sessions that changed the store
    eholds              \* history: partitions with an OffsetCommit answered NONE

eStore == <<elog, erot, eoffsets>>
eHistory == <<eproved, elanded, eholds>>
eCounts == <<esent, esessions, eerrors>>
edgeVars == <<esasl, esock, ethread, active, eStore, eHistory, eCounts>>

NONE == 0
CORRUPT_MESSAGE == 2
RETRY_COMMIT == 16
KAFKA_STORAGE_ERROR == 56
INVALID_RECORD == 87
SASL_AUTHENTICATION_FAILED == 58

NoSocket == [state |-> "none", session |-> 0, inbox |-> <<>>, asked |-> <<>>, answers |-> <<>>]
NoThread == [step |-> "none", authenticated |-> FALSE, id |-> 0, req |-> <<>>, i |-> 0,
             latest |-> 0, out |-> <<>>]

EdgeInit ==
    /\ esock = [c \in EClients |-> NoSocket] /\ ethread = [c \in EClients |-> NoThread]
    /\ active = 0 /\ esasl \in BOOLEAN
    /\ elog = [p \in EPartitions |-> <<>>] /\ erot = {} /\ eoffsets = [p \in EPartitions |-> -1]
    /\ esent = 0 /\ esessions = 0 /\ eerrors = 0
    /\ eproved = {} /\ elanded = {} /\ eholds = {}

-----------------------------------------------------------------------------
(* parse_produce.                                                          *)

\* parse_record_batch: the values of the batches in order, null values left
\* out, up to the first batch that does not parse.
Broken(batch) == batch.magic \notin {0, 1, 2}
Torn(batch) == batch.magic = 2 /\ ~batch.intact
Bad(batch) == Broken(batch) \/ Torn(batch)
FirstBad(blob) == {k \in DOMAIN blob : Bad(blob[k]) /\ \A j \in 1..k - 1 : ~Bad(blob[j])}
parse_record_batch(blob) ==
    [malformed |-> \E k \in FirstBad(blob) : Broken(blob[k]),
     corrupt |-> \E k \in FirstBad(blob) : Torn(blob[k]),
     values |-> IF FirstBad(blob) # {} THEN <<>>
                ELSE SelectSeq(FlattenSeq([k \in DOMAIN blob |-> blob[k].values]), LAMBDA v : v # 0)]

\* A structurally broken blob fails the whole request.
Parses(req) == req.api = "produce" => \A k \in DOMAIN req.entries : ~parse_record_batch(req.entries[k].blob).malformed
Values(entry) == parse_record_batch(entry.blob).values
Skipped(entry) == parse_record_batch(entry.blob).corrupt

-----------------------------------------------------------------------------
(* Clients.                                                                *)

EdgeConnect(c) ==
    /\ esock[c].state = "none" /\ esessions < MaxESessions
    /\ esessions' = esessions + 1
    /\ esock' = [esock EXCEPT ![c] = [NoSocket EXCEPT !.state = "open", !.session = esessions']]
    /\ ethread' = [ethread EXCEPT ![c].step = "backlog"]
    /\ UNCHANGED <<active, eStore, eHistory, esent, eerrors>>

\* Requests are pipelined: the next one need not wait for an answer.
EdgeSend(c) ==
    /\ esock[c].state = "open" /\ esent < MaxERequests
    /\ esent' = esent + 1
    /\ \E r \in ERequests :
         esock' = [esock EXCEPT ![c].inbox = Append(@, [id |-> esent', req |-> r]),
                                ![c].asked = Append(@, [id |-> esent', req |-> r])]
    /\ UNCHANGED <<ethread, active, eStore, eHistory, esessions, eerrors>>

EdgeHangUp(c) ==
    /\ esock[c].state = "open"
    /\ esock' = [esock EXCEPT ![c].state = "left"]
    /\ UNCHANGED <<ethread, active, eStore, eHistory, eCounts>>

-----------------------------------------------------------------------------
(* serve_broker.                                                           *)

Finished(c) == [esock EXCEPT ![c] = IF @.state = "open" THEN [@ EXCEPT !.state = "shut"] ELSE @]

\* The accept loop: over the limit the stream is dropped.
EdgeAccept(c) ==
    /\ ethread[c].step = "backlog"
    /\ IF active >= MAX_CONNECTIONS
       THEN /\ ethread' = [ethread EXCEPT ![c] = NoThread]
            /\ esock' = Finished(c)
            /\ UNCHANGED active
       ELSE /\ active' = active + 1
            /\ ethread' = [ethread EXCEPT ![c].step = "wrap"]
            /\ UNCHANGED esock
    /\ UNCHANGED <<eStore, eHistory, eCounts>>

\* Bug: a failed handshake returns before the count is given back.
ReleasedServing(c) == IF ethread[c].step = "wrap" THEN active ELSE active - 1

Released(c) == active - 1

\* The thread ends, however it ends.
Over(c) ==
    /\ ethread' = [ethread EXCEPT ![c] = NoThread]
    /\ active' = Released(c)

\* conn_wrap: a TLS handshake may fail.
EdgeWrap(c) ==
    /\ ethread[c].step = "wrap"
    /\ \/ /\ ethread' = [ethread EXCEPT ![c].step = "idle", ![c].authenticated = ~esasl]
          /\ UNCHANGED <<active, esock>>
       \/ Over(c) /\ esock' = Finished(c)
    /\ UNCHANGED <<eStore, eHistory, eCounts>>

\* Nothing more to read: end of stream, a reset, or the read timeout.
EdgeEnd(c) ==
    /\ ethread[c].step = "idle"
    /\ esock[c].inbox = <<>> \/ esock[c].state = "left"
    /\ Over(c)
    /\ esock' = Finished(c)
    /\ UNCHANGED <<eStore, eHistory, eCounts>>

\* The client has noticed the closed connection and is ready for another.
EdgeForget(c) ==
    /\ esock[c].state \in {"shut", "left"} /\ ethread[c] = NoThread
    /\ esock' = [esock EXCEPT ![c] = NoSocket]
    /\ UNCHANGED <<ethread, active, eStore, eHistory, eCounts>>

-----------------------------------------------------------------------------
(* handle_broker_connection: one frame.                                    *)

Answered(sock, id, out) ==
    IF sock.state = "open" THEN [sock EXCEPT !.answers = Append(@, [id |-> id, out |-> out])] ELSE sock
Taken(sock) == [sock EXCEPT !.inbox = Tail(@)]
Code(code) == <<[code |-> code, base |-> -1, values |-> <<>>]>>

\* The gate: ApiVersions is always answered, the rest once authenticated.
LetsThrough(c, req) == ethread[c].authenticated \/ req.api = "api_versions"

\* handle_sasl; a wrong password is answered and the connection closed.
EdgeSasl(c, f) ==
    \/ /\ f.req.api = "handshake"
       /\ esock' = [esock EXCEPT ![c] = Answered(Taken(@), f.id, Code(NONE))]
       /\ UNCHANGED <<ethread, active, eproved>>
    \/ /\ f.req.api = "authenticate" /\ (f.req.acks = 1 \/ ~esasl)
       /\ esock' = [esock EXCEPT ![c] = Answered(Taken(@), f.id, Code(NONE))]
       /\ ethread' = [ethread EXCEPT ![c].authenticated = TRUE]
       /\ eproved' = eproved \cup {esock[c].session}
       /\ UNCHANGED active
    \/ /\ f.req.api = "authenticate" /\ f.req.acks # 1 /\ esasl
       /\ Over(c)
       /\ esock' = [Finished(c) EXCEPT ![c] = Answered(Taken(@), f.id, Code(SASL_AUTHENTICATION_FAILED))]
       /\ UNCHANGED eproved

EdgeRead(c) ==
    /\ ethread[c].step = "idle" /\ esock[c].inbox # <<>>
    /\ LET f == Head(esock[c].inbox)
       IN  \/ EdgeSasl(c, f)
           \/ /\ f.req.api \notin {"handshake", "authenticate"}
              /\ IF LetsThrough(c, f.req) /\ f.req.api # "unknown" /\ Parses(f.req)
                 THEN /\ ethread' = [ethread EXCEPT ![c] = [@ EXCEPT !.step = "serve", !.id = f.id, !.req = f.req,
                                                                     !.i = 1, !.out = <<>>]]
                      /\ esock' = [esock EXCEPT ![c] = Taken(@)]
                      /\ UNCHANGED active
                 ELSE Over(c) /\ esock' = Finished(c)
              /\ UNCHANGED eproved
    /\ UNCHANGED <<eStore, elanded, eholds, eCounts>>

-----------------------------------------------------------------------------
(* handle_broker_request: one entry of the request per action.             *)

Doing(c, api) ==
    /\ ethread[c].step = "serve" /\ ethread[c].req.api = api
    /\ ethread[c].i <= Len(ethread[c].req.entries)
Entry(c) == ethread[c].req.entries[ethread[c].i]
Outcome(code, base, values) == [part |-> 0, code |-> code, base |-> base, values |-> values]
Done(c, o) ==
    ethread' = [ethread EXCEPT ![c].out = Append(@, [o EXCEPT !.part = Entry(c).part]), ![c].i = @ + 1,
                               ![c].latest = 0]
Kept == UNCHANGED <<esock, active, esent, esessions, eproved>>

\* The part of a sequence before its first member of bad.
UpTo(s, bad) == SubSeq(s, 1, Min({Len(s)} \cup {k - 1 : k \in {j \in DOMAIN s : s[j] \in bad}}))

Contracted(values) == \A k \in DOMAIN values : values[k] \notin Refused

\* produce_into checks the whole batch before it seals the first record.
Boarded(values) == IF Contracted(values) THEN values ELSE <<>>

\* A record in the log: its value and the request that brought it.
Stamped(c, values) == [k \in DOMAIN values |-> <<ethread[c].id, values[k]>>]

\* produce_results, one partition: the store's answer, never a stored
\* record for a batch that failed its checksum.
EdgeProduce(c) ==
    LET p == Entry(c).part  vs == Values(Entry(c))
    IN  /\ Doing(c, "produce")
        /\ IF Skipped(Entry(c))
           THEN Done(c, Outcome(CORRUPT_MESSAGE, -1, <<>>)) /\ UNCHANGED <<elog, elanded, eerrors>>
           ELSE /\ \/ /\ elog' = [elog EXCEPT ![p] = @ \o Stamped(c, Boarded(vs))]
                      /\ Done(c, IF Contracted(vs) THEN Outcome(NONE, Len(elog[p]), <<>>)
                                                   ELSE Outcome(INVALID_RECORD, -1, <<>>))
                      /\ UNCHANGED eerrors
                   \/ /\ Contracted(vs) /\ eerrors < MaxEErrors /\ eerrors' = eerrors + 1
                      /\ \E k \in 0..Len(vs) : elog' = [elog EXCEPT ![p] = @ \o Stamped(c, SubSeq(vs, 1, k))]
                      /\ Done(c, Outcome(KAFKA_STORAGE_ERROR, -1, <<>>))
                /\ elanded' = elanded \cup {esock[c].session}
        /\ Kept /\ UNCHANGED <<erot, eoffsets, eholds>>

\* fetch_results reads the bounds in one critical section ...
EdgeBounds(c) ==
    /\ Doing(c, "fetch") /\ ethread[c].latest = 0
    /\ ethread' = [ethread EXCEPT ![c].latest = 1 + Len(elog[Entry(c).part])]
    /\ Kept /\ UNCHANGED <<eStore, elanded, eholds, eerrors>>

Sealed(p, from, n) == [k \in 1..n |-> <<p, from + k>>]

\* Bug: an unreadable record is left out of the batch.
OpenedSkipping(seals) == SelectSeq(seals, LAMBDA s : s \notin erot)

\* The batch stops at the first record that does not open.
Opened(seals) == UpTo(seals, erot)

\* ... and the records in another: some number of them, at least one.
EdgeFetch(c) ==
    LET p == Entry(c).part  from == Entry(c).at  there == Len(elog[p]) - from
    IN  /\ Doing(c, "fetch") /\ ethread[c].latest > 0
        /\ IF there <= 0
           THEN Done(c, Outcome(NONE, from, <<>>))
           ELSE \E n \in 1..there :
                  LET got == Opened(Sealed(p, from, n))
                  IN  Done(c, IF <<p, from + 1>> \in erot THEN Outcome(CORRUPT_MESSAGE, from, <<>>)
                              ELSE Outcome(NONE, from, [k \in DOMAIN got |-> elog[p][got[k][2]]]))
        /\ Kept /\ UNCHANGED <<eStore, elanded, eholds, eerrors>>

\* ListOffsets: timestamp -2 asks for the earliest offset.
EdgeListOffsets(c) ==
    /\ Doing(c, "list_offsets")
    /\ Done(c, Outcome(NONE, IF Entry(c).at = -2 THEN 0 ELSE Len(elog[Entry(c).part]), <<>>))
    /\ Kept /\ UNCHANGED <<eStore, elanded, eholds, eerrors>>

CommitCode(failed) == IF failed THEN RETRY_COMMIT ELSE NONE

\* offset_commit_results: each partition has its own outcome.
EdgeOffsetCommit(c) ==
    LET p == Entry(c).part
    IN  /\ Doing(c, "offset_commit")
        /\ \E failed \in BOOLEAN :
             /\ failed => eerrors < MaxEErrors
             /\ eerrors' = IF failed THEN eerrors + 1 ELSE eerrors
             /\ eoffsets' = IF failed THEN eoffsets ELSE [eoffsets EXCEPT ![p] = Entry(c).at]
             /\ Done(c, Outcome(CommitCode(failed), -1, <<>>))
             /\ eholds' = IF CommitCode(failed) = NONE THEN eholds \cup {p} ELSE eholds
        /\ elanded' = elanded \cup {esock[c].session}
        /\ Kept /\ UNCHANGED <<elog, erot>>

EdgeOffsetFetch(c) ==
    /\ Doing(c, "offset_fetch")
    /\ Done(c, Outcome(NONE, eoffsets[Entry(c).part], <<>>))
    /\ Kept /\ UNCHANGED <<eStore, elanded, eholds, eerrors>>

-----------------------------------------------------------------------------
(* The answer.                                                             *)

\* produce_response: a checksum failure reports itself; the others look
\* their partition up in the results, where a later entry for the same
\* partition has replaced an earlier one.
Reported(out, k) ==
    IF out[k].code = CORRUPT_MESSAGE THEN out[k]
    ELSE LET stored == {j \in DOMAIN out : out[j].part = out[k].part /\ out[j].code # CORRUPT_MESSAGE}
             last == CHOOSE j \in stored : \A i \in stored : i <= j
         IN  [out[k] EXCEPT !.code = out[last].code, !.base = out[last].base]

Response(req, out) == IF req.api = "produce" THEN [k \in DOMAIN out |-> Reported(out, k)] ELSE out

\* acks=0: the producer expects no answer and must get none.
Suppress(req) == req.api = "produce" /\ req.acks = 0

\* A write to a client that has left may fail, which ends the thread.
EdgeRespond(c) ==
    LET t == ethread[c]
    IN  /\ t.step = "serve" /\ t.i > Len(t.req.entries)
        /\ \/ /\ ethread' = [ethread EXCEPT ![c] = [NoThread EXCEPT !.step = "idle", !.authenticated = t.authenticated]]
              /\ esock' = IF Suppress(t.req) THEN esock
                          ELSE [esock EXCEPT ![c] = Answered(@, t.id, Response(t.req, t.out))]
              /\ UNCHANGED active
           \/ /\ esock[c].state = "left" /\ ~Suppress(t.req)
              /\ Over(c) /\ UNCHANGED esock
        /\ UNCHANGED <<eStore, eHistory, eCounts>>

\* A sealed record on disk becomes unreadable.
EdgeRot ==
    /\ Cardinality(erot) < MaxRot
    /\ \E p \in EPartitions : \E k \in DOMAIN elog[p] : erot' = erot \cup {<<p, k>>}
    /\ UNCHANGED <<esock, ethread, active, elog, eoffsets, eHistory, eCounts>>

EdgeServe(c) ==
    \/ EdgeAccept(c) \/ EdgeWrap(c) \/ EdgeEnd(c) \/ EdgeRead(c) \/ EdgeRespond(c)
    \/ EdgeProduce(c) \/ EdgeBounds(c) \/ EdgeFetch(c) \/ EdgeListOffsets(c)
    \/ EdgeOffsetCommit(c) \/ EdgeOffsetFetch(c)

EdgeNext ==
    /\ UNCHANGED esasl
    /\ \/ \E c \in EClients : EdgeConnect(c) \/ EdgeSend(c) \/ EdgeHangUp(c) \/ EdgeForget(c) \/ EdgeServe(c)
       \/ EdgeRot

-----------------------------------------------------------------------------
(* Properties.                                                             *)

Expecting(sock) == SelectSeq(sock.asked, LAMBDA a : ~(a.req.api = "produce" /\ a.req.acks = 0))
ListedOnce(req, p) == Cardinality({k \in DOMAIN req.entries : req.entries[k].part = p}) = 1
Request(c, id) == (CHOOSE a \in Range(esock[c].asked) : a.id = id).req
Answers(c, api) == {a \in Range(esock[c].answers) : Request(c, a.id).api = api}

\* The answers on a connection are those of the requests that expect one,
\* in the order they were sent, so a client that pipelines pairs each
\* answer with its request (handle_broker_connection; acks=0 is silent).
EdgeAnswersPair ==
    \A c \in EClients : \A k \in DOMAIN esock[c].answers :
        k <= Len(Expecting(esock[c])) /\ esock[c].answers[k].id = Expecting(esock[c])[k].id

\* A Produce entry answered NONE is in the log at the offset of the answer,
\* whatever other connections appended in between, and one answered with a
\* permanent error has left no record behind: for partitions a request
\* lists once (produce_results, produce_response, produce_into).
EdgeAcksHonest ==
    \A c \in EClients : \A a \in Answers(c, "produce") : \A k \in DOMAIN a.out :
        LET o == a.out[k]  e == Request(c, a.id).entries[k]
            vs == SelectSeq(FlattenSeq([j \in DOMAIN e.blob |-> e.blob[j].values]), LAMBDA v : v # 0)
        IN  ListedOnce(Request(c, a.id), o.part) =>
              IF o.code = NONE
              THEN o.base + Len(vs) <= Len(elog[o.part]) /\ \A j \in DOMAIN vs : elog[o.part][o.base + j] = <<a.id, vs[j]>>
              ELSE o.code = KAFKA_STORAGE_ERROR \/ \A j \in DOMAIN elog[o.part] : elog[o.part][j][1] # a.id

\* A fetched record carries the offset it was stored at, also when a record
\* before it cannot be opened (KafkaBrokerStore::fetch halts there).
EdgeNeverRenumbers ==
    \A c \in EClients : \A a \in Answers(c, "fetch") : \A k \in DOMAIN a.out :
        \A j \in DOMAIN a.out[k].values : a.out[k].values[j] = elog[a.out[k].part][a.out[k].base + j]

\* With a credential configured, only sessions that presented it have
\* reached the log or the offset store (the gate of handle_broker_connection).
EdgeGated == esasl => elanded \subseteq eproved

\* The count the accept loop compares with the limit is the number of
\* connections being served, however each of them ended (serve_broker).
EdgeSlotsExact ==
    /\ active = Cardinality({c \in EClients : ethread[c].step \notin {"none", "backlog"}})
    /\ active <= MAX_CONNECTIONS

\* Once an OffsetCommit for a partition was answered NONE, every OffsetFetch
\* finds an offset (offset_commit_results: "never a false NONE").
EdgeOffsetsHeld == \A p \in eholds : eoffsets[p] # -1

\* What the broker answers is true and goes to the request it answers, with
\* pipelined requests, silent ones, other connections and a failing store.
EdgeInv == EdgeAnswersPair /\ EdgeAcksHonest /\ EdgeNeverRenumbers /\ EdgeOffsetsHeld

\* Whom the broker serves: as many connections as it counts and no more than its
\* limit, and of them only those that proved the credential reach the store.
EdgeAdmits == EdgeGated /\ EdgeSlotsExact
=============================================================================
