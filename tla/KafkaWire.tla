----------------------------- MODULE KafkaWire -----------------------------
(***************************************************************************)
(* The Kafka wire codec of datarail-kafka: what each request parser reads  *)
(* and each response builder writes, field by field and version by         *)
(* version, against the message layouts of the Kafka protocol that a real  *)
(* client follows.  A message is a sequence of fields; a field is its type *)
(* and its size in bytes, and an array is its int32 count followed by its  *)
(* elements.  The content of a field plays no part in how a message is     *)
(* delimited and is left out.                                              *)
(***************************************************************************)
EXTENDS Integers, Sequences, FiniteSets, SequencesExt

CONSTANTS
  Widths,   \* the numbers of elements a client puts in an array
  TextLens  \* the lengths of its strings and byte arrays

VARIABLES
  call,     \* <<>> or the exchange: [api, version, width, text]
  wire,     \* the request as the client wrote it, then the response as the broker did
  heard     \* <<>>, then how the broker took the request, then how the client took the response

wireVars == <<call, wire, heard>>

-----------------------------------------------------------------------------
(* Layouts. *)

\* A field of type t; an array of elements laid out as of, each of which takes
\* at least min bytes by the parser's reckoning.
F(t) == [t |-> t, min |-> 0, of |-> <<>>]
Array(min, of) == [t |-> "array", min |-> min, of |-> of]
Fields(ts) == [i \in DOMAIN ts |-> F(ts[i])]
Since(version, v, layout) == IF version >= v THEN layout ELSE <<>>
Only(version, v, layout) == IF version = v THEN layout ELSE <<>>

MIN_TOPIC_BYTES == 6
MIN_PARTITION_BYTES == 4

\* A topics array of partitions arrays.
Topics(of) == <<Array(MIN_TOPIC_BYTES, Fields(<<"string">>) \o <<Array(MIN_PARTITION_BYTES, of)>>)>>

-----------------------------------------------------------------------------
(* The broker's parsers. *)

request_is_flexible(api, version) ==
  \/ api = "ApiVersions" /\ version >= 3
  \/ api \in {"Metadata", "Produce"} /\ version >= 9

\* RequestHeader::parse; the tag section of a flexible header is one empty varint.
RequestHeader(api, version) ==
  Fields(<<"int16", "int16", "int32", "nullable_string">>)
    \o (IF request_is_flexible(api, version) THEN Fields(<<"tags">>) ELSE <<>>)

parse_produce(v) ==
  Since(v, 3, Fields(<<"nullable_string">>)) \o Fields(<<"int16", "int32">>)
    \o Topics(Fields(<<"int32", "nullable_bytes">>))

parse_fetch(v) ==
  Fields(<<"int32", "int32", "int32">>) \o Since(v, 3, Fields(<<"int32">>)) \o Since(v, 4, Fields(<<"int8">>))
    \o Since(v, 7, Fields(<<"int32", "int32">>))
    \o Topics(Fields(<<"int32">>) \o Since(v, 9, Fields(<<"int32">>)) \o Fields(<<"int64">>)
                \o Since(v, 5, Fields(<<"int64">>)) \o Fields(<<"int32">>))

parse_list_offsets(v) ==
  Fields(<<"int32">>) \o Since(v, 2, Fields(<<"int8">>))
    \o Topics(Fields(<<"int32", "int64">>) \o Only(v, 0, Fields(<<"int32">>)))

\* The topic count is bounded by the bytes left, one byte per name.
parse_metadata_topics(v) == <<Array(1, Fields(<<"string">>))>>

parse_init_producer_id(v) == Fields(<<"nullable_string", "int32">>)

\* The commit timestamp taken to be there from version 1 on.
parse_offset_commit_since(v) ==
  Fields(<<"string">>) \o Since(v, 1, Fields(<<"int32", "string">>)) \o Since(v, 2, Fields(<<"int64">>))
    \o Topics(Fields(<<"int32", "int64">>) \o Since(v, 1, Fields(<<"int64">>)) \o Fields(<<"nullable_string">>))

parse_offset_commit(v) ==
  Fields(<<"string">>) \o Since(v, 1, Fields(<<"int32", "string">>)) \o Since(v, 2, Fields(<<"int64">>))
    \o Topics(Fields(<<"int32", "int64">>) \o Only(v, 1, Fields(<<"int64">>)) \o Fields(<<"nullable_string">>))

parse_offset_fetch(v) == Fields(<<"string">>) \o Topics(Fields(<<"int32">>))

parse_find_coordinator(v) == Fields(<<"string">>) \o Since(v, 1, Fields(<<"int8">>))

parse_join_group(v) ==
  Fields(<<"string", "int32">>) \o Since(v, 1, Fields(<<"int32">>)) \o Fields(<<"string", "string">>)
    \o <<Array(MIN_TOPIC_BYTES, Fields(<<"string", "bytes">>))>>

parse_sync_group(v) ==
  Fields(<<"string", "int32", "string">>) \o <<Array(MIN_TOPIC_BYTES, Fields(<<"string", "bytes">>))>>

parse_heartbeat(v) == Fields(<<"string", "int32", "string">>)

parse_leave_group(v) == Fields(<<"string", "string">>)

parse_txn_header == Fields(<<"string", "int64", "int16">>)

parse_add_partitions(v) == parse_txn_header \o Topics(Fields(<<"int32">>))

parse_add_offsets(v) == parse_txn_header \o Fields(<<"string">>)

parse_txn_offset_commit(v) ==
  Fields(<<"string", "string", "int64", "int16">>) \o Topics(Fields(<<"int32", "int64", "nullable_string">>))

parse_end_txn(v) == parse_txn_header \o Fields(<<"int8">>)

parse_sasl_handshake(v) == Fields(<<"string">>)

parse_sasl_authenticate(v) == Fields(<<"bytes">>)

\* The parser each api is dispatched to; an ApiVersions body is not read.
Parsed(api, v) ==
  RequestHeader(api, v) \o
  CASE api = "Produce" -> parse_produce(v)
    [] api = "Fetch" -> parse_fetch(v)
    [] api = "ListOffsets" -> parse_list_offsets(v)
    [] api = "Metadata" -> parse_metadata_topics(v)
    [] api = "InitProducerId" -> parse_init_producer_id(v)
    [] api = "OffsetCommit" -> parse_offset_commit(v)
    [] api = "OffsetFetch" -> parse_offset_fetch(v)
    [] api = "FindCoordinator" -> parse_find_coordinator(v)
    [] api = "JoinGroup" -> parse_join_group(v)
    [] api = "SyncGroup" -> parse_sync_group(v)
    [] api = "Heartbeat" -> parse_heartbeat(v)
    [] api = "LeaveGroup" -> parse_leave_group(v)
    [] api = "AddPartitionsToTxn" -> parse_add_partitions(v)
    [] api = "AddOffsetsToTxn" -> parse_add_offsets(v)
    [] api = "EndTxn" -> parse_end_txn(v)
    [] api = "TxnOffsetCommit" -> parse_txn_offset_commit(v)
    [] api = "SaslHandshake" -> parse_sasl_handshake(v)
    [] api = "SaslAuthenticate" -> parse_sasl_authenticate(v)
    [] OTHER -> <<>>

-----------------------------------------------------------------------------
(* The broker's responses, after the correlation id every one starts with.  *)

init_producer_id_response(v) == Fields(<<"int32", "int16", "int64", "int16">>)

api_versions_response(v) ==
  Fields(<<"int16">>) \o
  IF v >= 3
  THEN <<[t |-> "compact_array", min |-> 0, of |-> Fields(<<"int16", "int16", "int16", "tags">>)]>>
         \o Fields(<<"int32", "tags">>)
  ELSE <<Array(0, Fields(<<"int16", "int16", "int16">>))>> \o Since(v, 1, Fields(<<"int32">>))

metadata_response(v) ==
  <<Array(0, Fields(<<"int32", "string", "int32">>) \o Since(v, 1, Fields(<<"nullable_string">>)))>>
    \o Since(v, 1, Fields(<<"int32">>))
    \o <<Array(0, Fields(<<"int16", "string">>) \o Since(v, 1, Fields(<<"int8">>))
                 \o <<Array(0, Fields(<<"int16", "int32", "int32">>)
                              \o <<Array(0, Fields(<<"int32">>)), Array(0, Fields(<<"int32">>))>>)>>)>>

produce_response(v) ==
  Topics(Fields(<<"int32", "int16", "int64">>) \o Since(v, 2, Fields(<<"int64">>)) \o Since(v, 5, Fields(<<"int64">>)))
    \o Since(v, 1, Fields(<<"int32">>))

fetch_response(v) ==
  Since(v, 1, Fields(<<"int32">>))
    \o Topics(Fields(<<"int32", "int16", "int64">>)
                \o Since(v, 4, Fields(<<"int64">>) \o <<[t |-> "empty_array", min |-> 0, of |-> <<>>]>>)
                \o Fields(<<"bytes">>))

list_offsets_response(v) ==
  Since(v, 2, Fields(<<"int32">>))
    \o Topics(Fields(<<"int32", "int16">>)
                \o IF v = 0 THEN <<[t |-> "array_of_one", min |-> 0, of |-> Fields(<<"int64">>)]>>
                   ELSE Fields(<<"int64", "int64">>))

offset_commit_response(v) == Topics(Fields(<<"int32", "int16">>))

offset_fetch_response(v) ==
  Topics(Fields(<<"int32", "int64", "nullable_string", "int16">>)) \o Since(v, 2, Fields(<<"int16">>))

find_coordinator_response(v) ==
  Since(v, 1, Fields(<<"int32">>)) \o Fields(<<"int16">>) \o Since(v, 1, Fields(<<"nullable_string">>))
    \o Fields(<<"int32", "string", "int32">>)

join_group_response(v) ==
  Since(v, 2, Fields(<<"int32">>)) \o Fields(<<"int16", "int32", "string", "string", "string">>)
    \o <<Array(0, Fields(<<"string", "bytes">>))>>

sync_group_response(v) == Since(v, 1, Fields(<<"int32">>)) \o Fields(<<"int16", "bytes">>)

heartbeat_response(v) == Since(v, 1, Fields(<<"int32">>)) \o Fields(<<"int16">>)

leave_group_response(v) == Since(v, 1, Fields(<<"int32">>)) \o Fields(<<"int16">>)

add_partitions_response(v) == Fields(<<"int32">>) \o Topics(Fields(<<"int32", "int16">>))

throttle_error_response(v) == Fields(<<"int32", "int16">>)

sasl_handshake_response(v) == Fields(<<"int16">>) \o <<Array(0, Fields(<<"string">>))>>

sasl_authenticate_response(v) ==
  Fields(<<"int16", "nullable_string", "bytes">>) \o Since(v, 1, Fields(<<"int64">>))

\* write_response_header (never flexible) and the builder each api is answered with.
Built(api, v) ==
  Fields(<<"int32">>) \o
  CASE api = "Produce" -> produce_response(v)
    [] api = "Fetch" -> fetch_response(v)
    [] api = "ListOffsets" -> list_offsets_response(v)
    [] api = "Metadata" -> metadata_response(v)
    [] api = "ApiVersions" -> api_versions_response(v)
    [] api = "InitProducerId" -> init_producer_id_response(v)
    [] api = "OffsetCommit" -> offset_commit_response(v)
    [] api = "OffsetFetch" -> offset_fetch_response(v)
    [] api = "FindCoordinator" -> find_coordinator_response(v)
    [] api = "JoinGroup" -> join_group_response(v)
    [] api = "SyncGroup" -> sync_group_response(v)
    [] api = "Heartbeat" -> heartbeat_response(v)
    [] api = "LeaveGroup" -> leave_group_response(v)
    [] api \in {"AddPartitionsToTxn", "TxnOffsetCommit"} -> add_partitions_response(v)
    [] api \in {"AddOffsetsToTxn", "EndTxn"} -> throttle_error_response(v)
    [] api = "SaslHandshake" -> sasl_handshake_response(v)
    [] api = "SaslAuthenticate" -> sasl_authenticate_response(v)

-----------------------------------------------------------------------------
(* The protocol a client follows: <<api, min, max>> as advertised, and the  *)
(* layouts the Kafka protocol gives those versions.                         *)

SUPPORTED ==
  {<<"Produce", 0, 7>>, <<"Fetch", 0, 4>>, <<"ListOffsets", 0, 2>>, <<"Metadata", 0, 1>>, <<"ApiVersions", 0, 3>>,
   <<"InitProducerId", 0, 1>>, <<"OffsetCommit", 0, 2>>, <<"OffsetFetch", 0, 2>>, <<"FindCoordinator", 0, 2>>,
   <<"JoinGroup", 1, 4>>, <<"Heartbeat", 0, 2>>, <<"LeaveGroup", 0, 2>>, <<"SyncGroup", 0, 2>>,
   <<"AddPartitionsToTxn", 0, 1>>, <<"AddOffsetsToTxn", 0, 1>>, <<"EndTxn", 0, 1>>, <<"TxnOffsetCommit", 0, 1>>,
   <<"SaslHandshake", 0, 1>>, <<"SaslAuthenticate", 0, 1>>}

\* A topics array of partitions arrays, as the protocol has it.
PerPartition(of) == <<Array(0, Fields(<<"string">>) \o <<Array(0, of)>>)>>

KafkaRequest(api, v) ==
  Fields(<<"int16", "int16", "int32", "nullable_string">>) \o
  CASE api = "Produce" ->
         Since(v, 3, Fields(<<"nullable_string">>)) \o Fields(<<"int16", "int32">>)
           \o PerPartition(Fields(<<"int32", "nullable_bytes">>))
    [] api = "Fetch" ->
         Fields(<<"int32", "int32", "int32">>) \o Since(v, 3, Fields(<<"int32">>)) \o Since(v, 4, Fields(<<"int8">>))
           \o PerPartition(Fields(<<"int32", "int64", "int32">>))
    [] api = "ListOffsets" ->
         Fields(<<"int32">>) \o Since(v, 2, Fields(<<"int8">>))
           \o PerPartition(Fields(IF v = 0 THEN <<"int32", "int64", "int32">> ELSE <<"int32", "int64">>))
    [] api = "Metadata" -> <<Array(0, Fields(<<"string">>))>>
    [] api = "ApiVersions" -> Since(v, 3, Fields(<<"tags", "compact_string", "compact_string", "tags">>))
    [] api = "InitProducerId" -> Fields(<<"nullable_string", "int32">>)
    [] api = "OffsetCommit" ->
         Fields(IF v = 0 THEN <<"string">> ELSE <<"string", "int32", "string">>) \o Since(v, 2, Fields(<<"int64">>))
           \o PerPartition(Fields(IF v = 1 THEN <<"int32", "int64", "int64", "nullable_string">>
                                  ELSE <<"int32", "int64", "nullable_string">>))
    [] api = "OffsetFetch" -> Fields(<<"string">>) \o PerPartition(Fields(<<"int32">>))
    [] api = "FindCoordinator" -> Fields(IF v = 0 THEN <<"string">> ELSE <<"string", "int8">>)
    [] api = "JoinGroup" ->
         Fields(<<"string", "int32", "int32", "string", "string">>) \o <<Array(0, Fields(<<"string", "bytes">>))>>
    [] api = "SyncGroup" -> Fields(<<"string", "int32", "string">>) \o <<Array(0, Fields(<<"string", "bytes">>))>>
    [] api = "Heartbeat" -> Fields(<<"string", "int32", "string">>)
    [] api = "LeaveGroup" -> Fields(<<"string", "string">>)
    [] api = "AddPartitionsToTxn" -> Fields(<<"string", "int64", "int16">>) \o PerPartition(Fields(<<"int32">>))
    [] api = "AddOffsetsToTxn" -> Fields(<<"string", "int64", "int16", "string">>)
    [] api = "EndTxn" -> Fields(<<"string", "int64", "int16", "int8">>)
    [] api = "TxnOffsetCommit" ->
         Fields(<<"string", "string", "int64", "int16">>) \o PerPartition(Fields(<<"int32", "int64", "nullable_string">>))
    [] api = "SaslHandshake" -> Fields(<<"string">>)
    [] api = "SaslAuthenticate" -> Fields(<<"bytes">>)

KafkaResponse(api, v) ==
  Fields(<<"int32">>) \o
  CASE api = "Produce" ->
         PerPartition(Fields(CASE v < 2 -> <<"int32", "int16", "int64">>
                               [] v \in 2 .. 4 -> <<"int32", "int16", "int64", "int64">>
                               [] OTHER -> <<"int32", "int16", "int64", "int64", "int64">>))
           \o Since(v, 1, Fields(<<"int32">>))
    [] api = "Fetch" ->
         Since(v, 1, Fields(<<"int32">>)) \o
         PerPartition(Fields(<<"int32", "int16", "int64">>)
                        \o Since(v, 4, Fields(<<"int64">>) \o <<Array(0, Fields(<<"int64", "int64">>))>>)
                        \o Fields(<<"nullable_bytes">>))
    [] api = "ListOffsets" ->
         Since(v, 2, Fields(<<"int32">>)) \o
         PerPartition(Fields(<<"int32", "int16">>)
                        \o IF v = 0 THEN <<Array(0, Fields(<<"int64">>))>> ELSE Fields(<<"int64", "int64">>))
    [] api = "Metadata" ->
         <<Array(0, Fields(IF v = 0 THEN <<"int32", "string", "int32">>
                           ELSE <<"int32", "string", "int32", "nullable_string">>))>>
           \o Since(v, 1, Fields(<<"int32">>))
           \o <<Array(0, Fields(IF v = 0 THEN <<"int16", "string">> ELSE <<"int16", "string", "int8">>)
                  \o <<Array(0, Fields(<<"int16", "int32", "int32">>)
                               \o <<Array(0, Fields(<<"int32">>)), Array(0, Fields(<<"int32">>))>>)>>)>>
    [] api = "ApiVersions" ->
         IF v < 3
         THEN Fields(<<"int16">>) \o <<Array(0, Fields(<<"int16", "int16", "int16">>))>> \o Since(v, 1, Fields(<<"int32">>))
         ELSE Fields(<<"int16">>)
                \o <<[t |-> "compact_array", min |-> 0, of |-> Fields(<<"int16", "int16", "int16", "tags">>)]>>
                \o Fields(<<"int32", "tags">>)
    [] api = "InitProducerId" -> Fields(<<"int32", "int16", "int64", "int16">>)
    [] api = "OffsetCommit" -> PerPartition(Fields(<<"int32", "int16">>))
    [] api = "OffsetFetch" ->
         PerPartition(Fields(<<"int32", "int64", "nullable_string", "int16">>)) \o Since(v, 2, Fields(<<"int16">>))
    [] api = "FindCoordinator" ->
         Fields(IF v = 0 THEN <<"int16", "int32", "string", "int32">>
                ELSE <<"int32", "int16", "nullable_string", "int32", "string", "int32">>)
    [] api = "JoinGroup" ->
         Since(v, 2, Fields(<<"int32">>)) \o Fields(<<"int16", "int32", "string", "string", "string">>)
           \o <<Array(0, Fields(<<"string", "bytes">>))>>
    [] api = "SyncGroup" -> Since(v, 1, Fields(<<"int32">>)) \o Fields(<<"int16", "bytes">>)
    [] api \in {"Heartbeat", "LeaveGroup"} -> Since(v, 1, Fields(<<"int32">>)) \o Fields(<<"int16">>)
    [] api \in {"AddPartitionsToTxn", "TxnOffsetCommit"} ->
         Fields(<<"int32">>) \o PerPartition(Fields(<<"int32", "int16">>))
    [] api \in {"AddOffsetsToTxn", "EndTxn"} -> Fields(<<"int32", "int16">>)
    [] api = "SaslHandshake" -> Fields(<<"int16">>) \o <<Array(0, Fields(<<"string">>))>>
    [] api = "SaslAuthenticate" ->
         Fields(IF v = 0 THEN <<"int16", "nullable_string", "bytes">>
                ELSE <<"int16", "nullable_string", "bytes", "int64">>)

-----------------------------------------------------------------------------
(* Reader and Writer. *)

SizeOf(t, text) ==
  CASE t \in {"int8", "tags", "count8"} -> 1
    [] t = "int16" -> 2
    [] t \in {"int32", "count"} -> 4
    [] t = "int64" -> 8
    [] t \in {"string", "nullable_string"} -> 2 + text
    [] t = "compact_string" -> 1 + text
    [] t \in {"bytes", "nullable_bytes"} -> 4 + text

Item(t, text, n) == [t |-> t, size |-> SizeOf(t, text), n |-> n]

Repeated(s, n) == FlattenSeq([i \in 1 .. n |-> s])

\* The fields of a message with width elements in every array whose length is free.
RECURSIVE Written(_, _, _)
Written(layout, width, text) ==
  FlattenSeq([i \in DOMAIN layout |->
    LET f == layout[i]
        n == CASE f.t = "empty_array" -> 0 [] f.t = "array_of_one" -> 1 [] OTHER -> width
    IN IF f.t \in {"array", "compact_array", "empty_array", "array_of_one"}
       THEN <<Item(IF f.t = "compact_array" THEN "count8" ELSE "count", 0, n)>> \o Repeated(Written(f.of, width, text), n)
       ELSE <<Item(f.t, text, 0)>>])

\* In halves, which keeps the recursion shallow.
RECURSIVE Bytes(_)
Bytes(fields) ==
  CASE fields = <<>> -> 0
    [] Len(fields) = 1 -> fields[1].size
    [] OTHER -> LET half == Len(fields) \div 2
                IN Bytes(SubSeq(fields, 1, half)) + Bytes(SubSeq(fields, half + 1, Len(fields)))

bounded_count(fields, count, min_entry) ==
  LET by_bytes == IF min_entry = 0 THEN count ELSE Bytes(fields) \div min_entry
  IN IF count <= by_bytes THEN count ELSE by_bytes

\* A reader of type t takes a field a writer wrote as w; null is among what a
\* nullable field may hold.
Understands(t, w) ==
  \/ t = w
  \/ t = "nullable_string" /\ w = "string"
  \/ t = "nullable_bytes" /\ w = "bytes"
  \/ t = "array" /\ w = "count"
  \/ t = "compact_array" /\ w = "count8"

\* What is left of a message after a layout was read from it; ok turns FALSE at
\* the first field that is not there or is another one.
RECURSIVE Read(_, _)
Read(layout, st) ==
  IF ~st.ok THEN st ELSE
  FoldLeft(LAMBDA acc, f :
             IF ~acc.ok \/ acc.rest = <<>> \/ ~Understands(f.t, Head(acc.rest).t) THEN [acc EXCEPT !.ok = FALSE]
             ELSE LET item == Head(acc.rest)
                      after == [ok |-> TRUE, rest |-> Tail(acc.rest)]
                  IN IF f.t \in {"array", "compact_array"}
                     THEN FoldLeft(LAMBDA each, i : Read(f.of, each), after,
                                   [i \in 1 .. bounded_count(after.rest, item.n, f.min) |-> i])
                     ELSE after,
           st, layout)

-----------------------------------------------------------------------------
(* One exchange: the client writes, the broker parses and answers, the client *)
(* reads the answer.                                                          *)

WireInit == call = <<>> /\ wire = <<>> /\ heard = <<>>

Ask ==
  /\ call = <<>>
  /\ \E s \in SUPPORTED : \E v \in s[2] .. s[3], width \in Widths, text \in TextLens :
       /\ call' = <<[api |-> s[1], version |-> v, width |-> width, text |-> text]>>
       /\ wire' = Written(KafkaRequest(s[1], v), width, text)
  /\ UNCHANGED heard

Answer ==
  /\ call # <<>> /\ heard = <<>>
  /\ LET c == call[1] IN
     /\ heard' = <<Read(Parsed(c.api, c.version), [ok |-> TRUE, rest |-> wire])>>
     /\ wire' = Written(Built(c.api, c.version), c.width, c.text)
  /\ UNCHANGED call

Receive ==
  /\ Len(heard) = 1
  /\ LET c == call[1] IN
     heard' = Append(heard, Read(KafkaResponse(c.api, c.version), [ok |-> TRUE, rest |-> wire]))
  /\ UNCHANGED <<call, wire>>

WireNext == Ask \/ Answer \/ Receive

-----------------------------------------------------------------------------

\* Every request a client may send in a version the broker advertises is read to
\* its last field: no parser of groups.rs, txn.rs, consume.rs, produce.rs or sasl.rs is
\* out of step with the version, and the bound on an array's count (bounded_count)
\* never drops an element that is there.  An ApiVersions body is not read.
RequestsUnderstood ==
  heard # <<>> => heard[1].ok /\ (heard[1].rest = <<>> \/ call[1].api = "ApiVersions")

\* Every response is what the protocol lays down for the version the client asked
\* in, so that the client's next byte is the next response's first.
ResponsesUnderstood == Len(heard) = 2 => heard[2] = [ok |-> TRUE, rest |-> <<>>]

\* Client and broker agree on every byte of every request and response, in every
\* version the broker advertises.
WireUnderstood == RequestsUnderstood /\ ResponsesUnderstood
=============================================================================
