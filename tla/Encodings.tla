----------------------------- MODULE Encodings -----------------------------
(***************************************************************************)
(* The byte encodings the rest of the system trusts to be invertible: the  *)
(* variable-length integers of the Kafka codec, the file names of the blob *)
(* store, the keys and directories of the Kafka broker's stores, the COPY  *)
(* text the Postgres sink sends, and the base64 of its SCRAM exchange.  A  *)
(* byte is its number.  The integers are scaled: GroupBits for 7 bits in a *)
(* byte, IntBits and IntBytes for 32 bits in 5 bytes, LongBits and         *)
(* LongBytes for 64 bits in 10 bytes, with the last group of either partly *)
(* outside the integer, as in the code.                                    *)
(***************************************************************************)
EXTENDS Integers, Sequences, FiniteSets, SequencesExt

CONSTANTS
  GroupBits, IntBits, IntBytes, LongBits, LongBytes,
  NameBytes, MaxName,    \* the bytes and the length of names
  RowBytes, MaxRow,      \* the bytes and the length of rows
  BinaryBytes, MaxBinary \* the bytes and the length of binary strings

VARIABLES
  given,   \* what is encoded: [as, in] with in a sequence of numbers, or of rows
  coded,   \* <<>>, or its encoding
  decoded  \* <<>>, or what came back: [ok, out]

encodingVars == <<given, coded, decoded>>

Strings(bytes, max) == UNION {[1 .. n -> bytes] : n \in 0 .. max}

Failed == [ok |-> FALSE, out |-> <<>>]
Ok(s) == [ok |-> TRUE, out |-> s]

-----------------------------------------------------------------------------
(* codec.rs: variable-length integers. *)

RECURSIVE write_unsigned(_)
write_unsigned(v) ==
  IF v >= 2^GroupBits THEN <<(v % 2^GroupBits) + 2^GroupBits>> \o write_unsigned(v \div 2^GroupBits) ELSE <<v>>

\* Writer::varint and varlong: the sign goes into the lowest bit.
zigzag(n) == IF n >= 0 THEN 2 * n ELSE -2 * n - 1

unzigzag(v) == IF v % 2 = 0 THEN v \div 2 ELSE -(v \div 2) - 1

\* The groups up to the first byte without the continuation bit, and how many
\* bytes they took; bits shifted out of the 64-bit accumulator are lost.
unsigned_varint_u64(s, max_bytes) ==
  LET ends == {i \in DOMAIN s : i <= max_bytes /\ s[i] < 2^GroupBits}
      n == CHOOSE i \in ends : \A j \in ends : i <= j
      Part(i) == (s[i] % 2^GroupBits) * 2^(GroupBits * (i - 1))
  IN IF ends = {} THEN Failed
     ELSE Ok(<<FoldLeft(LAMBDA sum, i : (sum + Part(i)) % 2^LongBits, 0, [i \in 1 .. n |-> i]), n>>)

Unzigzagged(got) == IF got.ok THEN Ok(<<unzigzag(got.out[1]), got.out[2]>>) ELSE got

\* A value past u32 is refused.
read_varint(s) ==
  LET got == unsigned_varint_u64(s, IntBytes)
  IN IF got.ok /\ got.out[1] >= 2^IntBits THEN Failed ELSE Unzigzagged(got)

read_varlong(s) == Unzigzagged(unsigned_varint_u64(s, LongBytes))

-----------------------------------------------------------------------------
(* blobstore: keys as file names; cli main.rs: offset keys and directories. *)

Digit(c) == c \in 48 .. 57
Upper(c) == c \in 65 .. 90
Lower(c) == c \in 97 .. 122

\* The escape character passed through as it is.
Verbatim_escape(c) == Digit(c) \/ Upper(c) \/ Lower(c) \/ c \in {37, 45, 95}

\* [A-Za-z0-9_-] is passed through.
Verbatim(c) == Digit(c) \/ Upper(c) \/ Lower(c) \/ c \in {45, 95}

hex_digit(nibble) == IF nibble < 10 THEN 48 + nibble ELSE 65 + nibble - 10

hex_value(c) ==
  CASE Digit(c) -> c - 48 [] c \in 65 .. 70 -> c - 55 [] c \in 97 .. 102 -> c - 87 [] OTHER -> 16

encode_key(key) ==
  <<66>> \o FlattenSeq([i \in DOMAIN key |->
    IF Verbatim(key[i]) THEN <<key[i]>> ELSE <<37, hex_digit(key[i] \div 16), hex_digit(key[i] % 16)>>])

RECURSIVE DecodedFrom(_, _)
DecodedFrom(name, i) ==
  IF i > Len(name) THEN Ok(<<>>)
  ELSE LET escape == name[i] = 37
           rest == DecodedFrom(name, IF escape THEN i + 3 ELSE i + 1)
           bad == IF escape THEN i + 2 > Len(name) \/ hex_value(name[i + 1]) = 16 \/ hex_value(name[i + 2]) = 16
                  ELSE ~Verbatim(name[i])
       IN IF bad \/ ~rest.ok THEN Failed
          ELSE Ok(<<IF escape THEN hex_value(name[i + 1]) * 16 + hex_value(name[i + 2]) ELSE name[i]>> \o rest.out)

decode_key(name) == IF name # <<>> /\ name[1] = 66 THEN DecodedFrom(name, 2) ELSE Failed

\* The decimal form of a length or a partition, here of one digit.
Decimal(n) == <<48 + n>>

\* "{group.len()}:{group}:{topic.len()}:{topic}:{partition}"; 58 is the colon.
offset_key(group, topic, partition) ==
  Decimal(Len(group)) \o <<58>> \o group \o <<58>> \o Decimal(Len(topic)) \o <<58>> \o topic \o <<58>> \o Decimal(partition)

lower_hex(nibble) == IF nibble < 10 THEN 48 + nibble ELSE 97 + nibble - 10

partition_dir(topic, partition) ==
  FlattenSeq([i \in DOMAIN topic |-> <<lower_hex(topic[i] \div 16), lower_hex(topic[i] % 16)>>])
    \o <<45>> \o Decimal(partition)

-----------------------------------------------------------------------------
(* postgres_sink.rs: COPY text and base64. *)

escape_copy(row) ==
  FlattenSeq([i \in DOMAIN row |->
    CASE row[i] = 92 -> <<92, 92>> [] row[i] = 9 -> <<92, 116>> [] row[i] = 10 -> <<92, 110>>
      [] row[i] = 13 -> <<92, 114>> [] OTHER -> <<row[i]>>])

\* copy_in: every record is a line of its own.
copy_in(rows) == FlattenSeq([i \in DOMAIN rows |-> escape_copy(rows[i]) \o <<10>>])

\* The server's side of COPY text: lines end at a newline, a backslash takes the
\* next byte with it, "\N" alone is NULL and "\." alone ends the data.
RECURSIVE Unescaped(_)
Unescaped(line) ==
  IF line = <<>> THEN <<>>
  ELSE IF line[1] = 92 /\ Len(line) > 1
       THEN <<CASE line[2] = 116 -> 9 [] line[2] = 110 -> 10 [] line[2] = 114 -> 13 [] OTHER -> line[2]>>
              \o Unescaped(SubSeq(line, 3, Len(line)))
       ELSE <<line[1]>> \o Unescaped(Tail(line))

RECURSIVE CopiedRows(_)
CopiedRows(text) ==
  IF text = <<>> THEN Ok(<<>>)
  ELSE LET ends == {i \in DOMAIN text : text[i] = 10}
           n == CHOOSE i \in ends : \A j \in ends : i <= j
           line == SubSeq(text, 1, n - 1)
           rest == CopiedRows(SubSeq(text, n + 1, Len(text)))
       IN IF line \in {<<92, 78>>, <<92, 46>>} \/ (\E i \in DOMAIN line : line[i] \in {9, 13}) \/ ~rest.ok
          THEN Failed
          ELSE Ok(<<Unescaped(line)>> \o rest.out)

b64_symbol(v) ==
  CASE v < 26 -> 65 + v [] v \in 26 .. 51 -> 97 + v - 26 [] v \in 52 .. 61 -> 48 + v - 52 [] v = 62 -> 43 [] v = 63 -> 47

b64_value(c) ==
  CASE Upper(c) -> c - 65 [] Lower(c) -> c - 97 + 26 [] Digit(c) -> c - 48 + 52 [] c = 43 -> 62 [] c = 47 -> 63 [] OTHER -> 64

At(s, i) == IF i <= Len(s) THEN s[i] ELSE 0

Chunks(s, n) == [i \in 1 .. (Len(s) + n - 1) \div n |-> SubSeq(s, (i - 1) * n + 1, IF i * n <= Len(s) THEN i * n ELSE Len(s))]

base64_encode(data) ==
  FlattenSeq([c \in DOMAIN Chunks(data, 3) |->
    LET chunk == Chunks(data, 3)[c]
        n == At(chunk, 1) * 65536 + At(chunk, 2) * 256 + At(chunk, 3)
        Symbol(shift) == b64_symbol((n \div shift) % 64)
    IN <<Symbol(262144), Symbol(4096), IF Len(chunk) > 1 THEN Symbol(64) ELSE 61, IF Len(chunk) > 2 THEN Symbol(1) ELSE 61>>])

base64_decode(s) ==
  LET symbols == SelectSeq(s, LAMBDA c : c # 61)
      chunks == Chunks(symbols, 4)
      Acc(chunk) == FoldLeft(LAMBDA acc, i : acc * 64 + (IF i <= Len(chunk) THEN b64_value(chunk[i]) ELSE 0), 0, <<1, 2, 3, 4>>)
      Out(chunk) == SubSeq(<<Acc(chunk) \div 65536, (Acc(chunk) \div 256) % 256, Acc(chunk) % 256>>, 1, Len(chunk) - 1)
  IN IF \/ \E i \in DOMAIN s : i > Len(symbols) /\ s[i] # 61
        \/ Len(symbols) % 4 = 1
        \/ \E i \in DOMAIN symbols : b64_value(symbols[i]) = 64
     THEN Failed
     ELSE Ok(FlattenSeq([c \in DOMAIN chunks |-> Out(chunks[c])]))

-----------------------------------------------------------------------------

Ints(bits) == -(2^(bits - 1)) .. 2^(bits - 1) - 1

EncodingInit ==
  /\ given \in [as : {"varint"}, in : {<<n>> : n \in Ints(IntBits)}]
            \cup [as : {"varlong"}, in : {<<n>> : n \in Ints(LongBits)}]
            \cup [as : {"key"}, in : Strings(NameBytes, MaxName)]
            \cup [as : {"copy"}, in : {<<r1, r2>> : r1, r2 \in Strings(RowBytes, MaxRow)}]
            \cup [as : {"base64"}, in : Strings(BinaryBytes, MaxBinary)]
  /\ coded = <<>> /\ decoded = <<>>

Encode ==
  /\ coded = <<>>
  /\ coded' = CASE given.as \in {"varint", "varlong"} -> write_unsigned(zigzag(given.in[1]))
                [] given.as = "key" -> encode_key(given.in)
                [] given.as = "copy" -> copy_in(given.in)
                [] given.as = "base64" -> <<base64_encode(given.in)>>
  /\ UNCHANGED <<given, decoded>>

Decode ==
  /\ coded # <<>> /\ decoded = <<>>
  /\ decoded' = <<CASE given.as = "varint" -> read_varint(coded)
                    [] given.as = "varlong" -> read_varlong(coded)
                    [] given.as = "key" -> decode_key(coded)
                    [] given.as = "copy" -> CopiedRows(coded)
                    [] given.as = "base64" -> base64_decode(coded[1])>>
  /\ UNCHANGED <<given, coded>>

EncodingNext == Encode \/ Decode

-----------------------------------------------------------------------------

\* Names of digits and colons, the ones a key's length prefixes could be taken for.
Mistakable == Strings({50, 58}, 2)

\* Every i32 and i64 comes back from its variable-length form, read to its last
\* byte and no further (Writer::varint, varlong and Reader::varint, varlong).
VarintsComeBack ==
  decoded # <<>> /\ given.as \in {"varint", "varlong"} => decoded[1] = Ok(<<given.in[1], Len(coded)>>)

\* A blob key is recovered from its file name, which starts with the marker and holds
\* no separator or dot (encode_key, decode_key); and two (group, topic, partition), or
\* two (topic, partition), never share an offset key or a directory.
NamesComeBack ==
  /\ decoded # <<>> /\ given.as = "key" =>
       /\ decoded[1] = Ok(given.in)
       /\ coded[1] = 66 /\ \A i \in DOMAIN coded : coded[i] \notin {46, 47}
  /\ coded = <<>> /\ given.as = "key" /\ given.in \in Mistakable =>
       \A t, g2, t2 \in Mistakable : \A q \in 0 .. 1 :
         /\ offset_key(given.in, t, 0) = offset_key(g2, t2, q) => <<given.in, t, 0>> = <<g2, t2, q>>
         /\ partition_dir(t, 0) = partition_dir(t2, q) => <<t, 0>> = <<t2, q>>

\* Postgres stores the records the sink was given, however many backslashes, tabs or
\* line ends they hold (copy_in, escape_copy), and base64 is undone exactly.
RowsComeBack ==
  decoded # <<>> /\ given.as \in {"copy", "base64"} => decoded[1] = Ok(given.in)

\* Every integer, name and row is recovered from its encoded form, and no two
\* names share one.
CodingsComeBack == VarintsComeBack /\ NamesComeBack /\ RowsComeBack
=============================================================================
