------------------------------ MODULE Erasure ------------------------------
(***************************************************************************)
(* The Reed-Solomon codec of datarail-erasure as ErasureStore uses it: a   *)
(* record is padded and cut into k data shards, m parity shards are        *)
(* computed over GF(2^8), shards are lost, and the record is rebuilt from  *)
(* the shards that are left.  The field arithmetic is the code's: its      *)
(* exp/log tables, its Cauchy matrix, its Gauss-Jordan inversion.  Matrices *)
(* and shards are sequences, so index i of the code is i + 1 here.         *)
(***************************************************************************)
EXTENDS Integers, Sequences, FiniteSets, SequencesExt, Bitwise

CONSTANTS
  Codecs,       \* the <<k, m>> a codec is built with
  RecordBytes,  \* the byte values of a record
  MaxRecordLen  \* the longest record

VARIABLES
  codec,    \* <<k, m>>
  record,   \* the record that was put
  shards,   \* the k + m shards as stored; <<>> once lost (a stored shard is never empty)
  solving,  \* <<>>, or the elimination that inverts the survivors' matrix
  rebuilt   \* <<>> before get, then one outcome: [ok, data]

erasureVars == <<codec, record, shards, solving, rebuilt>>

-----------------------------------------------------------------------------
(* The field. *)

\* x times the generator: shift left in a u8 and reduce on carry.
Doubled(x) == IF x >= 128 THEN ((2 * x) % 256) ^^ 29 ELSE 2 * x

\* n entries of the exp table from x on, in halves.
RECURSIVE Powers(_, _)
Powers(x, n) ==
  IF n = 1 THEN <<x>>
  ELSE LET lower == Powers(x, n \div 2)
       IN lower \o Powers(Doubled(Last(lower)), n - n \div 2)

EXP == Powers(1, 255)

LOG == SubSeq([x \in 1 .. 255 |-> (CHOOSE i \in 1 .. 255 : EXP[i] = x) - 1], 1, 255)

\* A product reduced modulo 256 instead of the order of the group, 255.
gf_mul_mod_256(a, b) ==
  IF a = 0 \/ b = 0 THEN 0 ELSE EXP[(((LOG[a] + LOG[b]) % 256) % 255) + 1]

gf_mul(a, b) == IF a = 0 \/ b = 0 THEN 0 ELSE EXP[((LOG[a] + LOG[b]) % 255) + 1]

gf_inv(a) == EXP[((255 - LOG[a]) % 255) + 1]

\* The sum over GF(2^8), which is exclusive or.
XorAll(s) == FoldLeft(LAMBDA a, b : a ^^ b, 0, s)

-----------------------------------------------------------------------------
(* The codec. *)

\* Rs::new: entry (i, j) is 1 / (x_i + y_j) for the points x_i = i and y_j = m + j.
cauchy(k, m) ==
  [i \in 1 .. m |-> [j \in 1 .. k |-> gf_inv((i - 1) ^^ (m + j - 1))]]

Combine(row, data) ==
  [b \in 1 .. Len(data[1]) |-> XorAll([j \in 1 .. Len(row) |-> gf_mul(row[j], data[j][b])])]

encode(k, m, data) == [i \in 1 .. m |-> Combine(cauchy(k, m)[i], data)]

Unit(k, i) == [j \in 1 .. k |-> IF j = i THEN 1 ELSE 0]

code_row(k, m, idx) == IF idx <= k THEN Unit(k, idx) ELSE cauchy(k, m)[idx - k]

Swapped(s, i, j) == [s EXCEPT ![i] = s[j], ![j] = s[i]]

Scaled(row, c) == [j \in DOMAIN row |-> gf_mul(row[j], c)]

Cleared(row, pivot, factor) == [j \in DOMAIN row |-> row[j] ^^ gf_mul(factor, pivot[j])]

\* One column of Gauss-Jordan elimination on st.mat beside st.inv; a column
\* with no pivot leaves ok FALSE, where the code returns None.
Eliminated(st, col) ==
  LET n == Len(st.mat)
      pivots == {r \in col .. n : st.mat[r][col] # 0}
  IN IF pivots = {} THEN [st EXCEPT !.ok = FALSE]
     ELSE LET pivot == CHOOSE r \in pivots : \A q \in pivots : r <= q
              mat == Swapped(st.mat, col, pivot)
              inv == Swapped(st.inv, col, pivot)
              p_inv == gf_inv(mat[col][col])
              prow == Scaled(mat[col], p_inv)
              irow == Scaled(inv[col], p_inv)
          IN [ok |-> TRUE, col |-> col + 1,
              mat |-> [r \in 1 .. n |-> IF r = col THEN prow ELSE Cleared(mat[r], prow, mat[r][col])],
              inv |-> [r \in 1 .. n |-> IF r = col THEN irow ELSE Cleared(inv[r], irow, mat[r][col])]]

-----------------------------------------------------------------------------
(* ErasureStore over the codec. *)

shard_len(len, k) == LET n == (len + k - 1) \div k IN IF n = 0 THEN 1 ELSE n

Cut(data, k) ==
  LET n == shard_len(Len(data), k)
  IN [i \in 1 .. k |-> [b \in 1 .. n |-> IF (i - 1) * n + b <= Len(data) THEN data[(i - 1) * n + b] ELSE 0]]

ErasureInit ==
  /\ codec \in Codecs
  /\ record = <<>> /\ shards = <<>> /\ solving = <<>> /\ rebuilt = <<>>

EncodePut ==
  /\ shards = <<>>
  /\ \E r \in UNION {[1 .. n -> RecordBytes] : n \in 0 .. MaxRecordLen} :
       LET data == Cut(r, codec[1]) IN
       /\ record' = r
       /\ shards' = data \o encode(codec[1], codec[2], data)
  /\ UNCHANGED <<codec, solving, rebuilt>>

ShardGone ==
  /\ rebuilt = <<>> /\ solving = <<>>
  /\ \E i \in DOMAIN shards : shards[i] # <<>> /\ shards' = [shards EXCEPT ![i] = <<>>]
  /\ UNCHANGED <<codec, record, solving, rebuilt>>

Survivors == SelectSeq([i \in DOMAIN shards |-> i], LAMBDA i : shards[i] # <<>>)

Chosen == SubSeq(Survivors, 1, codec[1])

\* get: None when fewer than k shards are left; else reconstruct takes the first
\* k survivors and sets up [matrix | I].
DecodeBegin ==
  /\ shards # <<>> /\ rebuilt = <<>> /\ solving = <<>>
  /\ LET k == codec[1]
         m == codec[2]
     IN IF Len(Survivors) < k
        THEN rebuilt' = <<[ok |-> FALSE, data |-> <<>>]>> /\ UNCHANGED solving
        ELSE /\ solving' = <<[ok |-> TRUE, col |-> 1,
                             mat |-> [r \in 1 .. k |-> code_row(k, m, Chosen[r])],
                             inv |-> [r \in 1 .. k |-> Unit(k, r)]]>>
             /\ UNCHANGED rebuilt
  /\ UNCHANGED <<codec, record, shards>>

\* invert, one column at a time.
Invert ==
  /\ solving # <<>> /\ solving[1].ok /\ solving[1].col <= codec[1]
  /\ solving' = <<Eliminated(solving[1], solving[1].col)>>
  /\ UNCHANGED <<codec, record, shards, rebuilt>>

\* The data shards are combined from the survivors, joined and cut to the
\* stored length; a singular matrix is an error.
DecodeEnd ==
  /\ solving # <<>> /\ rebuilt = <<>>
  /\ ~solving[1].ok \/ solving[1].col > codec[1]
  /\ LET taken == [r \in 1 .. codec[1] |-> shards[Chosen[r]]]
         data == FlattenSeq([j \in 1 .. codec[1] |-> Combine(solving[1].inv[j], taken)])
     IN rebuilt' = <<[ok |-> solving[1].ok,
                      data |-> IF solving[1].ok THEN SubSeq(data, 1, Len(record)) ELSE <<>>]>>
  /\ UNCHANGED <<codec, record, shards, solving>>

ErasureNext == EncodePut \/ ShardGone \/ DecodeBegin \/ Invert \/ DecodeEnd

-----------------------------------------------------------------------------

\* Reed-Solomon is maximum-distance separable: whatever shards are lost, a record
\* comes back byte for byte whenever k shards are left, and is reported missing
\* otherwise (reconstruct and ErasureStore::get).
ErasureRecovers ==
  rebuilt # <<>> =>
    IF Len(Survivors) >= codec[1]
    THEN rebuilt[1] = [ok |-> TRUE, data |-> record]
    ELSE ~rebuilt[1].ok
=============================================================================
