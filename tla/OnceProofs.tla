----------------------------- MODULE OnceProofs -----------------------------
(***************************************************************************)
(* Proofs about the admission gate: for every gc_lag, every reorder        *)
(* horizon, every set of keys and every range of sequence numbers, no seq  *)
(* is committed twice.                                                     *)
(***************************************************************************)
EXTENDS Once, NaturalMinimum

-----------------------------------------------------------------------------
(* The loops of admit.                                                     *)

\* The drain loop of admit ends at the first number it does not find parked.
LEMMA FirstGapSpec ==
    ASSUME NEW w \in Watermarks, NEW parked, parked \subseteq Seqs
    PROVE  /\ FirstGap(w, parked) \in w..(MaxSeq + 1)
           /\ FirstGap(w, parked) \in Watermarks
           /\ FirstGap(w, parked) \notin parked
<1> DEFINE Gaps == {n \in w..(MaxSeq + 1) : n \notin parked}
<1>1. MaxSeq + 1 \in Gaps
    BY OnceAssumption DEF Watermarks, Seqs
<1>2. Gaps \subseteq Nat
    BY OnceAssumption DEF Watermarks
<1>3. PICK n \in Gaps : \A m \in Gaps : n <= m
    BY <1>1, <1>2, LeastNatural
<1>4. \A m \in w..(n - 1) : m \in parked
    BY <1>3, OnceAssumption DEF Watermarks
<1>5. \E g \in w..(MaxSeq + 1) : g \notin parked /\ \A m \in w..(g - 1) : m \in parked
    BY <1>3, <1>4
<1>6. FirstGap(w, parked) \in w..(MaxSeq + 1) /\ FirstGap(w, parked) \notin parked
    BY <1>5 DEF FirstGap
<1> QED
    BY <1>6, OnceAssumption DEF Watermarks

\* The seal loop starts draining at a parked seq.
LEMMA LowestParkedSpec ==
    ASSUME NEW parked, parked \subseteq Seqs, parked # {}
    PROVE  LowestParked(parked) \in parked
<1>1. parked \subseteq Nat
    BY OnceAssumption DEF Seqs
<1>2. \E q \in parked : \A p \in parked : q <= p
    BY <1>1, LeastNatural
<1> QED
    BY <1>2 DEF LowestParked

-----------------------------------------------------------------------------
(* One call of admit.                                                      *)

\* What step (3) of admit leaves: a watermark that did not move back and is
\* not itself parked, and the parked seqs above it.
LEMMA AdvanceSpec ==
    ASSUME NEW st \in StreamState, NEW q \in Seqs,
           \A p \in st.ahead : p > st.low_watermark,
           q >= st.low_watermark
    PROVE  /\ Advance(st, q) \in StreamState
           /\ Advance(st, q).seen = st.seen
           /\ Advance(st, q).delivered_keys = st.delivered_keys
           /\ Advance(st, q).gc_floor = st.gc_floor
           /\ Advance(st, q).low_watermark >= st.low_watermark
           /\ Advance(st, q).low_watermark \notin st.ahead \cup {q}
           /\ Advance(st, q).ahead =
                {p \in st.ahead \cup {q} : p >= Advance(st, q).low_watermark}
<1> DEFINE w == st.low_watermark
           parked == st.ahead \cup {q}
           Result(n) == [st EXCEPT !.low_watermark = n,
                                   !.ahead = {p \in parked : p >= n}]
<1>1. /\ w \in Watermarks /\ w \in Int /\ q \in Int
      /\ st.ahead \subseteq Seqs /\ parked \subseteq Seqs
    BY OnceAssumption DEF StreamState, Seqs, Watermarks
<1>2. \E n \in Watermarks : n >= w /\ n \notin parked /\ Advance(st, q) = Result(n)
    <2>1. CASE q = w
        <3> DEFINE g == FirstGap(w + 1, st.ahead)
        <3>1. w + 1 \in Watermarks
            BY <1>1, <2>1, OnceAssumption DEF Seqs, Watermarks
        <3>2. g \in (w + 1)..(MaxSeq + 1) /\ g \in Watermarks /\ g \notin st.ahead
            BY <1>1, <3>1, FirstGapSpec
        <3>3. Advance(st, q) = Result(g)
            BY <2>1 DEF Advance
        <3>4. g >= w /\ g \notin parked
            BY <1>1, <2>1, <3>2
        <3> HIDE DEF g, Result
        <3> QED
            BY <3>2, <3>3, <3>4
    <2>2. CASE q # w /\ Cardinality(parked) > MaxReorderHorizon
        <3> DEFINE low == LowestParked(parked)
                   g == FirstGap(low, parked)
        <3>1. low \in parked
            BY <1>1, LowestParkedSpec
        <3>2. low >= w /\ low \in Watermarks
            BY <1>1, <3>1, OnceAssumption DEF Seqs, Watermarks
        <3>3. g \in low..(MaxSeq + 1) /\ g \in Watermarks /\ g \notin parked
            BY <1>1, <3>2, FirstGapSpec
        <3>4. Advance(st, q) = Result(g)
            BY <2>2 DEF Advance, SealLowestGap
        <3> HIDE DEF low
        <3>5. g >= w
            BY <1>1, <3>2, <3>3, OnceAssumption DEF Watermarks
        <3> HIDE DEF g, Result
        <3> QED
            BY <3>3, <3>4, <3>5
    <2>3. CASE q # w /\ ~ (Cardinality(parked) > MaxReorderHorizon)
        <3>1. Advance(st, q) = Result(w)
            BY <2>3 DEF Advance
        <3>2. w >= w /\ w \notin parked
            BY <1>1, <2>3
        <3> HIDE DEF Result
        <3> QED
            BY <1>1, <3>1, <3>2
    <2> QED
        BY <2>1, <2>2, <2>3
<1>3. PICK n \in Watermarks : n >= w /\ n \notin parked /\ Advance(st, q) = Result(n)
    BY <1>2
<1>4. /\ Result(n) \in StreamState
      /\ Result(n).seen = st.seen
      /\ Result(n).delivered_keys = st.delivered_keys
      /\ Result(n).gc_floor = st.gc_floor
      /\ Result(n).low_watermark = n
      /\ Result(n).ahead = {p \in parked : p >= n}
    BY <1>1 DEF StreamState
<1> HIDE DEF Result
<1> QED
    BY <1>3, <1>4

\* What step (4) of admit leaves: everything at or above the new floor, and
\* of the keys those of the entries that remain.
LEMMA CollectSpec ==
    ASSUME NEW st \in StreamState, KeysAgree(st), st.gc_floor <= st.low_watermark
    PROVE  /\ CollectGarbage(st) \in StreamState
           /\ CollectGarbage(st).ahead = st.ahead
           /\ CollectGarbage(st).low_watermark = st.low_watermark
           /\ CollectGarbage(st).gc_floor >= st.gc_floor
           /\ CollectGarbage(st).gc_floor <= st.low_watermark
           /\ \A q \in Seqs : q >= CollectGarbage(st).gc_floor =>
                 CollectGarbage(st).delivered_keys[q] = st.delivered_keys[q]
           /\ Remembered(CollectGarbage(st)) \subseteq Remembered(st)
           /\ KeysAgree(CollectGarbage(st))
<1> DEFINE floor == FloorFor(st.low_watermark)
           dropped == {q \in Seqs : st.gc_floor <= q /\ q < floor}
           keys == [q \in Seqs |-> IF q \in dropped THEN NoKey ELSE st.delivered_keys[q]]
           seen == st.seen \ {st.delivered_keys[q] : q \in dropped}
           nf == IF st.gc_floor < floor THEN floor ELSE st.gc_floor
           c == CollectGarbage(st)
<1>1. /\ st.low_watermark \in Watermarks /\ st.low_watermark \in Int
      /\ st.gc_floor \in Watermarks /\ st.gc_floor \in Int
      /\ st.delivered_keys \in [Seqs -> Keys \cup {NoKey}]
      /\ st.seen \subseteq Keys
    BY OnceAssumption DEF StreamState, Watermarks
<1>2. floor \in Watermarks /\ floor <= st.low_watermark /\ floor \in Int
    BY <1>1, OnceAssumption DEF FloorFor, Watermarks
<1>3. c = [st EXCEPT !.seen = seen, !.delivered_keys = keys, !.gc_floor = nf]
    BY DEF CollectGarbage
<1>4. keys \in [Seqs -> Keys \cup {NoKey}]
    BY <1>1
<1>5. nf \in Watermarks /\ nf >= st.gc_floor /\ nf <= st.low_watermark /\ nf >= floor
    BY <1>1, <1>2
<1>6. /\ c \in StreamState /\ c.seen = seen /\ c.delivered_keys = keys
      /\ c.gc_floor = nf /\ c.ahead = st.ahead /\ c.low_watermark = st.low_watermark
    BY <1>1, <1>3, <1>4, <1>5 DEF StreamState
<1>7. \A q \in Seqs : q >= nf => keys[q] = st.delivered_keys[q]
    BY <1>2, <1>5, OnceAssumption DEF Seqs, Watermarks
<1>8. \A q \in Remembered(c) : /\ q \in Remembered(st) /\ q \notin dropped
                               /\ keys[q] = st.delivered_keys[q]
    <2> HIDE DEF dropped
    <2> QED
        BY <1>6 DEF Remembered
<1>9. KeysAgree(c)
    <2>1. ASSUME NEW q \in Remembered(c) PROVE keys[q] \in seen
        <3>1. st.delivered_keys[q] \in st.seen
            BY <1>8 DEF KeysAgree
        <3>2. ASSUME NEW d \in dropped, st.delivered_keys[d] = st.delivered_keys[q]
              PROVE  FALSE
            <4>1. st.delivered_keys[d] # NoKey /\ d \in Seqs
                BY <1>8, <3>2 DEF Remembered
            <4>2. d \in Remembered(st)
                BY <4>1 DEF Remembered
            <4>3. d = q
                BY <1>8, <3>2, <4>2 DEF KeysAgree
            <4> QED
                BY <1>8, <4>3
        <3> QED
            BY <1>8, <3>1, <3>2
    <2>2. ASSUME NEW p \in Remembered(c), NEW q \in Remembered(c), keys[p] = keys[q]
          PROVE  p = q
        BY <1>8, <2>2 DEF KeysAgree
    <2> HIDE DEF keys, seen
    <2> QED
        BY <1>6, <2>1, <2>2 DEF KeysAgree
<1> HIDE DEF keys, seen, nf, c
<1>10. Remembered(c) \subseteq Remembered(st)
    BY <1>8
<1> QED
    BY <1>5, <1>6, <1>7, <1>9, <1>10 DEF c

\* One call of admit that delivers <<q, k>>, seen from outside the gate.
LEMMA AdmittedSpec ==
    ASSUME NEW st \in StreamState, NEW q \in Seqs, NEW k \in Keys,
           HorizonAgrees(st), KeysAgree(st), ~ IsDuplicate(st, q, k)
    PROVE  /\ Admitted(st, q, k) \in StreamState
           /\ HorizonAgrees(Admitted(st, q, k))
           /\ KeysAgree(Admitted(st, q, k))
           /\ Admitted(st, q, k).low_watermark >= st.low_watermark
           /\ Admitted(st, q, k).gc_floor >= st.gc_floor
           /\ Admitted(st, q, k).gc_floor <= Admitted(st, q, k).low_watermark
           /\ \A p \in Seqs : p >= Admitted(st, q, k).gc_floor =>
                 Admitted(st, q, k).delivered_keys[p] =
                    IF p = q THEN k ELSE st.delivered_keys[p]
<1> DEFINE keys == [st.delivered_keys EXCEPT ![q] = k]
           r == [st EXCEPT !.seen = @ \cup {k}, !.delivered_keys = keys]
           a == Advance(r, q)
           c == CollectGarbage(a)
<1>1. Admitted(st, q, k) = c
    BY DEF Admitted
<1>2. /\ st.low_watermark \in Int /\ st.gc_floor \in Int /\ q \in Int
      /\ st.delivered_keys \in [Seqs -> Keys \cup {NoKey}]
      /\ st.ahead \subseteq Seqs
    BY OnceAssumption DEF StreamState, Seqs, Watermarks
<1>3. q >= st.low_watermark /\ k \notin st.seen /\ st.delivered_keys[q] = NoKey
    BY <1>2 DEF IsDuplicate, Remembered
<1>4. /\ r \in StreamState /\ r.seen = st.seen \cup {k} /\ r.delivered_keys = keys
      /\ r.ahead = st.ahead /\ r.low_watermark = st.low_watermark
      /\ r.gc_floor = st.gc_floor
    BY DEF StreamState
<1>5. \A p \in Seqs : keys[p] = IF p = q THEN k ELSE st.delivered_keys[p]
    BY <1>2
<1>6. Remembered(r) = Remembered(st) \cup {q}
    <2> HIDE DEF keys, r
    <2> QED
        BY <1>4, <1>5, OnceAssumption DEF Remembered
<1> HIDE DEF keys, r
<1>7. KeysAgree(r)
    <2>1. ASSUME NEW p \in Remembered(r) PROVE keys[p] \in st.seen \cup {k}
        BY <1>5, <1>6 DEF KeysAgree, Remembered
    <2>2. ASSUME NEW p \in Remembered(r), NEW p2 \in Remembered(r), keys[p] = keys[p2]
          PROVE  p = p2
        BY <1>3, <1>5, <1>6, <2>2 DEF KeysAgree, Remembered
    <2> QED
        BY <1>4, <2>1, <2>2 DEF KeysAgree
<1>8. /\ a \in StreamState /\ a.seen = r.seen /\ a.delivered_keys = keys
      /\ a.gc_floor = st.gc_floor /\ a.low_watermark >= st.low_watermark
      /\ a.low_watermark \notin st.ahead \cup {q}
      /\ a.ahead = {p \in st.ahead \cup {q} : p >= a.low_watermark}
    BY <1>3, <1>4, AdvanceSpec DEF HorizonAgrees
<1> HIDE DEF a
<1>9. /\ KeysAgree(a) /\ Remembered(a) = Remembered(r)
      /\ a.low_watermark \in Int /\ a.gc_floor <= a.low_watermark
    BY <1>2, <1>4, <1>7, <1>8, OnceAssumption
       DEF KeysAgree, Remembered, HorizonAgrees, StreamState, Watermarks
<1>10. /\ c \in StreamState /\ KeysAgree(c)
       /\ c.ahead = a.ahead /\ c.low_watermark = a.low_watermark
       /\ c.gc_floor >= a.gc_floor /\ c.gc_floor <= a.low_watermark
       /\ \A p \in Seqs : p >= c.gc_floor => c.delivered_keys[p] = a.delivered_keys[p]
       /\ Remembered(c) \subseteq Remembered(a)
    BY <1>8, <1>9, CollectSpec
<1> HIDE DEF c
<1>11. HorizonAgrees(c)
    <2>1. \A p \in c.ahead : p > c.low_watermark
        BY <1>2, <1>8, <1>9, <1>10 DEF Seqs
    <2>2. ASSUME NEW p \in Seqs, p >= c.low_watermark, p \in Remembered(c)
          PROVE  p \in c.ahead
        <3>1. p \in Remembered(st) \cup {q}
            BY <1>6, <1>9, <1>10, <2>2
        <3>2. p >= st.low_watermark
            BY <1>2, <1>8, <1>9, <1>10, <2>2 DEF Seqs
        <3> QED
            BY <1>8, <1>10, <2>2, <3>1, <3>2 DEF HorizonAgrees
    <2>3. ASSUME NEW p \in c.ahead PROVE p \in Remembered(c)
        <3>1. p \in Seqs /\ p \in Remembered(a) /\ p >= c.low_watermark
            BY <1>2, <1>6, <1>8, <1>9, <1>10 DEF HorizonAgrees
        <3>2. p >= c.gc_floor
            BY <1>9, <1>10, <3>1, OnceAssumption DEF Seqs, StreamState, Watermarks
        <3> QED
            BY <1>10, <3>1, <3>2 DEF Remembered
    <2> QED
        BY <1>10, <2>1, <2>2, <2>3 DEF HorizonAgrees
<1> QED
    BY <1>1, <1>5, <1>8, <1>10, <1>11

-----------------------------------------------------------------------------
(* The gate and its sink.                                                  *)

\* The invariant of the gate (Once::admit) and the sink holds in every
\* reachable state, for every gc_lag and every reorder horizon.
THEOREM GateInvariant == Spec => []GateInv
<1>1. Init => GateInv
    <2> SUFFICES ASSUME Init PROVE GateInv
        OBVIOUS
    <2>1. DefaultStream \in StreamState /\ Remembered(DefaultStream) = {}
        BY OnceAssumption DEF DefaultStream, StreamState, Watermarks, Remembered, Seqs
    <2>2. HorizonAgrees(DefaultStream) /\ KeysAgree(DefaultStream)
        BY <2>1 DEF DefaultStream, HorizonAgrees, KeysAgree
    <2> QED
        BY <2>1, <2>2 DEF Init, GateInv, TypeOK, SinkAgrees
<1>2. GateInv /\ [Next]_vars => GateInv'
    <2> SUFFICES ASSUME GateInv, [Next]_vars PROVE GateInv'
        OBVIOUS
    <2>1. ASSUME NEW s \in Streams, NEW q \in Seqs, NEW k \in Keys, Deliver(s, q, k)
          PROVE  GateInv'
        <3> DEFINE st == streams[s]
                   new == Admitted(st, q, k)
        <3>1. /\ st \in StreamState /\ HorizonAgrees(st) /\ KeysAgree(st)
              /\ ~ IsDuplicate(st, q, k) /\ SinkAgrees(s)
            BY <2>1 DEF GateInv, TypeOK, Deliver
        <3>2. /\ new \in StreamState /\ HorizonAgrees(new) /\ KeysAgree(new)
              /\ new.low_watermark >= st.low_watermark
              /\ new.gc_floor >= st.gc_floor
              /\ new.gc_floor <= new.low_watermark
              /\ \A p \in Seqs : p >= new.gc_floor =>
                    new.delivered_keys[p] = IF p = q THEN k ELSE st.delivered_keys[p]
            BY <3>1, AdmittedSpec
        <3> HIDE DEF new
        <3>3. streams' = [streams EXCEPT ![s] = new] /\ streams'[s] = new
            BY <2>1 DEF Deliver, GateInv, TypeOK, new
        <3>4. /\ commits'[s] = [commits[s] EXCEPT ![q] = @ + 1]
              /\ landed'[s] = landed[s] \cup {<<q, k>>}
              /\ \A t \in Streams \ {s} : /\ streams'[t] = streams[t]
                                         /\ commits'[t] = commits[t]
                                         /\ landed'[t] = landed[t]
            BY <2>1 DEF Deliver, GateInv, TypeOK
        <3>5. TypeOK'
            <4>1. streams' \in [Streams -> StreamState]
                BY <3>2, <3>3 DEF GateInv, TypeOK
            <4>2. commits' \in [Streams -> [Seqs -> Nat]]
                BY <2>1 DEF GateInv, TypeOK, Deliver
            <4>3. landed' \in [Streams -> SUBSET (Seqs \X Keys)]
                BY <2>1 DEF GateInv, TypeOK, Deliver
            <4>4. sealed' \in [Streams -> SUBSET Seqs]
                <5>1. NewlySealed(s, streams'[s]) \subseteq Seqs
                    BY DEF NewlySealed
                <5> QED
                    BY <2>1, <5>1 DEF GateInv, TypeOK, Deliver
            <4> QED
                BY <4>1, <4>2, <4>3, <4>4 DEF TypeOK
        <3>6. SinkAgrees(s)'
            <4>1. commits[s][q] = 0 /\ q >= st.low_watermark
                BY <3>1, OnceAssumption
                   DEF SinkAgrees, IsDuplicate, StreamState, Seqs, Watermarks
            <4>2. \A p \in Seqs : commits'[s][p] = IF p = q THEN 1 ELSE commits[s][p]
                BY <3>4, <4>1 DEF GateInv, TypeOK
            <4>3. \A p \in Seqs : commits'[s][p] <= 1
                BY <3>1, <4>2 DEF SinkAgrees
            <4>4. ASSUME NEW p \in Seqs, p >= new.low_watermark, p \notin Remembered(new)
                  PROVE  commits'[s][p] = 0
                <5>1. p >= new.gc_floor /\ p >= st.low_watermark
                    BY <3>1, <3>2, <4>4, OnceAssumption DEF StreamState, Seqs, Watermarks
                <5>2. p # q
                    BY <3>2, <4>4, <5>1, OnceAssumption DEF Remembered
                <5>3. p \notin Remembered(st)
                    BY <3>2, <4>4, <5>1, <5>2 DEF Remembered
                <5> QED
                    BY <3>1, <4>2, <5>1, <5>2, <5>3 DEF SinkAgrees
            <4>5. ASSUME NEW c \in landed'[s], c[1] >= new.gc_floor
                  PROVE  new.delivered_keys[c[1]] = c[2]
                <5>1. CASE c = <<q, k>>
                    BY <3>2, <4>5, <5>1
                <5>2. CASE c \in landed[s] /\ c[1] # q
                    <6>1. c[1] \in Seqs
                        BY <5>2 DEF GateInv, TypeOK
                    <6>2. c[1] >= st.gc_floor
                        BY <3>1, <3>2, <4>5, <6>1, OnceAssumption
                           DEF StreamState, Seqs, Watermarks
                    <6> QED
                        BY <3>1, <3>2, <4>5, <5>2, <6>1, <6>2 DEF SinkAgrees
                <5>3. CASE c \in landed[s] /\ c[1] = q
                    <6>1. q >= st.gc_floor
                        BY <3>1, <4>1, OnceAssumption
                           DEF HorizonAgrees, StreamState, Seqs, Watermarks
                    <6>2. st.delivered_keys[q] = c[2]
                        BY <3>1, <5>3, <6>1 DEF SinkAgrees
                    <6>3. c[2] \in Keys
                        BY <5>3 DEF GateInv, TypeOK
                    <6> QED
                        BY <3>1, <6>2, <6>3, OnceAssumption DEF IsDuplicate, Remembered
                <5> QED
                    BY <3>4, <5>1, <5>2, <5>3
            <4> QED
                BY <3>3, <4>3, <4>4, <4>5 DEF SinkAgrees
        <3>7. \A t \in Streams \ {s} : SinkAgrees(t)'
            BY <3>4 DEF GateInv, SinkAgrees, Remembered
        <3>8. \A t \in Streams : HorizonAgrees(streams'[t]) /\ KeysAgree(streams'[t])
            BY <3>2, <3>3, <3>4 DEF GateInv
        <3> QED
            BY <3>5, <3>6, <3>7, <3>8 DEF GateInv
    <2>2. ASSUME UNCHANGED vars PROVE GateInv'
        BY <2>2 DEF vars, GateInv, TypeOK, SinkAgrees
    <2> QED
        BY <2>1, <2>2 DEF Next, DropDuplicate
<1> QED
    BY <1>1, <1>2, PTL DEF Spec

\* Type correctness of the gate (Once) and its sink.
THEOREM TypeCorrect == Spec => []TypeOK
BY GateInvariant, PTL DEF GateInv

\* No seq is committed to the sink twice, for every gc_lag, every reorder
\* horizon and every redelivery (Once::admit with DestTerminal::offload).
THEOREM AtMostOnceCommit == Spec => []AtMostOnce
<1>1. GateInv => AtMostOnce
    BY DEF GateInv, SinkAgrees, AtMostOnce
<1> QED
    BY <1>1, GateInvariant, PTL

\* The watermark names a seq the sink has not committed (the drain loops of
\* Once::admit).
THEOREM WatermarkExact == Spec => []WatermarkAtFirstGap
<1>1. GateInv => WatermarkAtFirstGap
    <2> SUFFICES ASSUME GateInv, NEW s \in Streams, streams[s].low_watermark \in Seqs
                 PROVE  commits[s][streams[s].low_watermark] = 0
        BY DEF WatermarkAtFirstGap
    <2>1. HorizonAgrees(streams[s]) /\ SinkAgrees(s)
        BY DEF GateInv
    <2>2. streams[s].low_watermark \notin Remembered(streams[s])
        BY <2>1, OnceAssumption DEF HorizonAgrees, Seqs
    <2> QED
        BY <2>1, <2>2, OnceAssumption DEF SinkAgrees, Seqs
<1> QED
    BY <1>1, GateInvariant, PTL

\* Inside the retention window a key is delivered under one seq only (check
\* (2) of Once::admit and its garbage collection).
THEOREM KeyOnce == Spec => []KeyOncePerWindow
<1>1. GateInv => KeyOncePerWindow
    <2> SUFFICES ASSUME GateInv, NEW s \in Streams,
                        NEW a \in landed[s], NEW b \in landed[s], a[2] = b[2],
                        ~ (a[1] < streams[s].gc_floor), ~ (b[1] < streams[s].gc_floor)
                 PROVE  a = b
        BY DEF KeyOncePerWindow
    <2>1. a \in Seqs \X Keys /\ b \in Seqs \X Keys /\ streams[s] \in StreamState
        BY DEF GateInv, TypeOK
    <2>2. a[1] >= streams[s].gc_floor /\ b[1] >= streams[s].gc_floor
        BY <2>1, OnceAssumption DEF Seqs, StreamState, Watermarks
    <2>3. streams[s].delivered_keys[a[1]] = a[2] /\ streams[s].delivered_keys[b[1]] = b[2]
        BY <2>2 DEF GateInv, SinkAgrees
    <2>4. a[1] \in Remembered(streams[s]) /\ b[1] \in Remembered(streams[s])
        BY <2>1, <2>3, OnceAssumption DEF Remembered
    <2>5. a[1] = b[1]
        BY <2>3, <2>4 DEF GateInv, KeysAgree
    <2> QED
        BY <2>1, <2>5
<1> QED
    BY <1>1, GateInvariant, PTL
=============================================================================
