-------------------------------- MODULE Once --------------------------------
(***************************************************************************)
(* The in-memory gate of one destination (datarail_once::Once) behind an   *)
(* at-least-once transport: any record of any stream may be offered at any *)
(* time, in any order, any number of times, and under any key.  The        *)
(* destination commits a record to its sink exactly when admit returns     *)
(* Delivered (DestTerminal::offload).                                      *)
(***************************************************************************)
EXTENDS OnceGate
LOCAL INSTANCE TLC

CONSTANTS Streams       \* stream ids, one per (source, route)

VARIABLES
    streams,    \* Once.streams: the gate's state of each stream
    commits,    \* how often the sink committed each seq of each stream
    landed,     \* the <<seq, key>> pairs the sink holds, per stream
    sealed      \* seqs the watermark crossed without a commit, per stream

vars == <<streams, commits, landed, sealed>>

\* The shape of the gate and of what its sink holds.
TypeOK ==
    /\ streams \in [Streams -> StreamState]
    /\ commits \in [Streams -> [Seqs -> Nat]]
    /\ landed \in [Streams -> SUBSET (Seqs \X Keys)]
    /\ sealed \in [Streams -> SUBSET Seqs]

Init ==
    /\ streams = [s \in Streams |-> DefaultStream]
    /\ commits = [s \in Streams |-> [q \in Seqs |-> 0]]
    /\ landed = [s \in Streams |-> {}]
    /\ sealed = [s \in Streams |-> {}]

\* The seqs a delivery makes the watermark cross although the sink never
\* committed them.
NewlySealed(s, st) ==
    {q \in Seqs : /\ streams[s].low_watermark <= q
                  /\ q < st.low_watermark
                  /\ commits'[s][q] = 0}

\* offload on a record the gate admits: admit and Sink::commit.
Deliver(s, q, k) ==
    /\ ~ IsDuplicate(streams[s], q, k)
    /\ streams' = [streams EXCEPT ![s] = Admitted(@, q, k)]
    /\ commits' = [commits EXCEPT ![s][q] = @ + 1]
    /\ landed' = [landed EXCEPT ![s] = @ \cup {<<q, k>>}]
    /\ sealed' = [sealed EXCEPT ![s] = @ \cup NewlySealed(s, streams'[s])]

\* offload on a record the gate rejects: dropped, nothing changes.
DropDuplicate(s, q, k) ==
    /\ IsDuplicate(streams[s], q, k)
    /\ UNCHANGED vars

Next ==
    \E s \in Streams, q \in Seqs, k \in Keys :
        Deliver(s, q, k) \/ DropDuplicate(s, q, k)

Spec == Init /\ [][Next]_vars

\* Keys are only compared with each other.
KeySymmetry == Permutations(Keys)

-----------------------------------------------------------------------------
(* What the fields of one stream's state say about each other and about    *)
(* the sink: the inductive invariant behind the safety properties.         *)

\* `ahead` is exactly the remembered part above the watermark, and the
\* watermark itself is not parked.
HorizonAgrees(st) ==
    /\ st.gc_floor <= st.low_watermark
    /\ \A q \in st.ahead : q > st.low_watermark
    /\ \A q \in Seqs : (q >= st.low_watermark /\ q \in Remembered(st)) => q \in st.ahead
    /\ st.ahead \subseteq Remembered(st)

\* Every remembered entry has its key in `seen`, and no two share one.
KeysAgree(st) ==
    /\ \A q \in Remembered(st) : st.delivered_keys[q] \in st.seen
    /\ \A p, q \in Remembered(st) :
          st.delivered_keys[p] = st.delivered_keys[q] => p = q

\* The gate and the sink agree on every seq that could still be admitted, and
\* the gate knows the key of every commit inside the retention window.
SinkAgrees(s) ==
    /\ \A q \in Seqs : commits[s][q] <= 1
    /\ \A q \in Seqs :
          (q >= streams[s].low_watermark /\ q \notin Remembered(streams[s]))
              => commits[s][q] = 0
    /\ \A c \in landed[s] :
          c[1] >= streams[s].gc_floor => streams[s].delivered_keys[c[1]] = c[2]

\* The inductive invariant of the gate (Once::admit) and its sink.
GateInv ==
    /\ TypeOK
    /\ \A s \in Streams :
          HorizonAgrees(streams[s]) /\ KeysAgree(streams[s]) /\ SinkAgrees(s)

-----------------------------------------------------------------------------
(* Safety.                                                                 *)

\* No seq of a stream is committed to the sink twice, whatever the gc_lag and
\* whatever key a redelivery carries (Once::admit; the claim of the gc_lag
\* field's comment and of check (2b)).
AtMostOnce == \A s \in Streams, q \in Seqs : commits[s][q] <= 1

\* The low watermark crosses only seqs the sink has committed, except for the
\* gaps the reorder horizon seals: what a cumulative ack of the watermark
\* promises the source (Once::low_watermark).  A seal happens only in a step
\* that found the horizon full, so as long as fewer than MaxReorderHorizon
\* seqs were ever committed, nothing is sealed.
PrefixCommitted ==
    \A s \in Streams :
        /\ \A q \in Seqs :
              q < streams[s].low_watermark => (commits[s][q] = 1 \/ q \in sealed[s])
        /\ sealed[s] # {} =>
              Cardinality({q \in Seqs : commits[s][q] > 0}) > MaxReorderHorizon

\* The watermark is as far as it can be: the seq it names has not been
\* committed, so a source that waits for the ack of a committed prefix is
\* never left behind it (the drain loops of Once::admit).
WatermarkAtFirstGap ==
    \A s \in Streams :
        streams[s].low_watermark \in Seqs => commits[s][streams[s].low_watermark] = 0

\* While a delivery is inside the retention window (at or above gc_floor), no
\* other seq is delivered under the same key (check (2) of Once::admit and the
\* pairing of `seen` with `delivered_keys` in its GC step).
KeyOncePerWindow ==
    \A s \in Streams : \A a, b \in landed[s] :
        (a[2] = b[2] /\ a # b) =>
            (a[1] < streams[s].gc_floor \/ b[1] < streams[s].gc_floor)

\* The dedup index is bounded for good: gc_lag keys below the watermark and a
\* reorder horizon above it (steps (3b) and (4) of Once::admit).
IndexBounded ==
    \A s \in Streams :
        Cardinality(streams[s].seen) <= GcLag + MaxReorderHorizon
=============================================================================
