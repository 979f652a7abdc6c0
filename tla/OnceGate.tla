------------------------------ MODULE OnceGate ------------------------------
(***************************************************************************)
(* The effectively-once admission gate of datarail-once, as operators on   *)
(* the state it keeps for one stream.  Nothing here is a state machine:    *)
(* Once drives the gate directly, FileOnce makes it durable, and the       *)
(* delivery modules put it behind a transport.                             *)
(*                                                                         *)
(* A StreamState is a record with the fields of the Rust struct:           *)
(*   seen            the idempotency keys the gate remembers               *)
(*   delivered_keys  seq -> key of every remembered delivery (NoKey when   *)
(*                   the map has no entry for the seq)                     *)
(*   ahead           delivered seqs parked above the low watermark         *)
(*   low_watermark   every seq below it is rejected as a duplicate         *)
(*   gc_floor        every seq below it has left seen and delivered_keys   *)
(***************************************************************************)
EXTENDS Integers, FiniteSets

CONSTANTS
    Keys,               \* idempotency keys: HMAC(tenant_secret, record_key)
    NoKey,              \* no entry in delivered_keys
    MaxSeq,             \* largest sequence number; u64::MAX in the code
    GcLag,              \* Once.gc_lag: how far gc_floor trails the watermark
    MaxReorderHorizon   \* MAX_REORDER_HORIZON: parked seqs before a gap is sealed

ASSUME OnceAssumption ==
    /\ NoKey \notin Keys
    /\ MaxSeq \in Nat
    /\ GcLag \in Nat
    /\ MaxReorderHorizon \in Nat

Seqs == 0..MaxSeq

\* A watermark may stand one past the last sequence number.
Watermarks == 0..(MaxSeq + 1)

StreamState ==
    [seen : SUBSET Keys,
     delivered_keys : [Seqs -> Keys \cup {NoKey}],
     ahead : SUBSET Seqs,
     low_watermark : Watermarks,
     gc_floor : Watermarks]

\* StreamState::default(): what `entry(stream).or_default()` creates.
DefaultStream ==
    [seen |-> {},
     delivered_keys |-> [q \in Seqs |-> NoKey],
     ahead |-> {},
     low_watermark |-> 0,
     gc_floor |-> 0]

Remembered(st) == {q \in Seqs : st.delivered_keys[q] # NoKey}

-----------------------------------------------------------------------------
(* Admission.                                                              *)

\* Bug: a redelivery of a parked seq under another key slips through.
DuplicateByKeyOnly(st, q, k) ==
    q < st.low_watermark \/ k \in st.seen

\* Checks (1), (2) and (2b) of admit, each an early return of Duplicate.
IsDuplicate(st, q, k) ==
    \/ q < st.low_watermark
    \/ k \in st.seen
    \/ q \in Remembered(st)

\* Where `while ahead.remove(&low_watermark) { low_watermark += 1 }` stops
\* when it starts at w: the first number from w on that is not parked.
FirstGap(w, parked) ==
    CHOOSE n \in w..(MaxSeq + 1) :
        /\ n \notin parked
        /\ \A m \in w..(n - 1) : m \in parked

LowestParked(parked) == CHOOSE q \in parked : \A p \in parked : q <= p

\* Bug: past the horizon the gap is crossed by one step only.
SealOneStep(w, parked) == FirstGap(w + 1, parked)

\* (3b) Past the horizon the watermark moves up one by one, draining whenever
\* it meets a parked seq.  The first drain takes at least one seq out, which
\* is enough to be within the horizon again, so the loop ends after the run
\* that begins at the lowest parked seq.
SealLowestGap(w, parked) == FirstGap(LowestParked(parked), parked)

\* Bug: any delivery moves the watermark past itself, gap or no gap.
AdvancePastGap(st, q) ==
    [st EXCEPT !.low_watermark = FirstGap(q + 1, st.ahead),
               !.ahead = {p \in @ : p > q}]

\* (3) The watermark and the reorder horizon after seq q is delivered.
Advance(st, q) ==
    LET parked == st.ahead \cup {q}
        w == st.low_watermark
        watermark == IF q = w THEN FirstGap(w + 1, st.ahead)
                     ELSE IF Cardinality(parked) > MaxReorderHorizon
                          THEN SealLowestGap(w, parked)
                          ELSE w
    IN  [st EXCEPT !.low_watermark = watermark,
                   !.ahead = {p \in parked : p >= watermark}]

\* low_watermark.saturating_sub(gc_lag)
FloorFor(watermark) == IF watermark > GcLag THEN watermark - GcLag ELSE 0

\* Bug: the keys leave `seen` but their entries stay.
CollectKeysOnly(st) ==
    LET floor == FloorFor(st.low_watermark)
    IN  [st EXCEPT !.seen = @ \ {st.delivered_keys[q] : q \in {p \in Seqs : p < floor}},
                   !.gc_floor = floor]

\* (4) Garbage collection up to a floor that lags the watermark.
CollectGarbage(st) ==
    LET floor == FloorFor(st.low_watermark)
        dropped == {q \in Seqs : st.gc_floor <= q /\ q < floor}
    IN  [st EXCEPT
            !.seen = @ \ {st.delivered_keys[q] : q \in dropped},
            !.delivered_keys = [q \in Seqs |-> IF q \in dropped THEN NoKey ELSE @[q]],
            !.gc_floor = IF @ < floor THEN floor ELSE @]

\* Once::admit on a record it delivers.
Admitted(st, q, k) ==
    CollectGarbage(
        Advance([st EXCEPT !.seen = @ \cup {k},
                           !.delivered_keys = [@ EXCEPT ![q] = k]], q))

\* Once::admit: the state after it, whatever the disposition.
Admit(st, q, k) == IF IsDuplicate(st, q, k) THEN st ELSE Admitted(st, q, k)

-----------------------------------------------------------------------------
(* Checkpoints, for the durable gate.                                      *)

\* Once::checkpoints for one stream: the watermark and the entries at or
\* above it.
Checkpoint(st) ==
    [watermark |-> st.low_watermark,
     entries |-> {<<q, st.delivered_keys[q]>> :
                     q \in {p \in Remembered(st) : p >= st.low_watermark}}]

\* Once::restore_watermark: only ever advances.
RestoreWatermark(st, watermark) ==
    IF watermark <= st.low_watermark THEN st
    ELSE LET floor == FloorFor(watermark)
             kept == {q \in Remembered(st) : q >= floor}
         IN  [seen |-> st.seen \cap {st.delivered_keys[q] : q \in kept},
              delivered_keys |->
                  [q \in Seqs |-> IF q \in kept THEN st.delivered_keys[q] ELSE NoKey],
              ahead |-> {q \in st.ahead : q >= watermark},
              low_watermark |-> watermark,
              gc_floor |-> floor]
=============================================================================
