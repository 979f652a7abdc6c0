----------------------------- MODULE Offloading -----------------------------
(***************************************************************************)
(* A route at work: SourceTerminal::board seals batches, an untrusted      *)
(* substrate holds the cofres, repeats, reorders and changes them, and     *)
(* DestTerminal::offload opens each one it is given, asks the              *)
(* effectively-once gate and commits to the terminal's sink, or puts the   *)
(* cofre on the dead-letter siding.                                        *)
(***************************************************************************)
EXTENDS Terminals, OnceGate

CONSTANTS
    Source,                     \* the source terminal's configuration
    Dest,                       \* the destination terminal's configuration
    Boardable,                  \* record batches the source may be given
    MAX_DEAD_LETTERS_RETAINED,
    MaxOffloads                 \* offload calls considered

VARIABLES
    next_seq,       \* SourceTerminal.seq
    boarded,        \* the cofres sealed so far, by sequence number
    gate,           \* DestTerminal.once, for the route's stream
    committed,      \* DestTerminal.sink
    taken,          \* what take_committed has handed out
    siding,         \* DestTerminal.dead_letters.entries
    dropped,        \* DestTerminal.dead_letters.dropped
    last_sender,    \* DestTerminal.last_sender_id
    offloads,       \* offload calls so far
    refusals,       \* those that ended on the siding
    opened          \* the sequence numbers delivered, in order

offVars == <<next_seq, boarded, gate, committed, taken, siding, dropped, last_sender,
             offloads, refusals, opened>>

OffInit ==
    /\ next_seq = 0
    /\ boarded = <<>>
    /\ gate = DefaultStream
    /\ committed = <<>> /\ taken = <<>>
    /\ siding = <<>> /\ dropped = 0
    /\ last_sender = None
    /\ offloads = 0 /\ refusals = 0 /\ opened = <<>>

\* board advances the sequence number only when board_at succeeds.
SeqAfter(ok) == IF ok THEN next_seq + 1 ELSE next_seq

\* The ephemeral secret and the nonce are fresh for every cofre.
Board ==
    /\ next_seq <= MaxSeq
    /\ \E records \in Boardable :
          LET out == board_at(Source, records, <<next_seq>>, next_seq,
                              500 + next_seq, <<700 + next_seq>>)
          IN  /\ boarded' = IF out.ok THEN Append(boarded, [cofre |-> out.cofre, records |-> records])
                            ELSE boarded
              /\ next_seq' = SeqAfter(out.ok)
    /\ UNCHANGED <<gate, committed, taken, siding, dropped, last_sender, offloads, refusals, opened>>

\* A cofre with one thing changed on the way.
Altered(c) ==
    {[c EXCEPT !.etiqueta.seq = <<(@[1] + 1) % (MaxSeq + 1)>>],
     [c EXCEPT !.etiqueta.idempotency_key = hmac_blake3(Source.tenant_secret, <<99>>)],
     [c EXCEPT !.etiqueta.contract_fp = blake3_256(<<9>>)],
     [c EXCEPT !.etiqueta.sender_present = ~ @],
     [c EXCEPT !.carga = Front(@)],
     [c EXCEPT !.lacre = sign_domain(CtxLacre, 77, <<>>)]}

\* DeadLetterSiding::push evicts the oldest entry when it is full.
Push(entry) ==
    LET full == Len(siding) >= MAX_DEAD_LETTERS_RETAINED
    IN  /\ siding' = Append(IF full THEN Tail(siding) ELSE siding, entry)
        /\ dropped' = IF full THEN dropped + 1 ELSE dropped

\* Bug: a duplicate is committed as well.
CommitsAlways(duplicate) == TRUE

Commits(duplicate) == ~ duplicate

Offload(c) ==
    LET out == open_records(Dest, c)
        q == c.etiqueta.seq[1]
        k == c.etiqueta.idempotency_key
        delivers == out.ok /\ Commits(IsDuplicate(gate, q, k))
    IN  /\ offloads < MaxOffloads
        /\ offloads' = offloads + 1
        /\ IF out.ok THEN UNCHANGED <<siding, dropped, refusals>>
           ELSE Push([cofre |-> c, reason |-> out.why]) /\ refusals' = refusals + 1
        /\ gate' = IF delivers THEN Admitted(gate, q, k) ELSE gate
        /\ committed' = IF delivers THEN committed \o out.records ELSE committed
        /\ last_sender' = IF delivers THEN out.sender_id ELSE last_sender
        /\ opened' = IF delivers THEN Append(opened, q) ELSE opened
        /\ UNCHANGED <<next_seq, boarded, taken>>

\* What a substrate may hold for a cofre: its wire form, one with a unit too
\* many, one too few or a flag byte that is neither 0 nor 1, or an altered one's.
Wires(c) ==
    LET wire == encode(c)
    IN  {wire, Append(wire, <<0>>), Front(wire), [wire EXCEPT ![14] = <<2>>]}
            \cup {encode(a) : a \in Altered(c)}

\* A wire that does not decode stays with the substrate.
Arrive == \E i \in DOMAIN boarded : \E w \in Wires(boarded[i].cofre) :
    /\ decode(w).ok
    /\ Offload(decode(w).cofre)

\* Sink::take_committed.
TakeCommitted ==
    /\ committed # <<>>
    /\ taken' = taken \o committed
    /\ committed' = <<>>
    /\ UNCHANGED <<next_seq, boarded, gate, siding, dropped, last_sender, offloads, refusals, opened>>

OffNext == Board \/ Arrive \/ TakeCommitted

OffSpec == OffInit /\ [][OffNext]_offVars

-----------------------------------------------------------------------------

\* What left the terminal is what the source boarded: batch by batch, each at
\* most once, unchanged, in the order of delivery, whatever the substrate did to
\* the cofres (board_at, open_records and the gate together).
SinkHoldsBoarded ==
    /\ \A i, j \in DOMAIN opened : opened[i] = opened[j] => i = j
    /\ \A i \in DOMAIN opened : opened[i] < Len(boarded)
    /\ taken \o committed =
          FlattenSeq([i \in DOMAIN opened |-> boarded[opened[i] + 1].records])

\* Every refused cofre is counted, and the siding keeps the latest ones within
\* its bound (DeadLetterSiding::push and total).
SidingAccounts ==
    /\ Len(siding) <= MAX_DEAD_LETTERS_RETAINED
    /\ dropped + Len(siding) = refusals
    /\ dropped > 0 => Len(siding) = MAX_DEAD_LETTERS_RETAINED

\* Every cofre offered to a terminal is delivered once as boarded, recognised as
\* a duplicate, or counted on the siding.
OffloadInv == SinkHoldsBoarded /\ SidingAccounts
=============================================================================
