------------------------------ MODULE Manifest ------------------------------
(***************************************************************************)
(* datarail-manifest: the per-route Merkle log of delivered cofres, signed *)
(* tree heads, inclusion proofs, destination acks and the offline check of *)
(* a delivery receipt; and the bao module's chunked payload, authenticated *)
(* chunk by chunk against the same kind of tree.                           *)
(*                                                                         *)
(* BLAKE3 is the identity on its (injectively encoded) preimage, a         *)
(* signature names its key, context and message.                           *)
(***************************************************************************)
EXTENDS Integers, Sequences, FiniteSets

CONSTANTS
    Cargas, Positions,  \* payloads; records of route_id, stream_id, seq, epoch
    MaxLeaves, MaxHeads, MaxAcks,
    Payload, OtherPayload       \* two payloads as sequences of chunks

VARIABLES
    mlog,               \* ManifestLog.leaves, as the entries they commit to
    heads, acks,        \* every head signed by the source, every ack by the destination
    receipted,            \* history: <<carga, position>> the destination acked
    slots               \* ChunkReceiver.slots

manifestVars == <<mlog, heads, acks, receipted>>

-----------------------------------------------------------------------------
(* The tree.                                                               *)

NODE_TAG == 1
LEAF == 0               \* no tag in the code: an 80-byte preimage is not a node's 65
CHUNK_LEAF_CTX == 2

hash_node(left, right) == <<NODE_TAG, Len(left)>> \o left \o right

leaf_hash(carga, p) == <<LEAF, carga, p.route_id, p.stream_id, p.seq, p.epoch>>

\* Pairs are hashed, an unpaired last node is promoted.
next_level(level) ==
    [i \in 1..((Len(level) + 1) \div 2) |->
        IF 2 * i <= Len(level) THEN hash_node(level[2 * i - 1], level[2 * i]) ELSE level[2 * i - 1]]

\* Level n of the tree: the last is the root alone.
Levels(leaves) ==
    LET level[n \in 0..Len(leaves)] == IF n = 0 THEN leaves ELSE next_level(level[n - 1])
    IN  level

merkle_root(leaves) == IF leaves = <<>> THEN <<>> ELSE Levels(leaves)[Len(leaves)][1]

\* The sibling of node idx (from 0) of a level: a path step, or none for a promoted node.
ProofStep(level, idx) ==
    IF idx % 2 = 1 THEN <<[sibling |-> level[idx], sibling_is_right |-> FALSE]>>
    ELSE IF idx + 1 < Len(level) THEN <<[sibling |-> level[idx + 2], sibling_is_right |-> TRUE]>>
    ELSE <<>>

inclusion_proof(leaves, index) ==
    LET level == Levels(leaves)
        steps[n \in 0..Len(leaves)] ==
            IF Len(level[n]) = 1 THEN <<>> ELSE ProofStep(level[n], index \div (2 ^ n)) \o steps[n + 1]
    IN  [index |-> index, tree_size |-> Len(leaves), path |-> steps[0]]

root_from_path(leaf, path) ==
    LET acc[n \in 0..Len(path)] ==
            IF n = 0 THEN leaf
            ELSE IF path[n].sibling_is_right THEN hash_node(acc[n - 1], path[n].sibling)
            ELSE hash_node(path[n].sibling, acc[n - 1])
    IN  acc[Len(path)]

verify_inclusion(leaf, proof, expected_root) ==
    proof.index < proof.tree_size /\ root_from_path(leaf, proof.path) = expected_root

-----------------------------------------------------------------------------
(* Tree heads, acks, receipts.                                             *)

sign_sth(leaves) ==
    [root |-> merkle_root(leaves), tree_size |-> Len(leaves),
     sig |-> <<"source", merkle_root(leaves), Len(leaves)>>]

verify_sth(h) == h.sig = <<"source", h.root, h.tree_size>>

\* The signature covers the position and the root; cofre_id travels beside it.
sign_ack(carga, p, root) == [cofre_id |-> carga, at |-> p, sth_root |-> root, sig |-> <<"dest", p, root>>]

\* Bug: the root an ack is bound to is not compared.
verify_ack_any_root(a, p, expected_root) == a.sig = <<"dest", a.at, a.sth_root>> /\ a.at = p

verify_ack(a, p, expected_root) ==
    /\ a.sig = <<"dest", a.at, a.sth_root>>
    /\ a.at = p
    /\ a.sth_root = expected_root

verify_receipt(carga, p, proof, sth, ack) ==
    /\ carga = ack.cofre_id
    /\ verify_sth(sth)
    /\ proof.tree_size = sth.tree_size
    /\ verify_inclusion(leaf_hash(carga, p), proof, sth.root)
    /\ verify_ack(ack, p, sth.root)

Entries == [carga : Cargas, at : Positions]
LeavesOf(log) == [i \in DOMAIN log |-> leaf_hash(log[i].carga, log[i].at)]

ManifestInit == mlog = <<>> /\ heads = {} /\ acks = {} /\ receipted = {}

ManifestAppend(e) ==
    /\ Len(mlog) < MaxLeaves
    /\ mlog' = Append(mlog, e)
    /\ UNCHANGED <<heads, acks, receipted>>

SignHead ==
    /\ Cardinality(heads) < MaxHeads
    /\ heads' = heads \cup {sign_sth(LeavesOf(mlog))}
    /\ UNCHANGED <<mlog, acks, receipted>>

\* The destination acks a cofre it was given, against a head it has seen.
SignAck(e, h) ==
    /\ Cardinality(acks) < MaxAcks
    /\ acks' = acks \cup {sign_ack(e.carga, e.at, h.root)}
    /\ receipted' = receipted \cup {<<e.carga, e.at, h.root>>}
    /\ UNCHANGED <<mlog, heads>>

ManifestNext ==
    \/ \E e \in Entries : ManifestAppend(e)
    \/ SignHead
    \/ \E i \in DOMAIN mlog, h \in heads : SignAck(mlog[i], h)

-----------------------------------------------------------------------------
(* bao: chunks.                                                            *)

chunk_leaf(index, total, bytes) == <<CHUNK_LEAF_CTX, index, total, bytes>>

split_and_commit(chunks) ==
    LET leaves == [i \in DOMAIN chunks |-> chunk_leaf(i - 1, Len(chunks), chunks[i])]
    IN  [root |-> merkle_root(leaves), total |-> Len(chunks),
         pieces |-> [i \in DOMAIN chunks |->
                       [index |-> i - 1, bytes |-> chunks[i], proof |-> inclusion_proof(leaves, i - 1)]]]

TheCommitment == split_and_commit(Payload)

\* What may arrive: any chunk of either payload, as any index, with any proof.
ArrivingPieces ==
    LET from == {TheCommitment.pieces[i] : i \in DOMAIN Payload} \cup
                {split_and_commit(OtherPayload).pieces[i] : i \in DOMAIN OtherPayload}
    IN  {[index |-> i, bytes |-> b.bytes, proof |-> [q.proof EXCEPT !.index = i]] :
            i \in {p.index : p \in from}, b \in from, q \in from} \cup from

NoChunk == 0

ChunkInit == slots = [i \in DOMAIN Payload |-> NoChunk]

Authentic(piece) ==
    /\ piece.index < TheCommitment.total
    /\ piece.proof.index = piece.index
    /\ verify_inclusion(chunk_leaf(piece.index, TheCommitment.total, piece.bytes), piece.proof, TheCommitment.root)

AuthenticPieces == {piece \in ArrivingPieces : Authentic(piece)}

\* ChunkReceiver::accept, over whatever the rail that was re-spawned brings.
AcceptChunk(piece) ==
    /\ piece \in AuthenticPieces
    /\ slots' = [slots EXCEPT ![piece.index + 1] = piece.bytes]

ChunkNext == \E piece \in ArrivingPieces : AcceptChunk(piece)

is_complete == \A i \in DOMAIN slots : slots[i] # NoChunk
missing == {i \in DOMAIN slots : slots[i] = NoChunk}

-----------------------------------------------------------------------------
(* Properties.                                                             *)

\* A receipt that verifies, however its parts were put together, is true: the
\* tree under the signed head holds this cofre at this position, and the
\* destination acked that position against that head.  The ack's cofre_id is not
\* signed, so only a position logged once ties the ack to the cofre itself.
ReceiptSound ==
    \A h \in heads, a \in acks, carga \in Cargas, p \in Positions :
       \A n \in 1..Len(mlog) : \A i \in 0..(n - 1) :
          LET leaves == SubSeq(LeavesOf(mlog), 1, n)
          IN  verify_receipt(carga, p, inclusion_proof(leaves, i), h, [a EXCEPT !.cofre_id = carga]) =>
                 /\ n = h.tree_size
                 /\ \E j \in 1..n : mlog[j] = [carga |-> carga, at |-> p]
                 /\ \E c \in Cargas : <<c, p, h.root>> \in receipted
                 /\ (\A j \in DOMAIN mlog : mlog[j].at = p => mlog[j].carga = carga) => <<carga, p, h.root>> \in receipted

\* Every leaf under a signed head can be proved, also when the log has grown
\* since: the proof against the first tree_size leaves re-derives the head's root.
LeavesProvable ==
    \A h \in heads : \A i \in 0..(h.tree_size - 1) :
       verify_inclusion(LeavesOf(mlog)[i + 1], inclusion_proof(SubSeq(LeavesOf(mlog), 1, h.tree_size), i), h.root)

\* The chunk receiver stores only the committed payload's chunks, each in its
\* place, and never needs one that the commitment's own pieces cannot fill.
ChunksAuthentic ==
    /\ \A i \in DOMAIN slots : slots[i] \in {NoChunk, Payload[i]}
    /\ is_complete => slots = Payload
    /\ \A i \in missing : TheCommitment.pieces[i] \in AuthenticPieces

\* What verifies is true, whatever parts it was put together from, and what is
\* true can be shown: receipts, inclusion proofs and chunks.
ManifestInv == ReceiptSound /\ LeavesProvable /\ ChunksAuthentic
=============================================================================
