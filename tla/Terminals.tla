----------------------------- MODULE Terminals ------------------------------
(***************************************************************************)
(* The two terminals of a route (datarail-terminal): the content contract, *)
(* the framing of a record batch, sealed-sender certificates, and what     *)
(* board_at seals and open_records accepts, as operators.                  *)
(*                                                                         *)
(* A record is a sequence of bytes.  A source terminal is a record with    *)
(* the fields of TerminalConfig and SourceTerminal that board_at reads; a  *)
(* destination terminal likewise with those open_records reads.            *)
(***************************************************************************)
EXTENDS Sealing

-----------------------------------------------------------------------------
(* The content contract.                                                   *)

\* The fingerprint hashes the length limit and the prefix: it names both.
ContentContract(max_record_len, required_prefix) ==
    [fingerprint |-> blake3_256(<<max_record_len>> \o required_prefix),
     max_record_len |-> max_record_len, required_prefix |-> required_prefix]

validate(contract, record) ==
    /\ record # <<>>
    /\ Len(record) <= contract.max_record_len
    /\ IsPrefix(contract.required_prefix, record)

AllValid(contract, records) == \A i \in DOMAIN records : validate(contract, records[i])

-----------------------------------------------------------------------------
(* RECORD_BATCH framing.                                                   *)

AsUnits(bytes) == [i \in DOMAIN bytes |-> <<bytes[i]>>]

frame_batch(records) ==
    <<<<Len(records)>>>>
        \o FlattenSeq([i \in DOMAIN records |->
                          <<<<Len(records[i])>>>> \o AsUnits(records[i])])

\* One turn of the loop of unframe_batch: pos is the next unread unit.
unframe_one(b, st) ==
    IF ~ st.ok \/ st.pos > Len(b) THEN [st EXCEPT !.ok = FALSE]
    ELSE LET end == st.pos + b[st.pos][1]
         IN  IF end > Len(b) THEN [st EXCEPT !.ok = FALSE]
             ELSE [ok |-> TRUE, pos |-> end + 1,
                   records |-> Append(st.records, Flat(SubSeq(b, st.pos + 1, end)))]

\* MalformedBatch unless the bytes are exactly `count` records.
unframe_batch(b) ==
    IF b = <<>> THEN [ok |-> FALSE, records |-> <<>>]
    ELSE LET end == FoldLeft(LAMBDA st, i : unframe_one(b, st),
                             [ok |-> TRUE, pos |-> 2, records |-> <<>>],
                             [i \in 1..b[1][1] |-> i])
         IN  [ok |-> end.ok /\ end.pos = Len(b) + 1, records |-> end.records]

-----------------------------------------------------------------------------
(* Sealed-sender certificates: five units ahead of the batch.              *)

SENDER_CERT_LEN == 5

cert_identity_msg(sender_id, sender_vk, epoch) == sender_id \o sender_vk \o epoch
cert_binding_msg(eph_pk, epoch) == eph_pk \o epoch

issue_sender_cert(issuer_seed, sender_id, sender_vk, epoch) ==
    sign_domain(CtxCert, issuer_seed, cert_identity_msg(sender_id, sender_vk, epoch))

\* SenderCredential::new, with the issuer's signature.
SenderCredential(issuer_seed, sender_id, sender_seed, epoch) ==
    [sender_id |-> sender_id, sender_seed |-> sender_seed, epoch |-> epoch,
     issuer_sig |-> issue_sender_cert(issuer_seed, sender_id, verifying_key(sender_seed), epoch)]

\* SenderCredential::encode: the sender signs the cofre's ephemeral key.
encode_cert(cred, eph_pk) ==
    << cred.sender_id, verifying_key(cred.sender_seed), cred.epoch, cred.issuer_sig,
       sign_domain(CtxCert, cred.sender_seed, cert_binding_msg(eph_pk, cred.epoch)) >>

validate_sender_cert(c, eph_pk, pinned_issuer_vk, min_epoch) ==
    /\ c[3][1] >= min_epoch
    /\ verify_domain(CtxCert, pinned_issuer_vk, cert_identity_msg(c[1], c[2], c[3]), c[4])
    /\ verify_domain(CtxCert, c[2], cert_binding_msg(eph_pk, c[3]), c[5])

-----------------------------------------------------------------------------
(* Onboarding and offloading.                                              *)

\* Every header field that is final when the payload is sealed.
aead_aad(e) ==
    << e.route_id, e.stream_id, e.seq, e.idempotency_key, e.contract_fp, e.aead_alg,
       e.nonce, e.eph_pk, FromBool(e.sender_present), e.ts >>

\* SourceTerminal::board_at with the random bytes drawn for it: the cofre, or
\* the TerminalError.
board_at(src, records, record_key, seq, eph_secret, nonce) ==
    LET keys == seal_key(src.dest_x25519_pk, eph_secret)
        etiqueta == [route_id |-> src.route_id, stream_id |-> src.stream_id, seq |-> <<seq>>,
                     cofre_id |-> <<0>>,
                     idempotency_key |-> hmac_blake3(src.tenant_secret, record_key),
                     contract_fp |-> src.contract.fingerprint, aead_alg |-> src.aead_alg,
                     nonce |-> nonce, signer_key_id |-> <<0>>, eph_pk |-> keys[1],
                     sender_present |-> src.sender # None, ts |-> <<0>>]
        cert == IF src.sender = None THEN <<>> ELSE encode_cert(src.sender[1], keys[1])
        carga == aead_seal(src.aead_alg, keys[2], nonce, aead_aad(etiqueta),
                           cert \o frame_batch(records))
    IN  IF ~ AllValid(src.contract, records) THEN Rejected("ContractViolation")
        ELSE IF keys = None THEN Rejected("Seal")
        ELSE [ok |-> TRUE, cofre |-> seal(etiqueta, carga, src.source_seed)]

\* DestTerminal::open_records: the records and the sender, or the
\* DeadLetterReason of the first check that fails.
open_records(dst, cofre) ==
    LET e == cofre.etiqueta
        key == open_key(dst.dest_x25519_secret, e.eph_pk)
        opened == aead_open(e.aead_alg, key, e.nonce, aead_aad(e), cofre.carga)
        inner == opened[1]
        cut == IF e.sender_present THEN SENDER_CERT_LEN ELSE 0
        batch == unframe_batch(SubSeq(inner, cut + 1, Len(inner)))
    IN  IF verify(cofre, dst.pinned_source_vk) # "Ok" THEN Rejected("SealFailed")
        ELSE IF e.route_id # dst.route_id \/ e.stream_id # dst.stream_id
        THEN Rejected("RouteMismatch")
        ELSE IF e.contract_fp # dst.contract.fingerprint
        THEN Rejected("ContractFingerprintMismatch")
        ELSE IF key = None THEN Rejected("KeyWrapInvalid")
        ELSE IF opened = None THEN Rejected("OpenFailed")
        ELSE IF e.sender_present
                /\ (\/ dst.sender_issuer_vk = None
                    \/ Len(inner) < SENDER_CERT_LEN
                    \/ ~ validate_sender_cert(SubSeq(inner, 1, SENDER_CERT_LEN), e.eph_pk,
                                              dst.sender_issuer_vk, dst.min_sender_epoch))
        THEN Rejected("SenderCertInvalid")
        ELSE IF ~ batch.ok THEN Rejected("MalformedBatch")
        ELSE IF ~ AllValid(dst.contract, batch.records) THEN Rejected("ContractViolation")
        ELSE [ok |-> TRUE, records |-> batch.records,
              sender_id |-> IF e.sender_present THEN inner[1] ELSE None]
=============================================================================
