------------------------------ MODULE Sealing -------------------------------
(***************************************************************************)
(* What a cofre is and when it opens: the symbolic cryptography of         *)
(* datarail-crypto, the wire format of datarail-cofre and the sealing and  *)
(* opening halves of datarail-terminal, as operators.                      *)
(*                                                                         *)
(* A wire is a sequence of units, one per fixed-width field of the format  *)
(* and one per byte of a payload.  A unit is a sequence of numbers, so     *)
(* that a hash, a key or a signature can name what it was made from: two   *)
(* such terms are equal exactly when everything they were made from is.    *)
(***************************************************************************)
EXTENDS Integers, Sequences, SequencesExt

None == <<>>

Flat(units) == FlattenSeq(units)

-----------------------------------------------------------------------------
(* datarail-crypto.                                                        *)

\* Ed25519 domain-separation contexts (ctx::*).
CtxLacre == 1
CtxCert == 4

blake3_256(data) == <<101>> \o data
hmac_blake3(key, msg) == <<102, key>> \o msg
verifying_key(seed) == <<103, seed>>
sign_domain(context, seed, msg) == <<104, context, seed>> \o msg

verify_domain(context, vk, msg, sig) ==
    \E seed \in {vk[i] : i \in DOMAIN vk} :
        /\ vk = verifying_key(seed)
        /\ sig = sign_domain(context, seed, msg)

\* A public key that contributes nothing to a shared secret.
LowOrder == <<0>>
x25519_public(secret) == <<105, secret>>

\* The same for (a, A's peer B) and (b, A); None for a low-order point.
x25519_shared(secret, public) ==
    CASE public = LowOrder -> None
      [] Len(public) = 2 /\ public[1] = 105 ->
             <<106>> \o SetToSortSeq({secret, public[2]}, LAMBDA a, b : a < b)
      [] OTHER -> <<107, secret>> \o public

kdf_data_key(shared, eph_public, recipient_pk) ==
    <<108>> \o shared \o eph_public \o recipient_pk

\* <<eph_public, data_key>>, or None.
seal_key(recipient_pk, eph_secret) ==
    LET shared == x25519_shared(eph_secret, recipient_pk)
        eph == x25519_public(eph_secret)
    IN  IF shared = None THEN None
        ELSE <<eph, kdf_data_key(shared, eph, recipient_pk)>>

open_key(recipient_secret, eph_public) ==
    LET shared == x25519_shared(recipient_secret, eph_public)
    IN  IF shared = None THEN None
        ELSE kdf_data_key(shared, eph_public, x25519_public(recipient_secret))

\* Ciphertext and tag: the tag binds the algorithm, the key, the nonce, the
\* associated data and every plaintext unit.
aead_tag(alg, key, nonce, aad, plain) ==
    <<109>> \o alg \o key \o nonce \o Flat(aad) \o Flat(plain)

aead_seal(alg, key, nonce, aad, plain) ==
    Append(plain, aead_tag(alg, key, nonce, aad, plain))

\* The plaintext in a one-element sequence, or None.
aead_open(alg, key, nonce, aad, cipher) ==
    IF cipher # <<>> /\ Last(cipher) = aead_tag(alg, key, nonce, aad, Front(cipher))
    THEN <<Front(cipher)>> ELSE None

-----------------------------------------------------------------------------
(* datarail-cofre.                                                         *)

MAGIC == <<68>>
VERSION == <<1>>
ETIQUETA_LEN == 12

Aeads == {<<1>>, <<2>>, <<3>>}

FromBool(b) == IF b THEN <<1>> ELSE <<0>>

encode_etiqueta(e) ==
    << e.route_id, e.stream_id, e.seq, e.cofre_id, e.idempotency_key, e.contract_fp,
       e.aead_alg, e.nonce, e.signer_key_id, e.eph_pk, FromBool(e.sender_present), e.ts >>

\* The AEAD selector has been checked; any flag byte but 0 reads as true.
parse_etiqueta(u) ==
    [route_id |-> u[1], stream_id |-> u[2], seq |-> u[3], cofre_id |-> u[4],
     idempotency_key |-> u[5], contract_fp |-> u[6], aead_alg |-> u[7], nonce |-> u[8],
     signer_key_id |-> u[9], eph_pk |-> u[10], sender_present |-> u[11] # <<0>>,
     ts |-> u[12]]

signed_region(e, carga) ==
    <<MAGIC, VERSION, <<ETIQUETA_LEN>>>> \o encode_etiqueta(e) \o <<<<Len(carga)>>>> \o carga

encode(cofre) == Append(signed_region(cofre.etiqueta, cofre.carga), cofre.lacre)

Rejected(why) == [ok |-> FALSE, why |-> why]

\* Every length is compared with what is there before a field is read.
decode(w) ==
    LET head == 3 + ETIQUETA_LEN
        end == head + 1 + w[head + 1][1]
    IN  IF Len(w) < 1 THEN Rejected("Truncated")
        ELSE IF w[1] # MAGIC THEN Rejected("BadMagic")
        ELSE IF Len(w) < 2 THEN Rejected("Truncated")
        ELSE IF w[2] # VERSION THEN Rejected("BadVersion")
        ELSE IF Len(w) < 3 THEN Rejected("Truncated")
        ELSE IF w[3] # <<ETIQUETA_LEN>> THEN Rejected("BadLength")
        ELSE IF Len(w) < head THEN Rejected("Truncated")
        ELSE IF w[10] \notin Aeads THEN Rejected("BadAead")
        ELSE IF Len(w) < head + 1 \/ Len(w) <= end THEN Rejected("Truncated")
        ELSE IF Len(w) > end + 1 THEN Rejected("BadLength")
        ELSE [ok |-> TRUE,
              cofre |-> [etiqueta |-> parse_etiqueta(SubSeq(w, 4, head)),
                         carga |-> SubSeq(w, head + 2, end), lacre |-> w[end + 1]]]

seal(etiqueta, carga, signing_seed) ==
    LET e == [etiqueta EXCEPT !.cofre_id = blake3_256(Flat(carga)),
                              !.signer_key_id = blake3_256(verifying_key(signing_seed))]
    IN  [etiqueta |-> e, carga |-> carga,
         lacre |-> sign_domain(CtxLacre, signing_seed, Flat(signed_region(e, carga)))]

verify(cofre, pinned_vk) ==
    IF cofre.etiqueta.cofre_id # blake3_256(Flat(cofre.carga)) THEN "CofreIdMismatch"
    ELSE IF cofre.etiqueta.signer_key_id # blake3_256(pinned_vk) THEN "SignerMismatch"
    ELSE IF verify_domain(CtxLacre, pinned_vk,
                          Flat(signed_region(cofre.etiqueta, cofre.carga)), cofre.lacre)
    THEN "Ok" ELSE "BadSignature"
=============================================================================
