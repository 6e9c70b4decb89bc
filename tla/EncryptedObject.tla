-------------------------- MODULE EncryptedObject --------------------------
(***************************************************************************)
(* Encrypted objects (jolt-core/src/encrypted_object.rs) and the records   *)
(* by which an identity publishes the keys to encrypt for                  *)
(* (jolt-core/src/identity_encryption_key.rs).  A private key and its      *)
(* public key are the same value: sealing to it and opening with it only   *)
(* compare the two.                                                        *)
(***************************************************************************)
EXTENDS Integers, SequencesExt, Signing

Failed == [status |-> "error"]
Forever == -1
SuiteFamily == "x25519"

(***************************************************************************)
(* The ciphers: what was sealed comes out for the same key and the same    *)
(* associated data, and for nothing else.                                  *)
(***************************************************************************)
Seal(key, aad, message) == [key |-> key, aad |-> aad, message |-> message]

Unseal(key, aad, sealed) ==
    IF sealed.key = key /\ sealed.aad = aad THEN sealed.message ELSE Failed

(***************************************************************************)
(* Keys and key records                                                    *)
(***************************************************************************)
generate_identity_encryption_keypair(identity, id, key, now) ==
    [identity |-> identity,
     key |-> [key_id |-> id, suite |-> SuiteFamily, public |-> key, not_before |-> now,
              expires_at |-> Forever, status |-> "active"]]

key_record_bytes(body) ==
    <<"jolt:identity-encryption-keys:v1", body.owner, body.identity, body.keys, body.sequence>>

validate_key_shape(key) == key.expires_at # Forever => key.expires_at > key.not_before

validate_key_record(body) ==
    /\ body.owner = body.identity
    /\ \A i \in DOMAIN body.keys : validate_key_shape(body.keys[i])

new_key_record(owner, keys, now) ==
    LET body == [owner |-> owner, identity |-> owner, keys |-> keys, sequence |-> now]
    IN  IF validate_key_record(body)
          THEN [body |-> body, signature |-> Sign(owner, key_record_bytes(body))]
          ELSE Failed

is_usable_key(key, now) ==
    /\ key.suite = SuiteFamily
    /\ key.status = "active"
    /\ key.not_before <= now
    /\ key.expires_at = Forever \/ key.expires_at > now

\* The usable keys of a record, or its refusal.
verify_identity_encryption_key_record_for_identity(identity, r, now) ==
    LET usable == SelectSeq(r.body.keys, LAMBDA key : is_usable_key(key, now))
    IN  IF /\ validate_key_record(r.body)
           /\ r.body.identity = identity
           /\ verify(r.body.owner, key_record_bytes(r.body), r.signature)
           /\ usable # <<>>
          THEN [keys |-> usable]
          ELSE Failed

(***************************************************************************)
(* Envelopes                                                               *)
(***************************************************************************)
content_aad(author, media, now) == <<"content", author, media, now>>

wrap_aad(author, identity, key_id) == <<"wrap", author, identity, key_id>>

canonical_bytes(body) ==
    <<"jolt:encrypted-object:v1", body.author, body.media, body.ciphertext, body.wraps,
      body.created_at>>

validate_recipient_key(key) == key.suite = SuiteFamily /\ key.status = "active"

Wrap(author, recipient, content_key) ==
    LET aad == wrap_aad(author, recipient.identity, recipient.key.key_id)
    IN  [identity |-> recipient.identity, key_id |-> recipient.key.key_id,
         sealed |-> Seal(recipient.key.public, aad, content_key)]

\* content_key is fresh: the caller picks one that was never used.
encrypt(author, plaintext, media, recipients, now, content_key) ==
    LET body == [author |-> author, media |-> media, created_at |-> now,
                 ciphertext |-> Seal(content_key, content_aad(author, media, now), plaintext),
                 wraps |-> [i \in DOMAIN recipients |-> Wrap(author, recipients[i], content_key)]]
    IN  IF \A i \in DOMAIN recipients : validate_recipient_key(recipients[i].key)
          THEN [body |-> body, signature |-> Sign(author, canonical_bytes(body))]
          ELSE Failed

verify_signature(e) == verify(e.body.author, canonical_bytes(e.body), e.signature)

\* The first wrap for the key's identity and id is opened, whatever is behind it.
decrypt_encrypted_object_for_recipient(e, keypair) ==
    LET mine == SelectSeq(e.body.wraps, LAMBDA w : /\ w.identity = keypair.identity
                                                   /\ w.key_id = keypair.key.key_id)
        aad == wrap_aad(e.body.author, keypair.identity, keypair.key.key_id)
        content_key == Unseal(keypair.key.public, aad, mine[1].sealed)
    IN  IF ~verify_signature(e) \/ mine = <<>> \/ content_key = Failed
          THEN Failed
          ELSE Unseal(content_key, content_aad(e.body.author, e.body.media, e.body.created_at),
                      e.body.ciphertext)
=============================================================================
