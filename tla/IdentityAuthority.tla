------------------------- MODULE IdentityAuthority -------------------------
(***************************************************************************)
(* The authority chain of an identity (jolt-core/src/identity_authority.rs):*)
(* records signed by the root key, each naming the hash of the one before, *)
(* that authorize and revoke devices, and the devices a chain describes.   *)
(* Times, labels and capabilities are left out.                            *)
(***************************************************************************)
EXTENDS Integers, SequencesExt, Signing

NoHash == [digest |-> <<>>]
NoCutoff == -1
Failed == [status |-> "error"]

\* A signing key and an encryption key of the wrong length.
Malformed == "malformed"
MalformedKey == 0

authorize_device_with_encryption_keys(device, signing, keys) ==
    [type |-> "AuthorizeDevice", device |-> device, signing |-> signing, keys |-> keys]

authorize_device(device, signing) ==
    authorize_device_with_encryption_keys(device, signing, <<>>)

revoke_device(device, through) ==
    [type |-> "RevokeDevice", device |-> device, through |-> through]

(***************************************************************************)
(* Records                                                                 *)
(***************************************************************************)
canonical_bytes(body) ==
    <<"jolt:device-authorization:v1", body.root, body.identity, body.sequence, body.previous,
      body.operation>>

record_hash(r) == blake3(canonical_bytes(r.body))

\* Device ids are made from signing keys and never blank.
validate_operation(op) ==
    op.type = "AuthorizeDevice" =>
        /\ op.signing # Malformed
        /\ \A i \in DOMAIN op.keys : op.keys[i].public # MalformedKey

\* The identity is the one made from the root key: here they are the same.
validate_body(body) == body.root = body.identity /\ validate_operation(body.operation)

sign_body(body, key) ==
    IF validate_body(body) THEN [body |-> body, signature |-> Sign(key, canonical_bytes(body))]
                           ELSE Failed

genesis(root, op) ==
    sign_body([root |-> root, identity |-> root, sequence |-> 0, previous |-> NoHash,
               operation |-> op], root)

append(r, op) ==
    sign_body([root |-> r.body.root, identity |-> r.body.identity,
               sequence |-> r.body.sequence + 1, previous |-> record_hash(r),
               operation |-> op], r.body.root)

verify_signature(r) == verify(r.body.root, canonical_bytes(r.body), r.signature)

(***************************************************************************)
(* Chains                                                                  *)
(***************************************************************************)
\* An authorization replaces what was known of the device, a revoked one
\* included; a revocation of an unknown device fails.
apply_operation(authority, op) ==
    CASE op.type = "AuthorizeDevice" ->
            [devices |-> (op.device :> [signing |-> op.signing, keys |-> op.keys,
                                        status |-> "active", through |-> NoCutoff])
                         @@ authority.devices]
      [] op.type = "RevokeDevice" /\ op.device \in DOMAIN authority.devices ->
            [authority EXCEPT !.devices[op.device].status = "revoked",
                              !.devices[op.device].through = op.through]
      [] OTHER -> Failed

Applied(records) ==
    FoldLeft(LAMBDA authority, r : IF authority = Failed THEN Failed
                                   ELSE apply_operation(authority, r.body.operation),
             [devices |-> <<>>], records)

Continues(r, before) ==
    /\ r.body.sequence = before.body.sequence + 1
    /\ r.body.previous = record_hash(before)

\* What a chain that is valid as a whole says of the devices, or its failure.
verify_identity_authority_chain(identity, records) ==
    IF /\ records # <<>>
       /\ \A i \in 1..Len(records) :
             /\ validate_body(records[i].body)
             /\ records[i].body.identity = identity
             /\ records[i].body.root = records[1].body.root
             /\ verify_signature(records[i])
             /\ IF i = 1 THEN records[1].body.sequence = 0 /\ records[1].body.previous = NoHash
                         ELSE Continues(records[i], records[i - 1])
      THEN Applied(records)
      ELSE Failed
=============================================================================
