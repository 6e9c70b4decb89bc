-------------------------- MODULE MCPrivateContent --------------------------
(***************************************************************************)
(* Two devices that are enrolled and revoked, one of them with a key id    *)
(* that the other has too and one that the local key has, and recipients   *)
(* with an expired key, a withdrawn key and one that can be used.          *)
(***************************************************************************)
EXTENDS PrivateContent, TLC

TaskSymmetry == Permutations(Tasks) \cup Permutations(Enrollers)

DeviceKey(id, public) == Object!generate_identity_encryption_keypair(Me, id, public, 0).key

MCEnrolments == {[signing |-> "phone", keys |-> <<DeviceKey("k1", 101)>>],
                 [signing |-> "tablet", keys |-> <<DeviceKey("k1", 102), DeviceKey(LocalKeyId, 103)>>]}

MCRecords ==
    LET expired == [DeviceKey("b1", 201) EXCEPT !.expires_at = 1]
        withdrawn == [DeviceKey("b2", 202) EXCEPT !.status = "revoked"]
    IN  [bob |-> Object!new_key_record("bob", <<expired, DeviceKey("b3", 203)>>, 0),
         carol |-> Object!new_key_record("carol", <<expired, withdrawn>>, 0)]

MCAddressed == {<<>>, <<Me, "bob">>, <<"bob", "carol">>}

ASSUME RecordsAreSigned == \A i \in DOMAIN Records : Records[i] # Failed
=============================================================================
