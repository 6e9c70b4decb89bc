--------------------------- MODULE MCLocalRecords ---------------------------
(* The devices of one identity; device 2 is the one that may be revoked. *)
EXTENDS LocalRecords

SomeCutoffs == {-1, 0}

\* Retried and competing mutations of the record on two devices.
Retries == [devices |-> {1, 2}, followed |-> {}, mutations |-> Mutations, faults |-> 1,
            writes |-> [n \in 1..3 |-> {1, 2} \X RecordOps]]

\* Device 1 revokes device 2, which goes on writing.
Revocation == [devices |-> {1, 2}, followed |-> {}, mutations |-> Mutations, faults |-> 1,
               writes |-> [n \in 1..3 |-> {<<1, "authority">>, <<2, "set">>, <<2, "append">>}]]

\* A follower answers with what it has read of one device.
Follower == [devices |-> {1, 2}, followed |-> {1, 2}, mutations |-> {}, faults |-> 1,
             writes |-> [n \in 1..3 |-> {1, 2} \X {"set", "append"}]]

\* Four versions: the later ones can both have two competing ones before them.
CrissCross == [devices |-> {1, 2}, followed |-> {}, mutations |-> {}, faults |-> 1,
               writes |-> [n \in 1..4 |-> {<<1, "set">>, <<2, "set">>}]]

\* What the third device writes on top of is later rejected: as the base of two
\* alternatives, or as what stood between them.
RevokedBase == [devices |-> {1, 2, 3}, followed |-> {}, mutations |-> {}, faults |-> 0,
                writes |-> <<{<<1, "set">>, <<2, "set">>}, {<<1, "set">>, <<2, "set">>},
                             {<<3, "set">>}, {<<1, "authority">>}>>]

AllScenarios == {Retries, Revocation, Follower, CrissCross, RevokedBase}
=============================================================================
