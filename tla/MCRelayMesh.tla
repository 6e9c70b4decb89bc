---------------------------- MODULE MCRelayMesh ----------------------------
(***************************************************************************)
(* Relays 1, 2 and 3 bootstrap from each other, so that a query can come   *)
(* back to every node over two paths and to its origin; relay 3 has yet to *)
(* hear that its connection to 1 is up.  Relay 4 is only a record in the   *)
(* address book of 2, to be found by its walk.  Node 3 is identity 3, which *)
(* node 1 resolves and diagnoses; the other nodes are devices of identity   *)
(* 2, and the hints of two of them fill the book of node 3, so that its own *)
(* head meets the global bound and the head of node 1 the bound of an       *)
(* identity.                                                               *)
(***************************************************************************)
EXTENDS RelayMesh, TLC

MCNodes == 1..4
MCRelays == 1..4
MCIdentities == {2, 3}
MCIdentityOf == [n \in MCNodes |-> IF n = 3 THEN 3 ELSE 2]
MCBootstrap == [n \in MCNodes |-> IF n = 4 THEN {} ELSE (1..3) \ {n}]
MCLinked == 1 :> {2, 3} @@ 2 :> {1, 3} @@ 3 :> {2} @@ 4 :> {}
MCUp == {<<3, 1>>}
MCKnown == [n \in MCNodes |->
               IF n = 2 THEN <<[record |-> NewRecord(4, 0), seen |-> 0]>> ELSE <<>>]
MCAsks == {<<1, 3>>}
MCDiagnoses == {<<1, 3>>}
Empty == [n \in MCNodes |-> [i \in MCIdentities |-> <<>>]]
HintOf(n) == NewHint(2, n, 1, 0)
Asking ==
    [heads |-> [n \in MCNodes |-> 0], hints |-> Empty,
     holds |-> [n \in MCNodes |-> {}],
     budget |-> [left |-> 3, questions |-> 1, quiet |-> FALSE, publishers |-> {3}]]
Gossiping ==
    [heads |-> [n \in MCNodes |-> IF n = 3 THEN 0 ELSE 1],
     hints |-> [n \in MCNodes |-> [i \in MCIdentities |->
                   IF i = 3 THEN <<>>
                   ELSE IF n = 3 THEN <<HintOf(2), HintOf(4)>> ELSE <<HintOf(n)>>]],
     holds |-> [n \in MCNodes |-> IF n = 3 THEN {} ELSE {2}],
     budget |-> [left |-> 3, questions |-> 0, quiet |-> TRUE, publishers |-> {1, 3}]]
MCStarts == {Asking, Gossiping}
=============================================================================
