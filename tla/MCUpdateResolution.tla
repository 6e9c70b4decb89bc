------------------------- MODULE MCUpdateResolution -------------------------
(***************************************************************************)
(* Two installations of one identity and one of another.                   *)
(***************************************************************************)
EXTENDS UpdateResolution, TLC

MCOwner == [laptop |-> "alice", restored |-> "alice", other |-> "bob"]

MCScript ==
    [laptop   |-> <<SetPath("p", "c1"), RemovePath("p")>>,
     restored |-> <<SetReachability({[relay |-> "r", expires_at |-> 1]}), SetPath("p", "c2")>>,
     other    |-> <<SetPath("p", "c3")>>]
=============================================================================
