------------------------- MODULE MCDeviceWriterSync -------------------------
(* NodeSync for TLC: a remote identity with two providers, so that            *)
(* verifications of it overlap and fill the queue, and three own devices.     *)
EXTENDS NodeSync

CONSTANTS i1, p1, p2, p3, c1

MCReach == [i \in {i1} |-> {p1, p2}]
MCWants == [c \in {c1} |-> i1]
=============================================================================
