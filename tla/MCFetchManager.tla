--------------------------- MODULE MCFetchManager ---------------------------
(* The instance of FetchManager for TLC: two clients ask for one content   *)
(* and may overlap.                                                        *)
EXTENDS FetchManager

CONSTANTS k1, k2, p1, p2, A

MCClients == {k1, k2}
MCPeers == {p1, p2}
MCContents == {A}
MCWanted == [k \in MCClients |-> A]
=============================================================================
