CONSTANTS
  k1 = k1
  k2 = k2
  p1 = p1
  p2 = p2
  A = A
  Clients <- MCClients
  Peers <- MCPeers
  Contents <- MCContents
  Wanted <- MCWanted
  Provider = Provider
  None = None
SPECIFICATION FairSpec
INVARIANTS
  LateAnswersAreIgnored
PROPERTY EveryFetchEnds
