CONSTANTS
  r1 = r1
  r2 = r2
  Requests = {r1, r2}
  Identities <- MCIdentities
  Daemon = "me"
  Asks <- MCAsks
  Approvals <- MCApprovals
  Paths <- MCPaths
  MaxSubs = 1
  MaxFaults = 1
  None = None
SPECIFICATION Spec
SYMMETRY Symmetry
INVARIANTS RevokedStaysRevoked CallsWereAskedFor HeldTokensAreDurable
PROPERTY DurableGrants
CHECK_DEADLOCK FALSE
