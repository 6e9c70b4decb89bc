SPECIFICATION Spec
CONSTANTS
  A = A
  B = B
  C = C
  p1 = p1
  p2 = p2
  x = x
  y = y
  o1 = o1
  o2 = o2
  home = home
  q1 = q1
  q2 = q2
  Identities = {A, B, C}
  Procs = {p1, p2}
  Homes = {PinRelay}
  PinRelay = PinRelay
  NoRelay = NoRelay
  NoFile = NoFile
  BadFile = BadFile
  Nobody = Nobody
  Stale = Stale
  FirstKeys = {A, NoFile}
  FirstConfigs = {PinRelay}
  FirstBundles <- MCBundles
  SizeOf <- MCSize
  MaxCacheSize = 3
  Items = {x, y}
  Others = {o1, o2}
  Paths = {home}
  NoPath = NoPath
  NoLog = NoLog
  Removed = Removed
  Allowlist = {A}
  Requests = {q1, q2}
  FreeSlot = FreeSlot
  FirstLogs <- MCLogs
  MaxLog = 3
  Budgets <- MCBudgets
SYMMETRY MCSymmetry
INVARIANT RelayBackedIsTrue
PROPERTY AckedImportsSurvive
 
CHECK_DEADLOCK FALSE
