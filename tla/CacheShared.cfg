CONSTANTS
  None = None
  h1 = h1
  h2 = h2
  w1 = w1
  w2 = w2
  p1 = p1
  n1 = n1
  WalName = WalName
  Wals = {w1, w2}
  Handles = {h1, h2}
  Replicas = {h1, h2}
  WalOf <- TwoLogs
  Procs = {p1}
  ProcOf <- OneProc
  Policy <- Mixed
  Keys = {k1, k2}
  Names = {n1}
  NameOf <- Collide
  MaxVersions = 4
  MaxCommits = 6
  MaxJobs = 0
  MaxEnds = 0
  MaxDamage = 0
SYMMETRY KeySymmetry
SPECIFICATION Spec
INVARIANTS TrueViews
