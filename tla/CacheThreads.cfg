CONSTANTS
  None = None
  h1 = h1
  h2 = h2
  w1 = w1
  w2 = w2
  p1 = p1
  n1 = n1
  WalName = WalName
  Wals = {w1}
  Handles = {h1}
  Replicas = {}
  WalOf <- OneLog
  Procs = {p1}
  ProcOf <- OneProc
  Policy <- OnFlush
  Keys = {k1, k2}
  Names = {n1, n2}
  NameOf <- Collide
  MaxVersions = 3
  MaxCommits = 3
  MaxJobs = 1
  MaxEnds = 1
  MaxDamage = 1
SPECIFICATION FairSpec
INVARIANTS FilesWhole RecordsTrue FreshViews
PROPERTIES SavesEnd
