CONSTANTS
  None = None
  Keys = {k1, k2}
  Data = {d1, d2}
  Clients = {c1, c2}
  MaxCalls = 3
  MaxArms = 1
SPECIFICATION Spec
INVARIANTS StatsAccount
PROPERTIES KeepsContract AmbiguousMeansExecuted
CHECK_DEADLOCK FALSE
