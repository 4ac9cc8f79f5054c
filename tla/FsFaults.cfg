CONSTANTS
  None = None
  Blank = Blank
  Torn = Torn
  Broken = Broken
  Keys = {k1}
  Data = {d1}
  Procs = {p1, p2}
  Threads = {t1, t2}
  MaxOpens = 3
  MaxCalls = 2
  MaxFaults = 1
  MaxCrashes = 1
  MaxLosses = 2
SPECIFICATION FairSpec
INVARIANTS Reopenable IdentityHolds ReadsTrue
PROPERTIES KeepsContract OperationsReturn
CHECK_DEADLOCK FALSE
