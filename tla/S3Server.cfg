CONSTANTS
  None = None
  Keys = {k1}
  Data = {d1, d2, d3}
  Clients = {c1, c2}
  Big = {d3}
  MaxCalls = 3
SPECIFICATION FairSpec
INVARIANTS BodiesBounded
PROPERTIES KeepsContract CallsReturn
CHECK_DEADLOCK FALSE
