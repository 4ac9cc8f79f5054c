CONSTANTS
  Writers = {w1, w2}
  MaxBatch = 2
  MaxIds = 5
  MaxLost = 2
SPECIFICATION Spec
INVARIANTS EveryIdIsNext
CHECK_DEADLOCK FALSE
