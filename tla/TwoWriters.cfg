CONSTANTS
  None = None
  Writers = {w1, w2}
  Replicas = {}
  MaxRaces = 3
  MaxAttempts = 2
  MaxLive = 2
  MaxPendingDeletes = 1
  MaxBatch = 1
  MaxEntries = 3
  MaxJobs = 3
  MaxFaults = 0
  MaxDrops = 0
SPECIFICATION Spec
SYMMETRY Symmetry
INVARIANTS TypeOK AckedDurable FoldFits ViewsAreCommitted NeverCorrupt
PROPERTIES WalAdvances
