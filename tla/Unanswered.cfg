CONSTANTS
  None = None
  Writers = {w1, w2}
  Replicas = {}
  MaxRaces = 2
  MaxAttempts = 2
  MaxLive = 2
  MaxPendingDeletes = 1
  MaxBatch = 1
  MaxEntries = 2
  MaxJobs = 3
  MaxFaults = 1
  MaxDrops = 0
SPECIFICATION Spec
SYMMETRY Symmetry
INVARIANTS Recoverable GarbageStaysDead NotAppliedNeverLands AppliedOnce DebtReported
