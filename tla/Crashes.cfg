CONSTANTS
  None = None
  Writers = {w1}
  Replicas = {r1}
  MaxRaces = 2
  MaxAttempts = 2
  MaxLive = 2
  MaxPendingDeletes = 1
  MaxBatch = 2
  MaxEntries = 3
  MaxJobs = 2
  MaxFaults = 1
  MaxDrops = 1
SPECIFICATION Spec
PROPERTIES KeepsPromise
