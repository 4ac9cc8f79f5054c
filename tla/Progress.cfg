CONSTANTS
  None = None
  Writers = {w1, w2}
  Replicas = {}
  MaxRaces = 2
  MaxAttempts = 2
  MaxLive = 2
  MaxPendingDeletes = 1
  MaxBatch = 1
  MaxEntries = 2
  MaxJobs = 1
  MaxFaults = 1
  MaxDrops = 0
SPECIFICATION FairSpec
PROPERTIES MethodsReturn
