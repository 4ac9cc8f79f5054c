CONSTANTS
  Producers = {p1, p2}
  PerProducer = 2
  Capacity = 1
  MaxBatch = 2
  Window = 2
  MaxAttempts = 2
  Reconciles = {"Replace", "Abort"}
  MaxOthers = 1
  MaxFaults = 1
  MaxPanics = 1
SPECIFICATION FairSpec
INVARIANTS ReceiptsTrue ErrorsShowTheAttempt PrefixCommitted BoundedBacklog DrainedAtEnd
PROPERTIES ShutsDown
CHECK_DEADLOCK FALSE
