SPECIFICATION Spec
CONSTANTS
  w1 = w1
  w2 = w2
  p1 = p1
  p2 = p2
  NoWorker = NoWorker
  Workers <- MCWorkers
  OnceWorkers = {}
  Projectors <- MCProjectors
  Handles <- MCHandles
  Rows = {1, 2}
  Corrupt = {}
  BatchSize = 2
  LeaseDuration = 1
  MaxAttempts = 2
  BaseRetryDelay = 1
  MaxRetryDelay = 2
  MaxTime = 3
  MaxSkew = 1
  MaxInterruptions = 1
SYMMETRY WorkerSymmetry
INVARIANTS
  TypeOK
  DeliveredIsProjected
  CheckpointExact
  DeadLetterExact
  NoLeaseOutlivesStop
PROPERTIES
  LeaseRespected
  ImplementsDelivery
