SPECIFICATION FairSpec
CONSTANTS
  w1 = w1
  w2 = w2
  p1 = p1
  p2 = p2
  NoWorker = NoWorker
  Workers <- MCWorkers
  OnceWorkers = {w1}
  Projectors <- MCProjectors
  Handles <- MCHandles
  Rows = {1, 3}
  Corrupt = {3}
  BatchSize = 1
  LeaseDuration = 1
  MaxAttempts = 2
  BaseRetryDelay = 1
  MaxRetryDelay = 1
  MaxTime = 2
  MaxSkew = 0
  MaxInterruptions = 1
PROPERTIES
  EveryRowSettles
  OnceEnds
