SPECIFICATION Spec
CHECK_DEADLOCK FALSE
CONSTANTS
  b1 = b1
  b2 = b2
  b3 = b3
  b4 = b4
  Nobody = Nobody
  Batches <- MCBatches
  Streams <- MCStreams
  Drafts <- MCDrafts
  LockKey <- MCLockKey
  MaxFailures = 1
  MaxQuarantines = 1
INVARIANTS
  ChainIntact
  AnswersTrue
  NeverDeadlocks
PROPERTIES
  ImplementsLog
