SPECIFICATION SuiteSpec
CHECK_DEADLOCK FALSE
CONSTANTS
  Requests <- MCRequests
  ExportOf <- Overlapping
  Keys <- MCKeys
  Streams = {0, 1}
  NoEvent = NoEvent
  MaxAttempts = 3
  MaxDrafts = 4
  MaxFailures = 2
  MaxQuarantines = 0
  GateRequests <- MCGateRequests
  Producers = {"p", "q", "s"}
  ProducerOf <- MCProducerOf
  None = None
  Workers = 2
  QueueDepth = 1
  PerProducer = 2
  MaxCancels = 2
  Commands <- MCCommands
  Kind <- MCKind
  Granted <- MCCommands
  KeyOf <- MCKeyOf
  PathOf <- MCPathOf
  Life <- MCLife
  TokenKeys = {"p"}
  Paths = {"f"}
  Stdout = "stdout"
  Never = 99
  TokenTime = 2
  TokenFaults = 1
  MaxSwaps = 1
  TokenOf <- MCTokenOf
  Tokens = {"a", "b"}
  Cached = TRUE
  Unknown = "nobody"
  Scoped = {"a", "b"}
  ExpiresAt <- MCExpiresAt
  Ttl = 2
  MaxEntries = 1
  MaxConcurrency = 1
  MaxQueueDepth = 2
  MaxTime = 3
  AccessCancels = 0
  AccessFailures = 0
  Jobs = {"old", "new", "twin", "typo"}
  HeadOf <- MCHeadOf
  Expected = {"old", "new", "twin"}
  Empty = 0
  MaxFaults = 2
  ProbeRequests = {"r1", "r2"}
  Probes = {1, 2}
  Checks = {"pg", "s3"}
  Timeout = 1
  Lag = 0
  MaxAbandoned = 1
  ProbeTime = 2
  Principals = {"p", "q", "s"}
  One = 3
  Rate = 2
  Burst = 2
  MaxBuckets = 2
  Unused = Unused
INVARIANTS
  GateBounded
  ExportHonest
  AccessSound
  RateSound
  CredentialsSound
  OperationsSound
  OtherServiceBounds
PROPERTIES
  CredentialsKept
