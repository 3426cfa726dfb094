SPECIFICATION SuiteSpec
CHECK_DEADLOCK FALSE
CONSTANTS
  Paths = {"p"}
  Registered = {"p"}
  Contents = {"a", "b", "g"}
  Big = {"g"}
  MaxEdits = 2
  Truncated = Truncated
  Absent = Absent
  None = None
  Indexers = {"i", "j"}
  Targets = {"s", "t"}
  Files = {"f", "g"}
  BatchSize = 3
  MaxCrashes = 2
  Requests <- MCRequests
  Sweepers = {4, 5}
  Nobody = Nobody
  ObjectDigests = {1}
  InlineDigests = {3}
  Wants <- MCWants
  WriteMode <- MCWriteMode
  MinAge = 1
  MaxTime = 3
  StoreFailures = 1
  MaxLostSessions = 0
  Batches <- MCBatches
  Streams = {1, 2}
  Drafts <- ReusedDrafts
  LockKey <- MCLockKey
  MaxFailures = 2
  MaxQuarantines = 1
  ScanPaths = {1, 2}
  ScanContents <- MCScanContents
  SizeOf <- MCSizeOf
  Torn = Torn
  TrackedFirst <- MCTrackedFirst
  Flagged = {}
  MaxFileBytes = 2
  MaxTotalBytes = 2
  MaxFiles = 3
  ScanEdits = 3
  ScanFailures = 0
  VerifyStreams = {1}
  Payloads = {"x", "y"}
  NoDigest = NoDigest
  MaxEvents = 2
  VerifyEdits = 2
  PageSize = 1
  BatchSizes = {1}
  Sinces = {1}
  Selections = {{}}
  Verifiers = {"v1", "v2"}
  Projectors = {"a", "b"}
  Problems = {"behind", "orphan_source_ids"}
  Strict = TRUE
  MaxAppends = 0
  MaxRuns = 2
  ReplayRows <- MCRows
  Handled = {1, 3}
  Versions = {"v1"}
  RebuildWorkers = {"w1"}
  Rebuilds = {"p1"}
  NoMarker = NoMarker
  RebuildModes = {"in_place", "standby", "standby_wipe"}
  ReplayPage = 2
  WipeLimit = 1
  StopFirst = FALSE
  KeepStopped = FALSE
  RebuildFailures = 2
  MaxLostLocks = 0
  SearchEvents <- RaceEvents
  SearchWorkers = {"w1", "w2"}
  SearchContents = {1, 2}
  Blank = {"blank"}
  NoScope = NoScope
  Embeds = TRUE
  MaxAttempts = 2
  SearchCrashes = 1
  MaxLost = 0
  ReplayModes = {}
  DigestNodes <- MCDigestNodes
  Keyed = {1, 2}
  History = 4
  NodeKinds <- GraphKinds
  EdgeSets <- GraphEdges
  NodeSource <- MCNodeSource
  EdgeSource <- MCEdgeSource
  DigestLedger = {2, 3, 12, 22, 13, 23}
  DigestBatches = {1, 2}
  FlushAt = 2
  Unused = Unused
INVARIANTS
  RunSound
  StorageSound
  ScanFaithful
  VerificationSound
  RebuildSound
  SearchSound
  ScanExact
  OtherBounds
PROPERTIES
  RebuildHonest
  LostLockHonest
