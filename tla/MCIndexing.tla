----------------------------- MODULE MCIndexing -----------------------------
(***************************************************************************)
(* Instances of indexing, of the ledger and the content store it writes,   *)
(* and of what is rebuilt, searched and verified from the ledger. A        *)
(* behaviour runs one part from its initial states to the end. The         *)
(* components, and the properties that are proved of them, come from       *)
(* IndexingProofs.                                                         *)
(***************************************************************************)
EXTENDS IndexingProofs, TLC

CONSTANTS Unused

\* Contents and sizes of scanned files.
MCScanContents == {"x", "y", "big"}
MCSizeOf == [c \in MCScanContents |-> IF c = "big" THEN 3 ELSE 1]
MCTrackedFirst == [p \in {1, 2} |-> "x"]

\* What the requests of the content store need, and how they write it.
MCRequests == 1..2
MCWants == [q \in MCRequests |-> {1, 3}]
MCWriteMode == [q \in MCRequests |-> "if_none_match"]

\* Graphs over two keyed labels, a plain label 3 and the marker's 4.
GraphKinds ==
  {k \in [labels : {{1}, {1, 2}, {2, 3}}, keys : SUBSET {1, 2}] : k.keys \subseteq k.labels}
    \cup {[labels |-> {3}, keys |-> {}], [labels |-> {4}, keys |-> {}]}
GraphEdges == {{<<1, 2>>, <<2, 1>>, <<2, 2>>}, {<<1, 3>>, <<3, 1>>, <<2, 3>>}}

MCDigestNodes == 1..3
MCNodeSource == [n \in MCDigestNodes |-> n]
MCEdgeSource == [e \in MCDigestNodes \X MCDigestNodes |-> 10 * e[1] + e[2]]

\* Events that index, reuse and purge contents 1 and 2.
Index(refs, s) == [purges |-> {}, refs |-> refs, scope |-> s]
Purge(cs) == [purges |-> cs, refs |-> <<>>, scope |-> NoScope]
Ref(c, sha) == [x \in {c} |-> sha]
RaceEvents == <<Index(Ref(1, "x"), "s"), Index(Ref(1, "x") @@ Ref(2, "y"), "s"), Purge({1, 2})>>
ReuseEvents == <<Index(Ref(1, "x"), "s"), Index(Ref(1, "z"), "s"), Index(Ref(1, "x"), "t"),
                 Index(Ref(2, "blank"), "s")>>
ReplayEvents == <<Index(Ref(1, "x") @@ Ref(2, "y"), "s"), Index(Ref(1, "z"), "s"), Purge({2}),
                  Index(Ref(1, "x"), NoScope)>>

D(id, key, stream, body) == [id |-> id, key |-> key, stream |-> stream, body |-> body]
\* Two batches on different streams use each other's event ids under other
\* keys; the third repeats a key.
ReusedDrafts == <<<<D(1, 1, 1, 7), D(2, 2, 1, 8)>>, <<D(2, 3, 2, 8), D(1, 4, 2, 7)>>,
                  <<D(6, 5, 1, 0), D(7, 5, 1, 1)>>>>

MCBatches == 1..3
MCLockKey == <<1, 2, 3, 4, 5>>
MCRows == 1..3

-----------------------------------------------------------------------------
\* The same components with other bounds: two paths; every cap and a failure of
\* a scan; conditional writes and a lost session; ranges and a growing ledger;
\* two versions, a lost rebuild lock; search content that is reused, replayed
\* or kept in a standby graph.
RunTwo == INSTANCE IndexRun WITH
  Paths <- {"p", "q"}, Registered <- {"p"}, Contents <- {"a"}, Big <- {}, MaxEdits <- 1
ScanCaps == INSTANCE Scanner WITH
  tree <- scan_tree, ino <- scan_ino, index <- scan_index, head <- scan_head,
  rootGen <- scan_rootGen, edits <- scan_edits, failures <- scan_failures, pc <- scan_pc,
  fds <- scan_fds, pinned <- scan_pinned, sHead <- scan_sHead, sIndex <- scan_sIndex,
  changes <- scan_changes, untracked <- scan_untracked, left <- scan_left, cur <- scan_cur,
  bytesRead <- scan_bytesRead, processed <- scan_processed, files <- scan_files,
  raced <- scan_raced, reasons <- scan_reasons, omitted <- scan_omitted, later <- scan_later,
  Tracked <- [p \in 1..3 |-> IF p = 3 THEN Absent ELSE "x"], Paths <- 1..3,
  Contents <- ScanContents, MaxEdits <- 3, MaxFailures <- 1, Flagged <- {2}, MaxFileBytes <- 4,
  MaxTotalBytes <- 4, MaxFiles <- 2
Conditional == INSTANCE ContentStore WITH
  now <- store_now, objects <- store_objects, catalog <- store_catalog,
  committed <- store_committed, locks <- store_locks, pc <- store_pc, at <- store_at,
  todo <- store_todo, stored <- store_stored, inserted <- store_inserted, begun <- store_begun,
  sweep <- store_sweep, listing <- store_listing, alarms <- store_alarms,
  failures <- store_failures, lost <- store_lost, MaxFailures <- 1, Sweepers <- {3},
  MaxLostSessions <- 1
VerifyRanges == INSTANCE LedgerVerify WITH
  rows <- verify_rows, heads <- verify_heads, edits <- verify_edits, run <- verify_run,
  Requests <- {{}, {1}, {1, 2}}, Streams <- 1..2, MaxEdits <- 1, Payloads <- {"x"},
  MaxEvents <- 3, BatchSizes <- {2}, Sinces <- 1..3
ReportGrowing == INSTANCE RunReport WITH
  counts <- report_counts, log <- report_log, v <- report_v, Verifiers <- {"v1"},
  MaxAppends <- 1, MaxRuns <- 3
TwoVersions == INSTANCE Rebuild WITH
  outbox <- rebuild_outbox, checkpoints <- rebuild_checkpoints, graph <- rebuild_graph,
  marker <- rebuild_marker, worker <- rebuild_worker, rebuild <- rebuild_runs,
  shared <- rebuild_shared, exclusive <- rebuild_exclusive, failures <- rebuild_failures,
  lost_locks <- rebuild_lost_locks, Rows <- 1..2, Workers <- RebuildWorkers,
  Modes <- {"in_place"}, PageSize <- ReplayPage, MaxFailures <- 1, Handled <- 1..2,
  Versions <- {"v1", "v2"}, StopFirst <- TRUE, KeepStopped <- TRUE
LostLock == INSTANCE Rebuild WITH
  outbox <- rebuild_outbox, checkpoints <- rebuild_checkpoints, graph <- rebuild_graph,
  marker <- rebuild_marker, worker <- rebuild_worker, rebuild <- rebuild_runs,
  shared <- rebuild_shared, exclusive <- rebuild_exclusive, failures <- rebuild_failures,
  lost_locks <- rebuild_lost_locks, Rows <- ReplayRows, Workers <- RebuildWorkers,
  Modes <- {"in_place"}, PageSize <- ReplayPage, MaxFailures <- 0, Handled <- 1..3,
  MaxLostLocks <- 1
SearchReuse == INSTANCE SearchIndex WITH
  status <- search_status, attempts <- search_attempts, crashes <- search_crashes,
  docs <- search_docs, tomb <- search_tomb, nodes <- search_nodes, standby <- search_standby,
  lost <- search_lost, w <- search_worker, r <- search_replay, Events <- ReuseEvents,
  Workers <- SearchWorkers, Contents <- SearchContents, MaxCrashes <- SearchCrashes,
  Modes <- ReplayModes, MaxAttempts <- 1
SearchReplay == INSTANCE SearchIndex WITH
  status <- search_status, attempts <- search_attempts, crashes <- search_crashes,
  docs <- search_docs, tomb <- search_tomb, nodes <- search_nodes, standby <- search_standby,
  lost <- search_lost, w <- search_worker, r <- search_replay, Events <- ReplayEvents,
  Workers <- {"w1"}, Contents <- SearchContents, MaxCrashes <- 0, Modes <- {"in_place"},
  MaxAttempts <- 1, MaxLost <- 1
SearchStandby == INSTANCE SearchIndex WITH
  status <- search_status, attempts <- search_attempts, crashes <- search_crashes,
  docs <- search_docs, tomb <- search_tomb, nodes <- search_nodes, standby <- search_standby,
  lost <- search_lost, w <- search_worker, r <- search_replay, Events <- ReplayEvents,
  Workers <- {"w1"}, Contents <- SearchContents, MaxCrashes <- SearchCrashes,
  Modes <- {"standby"}, MaxAttempts <- 1

\* What the modules assume of their constants.
ASSUME ConstantsLegal == IndexRunAssumption /\ RunTwo!IndexRunAssumption /\
         Ingest!IngestAssumption /\ Scans!ScannerAssumption /\ ScanCaps!ScannerAssumption /\
         Store!DigestsAssumption /\ Store!ActorsAssumption /\ Store!WantsAssumption /\
         Store!StoreAssumption /\ Store!ContentBoundsAssumption /\
         Conditional!DigestsAssumption /\ Conditional!ActorsAssumption /\
         Conditional!WantsAssumption /\ Conditional!StoreAssumption /\
         Conditional!ContentBoundsAssumption /\ Repo!StreamsAssumption /\
         Repo!BatchesAssumption /\ Repo!DraftsAssumption /\ Repo!LockKeyAssumption /\
         Repo!LedgerBoundsAssumption /\ Verify!VerifyAssumption /\
         VerifyRanges!VerifyAssumption /\ Reports!ReportAssumption /\
         ReportGrowing!ReportAssumption /\ Live!RowsAssumption /\ Live!ProcessAssumption /\
         Live!ModesAssumption /\ Live!SizesAssumption /\ Live!OperatorAssumption /\
         Live!BoundsAssumption /\ TwoVersions!RowsAssumption /\ TwoVersions!ProcessAssumption /\
         TwoVersions!ModesAssumption /\ TwoVersions!SizesAssumption /\
         TwoVersions!OperatorAssumption /\ TwoVersions!BoundsAssumption /\
         LostLock!RowsAssumption /\ LostLock!ProcessAssumption /\ LostLock!ModesAssumption /\
         LostLock!SizesAssumption /\ LostLock!OperatorAssumption /\ LostLock!BoundsAssumption /\
         Search!SearchAssumption /\ SearchReuse!SearchAssumption /\
         SearchReplay!SearchAssumption /\ SearchStandby!SearchAssumption /\
         Digest!DigestAssumption

\* The variables of the components; a component that does not run stays Unused.
RunVars == <<phase, work, repo, scan, scip, sources, left, parsed, out, edits>>
IngestVars == <<ingest_ledger, ingest_pc, ingest_target, ingest_good, ingest_fresh,
                 ingest_crashes, ingest_whole>>
StoreVars == <<store_now, store_objects, store_catalog, store_committed, store_locks,
                store_pc, store_at, store_todo, store_stored, store_inserted, store_begun,
                store_sweep, store_listing, store_alarms, store_failures, store_lost>>
LogVars == <<log_streams, log_events, log_stream_lock, log_key_lock, log_pc, log_stream_state,
              log_fresh, log_results, log_answers, log_failures, log_quarantines>>
ScanVars == <<scan_tree, scan_ino, scan_index, scan_head, scan_rootGen, scan_edits,
               scan_failures, scan_pc, scan_fds, scan_pinned, scan_sHead, scan_sIndex,
               scan_changes, scan_untracked, scan_left, scan_cur, scan_bytesRead,
               scan_processed, scan_files, scan_raced, scan_reasons, scan_omitted, scan_later>>
VerifyVars == <<verify_rows, verify_heads, verify_edits, verify_run>>
ReportVars == <<report_counts, report_log, report_v>>
RebuildVars == <<rebuild_outbox, rebuild_checkpoints, rebuild_graph, rebuild_marker,
                  rebuild_worker, rebuild_runs, rebuild_shared, rebuild_exclusive,
                  rebuild_failures, rebuild_lost_locks>>
SearchVars == <<search_status, search_attempts, search_crashes, search_docs, search_tomb,
                 search_nodes, search_standby, search_lost, search_worker, search_replay>>
DigestVars == <<digest_kind, digest_edges, digest_batch, digest_pass, digest_after,
                 digest_nodeHashes, digest_relHashes, digest_missing, digest_pending,
                 digest_orphans>>

RunIdle == phase = Unused /\ work = Unused /\ repo = Unused /\ scan = Unused /\
           scip = Unused /\ sources = Unused /\ left = Unused /\ parsed = Unused /\
           out = Unused /\ edits = Unused
IngestIdle == ingest_ledger = Unused /\ ingest_pc = Unused /\ ingest_target = Unused /\
              ingest_good = Unused /\ ingest_fresh = Unused /\ ingest_crashes = Unused /\
              ingest_whole = Unused
StoreIdle == store_now = Unused /\ store_objects = Unused /\ store_catalog = Unused /\
             store_committed = Unused /\ store_locks = Unused /\ store_pc = Unused /\
             store_at = Unused /\ store_todo = Unused /\ store_stored = Unused /\
             store_inserted = Unused /\ store_begun = Unused /\ store_sweep = Unused /\
             store_listing = Unused /\ store_alarms = Unused /\ store_failures = Unused /\
             store_lost = Unused
LogIdle == log_streams = Unused /\ log_events = Unused /\ log_stream_lock = Unused /\
           log_key_lock = Unused /\ log_pc = Unused /\ log_stream_state = Unused /\
           log_fresh = Unused /\ log_results = Unused /\ log_answers = Unused /\
           log_failures = Unused /\ log_quarantines = Unused
ScanIdle == scan_tree = Unused /\ scan_ino = Unused /\ scan_index = Unused /\
            scan_head = Unused /\ scan_rootGen = Unused /\ scan_edits = Unused /\
            scan_failures = Unused /\ scan_pc = Unused /\ scan_fds = Unused /\
            scan_pinned = Unused /\ scan_sHead = Unused /\ scan_sIndex = Unused /\
            scan_changes = Unused /\ scan_untracked = Unused /\ scan_left = Unused /\
            scan_cur = Unused /\ scan_bytesRead = Unused /\ scan_processed = Unused /\
            scan_files = Unused /\ scan_raced = Unused /\ scan_reasons = Unused /\
            scan_omitted = Unused /\ scan_later = Unused
VerifyIdle == verify_rows = Unused /\ verify_heads = Unused /\ verify_edits = Unused /\
              verify_run = Unused
ReportIdle == report_counts = Unused /\ report_log = Unused /\ report_v = Unused
RebuildIdle == rebuild_outbox = Unused /\ rebuild_checkpoints = Unused /\
               rebuild_graph = Unused /\ rebuild_marker = Unused /\ rebuild_worker = Unused /\
               rebuild_runs = Unused /\ rebuild_shared = Unused /\ rebuild_exclusive = Unused /\
               rebuild_failures = Unused /\ rebuild_lost_locks = Unused
SearchIdle == search_status = Unused /\ search_attempts = Unused /\ search_crashes = Unused /\
              search_docs = Unused /\ search_tomb = Unused /\ search_nodes = Unused /\
              search_standby = Unused /\ search_lost = Unused /\ search_worker = Unused /\
              search_replay = Unused
DigestIdle == digest_kind = Unused /\ digest_edges = Unused /\ digest_batch = Unused /\
              digest_pass = Unused /\ digest_after = Unused /\ digest_nodeHashes = Unused /\
              digest_relHashes = Unused /\ digest_missing = Unused /\ digest_pending = Unused /\
              digest_orphans = Unused

SuiteVars == <<part, RunVars, IngestVars, StoreVars, LogVars, ScanVars, VerifyVars, ReportVars,
               RebuildVars, SearchVars, DigestVars>>

SuiteInit ==
  /\ part \in {"run", "run_two", "ingest", "scanner", "scanner_caps", "store", "conditional",
               "ledger", "verify", "verify_ranges", "report", "report_growing", "rebuild",
               "versions", "lost_lock", "search", "search_reuse", "search_replay",
               "search_standby", "digest"}
  /\ CASE part = "run" -> Init
       [] part = "run_two" -> RunTwo!Init
       [] OTHER -> RunIdle
  /\ CASE part = "ingest" -> Ingest!Init
       [] OTHER -> IngestIdle
  /\ CASE part = "store" -> Store!Init
       [] part = "conditional" -> Conditional!Init
       [] OTHER -> StoreIdle
  /\ CASE part = "ledger" -> Repo!Init
       [] OTHER -> LogIdle
  /\ CASE part = "scanner" -> Scans!Init
       [] part = "scanner_caps" -> ScanCaps!Init
       [] OTHER -> ScanIdle
  /\ CASE part = "verify" -> Verify!Init
       [] part = "verify_ranges" -> VerifyRanges!Init
       [] OTHER -> VerifyIdle
  /\ CASE part = "report" -> Reports!Init
       [] part = "report_growing" -> ReportGrowing!Init
       [] OTHER -> ReportIdle
  /\ CASE part = "rebuild" -> Live!Init
       [] part = "versions" -> TwoVersions!Init
       [] part = "lost_lock" -> LostLock!Init
       [] OTHER -> RebuildIdle
  /\ CASE part = "search" -> Search!Init
       [] part = "search_reuse" -> SearchReuse!Init
       [] part = "search_replay" -> SearchReplay!Init
       [] part = "search_standby" -> SearchStandby!Init
       [] OTHER -> SearchIdle
  /\ CASE part = "digest" -> Digest!Init
       [] OTHER -> DigestIdle

RunNext == part = "run" /\ Next /\ UNCHANGED <<part, IngestVars, StoreVars, LogVars, ScanVars,
            VerifyVars, ReportVars, RebuildVars, SearchVars, DigestVars>>
RunTwoNext == part = "run_two" /\ RunTwo!Next /\ UNCHANGED <<part, IngestVars, StoreVars,
            LogVars, ScanVars, VerifyVars, ReportVars, RebuildVars, SearchVars, DigestVars>>
IngestNext == part = "ingest" /\ Ingest!Next /\ UNCHANGED <<part, RunVars, StoreVars, LogVars,
            ScanVars, VerifyVars, ReportVars, RebuildVars, SearchVars, DigestVars>>
ScansNext == part = "scanner" /\ Scans!Next /\ UNCHANGED <<part, RunVars, IngestVars,
            StoreVars, LogVars, VerifyVars, ReportVars, RebuildVars, SearchVars, DigestVars>>
ScanCapsNext == part = "scanner_caps" /\ ScanCaps!Next /\ UNCHANGED <<part, RunVars,
            IngestVars, StoreVars, LogVars, VerifyVars, ReportVars, RebuildVars, SearchVars,
            DigestVars>>
StoreNext == part = "store" /\ Store!Next /\ UNCHANGED <<part, RunVars, IngestVars, LogVars,
            ScanVars, VerifyVars, ReportVars, RebuildVars, SearchVars, DigestVars>>
ConditionalNext == part = "conditional" /\ Conditional!Next /\ UNCHANGED <<part, RunVars,
            IngestVars, LogVars, ScanVars, VerifyVars, ReportVars, RebuildVars, SearchVars,
            DigestVars>>
RepoNext == part = "ledger" /\ Repo!Next /\ UNCHANGED <<part, RunVars, IngestVars, StoreVars,
            ScanVars, VerifyVars, ReportVars, RebuildVars, SearchVars, DigestVars>>
VerifyNext == part = "verify" /\ Verify!Next /\ UNCHANGED <<part, RunVars, IngestVars,
            StoreVars, LogVars, ScanVars, ReportVars, RebuildVars, SearchVars, DigestVars>>
VerifyRangesNext == part = "verify_ranges" /\ VerifyRanges!Next /\ UNCHANGED <<part, RunVars,
            IngestVars, StoreVars, LogVars, ScanVars, ReportVars, RebuildVars, SearchVars,
            DigestVars>>
ReportsNext == part = "report" /\ Reports!Next /\ UNCHANGED <<part, RunVars, IngestVars,
            StoreVars, LogVars, ScanVars, VerifyVars, RebuildVars, SearchVars, DigestVars>>
ReportGrowingNext == part = "report_growing" /\ ReportGrowing!Next /\ UNCHANGED <<part,
            RunVars, IngestVars, StoreVars, LogVars, ScanVars, VerifyVars, RebuildVars,
            SearchVars, DigestVars>>
LiveNext == part = "rebuild" /\ Live!Next /\ UNCHANGED <<part, RunVars, IngestVars, StoreVars,
            LogVars, ScanVars, VerifyVars, ReportVars, SearchVars, DigestVars>>
TwoVersionsNext == part = "versions" /\ TwoVersions!Next /\ UNCHANGED <<part, RunVars,
            IngestVars, StoreVars, LogVars, ScanVars, VerifyVars, ReportVars, SearchVars,
            DigestVars>>
LostLockNext == part = "lost_lock" /\ LostLock!Next /\ UNCHANGED <<part, RunVars, IngestVars,
            StoreVars, LogVars, ScanVars, VerifyVars, ReportVars, SearchVars, DigestVars>>
SearchNext == part = "search" /\ Search!Next /\ UNCHANGED <<part, RunVars, IngestVars,
            StoreVars, LogVars, ScanVars, VerifyVars, ReportVars, RebuildVars, DigestVars>>
SearchReuseNext == part = "search_reuse" /\ SearchReuse!Next /\ UNCHANGED <<part, RunVars,
            IngestVars, StoreVars, LogVars, ScanVars, VerifyVars, ReportVars, RebuildVars,
            DigestVars>>
SearchReplayNext == part = "search_replay" /\ SearchReplay!Next /\ UNCHANGED <<part, RunVars,
            IngestVars, StoreVars, LogVars, ScanVars, VerifyVars, ReportVars, RebuildVars,
            DigestVars>>
SearchStandbyNext == part = "search_standby" /\ SearchStandby!Next /\ UNCHANGED <<part,
            RunVars, IngestVars, StoreVars, LogVars, ScanVars, VerifyVars, ReportVars,
            RebuildVars, DigestVars>>
DigestNext == part = "digest" /\ Digest!Next /\ UNCHANGED <<part, RunVars, IngestVars,
            StoreVars, LogVars, ScanVars, VerifyVars, ReportVars, RebuildVars, SearchVars>>

SuiteNext == RunNext \/ RunTwoNext \/ IngestNext \/ ScansNext \/ ScanCapsNext \/
             StoreNext \/ ConditionalNext \/ RepoNext \/ VerifyNext \/ VerifyRangesNext \/
             ReportsNext \/ ReportGrowingNext \/ LiveNext \/ TwoVersionsNext \/
             LostLockNext \/ SearchNext \/ SearchReuseNext \/ SearchReplayNext \/
             SearchStandbyNext \/ DigestNext

SuiteSpec == SuiteInit /\ [][SuiteNext]_SuiteVars

-----------------------------------------------------------------------------
\* The same promises where other bounds bite.
\* - A run over two paths hides no failure and calls only what is whole
\*   complete.
\* - A scan at its caps reports what it left out and keeps its budget.
\* - Conditional writes and a lost session leave no reference dangling.
\* - Every range of a ledger is verified exactly; findings are on record while
\*   the ledger grows.
\* - Markers are true while two versions run.
\* - The search index is right for content that is reused, replayed or kept in
\*   a standby graph.
OtherBounds ==
  /\ part = "run_two" => RunTwo!CompleteIsWhole /\ RunTwo!SuccessHidesNothing
  /\ part = "scanner_caps" => ScanCaps!ScanFaithful
  /\ part = "conditional" => Conditional!ContentSound
  /\ part = "verify_ranges" => VerifyRanges!VerifySound
  /\ part = "report_growing" => ReportGrowing!RecordsSound
  /\ part = "versions" => TwoVersions!RebuildSound
  /\ part = "search_reuse" => SearchReuse!SearchSound
  /\ part = "search_replay" => SearchReplay!SearchSound
  /\ part = "search_standby" => SearchStandby!SearchSound

\* A rebuild whose lock was lost makes its checkpoint active only over a graph
\* that holds every delivered event (_finalize_checkpoints,
\* _require_nothing_missed).
LostLockHonest == [][part = "lost_lock" => LostLock!ClaimsAreHonest]_SuiteVars

=============================================================================
