--------------------------- MODULE IndexingProofs ---------------------------
(***************************************************************************)
(* What is proved of indexing and of what it leaves behind: what one run   *)
(* may say of a checkout that changes under it (IndexRun, extended here),  *)
(* and, as instances over variables of their own: that its drafts reach    *)
(* the ledger although runs fail and are repeated (IndexIngest), that a    *)
(* scan is faithful to the worktree it pinned (Scanner), that a            *)
(* verification of the ledger is exact and on record (LedgerVerify,        *)
(* RunReport). Content store, ledger, rebuild, search index and graph scan *)
(* are proved in their modules and cited here. What MCIndexing checks on   *)
(* small instances is stated here for any values of the constants; part    *)
(* names the component that a behaviour of that suite runs.                *)
(***************************************************************************)
EXTENDS IndexRun, FiniteSetTheorems, SequenceTheorems, WellFoundedInduction, TLAPS

CONSTANTS Indexers, Targets, Files, BatchSize, MaxCrashes, Requests, Sweepers, Nobody,
          ObjectDigests, InlineDigests, Wants, WriteMode, MinAge, MaxTime, StoreFailures,
          MaxLostSessions, Batches, Streams, Drafts, LockKey, MaxFailures, MaxQuarantines,
          ScanPaths, ScanContents, SizeOf, Torn, TrackedFirst, Flagged, MaxFileBytes,
          MaxTotalBytes, MaxFiles, ScanEdits, ScanFailures, VerifyStreams, Payloads, NoDigest,
          MaxEvents, VerifyEdits, PageSize, BatchSizes, Sinces, Selections, Verifiers,
          Projectors, Problems, Strict, MaxAppends, MaxRuns, ReplayRows, Handled, Versions,
          RebuildWorkers, Rebuilds, NoMarker, RebuildModes, ReplayPage, WipeLimit, StopFirst,
          KeepStopped, RebuildFailures, MaxLostLocks, SearchEvents, SearchWorkers,
          SearchContents, Blank, NoScope, Embeds, MaxAttempts, SearchCrashes, MaxLost,
          ReplayModes, DigestNodes, Keyed, History, NodeKinds, EdgeSets, NodeSource, EdgeSource,
          DigestLedger, DigestBatches, FlushAt

VARIABLES part, ingest_ledger, ingest_pc, ingest_target, ingest_good, ingest_fresh,
          ingest_crashes, ingest_whole, store_now, store_objects, store_catalog,
          store_committed, store_locks, store_pc, store_at, store_todo, store_stored,
          store_inserted, store_begun, store_sweep, store_listing, store_alarms, store_failures,
          store_lost, log_streams, log_events, log_stream_lock, log_key_lock, log_pc,
          log_stream_state, log_fresh, log_results, log_answers, log_failures, log_quarantines,
          scan_tree, scan_ino, scan_index, scan_head, scan_rootGen, scan_edits, scan_failures,
          scan_pc, scan_fds, scan_pinned, scan_sHead, scan_sIndex, scan_changes, scan_untracked,
          scan_left, scan_cur, scan_bytesRead, scan_processed, scan_files, scan_raced,
          scan_reasons, scan_omitted, scan_later, verify_rows, verify_heads, verify_edits,
          verify_run, report_counts, report_log, report_v, rebuild_outbox, rebuild_checkpoints,
          rebuild_graph, rebuild_marker, rebuild_worker, rebuild_runs, rebuild_shared,
          rebuild_exclusive, rebuild_failures, rebuild_lost_locks, search_status,
          search_attempts, search_crashes, search_docs, search_tomb, search_nodes,
          search_standby, search_lost, search_worker, search_replay, digest_kind, digest_edges,
          digest_batch, digest_pass, digest_after, digest_nodeHashes, digest_relHashes,
          digest_missing, digest_pending, digest_orphans


(***************************************************************************)
(* The types of a run's variables.                                         *)
(***************************************************************************)
Phases == {"scan", "read", "parse", "build", "done"}
Scanned == phase # "scan"

RunTyped ==
  /\ phase \in Phases
  /\ work \in States /\ repo \in [head : States, index : States]
  /\ scip \in [documents : SUBSET Paths, dropped : SUBSET Paths, invalid : SUBSET Paths]
  /\ Scanned => scan \in [at : States, skipped : SUBSET Paths, omitted : SUBSET Paths, changed : SUBSET Paths]
  /\ left \in SUBSET Registered /\ sources \in [Paths -> Contents \cup {Truncated, Absent, None}]
  /\ parsed \in [Paths -> {"none", "ok", "lossy"}]
  /\ edits \in Nat

\* A document of the import is about a committed file.
DocumentsCommitted == \A p \in scip.documents : repo.head[p] # Absent

\* The status never misses what is staged: only the worktree can be racy.
StagedIsChanged ==
  Scanned => \A p \in Paths : repo.index[p] # Absent /\ repo.index[p] # repo.head[p] => p \in scan.changed

\* Before the parse nothing has been parsed, and what was too big never is.
ParsedWasRead ==
  /\ phase \in {"scan", "read", "parse"} => \A p \in Paths : parsed[p] = "none"
  /\ \A p \in Paths : parsed[p] # "none" => sources[p] \notin {None, Truncated}

\* The evidence is what the last step built, of the sources it had.
Evidence ==
  [indexed |-> emit_file, complete |-> coverage_drafts, not_indexed |-> unindexed_coverage,
   facts |-> UNION {scip_facts(p) \cup parsed_facts(p) : p \in Indexed},
   error |-> outcome_error_class]

BuiltOnce == Done => out = Evidence

RunInv == RunTyped /\ DocumentsCommitted /\ StagedIsChanged /\ ParsedWasRead /\ BuiltOnce

LEMMA RunStarts == ASSUME IndexRunAssumption, Init PROVE RunInv
<1> USE DEF Init
<1>1. RunTyped
  BY DEF RunTyped, Phases, Scanned, IndexRunAssumption
<1>2. DocumentsCommitted /\ StagedIsChanged /\ ParsedWasRead /\ BuiltOnce
  BY DEF DocumentsCommitted, StagedIsChanged, Scanned, ParsedWasRead, BuiltOnce, Done
<1> QED BY <1>1, <1>2 DEF RunInv

LEMMA ScanSafe ==
  ASSUME IndexRunAssumption, RunInv, NEW s \in SUBSET Paths, NEW o \in SUBSET Paths,
         NEW m \in SUBSET Paths, Scan(s, o, m)
  PROVE  RunInv'
<1> USE DEF RunInv, Scan
<1>1. RunTyped'
  BY DEF RunTyped, Phases, Scanned, IndexRunAssumption
<1>2. DocumentsCommitted' /\ BuiltOnce'
  BY DEF DocumentsCommitted, BuiltOnce, Done
<1>3. StagedIsChanged'
  BY DEF StagedIsChanged
<1>4. ParsedWasRead'
  BY DEF ParsedWasRead
<1> QED BY <1>1, <1>2, <1>3, <1>4

LEMMA ReadSourceSafe ==
  ASSUME IndexRunAssumption, RunInv, NEW p \in Paths, ReadSource(p)
  PROVE  RunInv'
<1> USE DEF RunInv, ReadSource
<1>1. RunTyped'
  <2>1. Bytes(p) \in Contents \cup {Truncated, Absent, None}
    BY DEF Bytes, RunTyped, States
  <2> QED BY <2>1 DEF RunTyped, Phases, Scanned, IndexRunAssumption
<1>2. DocumentsCommitted' /\ BuiltOnce' /\ StagedIsChanged'
  BY DEF DocumentsCommitted, BuiltOnce, Done, StagedIsChanged, Scanned
<1>3. ParsedWasRead'
  BY DEF ParsedWasRead
<1> QED BY <1>1, <1>2, <1>3

LEMMA ParseSafe ==
  ASSUME IndexRunAssumption, RunInv, NEW outcome \in [Paths -> {"ok", "lossy"}], Parse(outcome)
  PROVE  RunInv'
<1> USE DEF RunInv, Parse
<1>1. RunTyped'
  BY DEF RunTyped, Phases, Scanned
<1>2. DocumentsCommitted' /\ BuiltOnce' /\ StagedIsChanged'
  BY DEF DocumentsCommitted, BuiltOnce, Done, StagedIsChanged, Scanned
<1>3. ParsedWasRead'
  BY DEF ParsedWasRead
<1> QED BY <1>1, <1>2, <1>3

\* The evidence is a function of the scan, the import, the bytes and the parse.
LEMMA EvidenceKept ==
  ASSUME repo' = repo, scan' = scan, scip' = scip, sources' = sources, parsed' = parsed
  PROVE  Evidence' = Evidence
<1>1. Listed' = Listed
  BY DEF Listed
<1>2. Tracked' = Tracked
  BY <1>1 DEF Tracked
<1>3. ASSUME NEW p \in Paths
      PROVE  /\ Changed(p)' = Changed(p) /\ Modified(p)' = Modified(p)
             /\ scanned_digest(p)' = scanned_digest(p) /\ at_commit(p)' = at_commit(p)
             /\ HasIdentity(p)' = HasIdentity(p)
  BY <1>1, <1>2 DEF Changed, Modified, scanned_digest, at_commit, HasIdentity
<1>4. Documents' = Documents
  BY <1>2 DEF Documents, scip_applies, Changed, Modified, at_commit
<1>5. ASSUME NEW p \in Paths
      PROVE  /\ index_structural(p)' = index_structural(p) /\ index_scip_only(p)' = index_scip_only(p)
             /\ losses(p)' = losses(p)
  <2>1. admit(p)' = admit(p)
    BY <1>3 DEF admit
  <2> QED BY <1>4, <2>1 DEF index_structural, index_scip_only, losses
<1>6. Indexed' = Indexed
  BY <1>5 DEF Indexed
<1>7. emit_file' = emit_file /\ coverage_drafts' = coverage_drafts
  <2>1. Indexed \subseteq Paths
    BY DEF Indexed
  <2> QED BY <1>5, <1>6, <2>1 DEF emit_file, coverage_drafts
<1>8. unindexed_coverage' = unindexed_coverage
  BY <1>1, <1>2, <1>6 DEF unindexed_coverage, Changed, Modified
<1>9. (UNION {scip_facts(p) \cup parsed_facts(p) : p \in Indexed})'
        = UNION {scip_facts(p) \cup parsed_facts(p) : p \in Indexed}
  BY <1>4, <1>6 DEF scip_facts, parsed_facts
<1>10. outcome_error_class' = outcome_error_class
  <2>1. Degraded' = Degraded
    BY <1>5 DEF Degraded
  <2>2. Skipped' = Skipped
    BY <1>1, <1>6 DEF Skipped
  <2> QED BY <2>1, <2>2 DEF outcome_error_class, scan_hides_sources
<1> QED BY <1>7, <1>8, <1>9, <1>10 DEF Evidence

LEMMA OtherStepsSafe ==
  ASSUME IndexRunAssumption, RunInv,
         SourcesRead \/ (\E p \in Paths, c \in Contents \cup {Absent} : Edit(p, c)) \/ UNCHANGED vars
  PROVE  RunInv'
<1>1. CASE SourcesRead
  BY <1>1 DEF RunInv, SourcesRead, RunTyped, Phases, Scanned, DocumentsCommitted, StagedIsChanged,
              ParsedWasRead, BuiltOnce, Done
<1>2. ASSUME NEW p \in Paths, NEW c \in Contents \cup {Absent}, Edit(p, c) PROVE RunInv'
  <2>1. RunTyped'
    BY <1>2 DEF RunInv, Edit, RunTyped, Phases, Scanned, States
  <2> QED
    BY <1>2, <2>1 DEF RunInv, Edit, DocumentsCommitted, StagedIsChanged, Scanned, ParsedWasRead, BuiltOnce, Done
<1>3. CASE UNCHANGED vars
  <2>1. RunTyped' /\ DocumentsCommitted' /\ StagedIsChanged' /\ ParsedWasRead'
    BY <1>3 DEF vars, RunInv, RunTyped, Scanned, DocumentsCommitted, StagedIsChanged, ParsedWasRead
  <2>2. Evidence' = Evidence
    BY <1>3, EvidenceKept DEF vars
  <2> QED BY <1>3, <2>1, <2>2 DEF vars, RunInv, BuiltOnce, Done
<1> QED BY <1>1, <1>2, <1>3

LEMMA BuildSafe == ASSUME IndexRunAssumption, RunInv, Build PROVE RunInv'
<1> USE DEF RunInv, Build
<1>1. RunTyped' /\ DocumentsCommitted' /\ StagedIsChanged' /\ ParsedWasRead'
  BY DEF RunTyped, Phases, Scanned, DocumentsCommitted, StagedIsChanged, ParsedWasRead
<1>2. Evidence' = Evidence
  BY EvidenceKept
<1>3. out' = Evidence
  BY DEF Evidence
<1> QED BY <1>1, <1>2, <1>3 DEF BuiltOnce

LEMMA RunKeeps == ASSUME IndexRunAssumption PROVE Spec => []RunInv
<1>1. Init => RunInv
  BY RunStarts
<1>2. RunInv /\ [Next]_vars => RunInv'
  BY ScanSafe, ReadSourceSafe, ParseSafe, OtherStepsSafe, BuildSafe DEF Next
<1> QED BY <1>1, <1>2, PTL DEF Spec

-----------------------------------------------------------------------------
(* What an indexed file says, of a state the invariant holds in.           *)

LEMMA AdmittedBytes ==
  ASSUME NEW p \in Indexed
  PROVE  p \in Paths /\ sources[p] = scan.at[p] /\ sources[p] # None /\ scan.at[p] # Absent
BY DEF Indexed, index_structural, index_scip_only, admit, scanned_digest

\* A document is attached to the bytes of the commit only.
LEMMA DocumentIsCommitted ==
  ASSUME RunInv, Scanned, NEW p \in Indexed, p \in Documents
  PROVE  sources[p] = repo.head[p]
<1>1. p \in Paths /\ sources[p] = scan.at[p] /\ sources[p] # None
  BY AdmittedBytes
<1>2. repo.index[p] # Absent /\ p \notin scan.changed /\ (scan.at[p] = repo.index[p] \/ sources[p] = repo.index[p])
  BY DEF Documents, scip_applies, Tracked, Changed, at_commit, Modified
<1>3. repo.index[p] = repo.head[p]
  BY <1>1, <1>2 DEF RunInv, StagedIsChanged
<1> QED BY <1>1, <1>2, <1>3

\* IndexRun: SCIP evidence is attached to a revision only if its bytes are
\* the commit's, even when git status missed an edit.
THEOREM ScipDescribesTheCommit == ASSUME IndexRunAssumption PROVE Spec => []ScipIsOfTheCommit
<1>1. RunInv => ScipIsOfTheCommit
  <2> SUFFICES ASSUME RunInv, Done, NEW f \in out.facts, f[2] = "scip"
               PROVE  <<f[1], repo.head[f[1]]>> \in out.indexed
    BY DEF ScipIsOfTheCommit
  <2>1. out = Evidence
    BY DEF RunInv, BuiltOnce
  <2>2. PICK p \in Indexed : f \in scip_facts(p) \cup parsed_facts(p)
    BY <2>1 DEF Evidence
  <2>3. p \in Documents /\ f[1] = p
    BY <2>2 DEF scip_facts, parsed_facts
  <2>4. sources[p] = repo.head[p]
    BY <2>3, DocumentIsCommitted DEF Scanned, Done
  <2>5. <<p, sources[p]>> \in emit_file
    BY DEF emit_file
  <2> QED BY <2>1, <2>3, <2>4, <2>5 DEF Evidence
<1> QED BY <1>1, RunKeeps, PTL

\* IndexRun: the revision of an indexed file is of the bytes the scan
\* digested, not of what the file became while the run went on.
THEOREM RevisionsAreScanned == ASSUME IndexRunAssumption PROVE Spec => []IndexedIsScanned
<1>1. RunInv => IndexedIsScanned
  <2> SUFFICES ASSUME RunInv, Done, NEW f \in out.indexed PROVE f[2] = scan.at[f[1]]
    BY DEF IndexedIsScanned
  <2>1. PICK p \in Indexed : f = <<p, sources[p]>>
    BY DEF RunInv, BuiltOnce, Evidence, emit_file
  <2> QED BY <2>1, AdmittedBytes
<1> QED BY <1>1, RunKeeps, PTL

\* IndexRun: a file reported complete lost nothing of its parse or of its
\* SCIP document.
THEOREM CompleteLostNothing == ASSUME IndexRunAssumption PROVE Spec => []CompleteIsWhole
<1>1. RunInv => CompleteIsWhole
  <2> SUFFICES ASSUME RunInv, Done, NEW p \in out.complete
               PROVE  /\ parsed[p] # "none" => <<p, "tree_sitter", "all">> \in out.facts
                      /\ p \in scip.documents => <<p, "scip", "all">> \in out.facts
    BY DEF CompleteIsWhole
  <2>1. out = Evidence /\ p \in Indexed /\ losses(p) = {} /\ p \in Paths
    BY DEF RunInv, BuiltOnce, Evidence, coverage_drafts, Indexed
  <2>2. scip_facts(p) \subseteq out.facts /\ parsed_facts(p) \subseteq out.facts
    BY <2>1 DEF Evidence
  <2>3. ASSUME parsed[p] # "none" PROVE <<p, "tree_sitter", "all">> \in out.facts
    <3>1. parsed[p] \in {"ok", "lossy"} /\ parsed[p] # "lossy"
      BY <2>1, <2>3 DEF RunInv, RunTyped, losses
    <3> QED BY <2>2, <2>3, <3>1 DEF parsed_facts
  <2>4. ASSUME p \in scip.documents PROVE <<p, "scip", "all">> \in out.facts
    <3>1. p \in Documents /\ p \notin scip.invalid
      BY <2>1, <2>4 DEF losses
    <3> QED BY <2>2, <3>1 DEF scip_facts
  <2> QED BY <2>3, <2>4
<1> QED BY <1>1, RunKeeps, PTL

\* outcome_error_class: a run that reports success indexed every source file
\* of the checkout it scanned, completely.
THEOREM SuccessHidesNothingEver == ASSUME IndexRunAssumption PROVE Spec => []SuccessHidesNothing
<1>1. ASSUME IndexRunAssumption, RunInv PROVE SuccessHidesNothing
  <2> SUFFICES ASSUME Done, out.error = None, NEW p \in Registered, scan.at[p] # Absent
               PROVE  <<p, scan.at[p]>> \in out.indexed /\ p \in out.complete
    BY DEF SuccessHidesNothing
  <2>1. out = Evidence /\ p \in Paths
    BY <1>1 DEF RunInv, BuiltOnce, IndexRunAssumption
  <2>2. ~scan_hides_sources /\ ~Skipped /\ ~Degraded
    BY <1>1, <2>1 DEF Evidence, outcome_error_class, IndexRunAssumption, ErrorClasses
  <2>3. p \in Listed
    BY <2>1, <2>2 DEF scan_hides_sources, Listed
  <2>4. p \in Indexed
    BY <2>2, <2>3 DEF Skipped
  <2>5. losses(p) = {}
    BY <2>1, <2>2 DEF Degraded
  <2>6. <<p, scan.at[p]>> \in emit_file
    BY <2>4, AdmittedBytes DEF emit_file
  <2> QED BY <2>1, <2>4, <2>5, <2>6 DEF Evidence, coverage_drafts
<1> QED BY <1>1, RunKeeps, PTL

\* unindexed_coverage: a revision reported not indexed is that of the
\* committed blob, and no other revision of the file is indexed beside it.
THEOREM GapsAreCommitted == ASSUME IndexRunAssumption PROVE Spec => []NotIndexedIsCommitted
<1>1. RunInv => NotIndexedIsCommitted
  <2> SUFFICES ASSUME RunInv, Done, NEW p \in out.not_indexed
               PROVE  scan.at[p] = repo.head[p] /\ \A f \in out.indexed : f[1] # p
    BY DEF NotIndexedIsCommitted
  <2>1. out = Evidence
    BY DEF RunInv, BuiltOnce
  <2>2. p \in Tracked /\ p \notin Indexed /\ p \notin scan.changed /\ scan.at[p] = repo.index[p]
    BY <2>1 DEF Evidence, unindexed_coverage, Changed, Modified
  <2>3. repo.index[p] = repo.head[p]
    BY <2>2 DEF Tracked, Listed, RunInv, StagedIsChanged, Scanned, Done
  <2>4. \A f \in emit_file : f[1] # p
    BY <2>2 DEF emit_file
  <2> QED BY <2>1, <2>2, <2>3, <2>4 DEF Evidence
<1> QED BY <1>1, RunKeeps, PTL

-----------------------------------------------------------------------------
\* Submitting the drafts of a run, by several indexers that may crash.
Ingest == INSTANCE IndexIngest WITH
  ledger <- ingest_ledger, pc <- ingest_pc, target <- ingest_target, good <- ingest_good,
  fresh <- ingest_fresh, crashes <- ingest_crashes, whole <- ingest_whole

\* Finite sets are the same in the instance.
LEMMA IngestSets == \A S : (Ingest!IsFiniteSet(S) <=> IsFiniteSet(S)) /\ Ingest!Cardinality(S) = Cardinality(S)
<1>1. \A S : Ingest!IsFiniteSet(S) <=> IsFiniteSet(S)
  BY DEF Ingest!IsFiniteSet, IsFiniteSet
<1>2. \A S : Ingest!Cardinality(S) = Cardinality(S)
  BY DEF Ingest!Cardinality, Cardinality
<1> QED BY <1>1, <1>2

USE IngestSets

Kinds == {"file", "symbol", "observed", "coverage", "started", "completed"}
Outcomes == BOOLEAN \cup {None}
Events == [type : Kinds, target : Targets \cup {None}, about : Files \cup {None}, says : Outcomes]
BodyEvents == [type : Kinds \ {"completed"}, target : Targets \cup {None}, about : Files \cup {None}, says : Outcomes]

IngestTyped ==
  /\ \A l \in ingest_ledger : l.event \in Events /\ l.key = Ingest!claim_key(l.event)
  /\ ingest_pc \in [Indexers -> {"idle", "check", "submit", "done", "failed", "conflict"}]
  /\ ingest_target \in [Indexers -> Targets \cup {None}] /\ ingest_good \in [Indexers -> BOOLEAN]
  /\ ingest_fresh \in [Indexers -> SUBSET Nat] /\ ingest_whole \in SUBSET (Targets \X BOOLEAN)

\* The drafts an indexer has still to submit are a run of its drafts to their
\* end, and the others are in the ledger.
Submitting ==
  \A i \in Indexers :
    /\ ingest_pc[i] # "idle" => ingest_target[i] \in Targets
    /\ ingest_pc[i] = "check" => ingest_fresh[i] = Ingest!Places(ingest_target[i], ingest_good[i])
    /\ ingest_pc[i] = "submit" =>
                /\ ingest_fresh[i] \subseteq Ingest!Places(ingest_target[i], ingest_good[i])
                /\ \A k \in Ingest!Places(ingest_target[i], ingest_good[i]) \ ingest_fresh[i] : Ingest!Has(Ingest!mine(i)[k])

IngestInv == IngestTyped /\ Submitting /\ Ingest!CompletedMeansAll /\ Ingest!ReportedIsStored

-----------------------------------------------------------------------------
LEMMA FilesInOrder == ASSUME Ingest!IngestAssumption PROVE Ingest!FileSeq \in Seq(Files)
<1>1. Cardinality(Files) \in Nat /\ ExistsBijection(1..Cardinality(Files), Files)
  BY FS_CardinalityType DEF Ingest!IngestAssumption
<1>2. PICK f \in [1..Cardinality(Files) -> Files] : Ingest!IsInjective(f)
  BY <1>1 DEF ExistsBijection, Bijection, Injection, IsInjective, Ingest!IsInjective
<1>3. Ingest!FileSeq \in [1..Cardinality(Files) -> Files]
  BY <1>2 DEF Ingest!FileSeq, Ingest!SetToSeq
<1> QED BY <1>1, <1>3, SeqDef

LEMMA PerFileTyped ==
  ASSUME Ingest!IngestAssumption, NEW type \in Kinds \ {"completed"}, NEW t \in Targets \cup {None}, NEW says \in Outcomes
  PROVE  Ingest!PerFile(type, t, says) \in Seq(BodyEvents)
<1>1. Ingest!FileSeq \in Seq(Files) /\ Len(Ingest!FileSeq) \in Nat
  BY FilesInOrder, LenProperties
<1>2. \A k \in 1..Len(Ingest!FileSeq) : Ingest!Event(type, t, Ingest!FileSeq[k], says) \in BodyEvents
  BY <1>1, ElementOfSeq DEF Ingest!Event, BodyEvents
<1>3. Ingest!PerFile(type, t, says) \in [1..Len(Ingest!FileSeq) -> BodyEvents]
  BY <1>2 DEF Ingest!PerFile
<1> QED BY <1>1, <1>3, SeqDef

\* "completed" is the last draft, and no other.
LEMMA CompletedIsLast ==
  ASSUME Ingest!IngestAssumption, NEW t \in Targets \cup {None}, NEW ok \in BOOLEAN
  PROVE  LET D == Ingest!drafts(t, ok) IN
         /\ D \in Seq(Events) /\ Len(D) \in Nat \ {0}
         /\ D[Len(D)] = Ingest!Event("completed", t, None, ok)
         /\ \A k \in 1..Len(D) : D[k] \in Events /\ (D[k].type = "completed" <=> k = Len(D))
<1> DEFINE A == <<Ingest!Event("started", t, None, None)>>
           B == Ingest!PerFile("file", t, None)
           C == Ingest!PerFile("symbol", t, None)
           F == Ingest!PerFile("observed", t, None)
           G == Ingest!PerFile("coverage", t, ok)
           Z == <<Ingest!Event("completed", t, None, ok)>>
           body == A \o B \o C \o F \o G
<1>1. Ingest!Event("started", t, None, None) \in BodyEvents /\ Ingest!Event("completed", t, None, ok) \in Events
  BY DEF Ingest!Event, BodyEvents, Events, Kinds, Outcomes
<1>2. A \in Seq(BodyEvents) /\ Z \in Seq(Events) /\ Len(Z) = 1 /\ Z[1] = Ingest!Event("completed", t, None, ok)
  BY <1>1
<1>3. B \in Seq(BodyEvents) /\ C \in Seq(BodyEvents) /\ F \in Seq(BodyEvents) /\ G \in Seq(BodyEvents)
  BY PerFileTyped DEF Kinds, Outcomes
<1> HIDE DEF A, B, C, F, G, Z
<1>4. body \in Seq(BodyEvents)
  <2>1. A \o B \in Seq(BodyEvents)
    BY <1>2, <1>3, ConcatProperties
  <2>2. A \o B \o C \in Seq(BodyEvents)
    BY <1>3, <2>1, ConcatProperties
  <2>3. A \o B \o C \o F \in Seq(BodyEvents)
    BY <1>3, <2>2, ConcatProperties
  <2> QED BY <1>3, <2>3, ConcatProperties
<1>5. Ingest!drafts(t, ok) = body \o Z
  BY DEF Ingest!drafts, A, B, C, F, G, Z
<1> HIDE DEF body
<1>6. BodyEvents \subseteq Events /\ \A e \in BodyEvents : e.type # "completed"
  BY DEF BodyEvents, Events
<1>7. body \in Seq(Events) /\ Len(body) \in Nat
  BY <1>4, <1>6, SeqMonotonic, LenProperties
<1> DEFINE D == Ingest!drafts(t, ok)
<1>8. /\ D \in Seq(Events) /\ Len(D) = Len(body) + 1
      /\ \A k \in 1..Len(body) + 1 : D[k] = IF k <= Len(body) THEN body[k] ELSE Z[k - Len(body)]
  <2>1. /\ body \o Z \in Seq(Events) /\ Len(body \o Z) = Len(body) + Len(Z)
        /\ \A k \in 1..Len(body) + Len(Z) : (body \o Z)[k] = IF k <= Len(body) THEN body[k] ELSE Z[k - Len(body)]
    BY <1>2, <1>7, ConcatProperties
  <2> QED BY <1>2, <1>5, <2>1
<1>9. \A k \in 1..Len(body) : body[k] \in BodyEvents
  BY <1>4, ElementOfSeq
<1>10. Ingest!Event("completed", t, None, ok).type = "completed"
  BY DEF Ingest!Event
<1> HIDE DEF D
<1>11. D[Len(D)] = Ingest!Event("completed", t, None, ok)
  BY <1>2, <1>7, <1>8
<1>12. \A k \in 1..Len(D) : D[k] \in Events /\ (D[k].type = "completed" <=> k = Len(D))
  <2> SUFFICES ASSUME NEW k \in 1..Len(D) PROVE D[k] \in Events /\ (D[k].type = "completed" <=> k = Len(D))
    OBVIOUS
  <2>1. CASE k = Len(D)
    BY <1>1, <1>10, <1>11, <2>1
  <2>2. CASE k # Len(D)
    <3>1. k \in 1..Len(body) /\ D[k] = body[k]
      BY <1>7, <1>8, <2>2
    <3> QED BY <1>6, <1>9, <2>2, <3>1
  <2> QED BY <2>1, <2>2
<1>13. Len(D) \in Nat \ {0}
  BY <1>7, <1>8
<1> QED BY <1>8, <1>11, <1>12, <1>13 DEF D

\* The key of an event is what it says: equal keys, equal claims.
LEMMA KeysSay ==
  ASSUME NEW d \in Events, NEW e \in Events, Ingest!claim_key(d) = Ingest!claim_key(e)
  PROVE  Ingest!Says(d, e)
<1>1. Ingest!claim_view(d) = Ingest!claim_view(e)
  BY DEF Ingest!claim_key
<1>2. d.type \in Kinds /\ e.type \in Kinds
  BY DEF Events
<1>3. /\ Ingest!claim_view(d).type = d.type /\ Ingest!claim_view(d).about = d.about /\ Ingest!claim_view(d).says = d.says
      /\ Ingest!claim_view(e).type = e.type /\ Ingest!claim_view(e).about = e.about /\ Ingest!claim_view(e).says = e.says
  BY DEF Ingest!claim_view, Events
<1>4. d.type = e.type /\ d.about = e.about /\ d.says = e.says
  BY <1>1, <1>3
<1>5. d.type \notin {"symbol", "observed"} => Ingest!claim_view(d) = d /\ Ingest!claim_view(e) = e
  BY <1>2, <1>4 DEF Ingest!claim_view, Ingest!OBSERVATION_FIELDS, Kinds
<1> QED BY <1>1, <1>4, <1>5 DEF Ingest!Says

LEMMA StoredIsSaid ==
  ASSUME IngestInv, NEW e \in Events, Ingest!Stored(e) # {}
  PROVE  Ingest!Has(e)
BY KeysSay DEF IngestInv, IngestTyped, Ingest!Stored, Ingest!Has

\* The ledger only grows, so what it has it keeps.
LEMMA HasStays == ASSUME ingest_ledger \subseteq ingest_ledger', NEW e, Ingest!Has(e) PROVE Ingest!Has(e)'
BY DEF Ingest!Has

LEMMA PlacesTyped ==
  ASSUME Ingest!IngestAssumption, NEW t \in Targets \cup {None}, NEW ok \in BOOLEAN
  PROVE  /\ Ingest!Places(t, ok) \subseteq Nat /\ IsFiniteSet(Ingest!Places(t, ok))
         /\ \A k \in Ingest!Places(t, ok) : Ingest!drafts(t, ok)[k] \in Events
<1>1. Len(Ingest!drafts(t, ok)) \in Nat /\ \A k \in 1..Len(Ingest!drafts(t, ok)) : Ingest!drafts(t, ok)[k] \in Events
  BY CompletedIsLast
<1>2. IsFiniteSet(1..Len(Ingest!drafts(t, ok)))
  BY <1>1, FS_Interval
<1> QED BY <1>1, <1>2 DEF Ingest!Places

-----------------------------------------------------------------------------
\* What does not touch the ledger keeps what it means.
LEMMA QuietLedger ==
  ASSUME IngestInv, ingest_ledger' = ingest_ledger, ingest_whole' = ingest_whole
  PROVE  Ingest!CompletedMeansAll' /\ Ingest!ReportedIsStored'
<1>1. \A e : Ingest!Has(e)' <=> Ingest!Has(e)
  BY DEF Ingest!Has
<1> QED BY <1>1 DEF IngestInv, Ingest!CompletedMeansAll, Ingest!ReportedIsStored

LEMMA StartSafe ==
  ASSUME Ingest!IngestAssumption, IngestInv, NEW i \in Indexers, NEW t \in Targets, NEW ok \in BOOLEAN, Ingest!Start(i, t, ok)
  PROVE  IngestInv'
<1>1. /\ ingest_pc' = [ingest_pc EXCEPT ![i] = "check"] /\ ingest_target' = [ingest_target EXCEPT ![i] = t] /\ ingest_good' = [ingest_good EXCEPT ![i] = ok]
      /\ ingest_fresh' = [ingest_fresh EXCEPT ![i] = Ingest!Places(t, ok)] /\ UNCHANGED <<ingest_ledger, ingest_crashes, ingest_whole>>
  BY DEF Ingest!Start
<1>2. \A j \in Indexers : /\ ingest_pc'[j] = IF j = i THEN "check" ELSE ingest_pc[j]
                          /\ ingest_target'[j] = IF j = i THEN t ELSE ingest_target[j]
                          /\ ingest_good'[j] = IF j = i THEN ok ELSE ingest_good[j]
                          /\ ingest_fresh'[j] = IF j = i THEN Ingest!Places(t, ok) ELSE ingest_fresh[j]
  BY <1>1 DEF IngestInv, IngestTyped
<1>3. IngestTyped'
  <2>1. Ingest!Places(t, ok) \in SUBSET Nat
    BY PlacesTyped
  <2> QED BY <1>1, <2>1 DEF IngestInv, IngestTyped
<1>4. Submitting'
  BY <1>1, <1>2 DEF IngestInv, Submitting, Ingest!mine, Ingest!Has
<1> QED BY <1>1, <1>3, <1>4, QuietLedger DEF IngestInv

LEMMA CheckSafe ==
  ASSUME Ingest!IngestAssumption, IngestInv, NEW i \in Indexers, Ingest!Check(i)
  PROVE  IngestInv'
<1>1. /\ ingest_pc[i] = "check" /\ UNCHANGED <<ingest_ledger, ingest_target, ingest_good, ingest_crashes, ingest_whole>>
      /\ ingest_fresh[i] = Ingest!Places(ingest_target[i], ingest_good[i]) /\ ingest_target[i] \in Targets /\ ingest_good[i] \in BOOLEAN
  BY DEF Ingest!Check, IngestInv, Submitting, IngestTyped
<1>2. CASE ingest_pc' = [ingest_pc EXCEPT ![i] = "conflict"] /\ ingest_fresh' = ingest_fresh
  <2>1. IngestTyped' /\ Submitting'
    BY <1>1, <1>2 DEF IngestInv, IngestTyped, Submitting, Ingest!mine, Ingest!Has
  <2> QED BY <1>1, <2>1, QuietLedger DEF IngestInv
<1>3. CASE ingest_pc' = [ingest_pc EXCEPT ![i] = "submit"] /\ ingest_fresh' = [ingest_fresh EXCEPT ![i] = {k \in @ : Ingest!Stored(Ingest!mine(i)[k]) = {}}]
  <2> DEFINE new == {k \in ingest_fresh[i] : Ingest!Stored(Ingest!mine(i)[k]) = {}}
  <2>1. \A j \in Indexers : /\ ingest_pc'[j] = IF j = i THEN "submit" ELSE ingest_pc[j]
                            /\ ingest_fresh'[j] = IF j = i THEN new ELSE ingest_fresh[j]
    BY <1>3 DEF IngestInv, IngestTyped
  <2>2. new \in SUBSET Nat /\ new \subseteq Ingest!Places(ingest_target[i], ingest_good[i])
    BY <1>1 DEF IngestInv, IngestTyped
  <2>3. IngestTyped'
    BY <1>1, <1>3, <2>2 DEF IngestInv, IngestTyped
  <2>4. \A k \in Ingest!Places(ingest_target[i], ingest_good[i]) \ new : Ingest!Has(Ingest!mine(i)[k])
    <3> SUFFICES ASSUME NEW k \in Ingest!Places(ingest_target[i], ingest_good[i]), Ingest!Stored(Ingest!mine(i)[k]) # {} PROVE Ingest!Has(Ingest!mine(i)[k])
      BY <1>1
    <3>1. Ingest!mine(i)[k] \in Events
      BY <1>1, PlacesTyped DEF Ingest!mine
    <3> QED BY <3>1, StoredIsSaid
  <2> HIDE DEF new
  <2>5. Submitting'
    BY <1>1, <2>1, <2>2, <2>4 DEF IngestInv, Submitting, Ingest!mine, Ingest!Has
  <2> QED BY <1>1, <2>3, <2>5, QuietLedger DEF IngestInv
<1> QED BY <1>2, <1>3 DEF Ingest!Check

\* A batch is taken whole, in order: with the last draft, all of them.
LEMMA BatchOrder ==
  ASSUME Ingest!IngestAssumption, IngestInv, NEW i \in Indexers, ingest_pc[i] = "submit",
         NEW k \in Ingest!batch(i), NEW j \in ingest_fresh[i], j <= k
  PROVE  j \in Ingest!batch(i)
<1> DEFINE J == {m \in ingest_fresh[i] : m < j}
           K == {m \in ingest_fresh[i] : m < k}
<1>1. ingest_fresh[i] \subseteq Nat /\ IsFiniteSet(ingest_fresh[i]) /\ BatchSize \in Nat
  <2>1. ingest_fresh[i] \subseteq Ingest!Places(ingest_target[i], ingest_good[i]) /\ ingest_target[i] \in Targets /\ ingest_good[i] \in BOOLEAN
    BY DEF IngestInv, Submitting, IngestTyped
  <2> QED BY <2>1, PlacesTyped, FS_Subset DEF Ingest!IngestAssumption
<1>2. k \in ingest_fresh[i] /\ Cardinality(K) < BatchSize
  BY DEF Ingest!batch
<1>3. J \subseteq K
  BY <1>1, <1>2
<1>4. IsFiniteSet(K) /\ Cardinality(K) \in Nat
  BY <1>1, FS_Subset, FS_CardinalityType
<1>5. Cardinality(J) <= Cardinality(K) /\ Cardinality(J) \in Nat
  BY <1>3, <1>4, FS_Subset, FS_CardinalityType
<1>6. Cardinality(J) < BatchSize
  BY <1>1, <1>2, <1>4, <1>5
<1> QED BY <1>6 DEF Ingest!batch

LEMMA SubmitSafe ==
  ASSUME Ingest!IngestAssumption, IngestInv, NEW i \in Indexers, Ingest!Submit(i)
  PROVE  IngestInv'
<1> DEFINE new == {e \in {Ingest!mine(i)[k] : k \in Ingest!batch(i)} : Ingest!Stored(e) = {}}
<1>1. /\ ingest_pc[i] = "submit" /\ UNCHANGED <<ingest_pc, ingest_target, ingest_good, ingest_crashes, ingest_whole>>
      /\ ingest_ledger' = ingest_ledger \cup {[key |-> Ingest!claim_key(e), event |-> e] : e \in new}
      /\ ingest_fresh' = [ingest_fresh EXCEPT ![i] = @ \ Ingest!batch(i)]
  BY DEF Ingest!Submit
<1>2. /\ ingest_target[i] \in Targets /\ ingest_good[i] \in BOOLEAN /\ Ingest!batch(i) \subseteq ingest_fresh[i]
      /\ ingest_fresh[i] \subseteq Ingest!Places(ingest_target[i], ingest_good[i])
      /\ \A k \in Ingest!Places(ingest_target[i], ingest_good[i]) \ ingest_fresh[i] : Ingest!Has(Ingest!mine(i)[k])
  BY <1>1 DEF IngestInv, Submitting, IngestTyped, Ingest!batch
<1>3. \A k \in Ingest!Places(ingest_target[i], ingest_good[i]) : Ingest!mine(i)[k] \in Events
  BY <1>2, PlacesTyped DEF Ingest!mine
<1>4. new \subseteq Events /\ ingest_ledger \subseteq ingest_ledger'
  BY <1>1, <1>2, <1>3
<1>5. \A l \in ingest_ledger' : l \in ingest_ledger \/ \E e \in new : l.event = e /\ l.key = Ingest!claim_key(e)
  BY <1>1
<1>6. \A k \in Ingest!batch(i) : Ingest!Has(Ingest!mine(i)[k])'
  <2> SUFFICES ASSUME NEW k \in Ingest!batch(i) PROVE Ingest!Has(Ingest!mine(i)[k])'
    OBVIOUS
  <2>1. Ingest!mine(i)[k] \in Events /\ Ingest!mine(i)' = Ingest!mine(i)
    BY <1>1, <1>2, <1>3 DEF Ingest!mine
  <2>2. CASE Ingest!Stored(Ingest!mine(i)[k]) # {}
    BY <1>4, <2>1, <2>2, StoredIsSaid, HasStays
  <2>3. CASE Ingest!Stored(Ingest!mine(i)[k]) = {}
    <3>1. [key |-> Ingest!claim_key(Ingest!mine(i)[k]), event |-> Ingest!mine(i)[k]] \in ingest_ledger'
      BY <1>1, <2>3
    <3>2. Ingest!Says(Ingest!mine(i)[k], Ingest!mine(i)[k])
      BY DEF Ingest!Says
    <3> QED BY <2>1, <3>1, <3>2 DEF Ingest!Has
  <2> QED BY <2>2, <2>3
<1> HIDE DEF new
<1>7. IngestTyped'
  <2>1. \A l \in ingest_ledger' : l.event \in Events /\ l.key = Ingest!claim_key(l.event)
    BY <1>4, <1>5 DEF IngestInv, IngestTyped
  <2>2. ingest_fresh' \in [Indexers -> SUBSET Nat]
    BY <1>1 DEF IngestInv, IngestTyped
  <2> QED BY <1>1, <2>1, <2>2 DEF IngestInv, IngestTyped
<1>8. Submitting'
  <2> SUFFICES ASSUME NEW j \in Indexers
               PROVE  /\ ingest_pc[j] # "idle" => ingest_target[j] \in Targets
                      /\ ingest_pc[j] = "check" => ingest_fresh'[j] = Ingest!Places(ingest_target[j], ingest_good[j])
                      /\ ingest_pc[j] = "submit" =>
                                  /\ ingest_fresh'[j] \subseteq Ingest!Places(ingest_target[j], ingest_good[j])
                                  /\ \A k \in Ingest!Places(ingest_target[j], ingest_good[j]) \ ingest_fresh'[j] : Ingest!Has(Ingest!mine(j)[k])'
    BY <1>1 DEF Submitting
  <2>1. ingest_fresh'[j] = IF j = i THEN ingest_fresh[i] \ Ingest!batch(i) ELSE ingest_fresh[j]
    BY <1>1 DEF IngestInv, IngestTyped
  <2>2. Ingest!mine(j)' = Ingest!mine(j)
    BY <1>1 DEF Ingest!mine
  <2>3. \A k : Ingest!Has(Ingest!mine(j)[k]) => Ingest!Has(Ingest!mine(j)[k])'
    BY <1>4, <2>2, HasStays
  <2>4. CASE j # i
    BY <2>1, <2>3, <2>4 DEF IngestInv, Submitting
  <2>5. CASE j = i
    BY <1>1, <1>2, <1>6, <2>1, <2>3, <2>5
  <2> QED BY <2>4, <2>5
<1>9. Ingest!CompletedMeansAll'
  <2> SUFFICES ASSUME NEW t \in Targets, NEW ok \in BOOLEAN, Ingest!Has(Ingest!Event("completed", t, None, ok))',
                      NEW k \in Ingest!Places(t, ok)
               PROVE  Ingest!Has(Ingest!drafts(t, ok)[k])'
    BY DEF Ingest!CompletedMeansAll
  <2>1. CASE Ingest!Has(Ingest!Event("completed", t, None, ok))
    <3>1. Ingest!Has(Ingest!drafts(t, ok)[k])
      BY <2>1 DEF IngestInv, Ingest!CompletedMeansAll
    <3> QED BY <1>4, <3>1, HasStays
  <2>2. CASE ~Ingest!Has(Ingest!Event("completed", t, None, ok))
    <3>1. PICK l \in ingest_ledger' : Ingest!Says(Ingest!Event("completed", t, None, ok), l.event) /\ l \notin ingest_ledger
      BY <2>2 DEF Ingest!Has
    <3>2. PICK m \in Ingest!batch(i) : l.event = Ingest!mine(i)[m]
      BY <1>5, <3>1 DEF new
    <3>3. /\ Ingest!mine(i)[m].type = "completed" /\ Ingest!mine(i)[m].target = t /\ Ingest!mine(i)[m].says = ok
      BY <3>1, <3>2 DEF Ingest!Says, Ingest!Event
    <3>4. m = Len(Ingest!mine(i)) /\ Ingest!mine(i)[m] = Ingest!Event("completed", ingest_target[i], None, ingest_good[i])
      BY <1>2, <3>3, CompletedIsLast DEF Ingest!mine, Ingest!Places
    <3>5. ingest_target[i] = t /\ ingest_good[i] = ok /\ Ingest!mine(i) = Ingest!drafts(t, ok)
      BY <3>3, <3>4 DEF Ingest!Event, Ingest!mine
    <3>6. CASE k \in ingest_fresh[i]
      <4>1. k <= m
        BY <1>2, <3>4, <3>5, CompletedIsLast DEF Ingest!Places
      <4>2. k \in Ingest!batch(i)
        BY <1>1, <3>6, <4>1, BatchOrder
      <4> QED BY <1>1, <1>6, <3>5, <4>2 DEF Ingest!mine
    <3>7. CASE k \notin ingest_fresh[i]
      <4>1. Ingest!Has(Ingest!drafts(t, ok)[k])
        BY <1>2, <3>5, <3>7
      <4> QED BY <1>4, <4>1, HasStays
    <3> QED BY <3>6, <3>7
  <2> QED BY <2>1, <2>2
<1>10. Ingest!ReportedIsStored'
  BY <1>1, <1>4, HasStays DEF IngestInv, Ingest!ReportedIsStored
<1> QED BY <1>7, <1>8, <1>9, <1>10 DEF IngestInv

LEMMA ReportSafe == ASSUME Ingest!IngestAssumption, IngestInv, NEW i \in Indexers, Ingest!Report(i) PROVE IngestInv'
<1>1. /\ ingest_pc[i] = "submit" /\ ingest_fresh[i] = {} /\ ingest_pc' = [ingest_pc EXCEPT ![i] = "done"]
      /\ ingest_whole' = ingest_whole \cup {<<ingest_target[i], ingest_good[i]>>}
      /\ UNCHANGED <<ingest_ledger, ingest_target, ingest_good, ingest_fresh, ingest_crashes>>
  BY DEF Ingest!Report
<1>2. ingest_target[i] \in Targets /\ ingest_good[i] \in BOOLEAN /\ \A k \in Ingest!Places(ingest_target[i], ingest_good[i]) : Ingest!Has(Ingest!mine(i)[k])
  BY <1>1 DEF IngestInv, Submitting, IngestTyped
<1>3. \A e : Ingest!Has(e)' <=> Ingest!Has(e)
  BY <1>1 DEF Ingest!Has
<1>4. IngestTyped'
  BY <1>1, <1>2 DEF IngestInv, IngestTyped
<1>5. Submitting'
  <2>1. \A j \in Indexers : ingest_pc'[j] = IF j = i THEN "done" ELSE ingest_pc[j]
    BY <1>1 DEF IngestInv, IngestTyped
  <2>2. \A j : Ingest!mine(j)' = Ingest!mine(j)
    BY <1>1 DEF Ingest!mine
  <2> QED BY <1>1, <1>2, <1>3, <2>1, <2>2 DEF IngestInv, Submitting
<1>6. Ingest!CompletedMeansAll'
  BY <1>3 DEF IngestInv, Ingest!CompletedMeansAll
<1>7. Ingest!ReportedIsStored'
  <2> SUFFICES ASSUME NEW w \in ingest_whole', NEW k \in Ingest!Places(w[1], w[2]) PROVE Ingest!Has(Ingest!drafts(w[1], w[2])[k])
    BY <1>3 DEF Ingest!ReportedIsStored
  <2>1. CASE w \in ingest_whole
    BY <2>1 DEF IngestInv, Ingest!ReportedIsStored
  <2>2. CASE w = <<ingest_target[i], ingest_good[i]>>
    BY <1>2, <2>2 DEF Ingest!mine
  <2> QED BY <1>1, <2>1, <2>2
<1> QED BY <1>4, <1>5, <1>6, <1>7 DEF IngestInv

LEMMA FailSafe == ASSUME Ingest!IngestAssumption, IngestInv, NEW i \in Indexers, Ingest!Fail(i) PROVE IngestInv'
<1>1. /\ ingest_pc[i] \in {"check", "submit"} /\ ingest_pc' = [ingest_pc EXCEPT ![i] = "failed"] /\ ingest_fresh' = [ingest_fresh EXCEPT ![i] = {}]
      /\ UNCHANGED <<ingest_ledger, ingest_target, ingest_good, ingest_whole>>
  BY DEF Ingest!Fail
<1>2. \A j \in Indexers : /\ ingest_pc'[j] = IF j = i THEN "failed" ELSE ingest_pc[j]
                          /\ ingest_fresh'[j] = IF j = i THEN {} ELSE ingest_fresh[j]
  BY <1>1 DEF IngestInv, IngestTyped
<1>3. \A j, k : Ingest!Has(Ingest!mine(j)[k])' <=> Ingest!Has(Ingest!mine(j)[k])
  BY <1>1 DEF Ingest!Has, Ingest!mine
<1>4. IngestTyped'
  BY <1>1 DEF IngestInv, IngestTyped
<1>5. Submitting'
  BY <1>1, <1>2, <1>3 DEF IngestInv, Submitting
<1> QED BY <1>1, <1>4, <1>5, QuietLedger DEF IngestInv

LEMMA IngestStarts == ASSUME Ingest!IngestAssumption, Ingest!Init PROVE IngestInv
BY DEF Ingest!Init, IngestInv, IngestTyped, Submitting, Ingest!CompletedMeansAll, Ingest!ReportedIsStored, Ingest!Has

LEMMA IngestKeeps == ASSUME Ingest!IngestAssumption, IngestInv, [Ingest!Next]_(Ingest!vars) PROVE IngestInv'
<1>1. CASE Ingest!Next
  BY <1>1, StartSafe, CheckSafe, SubmitSafe, ReportSafe, FailSafe DEF Ingest!Next
<1>2. CASE UNCHANGED Ingest!vars
  <2>1. ingest_ledger' = ingest_ledger /\ ingest_whole' = ingest_whole /\ IngestTyped'
    BY <1>2 DEF Ingest!vars, IngestInv, IngestTyped
  <2>2. Submitting'
    BY <1>2 DEF Ingest!vars, IngestInv, Submitting, Ingest!mine, Ingest!Has
  <2> QED BY <2>1, <2>2, QuietLedger DEF IngestInv
<1> QED BY <1>1, <1>2

(* The inductive invariant of submitting, in every behaviour.              *)
THEOREM IngestIsSafe == ASSUME Ingest!IngestAssumption PROVE Ingest!Spec => []IngestInv
<1>1. Ingest!Init => IngestInv
  BY IngestStarts
<1>2. IngestInv /\ [Ingest!Next]_(Ingest!vars) => IngestInv'
  BY IngestKeeps
<1> QED BY <1>1, <1>2, PTL DEF Ingest!Spec

(* emitter.py, IndexingService.ingest: a completion in the ledger means    *)
(* that all its run claims is there, whatever the batches, crashes and     *)
(* concurrent runs.                                                        *)
THEOREM CompletionMeansAll == ASSUME Ingest!IngestAssumption PROVE Ingest!Spec => []Ingest!CompletedMeansAll
<1>1. IngestInv => Ingest!CompletedMeansAll
  BY DEF IngestInv
<1> QED BY <1>1, IngestIsSafe, PTL

(* ... and a run that reports its outcome has stored every claim, the      *)
(* skipped ones included.                                                  *)
THEOREM ReportsAreStored == ASSUME Ingest!IngestAssumption PROVE Ingest!Spec => []Ingest!ReportedIsStored
<1>1. IngestInv => Ingest!ReportedIsStored
  BY DEF IngestInv
<1> QED BY <1>1, IngestIsSafe, PTL

HIDE IngestSets

-----------------------------------------------------------------------------
\* What an indexing run reports about the commit and the ledger is so.
\* - Evidence is of the bytes the scan recorded (IndexRun).
\* - SCIP evidence is of the indexed commit.
\* - A path reported as not indexed is one of the commit.
\* - A run reported complete left nothing out.
\* - A run reported successful hides no failure.
\* - What a run reports as ingested is in the ledger (IndexIngest).
\* - A completed run ingested every draft, crashes and retries included.
RunSound ==
  /\ part = "run" => /\ IndexedIsScanned /\ ScipIsOfTheCommit /\ NotIndexedIsCommitted
                     /\ CompleteIsWhole /\ SuccessHidesNothing
  /\ part = "ingest" => Ingest!ReportedIsStored /\ Ingest!CompletedMeansAll

\* Both halves of a run together, for any checkout, edits, targets and crashes.
THEOREM RunsAreSound ==
  ASSUME IndexRunAssumption, Ingest!IngestAssumption
  PROVE  Spec /\ Ingest!Spec => []RunSound
<1>1. IndexedIsScanned /\ ScipIsOfTheCommit /\ NotIndexedIsCommitted /\ CompleteIsWhole /\ SuccessHidesNothing
        /\ Ingest!ReportedIsStored /\ Ingest!CompletedMeansAll => RunSound
  BY DEF RunSound
<1> QED BY <1>1, RevisionsAreScanned, ScipDescribesTheCommit, GapsAreCommitted, CompleteLostNothing,
           SuccessHidesNothingEver, ReportsAreStored, CompletionMeansAll, PTL
-----------------------------------------------------------------------------
\* What is stored: the content store and the ledger, each proved in its module.
Store == INSTANCE ContentStore WITH
  now <- store_now, objects <- store_objects, catalog <- store_catalog,
  committed <- store_committed, locks <- store_locks, pc <- store_pc, at <- store_at,
  todo <- store_todo, stored <- store_stored, inserted <- store_inserted, begun <- store_begun,
  sweep <- store_sweep, listing <- store_listing, alarms <- store_alarms,
  failures <- store_failures, lost <- store_lost,
  MaxFailures <- StoreFailures
Repo == INSTANCE Ledger WITH
  streams <- log_streams, events <- log_events, stream_lock <- log_stream_lock,
  key_lock <- log_key_lock, pc <- log_pc, stream_state <- log_stream_state, fresh <- log_fresh,
  results <- log_results, answers <- log_answers, failures <- log_failures,
  quarantines <- log_quarantines

StoreAssumptions ==
  /\ Store!DigestsAssumption /\ Store!ActorsAssumption /\ Store!WantsAssumption
  /\ Store!StoreAssumption /\ Store!ContentBoundsAssumption

RepoAssumptions ==
  /\ Repo!StreamsAssumption /\ Repo!BatchesAssumption /\ Repo!DraftsAssumption
  /\ Repo!LockKeyAssumption /\ Repo!LedgerBoundsAssumption

\* The content store under conditional writes and sweeps that overlap, and the
\* ledger with reused event ids.
\* - A committed reference points to a stored object
\*   (ContentService.attach, sweep_orphans).
\* - An object a request uploaded is still there when the request attaches
\*   it, where one sweep runs at a time.
\* - Batches on different streams that reuse event ids of each other still
\*   store one event per key and id (append_with_outcome).
\* - An event is accepted by one batch only.
StorageSound ==
  /\ part = "store" => Store!ContentSound
  /\ part = "ledger" => Repo!OneEventPerKey /\ Repo!AcceptedOnce

\* Content store and ledger keep what they acknowledged, for any requests,
\* sweeps, batches and crashes (ContentService.attach, append_with_outcome).
THEOREM StorageIsSound ==
  ASSUME StoreAssumptions, RepoAssumptions
  PROVE  Store!Spec /\ Repo!Spec => []StorageSound
<1>1. Store!Spec => []Store!ContentSound
  BY Store!ContentIsSound DEF StoreAssumptions
<1>2. Repo!Spec => []Repo!OneEventPerKey
  BY Repo!KeysUnique DEF RepoAssumptions
<1>3. Repo!Spec => []Repo!AcceptedOnce
  BY Repo!AcceptsOnce DEF RepoAssumptions
<1>4. Store!ContentSound /\ Repo!OneEventPerKey /\ Repo!AcceptedOnce => StorageSound
  BY DEF StorageSound
<1> QED BY <1>1, <1>2, <1>3, <1>4, PTL

-----------------------------------------------------------------------------
\* The scan of a checkout that is edited meanwhile (Scanner).
Scans == INSTANCE Scanner WITH
  tree <- scan_tree, ino <- scan_ino, index <- scan_index, head <- scan_head,
  rootGen <- scan_rootGen, edits <- scan_edits, failures <- scan_failures, pc <- scan_pc,
  fds <- scan_fds, pinned <- scan_pinned, sHead <- scan_sHead, sIndex <- scan_sIndex,
  changes <- scan_changes, untracked <- scan_untracked, left <- scan_left, cur <- scan_cur,
  bytesRead <- scan_bytesRead, processed <- scan_processed, files <- scan_files,
  raced <- scan_raced, reasons <- scan_reasons, omitted <- scan_omitted, later <- scan_later,
  Tracked <- TrackedFirst,
  Paths <- ScanPaths, Contents <- ScanContents, MaxEdits <- ScanEdits, MaxFailures <- ScanFailures

(* The types of what a scan and its checkout hold.                         *)
ScanTyped ==
  /\ scan_pc \in {"start", "pinned", "head", "index", "observe", "done", "failed"}
  /\ scan_tree \in [ScanPaths -> ScanContents \cup {Absent}] /\ scan_ino \in [ScanPaths -> Nat]
  /\ scan_left \subseteq ScanPaths /\ scan_bytesRead \in Nat
  /\ scan_cur # None => /\ scan_pc = "observe" /\ scan_left # {}
                        /\ scan_cur.open \in BOOLEAN /\ (scan_cur.open => scan_cur.val \in ScanContents)
                        /\ scan_cur = [path |-> scan_cur.path, ino |-> scan_cur.ino, size |-> scan_cur.size,
                                       val |-> scan_cur.val, open |-> scan_cur.open]

ScansListed == Scans!TrackedPaths(scan_sIndex) \cup scan_untracked

\* Nothing is observed before status has listed the paths.
NothingYet ==
  scan_pc \in {"start", "pinned", "head", "index"} =>
         DOMAIN scan_files = {} /\ scan_omitted = {} /\ scan_reasons = {} /\ scan_left = {}

\* What status calls unchanged was committed as it is in the index.
UnchangedIsHead ==
  scan_pc \in {"observe", "done"} => \A p \in ScanPaths \ scan_changes : scan_sIndex[p] = scan_sHead[p]

\* What was read of an unchanged path is the index's, or the path is raced.
ReadOrRaced ==
  \A p \in DOMAIN scan_files :
    /\ scan_sIndex[p] # Absent /\ p \notin scan_changes /\ p \notin Flagged /\ scan_files[p].skipped = None
    => scan_files[p].val = scan_sIndex[p] \/ p \in scan_raced

Bitten == {p \in DOMAIN scan_files : scan_files[p].skipped \in {"too_large", "budget"}}

\* A listed path is waiting, observed or omitted; one observed is not waiting.
AllAccounted ==
  scan_pc \in {"observe", "done"} =>
         /\ ScansListed = DOMAIN scan_files \cup scan_omitted \cup scan_left /\ scan_left \cap DOMAIN scan_files = {}
         /\ scan_pc = "observe" => (scan_reasons # {} <=> Bitten # {})
         /\ scan_pc = "done" => scan_left = {} /\ (scan_reasons # {} <=> scan_omitted # {} \/ Bitten # {})

ReadLater == scan_later # None => scan_later = scan_pinned /\ scan_pc = "done"

ScanInv ==
  /\ ScanTyped /\ NothingYet /\ UnchangedIsHead /\ ReadOrRaced /\ AllAccounted
  /\ ReadLater /\ Scans!BudgetHard /\ Scans!DescriptorsClosed

\* A nonempty set of paths has a first.
LEMMA FirstIn ==
  ASSUME NEW T, T \subseteq Nat, T # {}
  PROVE  Scans!First(T) \in T
<1>1. PICK m \in T : \A n \in T : ~(<<n, m>> \in OpToRel(<, Nat))
  BY NatLessThanWellFounded, WFMin
<1>2. ASSUME NEW n \in T PROVE m <= n
  <2>1. m \in Nat /\ n \in Nat /\ ~(n < m)
    BY <1>1 DEF OpToRel
  <2> QED BY <2>1
<1> QED BY <1>2 DEF Scans!First

LEMMA NextPath ==
  ASSUME Scans!ScannerAssumption, ScanInv, scan_left # {}
  PROVE  Scans!P \in scan_left
<1>1. scan_left \subseteq Nat
  BY DEF ScanInv, ScanTyped, Scans!ScannerAssumption
<1>2. CASE scan_left \subseteq scan_untracked
  BY <1>1, <1>2, FirstIn DEF Scans!P
<1>3. CASE ~(scan_left \subseteq scan_untracked)
  <2>1. scan_left \ scan_untracked \subseteq Nat /\ scan_left \ scan_untracked # {}
    BY <1>1, <1>3
  <2>2. Scans!First(scan_left \ scan_untracked) \in scan_left \ scan_untracked
    BY <2>1, FirstIn
  <2> QED BY <1>3, <2>2 DEF Scans!P
<1> QED BY <1>2, <1>3

LEMMA ScanStarts == ASSUME Scans!ScannerAssumption, Scans!Init PROVE ScanInv
<1> USE DEF Scans!Init
<1>1. ScanTyped /\ NothingYet /\ UnchangedIsHead /\ AllAccounted
  BY DEF ScanTyped, NothingYet, UnchangedIsHead, AllAccounted, Scans!ScannerAssumption
<1>2. ReadOrRaced /\ ReadLater /\ Scans!BudgetHard /\ Scans!DescriptorsClosed
  BY DEF ReadOrRaced, ReadLater, Scans!BudgetHard, Scans!DescriptorsClosed, Scans!ScannerAssumption
<1> QED BY <1>1, <1>2 DEF ScanInv

\* Whatever is found of the next path, its record keeps the invariant.
LEMMA ObservedKeeps ==
  ASSUME Scans!ScannerAssumption, ScanInv, scan_pc = "observe", scan_left # {},
         NEW skipped, NEW val, NEW consumed \in Nat, consumed <= Scans!Budget,
         Scans!Observed(Scans!P, skipped, val, consumed)
  PROVE  ScanInv'
<1> USE DEF Scans!Observed, Scans!worktree, Scans!taken
<1> DEFINE p == Scans!P
<1>1. p \in scan_left /\ scan_left \subseteq ScanPaths /\ scan_left' = scan_left \ {p} /\ scan_cur' = None
  BY NextPath DEF ScanInv, ScanTyped
<1>2. /\ DOMAIN scan_files' = DOMAIN scan_files \cup {p}
      /\ scan_files'[p] = [skipped |-> skipped, val |-> val]
      /\ \A q \in DOMAIN scan_files' : q # p => scan_files'[q] = scan_files[q]
  OBVIOUS
<1>3. scan_pc' = scan_pc /\ scan_sIndex' = scan_sIndex /\ scan_changes' = scan_changes /\ scan_untracked' = scan_untracked /\ scan_sHead' = scan_sHead
  OBVIOUS
<1>4. Scans!BudgetHard' /\ scan_bytesRead' \in Nat
  <2>1. MaxTotalBytes \in Nat /\ scan_bytesRead \in Nat /\ scan_bytesRead <= MaxTotalBytes
    BY DEF Scans!ScannerAssumption, ScanInv, ScanTyped, Scans!BudgetHard
  <2>2. consumed <= MaxTotalBytes - scan_bytesRead /\ scan_bytesRead' = scan_bytesRead + consumed
    BY DEF Scans!Budget
  <2> QED BY <2>1, <2>2 DEF Scans!BudgetHard
<1>5. scan_raced \subseteq scan_raced' /\ (scan_sIndex[p] # Absent /\ p \notin scan_changes /\ p \notin Flagged /\ skipped = None
                                                  => val = scan_sIndex[p] \/ p \in scan_raced')
  BY DEF Scans!Race
<1>6. scan_reasons' # {} <=> scan_reasons # {} \/ skipped \in {"too_large", "budget"}
  BY DEF Scans!Reason
<1> HIDE DEF p
<1>7. ScanTyped' /\ NothingYet' /\ UnchangedIsHead'
  BY <1>1, <1>3, <1>4 DEF ScanInv, ScanTyped, NothingYet, UnchangedIsHead
<1>8. ReadOrRaced'
  <2>1. SUFFICES ASSUME NEW q \in DOMAIN scan_files',
                        scan_sIndex'[q] # Absent /\ q \notin scan_changes' /\ q \notin Flagged /\ scan_files'[q].skipped = None
                 PROVE  scan_files'[q].val = scan_sIndex'[q] \/ q \in scan_raced'
    BY DEF ReadOrRaced
  <2>2. CASE q = p
    BY <1>2, <1>3, <1>5, <2>1, <2>2
  <2>3. CASE q # p
    BY <1>2, <1>3, <1>5, <2>1, <2>3 DEF ScanInv, ReadOrRaced
  <2> QED BY <2>2, <2>3
<1>9. AllAccounted'
  <2>1. ScansListed' = DOMAIN scan_files' \cup scan_omitted' \cup scan_left' /\ scan_left' \cap DOMAIN scan_files' = {}
    BY <1>1, <1>2, <1>3 DEF ScanInv, AllAccounted, ScansListed, Scans!TrackedPaths
  <2>2. Bitten' # {} <=> Bitten # {} \/ skipped \in {"too_large", "budget"}
    <3>1. p \notin DOMAIN scan_files
      BY <1>1 DEF ScanInv, AllAccounted
    <3>2. Bitten' = Bitten \cup (IF skipped \in {"too_large", "budget"} THEN {p} ELSE {})
      BY <1>2, <3>1 DEF Bitten
    <3> QED BY <3>2
  <2>3. scan_reasons # {} <=> Bitten # {}
    BY DEF ScanInv, AllAccounted
  <2> QED BY <1>3, <1>6, <2>1, <2>2, <2>3 DEF AllAccounted
<1>10. ReadLater' /\ Scans!DescriptorsClosed'
  BY <1>3 DEF ScanInv, ReadLater, Scans!DescriptorsClosed
<1> QED BY <1>4, <1>7, <1>8, <1>9, <1>10 DEF ScanInv

\* Edits of the checkout touch nothing the scan holds.
LEMMA EditsKeep ==
  ASSUME Scans!ScannerAssumption, ScanInv,
         \/ \E p \in ScanPaths, c \in ScanContents \cup {Absent} : Scans!Edit(p, c) \/ Scans!Replace(p, c)
         \/ Scans!Commit \/ Scans!SwapRoot
  PROVE  ScanInv'
<1>1. scan_tree' \in [ScanPaths -> ScanContents \cup {Absent}] /\ scan_ino' \in [ScanPaths -> Nat]
  BY DEF Scans!Edit, Scans!Replace, Scans!Commit, Scans!SwapRoot, ScanInv, ScanTyped
<1>2. UNCHANGED <<scan_failures, scan_pc, scan_fds, scan_pinned, Scans!taken, scan_left, scan_cur, Scans!seen, scan_later>>
  BY DEF Scans!Edit, Scans!Replace, Scans!Commit, Scans!SwapRoot, Scans!Others
<1> USE <1>2 DEF Scans!taken, Scans!seen
<1>3. ScanTyped'
  BY <1>1 DEF ScanInv, ScanTyped
<1>4. NothingYet' /\ UnchangedIsHead' /\ ReadOrRaced'
  BY DEF ScanInv, NothingYet, UnchangedIsHead, ReadOrRaced
<1>5. AllAccounted' /\ ReadLater' /\ Scans!BudgetHard' /\ Scans!DescriptorsClosed'
  BY DEF ScanInv, AllAccounted, ScansListed, Scans!TrackedPaths, Bitten, ReadLater, Scans!BudgetHard, Scans!DescriptorsClosed
<1> QED BY <1>3, <1>4, <1>5 DEF ScanInv

\* Bootstrap and the git commands.
LEMMA CommandsKeep ==
  ASSUME Scans!ScannerAssumption, ScanInv, Scans!Bootstrap \/ Scans!ReadHead \/ Scans!CopyIndex \/ Scans!Status \/ Scans!GitFails
  PROVE  ScanInv'
<1> USE DEF Scans!worktree, Scans!taken, Scans!seen, Scans!Failed
<1>1. ScanTyped'
  BY DEF ScanInv, ScanTyped, Scans!Bootstrap, Scans!ReadHead, Scans!CopyIndex, Scans!Status, Scans!GitFails, Scans!TrackedPaths
<1>2. NothingYet' /\ UnchangedIsHead'
  BY DEF ScanInv, NothingYet, UnchangedIsHead, Scans!Bootstrap, Scans!ReadHead, Scans!CopyIndex, Scans!Status, Scans!GitFails
<1>3. ReadOrRaced'
  BY DEF ScanInv, NothingYet, ReadOrRaced, Scans!Bootstrap, Scans!ReadHead, Scans!CopyIndex, Scans!Status, Scans!GitFails
<1>4. AllAccounted'
  <2>1. CASE Scans!Status
    <3>1. DOMAIN scan_files' = {} /\ scan_omitted' = {} /\ scan_reasons' = {} /\ scan_pc' = "observe"
      BY <2>1 DEF Scans!Status, ScanInv, NothingYet
    <3>2. scan_left' = ScansListed'
      BY <2>1 DEF Scans!Status, ScansListed, Scans!TrackedPaths
    <3>3. Bitten' = {}
      BY <3>1 DEF Bitten
    <3> QED BY <3>1, <3>2, <3>3 DEF AllAccounted
  <2>2. CASE Scans!Bootstrap \/ Scans!ReadHead \/ Scans!CopyIndex \/ Scans!GitFails
    BY <2>2 DEF AllAccounted, Scans!Bootstrap, Scans!ReadHead, Scans!CopyIndex, Scans!GitFails
  <2> QED BY <2>1, <2>2
<1>5. ReadLater' /\ Scans!BudgetHard' /\ Scans!DescriptorsClosed'
  BY DEF ScanInv, ReadLater, Scans!BudgetHard, Scans!DescriptorsClosed, Scans!Bootstrap, Scans!ReadHead, Scans!CopyIndex, Scans!Status, Scans!GitFails
<1> QED BY <1>1, <1>2, <1>3, <1>4, <1>5 DEF ScanInv

LEMMA OmitKeeps == ASSUME Scans!ScannerAssumption, ScanInv, Scans!Omit PROVE ScanInv'
<1> USE DEF Scans!Omit, Scans!worktree, Scans!taken
<1> DEFINE p == Scans!P
<1>1. p \in scan_left /\ scan_left' = scan_left \ {p} /\ scan_omitted' = scan_omitted \cup {p}
  BY NextPath
<1> HIDE DEF p
<1>2. ScanTyped'
  BY <1>1 DEF ScanInv, ScanTyped
<1>3. NothingYet' /\ UnchangedIsHead' /\ ReadOrRaced'
  BY DEF ScanInv, NothingYet, UnchangedIsHead, ReadOrRaced
<1>4. AllAccounted'
  BY <1>1 DEF ScanInv, AllAccounted, ScansListed, Scans!TrackedPaths, Bitten
<1>5. ReadLater' /\ Scans!BudgetHard' /\ Scans!DescriptorsClosed'
  BY DEF ScanInv, ReadLater, Scans!BudgetHard, Scans!DescriptorsClosed
<1> QED BY <1>2, <1>3, <1>4, <1>5 DEF ScanInv

\* Only the record of the path under observation changes.
LEMMA LookKeeps ==
  ASSUME ScanInv, UNCHANGED <<Scans!worktree, scan_failures, scan_pc, scan_fds, scan_pinned, Scans!taken, scan_left, scan_bytesRead,
                              scan_files, scan_raced, scan_reasons, scan_omitted, scan_later>>,
         scan_pc = "observe", scan_left # {}, scan_cur'.open \in BOOLEAN, scan_cur'.open => scan_cur'.val \in ScanContents,
         scan_cur' = [path |-> scan_cur'.path, ino |-> scan_cur'.ino, size |-> scan_cur'.size,
                      val |-> scan_cur'.val, open |-> scan_cur'.open]
  PROVE  ScanInv'
<1> USE DEF Scans!worktree, Scans!taken
<1>1. ScanTyped'
  BY DEF ScanInv, ScanTyped
<1>2. NothingYet' /\ UnchangedIsHead' /\ ReadOrRaced'
  BY DEF ScanInv, NothingYet, UnchangedIsHead, ReadOrRaced
<1>3. AllAccounted' /\ ReadLater' /\ Scans!BudgetHard' /\ Scans!DescriptorsClosed'
  BY DEF ScanInv, AllAccounted, ScansListed, Scans!TrackedPaths, Bitten, ReadLater, Scans!BudgetHard, Scans!DescriptorsClosed
<1> QED BY <1>1, <1>2, <1>3 DEF ScanInv

LEMMA CapFacts ==
  ASSUME Scans!ScannerAssumption, ScanInv
  PROVE  /\ Scans!Budget \in Nat /\ Scans!Cap \in Nat /\ Scans!Cap <= Scans!Budget
         /\ \A n \in Nat : Scans!Charge(n) \in Nat /\ Scans!Charge(n) <= Scans!Budget
<1>1. MaxTotalBytes \in Nat /\ MaxFileBytes \in Nat /\ scan_bytesRead \in Nat /\ scan_bytesRead <= MaxTotalBytes
  BY DEF Scans!ScannerAssumption, ScanInv, ScanTyped, Scans!BudgetHard
<1> QED BY <1>1 DEF Scans!Budget, Scans!Cap, Scans!Charge

LEMMA StatKeeps == ASSUME Scans!ScannerAssumption, ScanInv, Scans!Stat PROVE ScanInv'
<1>1. scan_pc = "observe" /\ scan_left # {} /\ 0 \in Nat /\ 0 <= Scans!Budget
  BY CapFacts DEF Scans!Stat
<1>2. CASE \E skipped : Scans!Observed(Scans!P, skipped, None, 0)
  BY <1>1, <1>2, ObservedKeeps
<1>3. CASE /\ scan_cur' = [path |-> Scans!P, ino |-> scan_ino[Scans!P], size |-> 0, val |-> None, open |-> FALSE]
           /\ UNCHANGED <<Scans!worktree, scan_failures, scan_pc, scan_fds, scan_pinned, Scans!taken, scan_left, scan_bytesRead,
                          scan_files, scan_raced, scan_reasons, scan_omitted, scan_later>>
  BY <1>1, <1>3, LookKeeps
<1> QED BY <1>2, <1>3 DEF Scans!Stat

LEMMA OpenKeeps == ASSUME Scans!ScannerAssumption, ScanInv, Scans!Open PROVE ScanInv'
<1>1. scan_pc = "observe" /\ scan_left # {} /\ 0 \in Nat /\ 0 <= Scans!Budget
  BY CapFacts DEF Scans!Open, ScanInv, ScanTyped
<1>2. CASE \E skipped : Scans!Observed(Scans!P, skipped, None, 0)
  BY <1>1, <1>2, ObservedKeeps
<1>3. CASE /\ scan_tree[Scans!P] # Absent
           /\ scan_cur' = [scan_cur EXCEPT !.open = TRUE, !.size = SizeOf[scan_tree[Scans!P]], !.val = scan_tree[Scans!P]]
           /\ UNCHANGED <<Scans!worktree, scan_failures, scan_pc, scan_fds, scan_pinned, Scans!taken, scan_left, Scans!seen, scan_later>>
  <2>1. scan_tree[Scans!P] \in ScanContents
    BY <1>1, <1>3, NextPath DEF ScanInv, ScanTyped
  <2>2. scan_cur = [path |-> scan_cur.path, ino |-> scan_cur.ino, size |-> scan_cur.size, val |-> scan_cur.val, open |-> scan_cur.open]
    BY DEF Scans!Open, ScanInv, ScanTyped
  <2>3. scan_cur' = [path |-> scan_cur.path, ino |-> scan_cur.ino, size |-> SizeOf[scan_tree[Scans!P]], val |-> scan_tree[Scans!P], open |-> TRUE]
    BY <1>3, <2>2
  <2>4. UNCHANGED <<scan_bytesRead, scan_files, scan_raced, scan_reasons, scan_omitted>>
    BY <1>3 DEF Scans!seen
  <2> QED BY <1>1, <1>3, <2>1, <2>3, <2>4, LookKeeps
<1> QED BY <1>2, <1>3 DEF Scans!Open

LEMMA ReadKeeps == ASSUME Scans!ScannerAssumption, ScanInv, Scans!Read PROVE ScanInv'
<1> DEFINE there == scan_tree[Scans!P] # Absent /\ scan_ino[Scans!P] = scan_cur.ino
           now == IF there THEN scan_tree[Scans!P] ELSE scan_cur.val
           size == SizeOf[now]
<1>1. scan_pc = "observe" /\ scan_left # {} /\ scan_cur.val \in ScanContents
  BY DEF Scans!Read, ScanInv, ScanTyped
<1>2. now \in ScanContents /\ size \in Nat
  BY <1>1, NextPath DEF ScanInv, ScanTyped, Scans!ScannerAssumption
<1> HIDE DEF now
<1>3. PICK skipped, val, consumed :
        /\ Scans!Observed(Scans!P, skipped, val, consumed)
        /\ consumed = Scans!Charge(Scans!Cap + 1) \/ (consumed = size /\ ~(size > Scans!Cap))
  <2>1. \/ Scans!Observed(Scans!P, Scans!OverCap(Scans!Cap + 1), None, Scans!Charge(Scans!Cap + 1))
        \/ ~(size > Scans!Cap) /\ Scans!Observed(Scans!P, None, IF size = scan_cur.size THEN now ELSE Torn, size)
        \/ ~(size > Scans!Cap) /\ Scans!Observed(Scans!P, None, Torn, size)
    BY DEF Scans!Read, now
  <2> QED BY <2>1
<1>4. consumed \in Nat /\ consumed <= Scans!Budget
  BY <1>2, <1>3, CapFacts
<1> QED BY <1>1, <1>3, <1>4, ObservedKeeps

LEMMA EndKeeps ==
  ASSUME Scans!ScannerAssumption, ScanInv, Scans!Recheck \/ \E p \in ScanPaths : Scans!LaterRead(p)
  PROVE  ScanInv'
<1> USE DEF Scans!worktree, Scans!taken, Scans!seen, Scans!Failed
<1>1. CASE Scans!Recheck
  <2>1. ScanTyped'
    BY <1>1 DEF ScanInv, ScanTyped, Scans!Recheck
  <2>2. NothingYet' /\ UnchangedIsHead' /\ ReadOrRaced'
    BY <1>1 DEF ScanInv, NothingYet, UnchangedIsHead, ReadOrRaced, Scans!Recheck
  <2>3. AllAccounted'
    <3>1. /\ ScansListed' = ScansListed /\ Bitten' = Bitten
          /\ UNCHANGED <<scan_files, scan_omitted, scan_left>> /\ scan_left = {}
          /\ scan_reasons' # {} <=> scan_reasons # {} \/ scan_omitted # {}
      BY <1>1 DEF Scans!Recheck, ScansListed, Scans!TrackedPaths, Bitten
    <3>2. ScansListed = DOMAIN scan_files \cup scan_omitted \cup scan_left /\ (scan_reasons # {} <=> Bitten # {})
      BY <1>1 DEF Scans!Recheck, ScanInv, AllAccounted
    <3>3. scan_pc' \in {"done", "failed"}
      BY <1>1 DEF Scans!Recheck
    <3> QED BY <3>1, <3>2, <3>3 DEF AllAccounted
  <2>4. ReadLater' /\ Scans!BudgetHard' /\ Scans!DescriptorsClosed'
    BY <1>1 DEF ScanInv, ReadLater, Scans!BudgetHard, Scans!DescriptorsClosed, Scans!Recheck
  <2> QED BY <2>1, <2>2, <2>3, <2>4 DEF ScanInv
<1>2. CASE \E p \in ScanPaths : Scans!LaterRead(p)
  <2>1. ScanTyped' /\ NothingYet' /\ UnchangedIsHead' /\ ReadOrRaced'
    BY <1>2 DEF ScanInv, ScanTyped, NothingYet, UnchangedIsHead, ReadOrRaced, Scans!LaterRead
  <2>2. AllAccounted' /\ Scans!BudgetHard' /\ Scans!DescriptorsClosed'
    BY <1>2 DEF ScanInv, AllAccounted, ScansListed, Scans!TrackedPaths, Bitten, Scans!BudgetHard, Scans!DescriptorsClosed, Scans!LaterRead
  <2>3. ReadLater'
    BY <1>2 DEF Scans!LaterRead, ReadLater
  <2> QED BY <2>1, <2>2, <2>3 DEF ScanInv
<1> QED BY <1>1, <1>2

LEMMA ScanStutters == ASSUME ScanInv, UNCHANGED Scans!vars PROVE ScanInv'
<1> USE DEF Scans!vars, Scans!worktree, Scans!taken, Scans!seen
<1>1. ScanTyped' /\ NothingYet' /\ UnchangedIsHead' /\ ReadOrRaced'
  BY DEF ScanInv, ScanTyped, NothingYet, UnchangedIsHead, ReadOrRaced
<1>2. AllAccounted' /\ ReadLater' /\ Scans!BudgetHard' /\ Scans!DescriptorsClosed'
  BY DEF ScanInv, AllAccounted, ScansListed, Scans!TrackedPaths, Bitten, ReadLater, Scans!BudgetHard, Scans!DescriptorsClosed
<1> QED BY <1>1, <1>2 DEF ScanInv

LEMMA ScanIsSafe == ASSUME Scans!ScannerAssumption PROVE Scans!Spec => []ScanInv
<1>1. Scans!Init => ScanInv
  BY ScanStarts
<1>2. ScanInv /\ [Scans!Next]_(Scans!vars) => ScanInv'
  <2>1. SUFFICES ASSUME ScanInv, [Scans!Next]_(Scans!vars) PROVE ScanInv'
    OBVIOUS
  <2>2. CASE Scans!Scan
    BY <2>1, <2>2, CommandsKeep, OmitKeeps, StatKeeps, OpenKeeps, ReadKeeps, EndKeeps DEF Scans!Scan
  <2>3. CASE \/ \E p \in ScanPaths, c \in ScanContents \cup {Absent} : Scans!Edit(p, c) \/ Scans!Replace(p, c)
             \/ Scans!Commit \/ Scans!SwapRoot
    BY <2>1, <2>3, EditsKeep
  <2> QED BY <2>1, <2>2, <2>3, ScanStutters DEF Scans!Next
<1> QED BY <1>1, <1>2, PTL DEF Scans!Spec

\* A scan records the worktree it pinned.
\* - A scan that calls the worktree clean saw the bytes of HEAD.
\* - What a cap left out is reported.
\* - The total byte budget of a scan is never exceeded.
\* - Every descriptor a scan opened is closed on every path.
\* - A read after the scan sees the root the scan pinned.
ScanFaithful == part = "scanner" => Scans!ScanFaithful

\* A scan that says clean has read the bytes of its commit, and whatever it
\* left out it says so: caps, descriptors and later reads included, for any
\* checkout, edits and limits (_scan, _observe).
THEOREM ScansAreFaithful == ASSUME Scans!ScannerAssumption PROVE Scans!Spec => []ScanFaithful
<1>1. ASSUME ScanInv PROVE ScanFaithful
  <2>1. Scans!CleanIsHead
    <3>1. SUFFICES ASSUME scan_pc = "done", ~Scans!Dirty, NEW p \in DOMAIN scan_files,
                          scan_files[p].skipped = None, p \notin Flagged
                   PROVE  scan_files[p].val = scan_sHead[p]
      BY DEF Scans!CleanIsHead
    <3>2. scan_changes = {} /\ scan_raced = {} /\ scan_untracked = {}
      BY <3>1 DEF Scans!Dirty
    <3>3. p \in ScanPaths /\ scan_sIndex[p] # Absent
      BY <1>1, <3>1, <3>2 DEF ScanInv, AllAccounted, ScansListed, Scans!TrackedPaths
    <3>4. scan_files[p].val = scan_sIndex[p]
      BY <1>1, <3>1, <3>2, <3>3 DEF ScanInv, ReadOrRaced
    <3> QED BY <1>1, <3>1, <3>2, <3>3, <3>4 DEF ScanInv, UnchangedIsHead
  <2>2. Scans!CapsReported
    BY <1>1 DEF ScanInv, AllAccounted, Scans!CapsReported, Bitten, ScansListed
  <2>3. Scans!BudgetHard /\ Scans!DescriptorsClosed /\ Scans!LaterReadSameRoot
    BY <1>1 DEF ScanInv, ReadLater, Scans!LaterReadSameRoot
  <2> QED BY <2>1, <2>2, <2>3 DEF Scans!ScanFaithful, ScanFaithful
<1> QED BY <1>1, ScanIsSafe, PTL

-----------------------------------------------------------------------------
\* The verification of the stored ledger (LedgerVerify).
Verify == INSTANCE LedgerVerify WITH
  rows <- verify_rows, heads <- verify_heads, edits <- verify_edits, run <- verify_run,
  Requests <- Selections,
  Streams <- VerifyStreams, MaxEdits <- VerifyEdits

\* Finite sets are the same in the instance.
LEMMA VerifySets == \A S : (Verify!IsFiniteSet(S) <=> IsFiniteSet(S)) /\ Verify!Cardinality(S) = Cardinality(S)
<1>1. \A S : Verify!IsFiniteSet(S) <=> IsFiniteSet(S)
  BY DEF Verify!IsFiniteSet, IsFiniteSet
<1>2. \A S : Verify!Cardinality(S) = Cardinality(S)
  BY DEF Verify!Cardinality, Cardinality
<1> QED BY <1>1, <1>2

USE VerifySets

\* A nonempty set of numbers has a least one, a finite one also a greatest.
LEMMA LeastIn ==
  ASSUME NEW T, T \subseteq Nat, T # {}
  PROVE  \E m \in T : \A n \in T : m <= n
<1>1. PICK m \in T : \A n \in T : ~(<<n, m>> \in OpToRel(<, Nat))
  BY NatLessThanWellFounded, WFMin
<1>2. ASSUME NEW n \in T PROVE m <= n
  <2>1. m \in Nat /\ n \in Nat /\ ~(n < m)
    BY <1>1 DEF OpToRel
  <2> QED BY <2>1
<1> QED BY <1>2

LEMMA MinIn ==
  ASSUME NEW T, T \subseteq Nat, T # {}
  PROVE  Verify!Min(T) \in T /\ \A n \in T : Verify!Min(T) <= n
  BY LeastIn DEF Verify!Min

LEMMA MaxIn ==
  ASSUME NEW T, T \subseteq Nat, T # {}, IsFiniteSet(T)
  PROVE  Verify!Max(T) \in T /\ \A n \in T : n <= Verify!Max(T)
<1> DEFINE above(x) == {y \in T : y > x}
           sizes == {Cardinality(above(x)) : x \in T}
<1>1. \A x \in T : IsFiniteSet(above(x)) /\ Cardinality(above(x)) \in Nat
  BY FS_Subset, FS_CardinalityType
<1>2. PICK k \in sizes : \A n \in sizes : k <= n
  <2>1. sizes \subseteq Nat /\ sizes # {}
    BY <1>1
  <2> HIDE DEF sizes
  <2> QED BY <2>1, LeastIn
<1>3. PICK m \in T : k = Cardinality(above(m))
  BY <1>2
<1>4. ASSUME NEW n \in T PROVE n <= m
  <2>1. SUFFICES ASSUME n > m PROVE FALSE
    OBVIOUS
  <2>2. above(n) \subseteq above(m) /\ n \in above(m) /\ n \notin above(n)
    <3>1. n \in Nat /\ m \in Nat /\ \A y \in T : y \in Nat
      OBVIOUS
    <3>2. ~(n > n) /\ \A y \in T : y > n => y > m
      BY ONLY <2>1, <3>1
    <3> QED BY <2>1, <3>2
  <2>3. Cardinality(above(n)) < Cardinality(above(m))
    <3> HIDE DEF above
    <3>1. above(n) # above(m)
      BY <2>2
    <3> QED BY <1>1, <2>2, <3>1, FS_Subset
  <2>4. k <= Cardinality(above(n))
    BY <1>2
  <2> QED BY <1>1, <1>3, <2>3, <2>4
<1>5. \E x \in T : \A y \in T : x >= y
  BY <1>4
<1> QED BY <1>5 DEF Verify!Max

-----------------------------------------------------------------------------
\* The first n of a set of numbers are an initial segment of it.
LEMMA FirstFacts ==
  ASSUME NEW T, T \subseteq Nat, IsFiniteSet(T), NEW n \in Nat \ {0}
  PROVE  /\ Verify!First(T, n) \subseteq T /\ IsFiniteSet(Verify!First(T, n)) /\ (T # {} => Verify!First(T, n) # {})
         /\ \A x \in Verify!First(T, n), y \in T : y < x => y \in Verify!First(T, n)
<1> DEFINE below(x) == {y \in T : y < x}
<1>1. \A x \in T : IsFiniteSet(below(x)) /\ Cardinality(below(x)) \in Nat
  BY FS_Subset, FS_CardinalityType
<1>2. Verify!First(T, n) \subseteq T /\ IsFiniteSet(Verify!First(T, n))
  BY FS_Subset DEF Verify!First
<1>3. ASSUME T # {} PROVE Verify!First(T, n) # {}
  <2>1. PICK m \in T : \A y \in T : m <= y
    BY <1>3, LeastIn
  <2>2. below(m) = {}
    <3>1. m \in Nat /\ \A y \in T : y \in Nat
      OBVIOUS
    <3>2. \A y \in T : ~(y < m)
      BY ONLY <2>1, <3>1
    <3> QED BY <3>2
  <2>3. Cardinality(below(m)) = 0
    BY <2>2, FS_EmptySet
  <2> QED BY <2>3 DEF Verify!First
<1>4. ASSUME NEW x \in Verify!First(T, n), NEW y \in T, y < x PROVE y \in Verify!First(T, n)
  <2>1. x \in T /\ Cardinality(below(x)) < n
    BY DEF Verify!First
  <2>2. below(y) \subseteq below(x)
    <3>1. y \in Nat /\ x \in Nat /\ \A z \in T : z \in Nat
      BY <2>1
    <3>2. \A z \in T : z < y => z < x
      BY ONLY <1>4, <3>1
    <3> QED BY <3>2
  <2>3. Cardinality(below(y)) <= Cardinality(below(x))
    <3> HIDE DEF below
    <3> QED BY <1>1, <2>1, <2>2, FS_Subset
  <2>4. Cardinality(below(y)) < n
    <3> HIDE DEF below
    <3> QED BY <1>1, <2>1, <2>3
  <2> QED BY <2>4 DEF Verify!First
<1> QED BY <1>2, <1>3, <1>4

\* Whatever is not among the first n has n of them before it.
LEMMA FirstMany ==
  ASSUME NEW T, T \subseteq Nat, IsFiniteSet(T), NEW n \in Nat \ {0},
         NEW x \in T, x \notin Verify!First(T, n)
  PROVE  /\ IsFiniteSet({y \in Verify!First(T, n) : y < x})
         /\ Cardinality({y \in Verify!First(T, n) : y < x}) >= n
<1> DEFINE below(z) == {y \in T : y < z}
           kept == {y \in Verify!First(T, n) : y < x}
           rest == below(x) \ Verify!First(T, n)
<1>1. \A z \in T : IsFiniteSet(below(z)) /\ Cardinality(below(z)) \in Nat
  BY FS_Subset, FS_CardinalityType
<1>2. kept \subseteq below(x)
  BY DEF Verify!First
<1>3. IsFiniteSet(kept) /\ Cardinality(kept) \in Nat
  <2> HIDE DEF below, kept
  <2> QED BY <1>1, <1>2, FS_Subset, FS_CardinalityType
<1>4. PICK z \in T : below(z) \subseteq kept /\ Cardinality(below(z)) >= n
  <2>1. CASE rest = {}
    <3>1. below(x) \subseteq kept
      BY <2>1
    <3>2. Cardinality(below(x)) >= n
      <4>1. ~(Cardinality(below(x)) < n)
        BY DEF Verify!First
      <4> HIDE DEF below
      <4> QED BY <1>1, <4>1
    <3> QED BY <3>1, <3>2
  <2>2. CASE rest # {}
    <3>1. PICK z \in rest : \A y \in rest : z <= y
      BY <2>2, LeastIn
    <3>2. below(z) \subseteq kept
      <4>1. \A y \in T : y \in Nat
        OBVIOUS
      <4>2. \A y \in below(z) : y \in below(x) /\ y \notin rest
        BY <3>1, <4>1
      <4> QED BY <4>2
    <3>3. Cardinality(below(z)) >= n
      <4>1. z \in T /\ ~(Cardinality(below(z)) < n)
        BY <3>1 DEF Verify!First
      <4> HIDE DEF below
      <4> QED BY <1>1, <4>1
    <3> QED BY <3>1, <3>2, <3>3
  <2> QED BY <2>1, <2>2
<1>5. Cardinality(below(z)) <= Cardinality(kept)
  <2> HIDE DEF below, kept
  <2> QED BY <1>3, <1>4, FS_Subset
<1>6. Cardinality(kept) >= n
  <2> HIDE DEF below, kept
  <2> QED BY <1>1, <1>3, <1>4, <1>5
<1> QED BY <1>3, <1>6

\* A page of the union of two first pages leaves out nothing before its end.
LEMMA PageWhole ==
  ASSUME NEW H, H \subseteq Nat, IsFiniteSet(H), NEW E, E \subseteq Nat, IsFiniteSet(E),
         NEW n \in Nat \ {0},
         NEW m \in Verify!First(Verify!First(H, n) \cup Verify!First(E, n), n), NEW s \in H \cup E, s <= m
  PROVE  s \in Verify!First(Verify!First(H, n) \cup Verify!First(E, n), n)
<1> DEFINE U == Verify!First(H, n) \cup Verify!First(E, n)
<1>1. U \subseteq Nat /\ IsFiniteSet(U)
  BY FirstFacts, FS_Union
<1>2. m \in U /\ m \in Nat /\ s \in Nat /\ Cardinality({y \in U : y < m}) < n
  BY <1>1 DEF Verify!First
<1>3. IsFiniteSet({y \in U : y < m}) /\ Cardinality({y \in U : y < m}) \in Nat
  BY <1>1, FS_Subset, FS_CardinalityType
<1>4. ASSUME NEW T \in {H, E}, s \in T PROVE s \in Verify!First(T, n)
  <2>1. SUFFICES ASSUME s \notin Verify!First(T, n) PROVE FALSE
    OBVIOUS
  <2> DEFINE kept == {y \in Verify!First(T, n) : y < s}
  <2>2. IsFiniteSet(kept) /\ Cardinality(kept) >= n
    BY <1>4, <2>1, FirstMany
  <2>3. kept \subseteq {y \in U : y < m}
    BY <1>1, <1>2
  <2> HIDE DEF kept, U
  <2>4. Cardinality(kept) <= Cardinality({y \in U : y < m}) /\ Cardinality(kept) \in Nat
    BY <1>3, <2>2, <2>3, FS_Subset, FS_CardinalityType
  <2> QED BY <1>2, <1>3, <2>2, <2>4
<1>5. s \in U
  BY <1>4
<1> HIDE DEF U
<1>6. s = m \/ s < m
  BY <1>2
<1>7. m \in Verify!First(U, n)
  BY DEF U
<1>8. s \in Verify!First(U, n)
  BY <1>1, <1>5, <1>6, <1>7, FirstFacts
<1> QED BY <1>8 DEF U

-----------------------------------------------------------------------------
\* A ledger's rows and heads, edited or not.
RowWhole(r) ==
  /\ r.canonical \in BOOLEAN
  /\ r = [payload |-> r.payload, producer |-> r.producer, canonical |-> r.canonical,
          payloadSha |-> r.payloadSha, prev |-> r.prev, sha |-> r.sha]

LedgerTyped(rws, hds) ==
  /\ rws = [s \in VerifyStreams |-> rws[s]]
  /\ \A s \in VerifyStreams :
       /\ IsFiniteSet(DOMAIN rws[s]) /\ DOMAIN rws[s] \subseteq Nat \ {0}
       /\ rws[s] = [q \in DOMAIN rws[s] |-> rws[s][q]]
       /\ \A q \in DOMAIN rws[s] : RowWhole(rws[s][q])
  /\ hds = [s \in DOMAIN hds |-> hds[s]] /\ DOMAIN hds \subseteq VerifyStreams
  /\ \A s \in DOMAIN hds : hds[s].seq \in Nat /\ hds[s] = [seq |-> hds[s].seq, sha |-> hds[s].sha]

\* A ledger nobody edited: rows from 1 on, linked, and named by the head.
LedgerSealed(rws, hds) ==
  \A s \in VerifyStreams :
    /\ s \notin DOMAIN hds => DOMAIN rws[s] = {}
    /\ s \in DOMAIN hds => /\ hds[s].seq # 0 /\ DOMAIN rws[s] = 1 .. hds[s].seq
                           /\ hds[s].sha = rws[s][hds[s].seq].sha
    /\ \A q \in DOMAIN rws[s] :
         rws[s][q] = Verify!Seal(s, q, rws[s][q].payload, IF q = 1 THEN NoDigest ELSE rws[s][q - 1].sha)

LedgerInv ==
  LedgerTyped(verify_rows, verify_heads) /\ verify_edits \in Nat /\ (verify_edits = 0 => LedgerSealed(verify_rows, verify_heads))

LEMMA SealWhole ==
  ASSUME NEW s, NEW q, NEW payload, NEW prev
  PROVE  /\ RowWhole(Verify!Seal(s, q, payload, prev))
         /\ Verify!Seal(s, q, payload, prev).payload = payload
  BY DEF RowWhole, Verify!Seal

LEMMA PutFacts ==
  ASSUME NEW f, NEW k, NEW x
  PROVE  /\ Verify!Put(f, k, x) = [y \in DOMAIN f \cup {k} |-> Verify!Put(f, k, x)[y]]
         /\ DOMAIN Verify!Put(f, k, x) = DOMAIN f \cup {k} /\ Verify!Put(f, k, x)[k] = x
         /\ \A y \in DOMAIN f : y # k => Verify!Put(f, k, x)[y] = f[y]
  BY DEF Verify!Put

LEMMA LedgerStarts == ASSUME Verify!Init PROVE LedgerInv
<1>1. IsFiniteSet({})
  BY FS_EmptySet
<1>2. DOMAIN Verify!Empty = {} /\ Verify!Empty = [x \in DOMAIN Verify!Empty |-> Verify!Empty[x]]
  BY DEF Verify!Empty
<1>3. LedgerTyped(verify_rows, verify_heads)
  BY <1>1, <1>2 DEF Verify!Init, LedgerTyped
<1>4. LedgerSealed(verify_rows, verify_heads)
  BY <1>2 DEF Verify!Init, LedgerSealed
<1> QED BY <1>3, <1>4 DEF Verify!Init, LedgerInv

LEMMA AppendKeeps ==
  ASSUME Verify!VerifyAssumption, LedgerInv, NEW s \in VerifyStreams, NEW payload, Verify!Append(s, payload)
  PROVE  LedgerInv'
<1> DEFINE head == IF s \in DOMAIN verify_heads THEN verify_heads[s] ELSE Verify!NoHead
           n == head.seq
           row == Verify!Seal(s, n + 1, payload, head.sha)
<1>1. /\ verify_edits = 0 /\ verify_edits' = verify_edits
      /\ verify_rows' = [verify_rows EXCEPT ![s] = Verify!Put(@, n + 1, row)]
      /\ verify_heads' = Verify!Put(verify_heads, s, [seq |-> n + 1, sha |-> verify_rows'[s][n + 1].sha])
  BY DEF Verify!Append
<1>2. LedgerTyped(verify_rows, verify_heads) /\ LedgerSealed(verify_rows, verify_heads)
  BY <1>1 DEF LedgerInv
<1>3. /\ n \in Nat /\ DOMAIN verify_rows[s] = 1 .. n
      /\ head.sha = IF n = 0 THEN NoDigest ELSE verify_rows[s][n].sha
  <2>1. CASE s \in DOMAIN verify_heads
    BY <1>2, <2>1 DEF LedgerTyped, LedgerSealed
  <2>2. CASE s \notin DOMAIN verify_heads
    <3>1. head = [seq |-> 0, sha |-> NoDigest]
      BY <2>2 DEF Verify!NoHead
    <3>2. DOMAIN verify_rows[s] = {}
      BY <1>2, <2>2 DEF LedgerSealed
    <3> QED BY <3>1, <3>2
  <2> QED BY <2>1, <2>2
<1> HIDE DEF n, head, row
<1>4. /\ verify_rows' = [t \in VerifyStreams |-> verify_rows'[t]] /\ verify_rows'[s] = Verify!Put(verify_rows[s], n + 1, row)
      /\ \A t \in VerifyStreams : t # s => verify_rows'[t] = verify_rows[t]
  BY <1>1, <1>2 DEF LedgerTyped
<1>5. /\ DOMAIN verify_rows'[s] = 1 .. (n + 1) /\ verify_rows'[s][n + 1] = row
      /\ verify_rows'[s] = [q \in DOMAIN verify_rows'[s] |-> verify_rows'[s][q]]
      /\ \A q \in 1 .. n : verify_rows'[s][q] = verify_rows[s][q]
  <2>1. 1 .. (n + 1) = 1 .. n \cup {n + 1} /\ n + 1 \notin 1 .. n
    BY <1>3
  <2> DEFINE new == Verify!Put(verify_rows[s], n + 1, row)
  <2>2. /\ new = [y \in DOMAIN verify_rows[s] \cup {n + 1} |-> new[y]]
        /\ DOMAIN new = DOMAIN verify_rows[s] \cup {n + 1} /\ new[n + 1] = row
        /\ \A y \in DOMAIN verify_rows[s] : y # n + 1 => new[y] = verify_rows[s][y]
    BY DEF Verify!Put
  <2>3. verify_rows'[s] = new
    BY <1>4
  <2> HIDE DEF new
  <2>4. \A q \in 1 .. n : q # n + 1
    BY <1>3
  <2> QED BY <1>3, <2>1, <2>2, <2>3, <2>4
<1>6. /\ DOMAIN verify_heads' = DOMAIN verify_heads \cup {s} /\ verify_heads' = [t \in DOMAIN verify_heads' |-> verify_heads'[t]]
      /\ verify_heads'[s] = [seq |-> n + 1, sha |-> row.sha]
      /\ \A t \in DOMAIN verify_heads : t # s => verify_heads'[t] = verify_heads[t]
  <2> DEFINE x == [seq |-> n + 1, sha |-> verify_rows'[s][n + 1].sha]
             new == Verify!Put(verify_heads, s, x)
  <2>1. /\ new = [y \in DOMAIN verify_heads \cup {s} |-> new[y]]
        /\ DOMAIN new = DOMAIN verify_heads \cup {s} /\ new[s] = x
        /\ \A y \in DOMAIN verify_heads : y # s => new[y] = verify_heads[y]
    BY DEF Verify!Put
  <2>2. verify_heads' = new /\ x = [seq |-> n + 1, sha |-> row.sha]
    BY <1>1, <1>5
  <2> HIDE DEF new, x
  <2> QED BY <2>1, <2>2
<1>7. LedgerTyped(verify_rows', verify_heads')
  <2>1. ASSUME NEW t \in VerifyStreams
        PROVE  /\ IsFiniteSet(DOMAIN verify_rows'[t]) /\ DOMAIN verify_rows'[t] \subseteq Nat \ {0}
               /\ verify_rows'[t] = [q \in DOMAIN verify_rows'[t] |-> verify_rows'[t][q]]
               /\ \A q \in DOMAIN verify_rows'[t] : RowWhole(verify_rows'[t][q])
    <3>1. CASE t = s
      <4>1. IsFiniteSet(1 .. (n + 1)) /\ 1 .. (n + 1) \subseteq Nat \ {0}
        <5>1. 1 \in Int /\ n + 1 \in Int /\ 1 .. (n + 1) \subseteq Nat \ {0}
          BY <1>3
        <5>2. IsFiniteSet(1 .. (n + 1))
          BY <5>1, FS_Interval
        <5> QED BY <5>1, <5>2
      <4>2. RowWhole(row) /\ \A q \in 1 .. n : RowWhole(verify_rows[s][q])
        BY <1>2, <1>3, SealWhole DEF LedgerTyped, row
      <4>3. \A q \in 1 .. (n + 1) : q = n + 1 \/ q \in 1 .. n
        BY <1>3
      <4> QED BY <1>5, <3>1, <4>1, <4>2, <4>3
    <3>2. CASE t # s
      BY <1>2, <1>4, <3>2 DEF LedgerTyped
    <3> QED BY <3>1, <3>2
  <2>2. ASSUME NEW t \in DOMAIN verify_heads'
        PROVE  verify_heads'[t].seq \in Nat /\ verify_heads'[t] = [seq |-> verify_heads'[t].seq, sha |-> verify_heads'[t].sha]
    <3>1. CASE t = s
      BY <1>3, <1>6, <3>1
    <3>2. CASE t # s
      BY <1>2, <1>6, <3>2 DEF LedgerTyped
    <3> QED BY <3>1, <3>2
  <2>3. DOMAIN verify_heads' \subseteq VerifyStreams
    BY <1>2, <1>6 DEF LedgerTyped
  <2> QED BY <1>4, <1>6, <2>1, <2>2, <2>3 DEF LedgerTyped
<1>8. LedgerSealed(verify_rows', verify_heads')
  <2>1. SUFFICES ASSUME NEW t \in VerifyStreams
        PROVE /\ t \notin DOMAIN verify_heads' => DOMAIN verify_rows'[t] = {}
              /\ t \in DOMAIN verify_heads' => /\ verify_heads'[t].seq # 0 /\ DOMAIN verify_rows'[t] = 1 .. verify_heads'[t].seq
                                               /\ verify_heads'[t].sha = verify_rows'[t][verify_heads'[t].seq].sha
              /\ \A q \in DOMAIN verify_rows'[t] :
                   verify_rows'[t][q] = Verify!Seal(t, q, verify_rows'[t][q].payload,
                                                    IF q = 1 THEN NoDigest ELSE verify_rows'[t][q - 1].sha)
    BY DEF LedgerSealed
  <2>2. CASE t # s
    BY <1>2, <1>4, <1>6, <2>2 DEF LedgerSealed
  <2>3. CASE t = s
    <3>1. /\ verify_heads'[t].seq = n + 1 /\ n + 1 # 0 /\ verify_heads'[t].sha = row.sha
      BY <1>3, <1>6, <2>3
    <3>2. ASSUME NEW q \in 1 .. n
          PROVE verify_rows'[s][q] = Verify!Seal(s, q, verify_rows'[s][q].payload,
                                                 IF q = 1 THEN NoDigest ELSE verify_rows'[s][q - 1].sha)
      <4>1. verify_rows[s][q] = Verify!Seal(s, q, verify_rows[s][q].payload,
                                            IF q = 1 THEN NoDigest ELSE verify_rows[s][q - 1].sha)
        BY <1>2, <1>3 DEF LedgerSealed
      <4>2. q = 1 \/ q - 1 \in 1 .. n
        BY <1>3
      <4> QED BY <1>5, <4>1, <4>2
    <3>3. ASSUME NEW k, k = n + 1
          PROVE row = Verify!Seal(s, k, row.payload, IF k = 1 THEN NoDigest ELSE verify_rows'[s][k - 1].sha)
      <4>1. row.payload = payload
        BY SealWhole DEF row
      <4>2. k - 1 = n /\ (k = 1 <=> n = 0) /\ (n # 0 => n \in 1 .. n)
        BY <1>3, <3>3
      <4>3. head.sha = IF k = 1 THEN NoDigest ELSE verify_rows'[s][k - 1].sha
        BY <1>3, <1>5, <4>2
      <4> QED BY <3>3, <4>1, <4>3 DEF row
    <3>4. \A q \in 1 .. (n + 1) : q = n + 1 \/ q \in 1 .. n
      BY <1>3
    <3>5. \A q \in DOMAIN verify_rows'[s] :
            verify_rows'[s][q] = Verify!Seal(s, q, verify_rows'[s][q].payload,
                                             IF q = 1 THEN NoDigest ELSE verify_rows'[s][q - 1].sha)
      <4>1. SUFFICES ASSUME NEW q \in DOMAIN verify_rows'[s]
                     PROVE verify_rows'[s][q] = Verify!Seal(s, q, verify_rows'[s][q].payload,
                                                            IF q = 1 THEN NoDigest ELSE verify_rows'[s][q - 1].sha)
        OBVIOUS
      <4>2. CASE q = n + 1
        <5>1. verify_rows'[s][q] = row
          BY <1>5, <4>2
        <5> QED BY <3>3, <4>2, <5>1
      <4>3. CASE q \in 1 .. n
        BY <3>2, <4>3
      <4> QED BY <1>5, <3>4, <4>2, <4>3
    <3>6. verify_heads'[s].sha = verify_rows'[s][verify_heads'[s].seq].sha /\ s \in DOMAIN verify_heads'
      BY <1>5, <1>6, <2>3, <3>1
    <3> QED BY <1>5, <2>3, <3>1, <3>5, <3>6
  <2> QED BY <2>2, <2>3
<1> QED BY <1>1, <1>7, <1>8 DEF LedgerInv

LEMMA EditKeeps ==
  ASSUME LedgerInv, NEW s \in VerifyStreams, Verify!Edit(s)
  PROVE  LedgerInv'
<1>1. verify_edits' \in Nat /\ verify_edits' # 0 /\ LedgerTyped(verify_rows, verify_heads)
  BY DEF LedgerInv, Verify!Edit
<1>2. CASE \E q \in DOMAIN verify_rows[s] : \E r \in Verify!Edited(s, q) : verify_rows' = [verify_rows EXCEPT ![s][q] = r] /\ UNCHANGED verify_heads
  <2>0. PICK q \in DOMAIN verify_rows[s] :
          \E x \in Verify!Edited(s, q) : verify_rows' = [verify_rows EXCEPT ![s][q] = x] /\ UNCHANGED verify_heads
    BY <1>2
  <2>1. PICK r \in Verify!Edited(s, q) : verify_rows' = [verify_rows EXCEPT ![s][q] = r] /\ UNCHANGED verify_heads
    BY <2>0
  <2>2. RowWhole(r)
    <3>1. RowWhole(verify_rows[s][q])
      BY <1>1 DEF LedgerTyped
    <3>2. CASE \E x : r = Verify!Seal(s, q, x, verify_rows[s][q].prev)
      BY <3>2, SealWhole
    <3>3. CASE \/ \E x : r = [verify_rows[s][q] EXCEPT !.payload = x]
               \/ \E x : r = [verify_rows[s][q] EXCEPT !.payload = x, !.payloadSha = x]
               \/ r = [verify_rows[s][q] EXCEPT !.producer = "other"]
               \/ r = [verify_rows[s][q] EXCEPT !.canonical = FALSE]
               \/ r = [verify_rows[s][q] EXCEPT !.prev = NoDigest]
      <4>1. PICK a, b, c, d, e, f :
              /\ verify_rows[s][q] = [payload |-> a, producer |-> b, canonical |-> c, payloadSha |-> d,
                                      prev |-> e, sha |-> f]
              /\ c \in BOOLEAN
        BY <3>1 DEF RowWhole
      <4>2. CASE \E x : r = [verify_rows[s][q] EXCEPT !.payload = x]
        <5>0. PICK x : r = [verify_rows[s][q] EXCEPT !.payload = x]
          BY <4>2
        <5>1. r = [payload |-> x, producer |-> b, canonical |-> c, payloadSha |-> d,
                   prev |-> e, sha |-> f]
          BY <4>1, <5>0
        <5> QED BY <4>1, <5>1 DEF RowWhole
      <4>3. CASE \E x : r = [verify_rows[s][q] EXCEPT !.payload = x, !.payloadSha = x]
        <5>0. PICK x : r = [verify_rows[s][q] EXCEPT !.payload = x, !.payloadSha = x]
          BY <4>3
        <5>a. [verify_rows[s][q] EXCEPT !.payload = x] =
                       [payload |-> x, producer |-> b, canonical |-> c, payloadSha |-> d,
                        prev |-> e, sha |-> f]
          BY <4>1
        <5>b. r = [[verify_rows[s][q] EXCEPT !.payload = x] EXCEPT !.payloadSha = x]
          BY <5>0
        <5>1. r = [payload |-> x, producer |-> b, canonical |-> c, payloadSha |-> x,
                   prev |-> e, sha |-> f]
          BY <5>a, <5>b
        <5> QED BY <4>1, <5>1 DEF RowWhole
      <4>4. CASE r = [verify_rows[s][q] EXCEPT !.producer = "other"]
        <5>1. r = [payload |-> a, producer |-> "other", canonical |-> c, payloadSha |-> d,
                   prev |-> e, sha |-> f]
          BY <4>1, <4>4
        <5> QED BY <4>1, <5>1 DEF RowWhole
      <4>5. CASE r = [verify_rows[s][q] EXCEPT !.canonical = FALSE]
        <5>1. PICK no \in BOOLEAN : r = [verify_rows[s][q] EXCEPT !.canonical = no]
          BY <4>5
        <5>2. r = [payload |-> a, producer |-> b, canonical |-> no, payloadSha |-> d,
                   prev |-> e, sha |-> f]
          BY <4>1, <5>1
        <5> QED BY <5>2 DEF RowWhole
      <4>6. CASE r = [verify_rows[s][q] EXCEPT !.prev = NoDigest]
        <5>1. r = [payload |-> a, producer |-> b, canonical |-> c, payloadSha |-> d,
                   prev |-> NoDigest, sha |-> f]
          BY <4>1, <4>6
        <5> QED BY <4>1, <5>1 DEF RowWhole
      <4> QED BY <3>3, <4>2, <4>3, <4>4, <4>5, <4>6
    <3> QED BY <3>2, <3>3 DEF Verify!Edited
  <2>3. /\ verify_rows' = [t \in VerifyStreams |-> verify_rows'[t]] /\ \A t \in VerifyStreams : t # s => verify_rows'[t] = verify_rows[t]
        /\ verify_rows'[s] = [verify_rows[s] EXCEPT ![q] = r]
    BY <1>1, <2>1 DEF LedgerTyped
  <2>4. /\ DOMAIN verify_rows'[s] = DOMAIN verify_rows[s] /\ verify_rows'[s] = [p \in DOMAIN verify_rows[s] |-> verify_rows'[s][p]]
        /\ verify_rows'[s][q] = r /\ \A p \in DOMAIN verify_rows[s] : p # q => verify_rows'[s][p] = verify_rows[s][p]
    BY <1>1, <2>3 DEF LedgerTyped
  <2>5. LedgerTyped(verify_rows', verify_heads')
    BY <1>1, <2>1, <2>2, <2>3, <2>4 DEF LedgerTyped
  <2> QED BY <1>1, <2>5 DEF LedgerInv
<1>3. CASE \E q \in DOMAIN verify_rows[s] : verify_rows' = [verify_rows EXCEPT ![s] = Verify!Drop(@, q)] /\ UNCHANGED verify_heads
  <2>1. PICK q \in DOMAIN verify_rows[s] : verify_rows' = [verify_rows EXCEPT ![s] = Verify!Drop(@, q)] /\ UNCHANGED verify_heads
    BY <1>3
  <2>2. /\ verify_rows' = [t \in VerifyStreams |-> verify_rows'[t]] /\ \A t \in VerifyStreams : t # s => verify_rows'[t] = verify_rows[t]
        /\ verify_rows'[s] = Verify!Drop(verify_rows[s], q)
    BY <1>1, <2>1 DEF LedgerTyped
  <2>3. /\ DOMAIN verify_rows'[s] = DOMAIN verify_rows[s] \ {q} /\ verify_rows'[s] = [p \in DOMAIN verify_rows'[s] |-> verify_rows'[s][p]]
        /\ \A p \in DOMAIN verify_rows'[s] : verify_rows'[s][p] = verify_rows[s][p]
    BY <2>2 DEF Verify!Drop
  <2>4. IsFiniteSet(DOMAIN verify_rows'[s])
    BY <1>1, <2>3, FS_Subset DEF LedgerTyped
  <2>5. LedgerTyped(verify_rows', verify_heads')
    BY <1>1, <2>1, <2>2, <2>3, <2>4 DEF LedgerTyped
  <2> QED BY <1>1, <2>5 DEF LedgerInv
<1>4. CASE /\ s \in DOMAIN verify_heads /\ UNCHANGED verify_rows
           /\ \/ verify_heads' = Verify!Drop(verify_heads, s)
              \/ verify_heads' = [verify_heads EXCEPT ![s].seq = @ - 1] /\ verify_heads[s].seq > 0
              \/ \E q \in DOMAIN verify_rows[s] : verify_heads' = [verify_heads EXCEPT ![s].sha = verify_rows[s][q].sha]
  <2>1. CASE verify_heads' = Verify!Drop(verify_heads, s)
    <3>1. /\ DOMAIN verify_heads' = DOMAIN verify_heads \ {s} /\ verify_heads' = [t \in DOMAIN verify_heads' |-> verify_heads'[t]]
          /\ \A t \in DOMAIN verify_heads' : verify_heads'[t] = verify_heads[t]
      BY <2>1 DEF Verify!Drop
    <3>2. LedgerTyped(verify_rows', verify_heads')
      BY <1>1, <1>4, <3>1 DEF LedgerTyped
    <3> QED BY <1>1, <3>2 DEF LedgerInv
  <2>2. ASSUME DOMAIN verify_heads' = DOMAIN verify_heads, verify_heads' = [t \in DOMAIN verify_heads |-> verify_heads'[t]],
               \A t \in DOMAIN verify_heads : t # s => verify_heads'[t] = verify_heads[t],
               verify_heads'[s].seq \in Nat, verify_heads'[s] = [seq |-> verify_heads'[s].seq, sha |-> verify_heads'[s].sha]
        PROVE  LedgerInv'
    <3>1. \A t \in DOMAIN verify_heads' :
            verify_heads'[t].seq \in Nat /\ verify_heads'[t] = [seq |-> verify_heads'[t].seq, sha |-> verify_heads'[t].sha]
      <4>1. \A t \in DOMAIN verify_heads :
              verify_heads[t].seq \in Nat /\ verify_heads[t] = [seq |-> verify_heads[t].seq, sha |-> verify_heads[t].sha]
        BY <1>1 DEF LedgerTyped
      <4>2. \A t \in DOMAIN verify_heads : t = s \/ verify_heads'[t] = verify_heads[t]
        BY <2>2
      <4> QED BY <2>2, <4>1, <4>2
    <3>2. LedgerTyped(verify_rows', verify_heads')
      BY <1>1, <1>4, <2>2, <3>1 DEF LedgerTyped
    <3> QED BY <1>1, <3>2 DEF LedgerInv
  <2>3. /\ verify_heads[s].seq \in Nat /\ verify_heads[s] = [seq |-> verify_heads[s].seq, sha |-> verify_heads[s].sha]
        /\ verify_heads = [t \in DOMAIN verify_heads |-> verify_heads[t]]
    BY <1>1, <1>4 DEF LedgerTyped
  <2>4. CASE verify_heads' = [verify_heads EXCEPT ![s].seq = @ - 1] /\ verify_heads[s].seq > 0
    <3>1. /\ DOMAIN verify_heads' = DOMAIN verify_heads /\ verify_heads' = [t \in DOMAIN verify_heads |-> verify_heads'[t]]
          /\ \A t \in DOMAIN verify_heads : t # s => verify_heads'[t] = verify_heads[t]
          /\ verify_heads'[s] = [verify_heads[s] EXCEPT !.seq = @ - 1]
      BY <1>4, <2>3, <2>4
    <3>2. verify_heads'[s] = [seq |-> verify_heads[s].seq - 1, sha |-> verify_heads[s].sha]
      BY <2>3, <3>1
    <3>3. verify_heads[s].seq - 1 \in Nat
      BY <2>3, <2>4
    <3> QED BY <2>2, <3>1, <3>2, <3>3
  <2>5. CASE \E q \in DOMAIN verify_rows[s] : verify_heads' = [verify_heads EXCEPT ![s].sha = verify_rows[s][q].sha]
    <3>1. PICK x : verify_heads' = [verify_heads EXCEPT ![s].sha = x]
      BY <2>5
    <3>2. /\ DOMAIN verify_heads' = DOMAIN verify_heads /\ verify_heads' = [t \in DOMAIN verify_heads |-> verify_heads'[t]]
          /\ \A t \in DOMAIN verify_heads : t # s => verify_heads'[t] = verify_heads[t]
          /\ verify_heads'[s] = [verify_heads[s] EXCEPT !.sha = x]
      BY <1>4, <2>3, <3>1
    <3>3. verify_heads'[s] = [seq |-> verify_heads[s].seq, sha |-> x]
      BY <2>3, <3>2
    <3> QED BY <2>2, <2>3, <3>2, <3>3
  <2> QED BY <1>4, <2>1, <2>4, <2>5
<1> QED BY <1>2, <1>3, <1>4 DEF Verify!Edit
-----------------------------------------------------------------------------
\* The verification: its snapshot, its results, what its pages cover, its walk.
Fields == {"pc", "rows", "heads", "edited", "batch", "since", "requested", "after", "page",
           "walk", "results", "failure"}

InRange(s) == {q \in DOMAIN verify_run.rows[s] : q >= verify_run.since}
Exists(s) == DOMAIN verify_run.rows[s] # {} \/ s \in DOMAIN verify_run.heads

SealedAt(s, q) ==
  /\ q = 1 \/ q - 1 \in DOMAIN verify_run.rows[s]
  /\ verify_run.rows[s][q] = Verify!Seal(s, q, verify_run.rows[s][q].payload,
                                         IF q = 1 THEN NoDigest ELSE verify_run.rows[s][q - 1].sha)

SnapshotInv ==
  /\ verify_run = [f \in Fields |-> verify_run[f]]
  /\ LedgerTyped(verify_run.rows, verify_run.heads) /\ (~verify_run.edited => LedgerSealed(verify_run.rows, verify_run.heads))
  /\ verify_run.batch \in Nat \ {0} /\ verify_run.since \in Nat \ {0} /\ verify_run.requested \subseteq VerifyStreams

ResultIsSound(s) ==
  LET r == verify_run.results[s] IN
  /\ r.failure = "none" => s \in DOMAIN verify_run.heads /\ Verify!WellSealed(s) /\ r.events = InRange(s)
  /\ ~verify_run.edited => r.failure = "none" \/ (r.failure = "stream_exists" /\ s \in verify_run.requested)

Seen == DOMAIN verify_run.results \cup verify_run.page

CoverageInv ==
  /\ DOMAIN verify_run.results \subseteq VerifyStreams /\ verify_run.page \subseteq VerifyStreams /\ verify_run.after \in Nat
  /\ \A s \in DOMAIN verify_run.results : ResultIsSound(s)
  /\ verify_run.requested # {} => Seen = verify_run.requested
  /\ verify_run.requested = {} => /\ \A s \in VerifyStreams : Exists(s) /\ s <= verify_run.after => s \in Seen
                                  /\ \A s \in verify_run.page : Exists(s)
  /\ verify_run.pc \in {"count", "done"} =>
              verify_run.page = {} /\ (verify_run.requested = {} => \A s \in VerifyStreams : Exists(s) => s \in Seen)

WalkInv ==
  LET w == verify_run.walk
      s == w.stream
  IN /\ s \in verify_run.page /\ s \in DOMAIN verify_run.heads
     /\ w.events = {q \in InRange(s) : q <= w.last} /\ \A q \in w.events : SealedAt(s, q)
     /\ IF w.last = 0
        THEN /\ w.expected = verify_run.since
             /\ verify_run.since = 1 \/ verify_run.since - 1 \in DOMAIN verify_run.rows[s] \/ InRange(s) = {}
             /\ w.prev = IF verify_run.since > 1 /\ verify_run.since - 1 \in DOMAIN verify_run.rows[s]
                         THEN verify_run.rows[s][verify_run.since - 1].sha ELSE NoDigest
        ELSE /\ w.last \in InRange(s) /\ w.expected = w.last + 1
             /\ w.prev = verify_run.rows[s][w.last].sha

VerifyRunInv ==
        verify_run.pc # "off" =>
                 /\ verify_run.pc \in {"streams", "walk", "count", "done"}
                 /\ SnapshotInv /\ CoverageInv
                 /\ verify_run.pc = "walk" => WalkInv
                 /\ verify_run.pc # "done" => verify_run.failure = "none"
                 /\ verify_run.pc = "done" /\ ~verify_run.edited /\ (\A s \in DOMAIN verify_run.results : verify_run.results[s].failure = "none")
                             => verify_run.failure = "none"

VerifyInv == LedgerInv /\ VerifyRunInv

\* Rows are equal when their columns are.
LEMMA SameRow ==
  ASSUME NEW a, NEW b, NEW c, NEW d, NEW e, NEW f, NEW a2, NEW b2, NEW c2, NEW d2, NEW e2, NEW f2
  PROVE  [payload |-> a, producer |-> b, canonical |-> c, payloadSha |-> d, prev |-> e, sha |-> f]
         = [payload |-> a2, producer |-> b2, canonical |-> c2, payloadSha |-> d2, prev |-> e2, sha |-> f2]
         <=> a = a2 /\ b = b2 /\ c = c2 /\ d = d2 /\ e = e2 /\ f = f2
  OBVIOUS

\* A row passes the checks exactly when it is what sealing leaves there.
LEMMA CheckEventExact ==
  ASSUME NEW s, NEW q, NEW expected, NEW prev, RowWhole(verify_run.rows[s][q])
  PROVE  Verify!CheckEvent(s, q, expected, prev) = "none" <=>
                  q = expected /\ verify_run.rows[s][q] = Verify!Seal(s, q, verify_run.rows[s][q].payload, prev)
<1> DEFINE r == verify_run.rows[s][q]
<1>1. PICK a, b, c, d, e, f :
        /\ r = [payload |-> a, producer |-> b, canonical |-> c, payloadSha |-> d, prev |-> e, sha |-> f]
        /\ c \in BOOLEAN
  BY DEF RowWhole
<1>2. /\ r.payload = a /\ r.producer = b /\ r.canonical = c /\ r.payloadSha = d /\ r.prev = e
      /\ r.sha = f
  BY <1>1
<1>3. r = Verify!Seal(s, q, a, prev) <=>
        b = "own" /\ c = TRUE /\ d = a /\ e = prev /\ f = Verify!Digest(s, q, a, a, prev)
  <2>1. Verify!Seal(s, q, a, prev) = [payload |-> a, producer |-> "own", canonical |-> TRUE,
                                      payloadSha |-> a, prev |-> prev, sha |-> Verify!Digest(s, q, a, a, prev)]
    BY DEF Verify!Seal
  <2> DEFINE yes == TRUE
             x == [payload |-> a, producer |-> b, canonical |-> c, payloadSha |-> d,
                   prev |-> e, sha |-> f]
             y == [payload |-> a, producer |-> "own", canonical |-> yes, payloadSha |-> a,
                   prev |-> prev, sha |-> Verify!Digest(s, q, a, a, prev)]
  <2> HIDE DEF yes
  <2>2. x = y <=> a = a /\ b = "own" /\ c = yes /\ d = a /\ e = prev /\ f = Verify!Digest(s, q, a, a, prev)
    BY SameRow, Zenon
  <2>3. r = x /\ Verify!Seal(s, q, a, prev) = y
    BY <1>1, <2>1 DEF yes
  <2> HIDE DEF r, x, y
  <2>4. r = Verify!Seal(s, q, a, prev) <=> x = y
    BY <2>3
  <2>5. c = yes <=> c = TRUE
    BY DEF yes
  <2> QED BY <2>2, <2>4, <2>5
<1>4. Verify!CheckEvent(s, q, expected, prev) = "none" <=>
               q = expected /\ r.prev = prev /\ r.canonical /\ r.producer = "own" /\ r.payload = r.payloadSha
                 /\ Verify!Digest(s, q, r.payload, r.payloadSha, r.prev) = r.sha
  <2> DEFINE pl == r.payload  ps == r.payloadSha  pv == r.prev
  <2>1. Verify!CheckEvent(s, q, expected, prev) =
                 CASE q # expected -> "sequence"
                   [] r.prev # prev -> "previous_event_sha256"
                   [] ~r.canonical -> "event_decode"
                   [] r.producer # "own" -> "producer_id"
                   [] r.payload # r.payloadSha -> "payload_sha256"
                   [] Verify!Digest(s, q, r.payload, r.payloadSha, r.prev) # r.sha -> "event_sha256"
                   [] OTHER -> "none"
    BY DEF Verify!CheckEvent, Verify!Canonical
  <2> QED BY ONLY <2>1
<1> HIDE DEF r
<1>5. c = TRUE <=> c
  BY <1>1
<1> QED BY <1>2, <1>3, <1>4, <1>5 DEF r
\* A ledger nobody edited has every row sealed where it lies.
LEMMA SealedRange ==
  ASSUME NEW s \in VerifyStreams, s \in DOMAIN verify_run.heads, SnapshotInv, ~verify_run.edited
  PROVE  \E n \in Nat \ {0} : /\ DOMAIN verify_run.rows[s] = 1 .. n
                              /\ verify_run.heads[s] = [seq |-> n, sha |-> verify_run.rows[s][n].sha]
                              /\ \A q \in 1 .. n : SealedAt(s, q)
<1> DEFINE n == verify_run.heads[s].seq
<1>1. /\ LedgerSealed(verify_run.rows, verify_run.heads) /\ n \in Nat
      /\ verify_run.heads[s] = [seq |-> n, sha |-> verify_run.heads[s].sha]
  BY DEF SnapshotInv, LedgerTyped
<1>2. n # 0 /\ DOMAIN verify_run.rows[s] = 1 .. n /\ verify_run.heads[s].sha = verify_run.rows[s][n].sha
  BY <1>1 DEF LedgerSealed
<1>3. ASSUME NEW q \in 1 .. n PROVE SealedAt(s, q)
  <2>1. verify_run.rows[s][q] = Verify!Seal(s, q, verify_run.rows[s][q].payload,
                                            IF q = 1 THEN NoDigest ELSE verify_run.rows[s][q - 1].sha)
    BY <1>1, <1>2 DEF LedgerSealed
  <2>2. q = 1 \/ q - 1 \in 1 .. n
    BY <1>1
  <2> QED BY <1>2, <2>1, <2>2 DEF SealedAt
<1> QED BY <1>1, <1>2, <1>3

\* The range of a stream, and the batch that is next in it.
LEMMA BatchFacts ==
  ASSUME SnapshotInv, WalkInv
  PROVE  LET s == verify_run.walk.stream
             rest == {q \in DOMAIN verify_run.rows[s] : q >= Verify!From}
         IN /\ s \in VerifyStreams /\ s \in DOMAIN verify_run.heads
            /\ verify_run.since \in Nat \ {0} /\ Verify!From \in Nat \ {0} /\ Verify!From >= verify_run.since
            /\ DOMAIN verify_run.rows[s] \subseteq Nat \ {0} /\ IsFiniteSet(DOMAIN verify_run.rows[s])
            /\ rest \subseteq InRange(s) /\ Verify!Batch \subseteq rest /\ IsFiniteSet(Verify!Batch)
            /\ (rest # {} => Verify!Batch # {}) /\ \A x \in Verify!Batch, y \in rest : y < x => y \in Verify!Batch
            /\ verify_run.walk.last = 0 \/ (verify_run.walk.last \in InRange(s) /\ Verify!From = verify_run.walk.last + 1)
            /\ verify_run.walk.expected = Verify!From
<1> DEFINE s == verify_run.walk.stream
           rest == {q \in DOMAIN verify_run.rows[s] : q >= Verify!From}
<1>1. /\ s \in VerifyStreams /\ s \in DOMAIN verify_run.heads
      /\ verify_run.since \in Nat \ {0} /\ verify_run.batch \in Nat \ {0}
      /\ DOMAIN verify_run.rows[s] \subseteq Nat \ {0} /\ IsFiniteSet(DOMAIN verify_run.rows[s])
  BY DEF SnapshotInv, LedgerTyped, WalkInv
<1>3. /\ Verify!From \in Nat \ {0} /\ Verify!From >= verify_run.since /\ verify_run.walk.expected = Verify!From
      /\ verify_run.walk.last = 0 \/ (verify_run.walk.last \in InRange(s) /\ Verify!From = verify_run.walk.last + 1)
  <2>1. CASE verify_run.walk.last = 0
    BY <1>1, <2>1 DEF Verify!From, WalkInv
  <2>2. CASE verify_run.walk.last # 0
    <3>1. verify_run.walk.last \in InRange(s) /\ verify_run.walk.expected = verify_run.walk.last + 1
      BY <2>2 DEF WalkInv
    <3>2. Verify!From = verify_run.walk.last + 1
      BY <2>2 DEF Verify!From
    <3>3. verify_run.walk.last \in Nat \ {0} /\ verify_run.walk.last >= verify_run.since
      BY <1>1, <3>1 DEF InRange
    <3> QED BY <1>1, <3>1, <3>2, <3>3
  <2> QED BY <2>1, <2>2
<1>4. rest \subseteq InRange(s) /\ rest \subseteq Nat /\ IsFiniteSet(rest)
  <2>1. rest \subseteq DOMAIN verify_run.rows[s]
    OBVIOUS
  <2>2. \A q \in DOMAIN verify_run.rows[s] : q >= Verify!From => q >= verify_run.since
    BY <1>1, <1>3
  <2> QED BY <1>1, <2>1, <2>2, FS_Subset DEF InRange
<1>5. Verify!Batch = Verify!First(rest, verify_run.batch)
  BY DEF Verify!Batch
<1> HIDE DEF rest
<1>6. /\ Verify!Batch \subseteq rest /\ IsFiniteSet(Verify!Batch) /\ (rest # {} => Verify!Batch # {})
      /\ \A x \in Verify!Batch, y \in rest : y < x => y \in Verify!Batch
  BY <1>1, <1>4, <1>5, FirstFacts
<1> QED BY <1>1, <1>3, <1>4, <1>6 DEF rest

\* A row of the batch that fails no check is sealed where it lies.
LEMMA PassedIsSealed ==
  ASSUME SnapshotInv, WalkInv, NEW q \in Verify!Batch, Verify!Fails(q) = "none"
  PROVE  SealedAt(verify_run.walk.stream, q)
<1> DEFINE s == verify_run.walk.stream
           p == Verify!Max(Verify!Before(q))
<1>1. /\ s \in VerifyStreams /\ verify_run.since \in Nat \ {0}
      /\ DOMAIN verify_run.rows[s] \subseteq Nat \ {0} /\ q \in InRange(s) /\ q \in DOMAIN verify_run.rows[s]
      /\ Verify!Batch \subseteq DOMAIN verify_run.rows[s] /\ IsFiniteSet(Verify!Batch)
  BY BatchFacts DEF InRange
<1>2. RowWhole(verify_run.rows[s][q]) /\ q \in Nat \ {0}
  BY <1>1 DEF SnapshotInv, LedgerTyped
<1>3. CASE Verify!Before(q) = {}
  <2>1. Verify!CheckEvent(s, q, verify_run.walk.expected, verify_run.walk.prev) = "none"
    BY <1>3 DEF Verify!Fails
  <2>2. /\ q = verify_run.walk.expected
        /\ verify_run.rows[s][q] = Verify!Seal(s, q, verify_run.rows[s][q].payload, verify_run.walk.prev)
    BY <1>2, <2>1, CheckEventExact
  <2>3. CASE verify_run.walk.last = 0
    <3>1. q = verify_run.since /\ (verify_run.since = 1 \/ verify_run.since - 1 \in DOMAIN verify_run.rows[s])
      BY <1>1, <2>2, <2>3 DEF WalkInv
    <3>2. verify_run.walk.prev = IF q = 1 THEN NoDigest ELSE verify_run.rows[s][q - 1].sha
      <4>1. verify_run.since > 1 <=> verify_run.since # 1
        BY <1>1
      <4> QED BY <2>3, <3>1, <4>1 DEF WalkInv
    <3> QED BY <2>2, <3>1, <3>2 DEF SealedAt
  <2>4. CASE verify_run.walk.last # 0
    <3>1. /\ verify_run.walk.last \in InRange(s) /\ q = verify_run.walk.last + 1
          /\ verify_run.walk.prev = verify_run.rows[s][verify_run.walk.last].sha
      BY <2>2, <2>4 DEF WalkInv
    <3>2. verify_run.walk.last \in Nat \ {0} /\ verify_run.walk.last \in DOMAIN verify_run.rows[s]
      BY <1>1, <3>1 DEF InRange
    <3>3. q - 1 = verify_run.walk.last /\ q # 1
      BY <3>1, <3>2
    <3> QED BY <2>2, <3>1, <3>2, <3>3 DEF SealedAt
  <2> QED BY <2>3, <2>4
<1>4. CASE Verify!Before(q) # {}
  <2>1. Verify!Before(q) \subseteq Verify!Batch /\ Verify!Before(q) \subseteq Nat /\ IsFiniteSet(Verify!Before(q))
    BY <1>1, FS_Subset DEF Verify!Before
  <2>2. p \in DOMAIN verify_run.rows[s] /\ p \in Nat \ {0}
    BY <1>1, <1>4, <2>1, MaxIn
  <2>3. Verify!CheckEvent(s, q, p + 1, verify_run.rows[s][p].sha) = "none"
    BY <1>4 DEF Verify!Fails
  <2>4. q = p + 1 /\ verify_run.rows[s][q] = Verify!Seal(s, q, verify_run.rows[s][q].payload, verify_run.rows[s][p].sha)
    BY <1>2, <2>3, CheckEventExact
  <2> HIDE DEF p
  <2>5. q - 1 = p /\ q # 1
    BY <2>2, <2>4
  <2> QED BY <2>2, <2>4, <2>5 DEF SealedAt
<1> QED BY <1>3, <1>4

\* In a ledger nobody edited no row of the batch fails a check.
LEMMA SealedPasses ==
  ASSUME SnapshotInv, WalkInv, ~verify_run.edited, NEW q \in Verify!Batch
  PROVE  Verify!Fails(q) = "none"
<1> DEFINE s == verify_run.walk.stream
           rest == {x \in DOMAIN verify_run.rows[s] : x >= Verify!From}
           p == Verify!Max(Verify!Before(q))
<1>1. /\ s \in VerifyStreams /\ s \in DOMAIN verify_run.heads /\ verify_run.since \in Nat \ {0}
      /\ Verify!From \in Nat \ {0} /\ Verify!From >= verify_run.since
      /\ Verify!Batch \subseteq rest /\ IsFiniteSet(Verify!Batch) /\ \A x \in Verify!Batch, y \in rest : y < x => y \in Verify!Batch
      /\ verify_run.walk.last = 0 \/ (verify_run.walk.last \in InRange(s) /\ Verify!From = verify_run.walk.last + 1)
      /\ verify_run.walk.expected = Verify!From
  BY BatchFacts
<1>2. PICK n \in Nat \ {0} : DOMAIN verify_run.rows[s] = 1 .. n /\ \A x \in 1 .. n : SealedAt(s, x)
  BY <1>1, SealedRange
<1>3. q \in 1 .. n /\ q \in Nat \ {0} /\ q >= Verify!From /\ RowWhole(verify_run.rows[s][q])
  <2>1. q \in rest
    BY <1>1
  <2>2. q \in DOMAIN verify_run.rows[s] /\ q >= Verify!From
    BY <2>1
  <2> QED BY <1>1, <1>2, <2>2 DEF SnapshotInv, LedgerTyped
<1>4. /\ verify_run.rows[s][q] = Verify!Seal(s, q, verify_run.rows[s][q].payload,
                                             IF q = 1 THEN NoDigest ELSE verify_run.rows[s][q - 1].sha)
  BY <1>2, <1>3 DEF SealedAt
<1>5. ASSUME NEW x \in Nat, x >= Verify!From, x < q PROVE x \in Verify!Before(q)
  <2>1. x \in 1 .. n
    BY <1>1, <1>2, <1>3, <1>5
  <2>2. x \in rest
    BY <1>2, <1>5, <2>1
  <2> HIDE DEF rest
  <2> QED BY <1>1, <1>5, <2>2 DEF Verify!Before
<1>6. CASE Verify!Before(q) = {}
  <2>1. q = Verify!From
    <3>1. ~(Verify!From < q)
      BY <1>1, <1>5, <1>6
    <3> QED BY <1>1, <1>3, <3>1
  <2>2. verify_run.walk.prev = IF q = 1 THEN NoDigest ELSE verify_run.rows[s][q - 1].sha
    <3>1. CASE verify_run.walk.last = 0
      <4>1. q = verify_run.since
        BY <2>1, <3>1 DEF Verify!From
      <4>2. verify_run.since > 1 <=> verify_run.since # 1
        BY <1>1
      <4>3. verify_run.since # 1 => verify_run.since - 1 \in DOMAIN verify_run.rows[s]
        BY <1>2, <1>3, <4>1
      <4> QED BY <3>1, <4>1, <4>2, <4>3 DEF WalkInv
    <3>2. CASE verify_run.walk.last # 0
      <4>1. /\ verify_run.walk.last \in InRange(s) /\ Verify!From = verify_run.walk.last + 1
            /\ verify_run.walk.prev = verify_run.rows[s][verify_run.walk.last].sha
        BY <1>1, <3>2 DEF WalkInv
      <4>2. verify_run.walk.last \in Nat \ {0}
        BY <1>2, <4>1 DEF InRange
      <4>3. q - 1 = verify_run.walk.last /\ q # 1
        BY <2>1, <4>1, <4>2
      <4> QED BY <4>1, <4>3
    <3> QED BY <3>1, <3>2
  <2>3. Verify!CheckEvent(s, q, verify_run.walk.expected, verify_run.walk.prev) = "none"
    BY <1>1, <1>3, <1>4, <2>1, <2>2, CheckEventExact
  <2> QED BY <1>6, <2>3 DEF Verify!Fails
<1>7. CASE Verify!Before(q) # {}
  <2>0. Verify!Batch \subseteq Nat
    BY <1>1, <1>2
  <2>1. Verify!Before(q) \subseteq Verify!Batch /\ Verify!Before(q) \subseteq Nat /\ IsFiniteSet(Verify!Before(q))
    BY <1>1, <2>0, FS_Subset DEF Verify!Before
  <2>2. p \in Verify!Before(q) /\ \A x \in Verify!Before(q) : x <= p
    BY <1>7, <2>1, MaxIn
  <2>3. p \in Nat /\ p < q /\ p >= Verify!From
    <3>1. p \in rest /\ p < q
      BY <1>1, <2>2 DEF Verify!Before
    <3> QED BY <2>1, <2>2, <3>1
  <2> HIDE DEF p
  <2>4. q = p + 1
    <3>1. ~(p + 1 < q)
      <4>1. SUFFICES ASSUME p + 1 < q PROVE FALSE
        OBVIOUS
      <4>2. p + 1 \in Nat /\ p + 1 >= Verify!From
        <5>1. Verify!From \in Nat
          BY <1>1
        <5> QED BY ONLY <2>3, <5>1
      <4>3. p + 1 \in Verify!Before(q)
        BY <1>5, <4>1, <4>2
      <4>4. p + 1 <= p
        BY <2>2, <4>3
      <4> QED BY <2>3, <4>4
    <3> QED BY <1>3, <2>3, <3>1
  <2>5. q # 1 /\ q - 1 = p
    BY <1>1, <2>3, <2>4
  <2>6. Verify!CheckEvent(s, q, p + 1, verify_run.rows[s][p].sha) = "none"
    BY <1>3, <1>4, <2>4, <2>5, CheckEventExact
  <2> QED BY <1>7, <2>6 DEF Verify!Fails, p
<1> QED BY <1>6, <1>7
\* What stays of the snapshot when only the verification's progress changes.
Kept ==
  /\ verify_run' = [f \in Fields |-> verify_run'[f]]
  /\ verify_run'.rows = verify_run.rows /\ verify_run'.heads = verify_run.heads /\ verify_run'.edited = verify_run.edited
  /\ verify_run'.batch = verify_run.batch /\ verify_run'.since = verify_run.since /\ verify_run'.requested = verify_run.requested

LEMMA KeptFacts ==
  ASSUME SnapshotInv, Kept
  PROVE  /\ SnapshotInv'
         /\ \A s : (Verify!WellSealed(s)' <=> Verify!WellSealed(s)) /\ InRange(s)' = InRange(s)
                   /\ (Exists(s)' <=> Exists(s))
         /\ \A s, q : SealedAt(s, q)' <=> SealedAt(s, q)
<1>1. SnapshotInv'
  BY DEF SnapshotInv, Kept
<1>2. \A s : Verify!WellSealed(s)' <=> Verify!WellSealed(s)
  BY DEF Verify!WellSealed, Kept
<1>3. \A s : InRange(s)' = InRange(s) /\ (Exists(s)' <=> Exists(s))
  BY DEF InRange, Exists, Kept
<1>4. \A s, q : SealedAt(s, q)' <=> SealedAt(s, q)
  BY DEF SealedAt, Kept
<1> QED BY <1>1, <1>2, <1>3, <1>4

\* A verification gives a stream of its page a result.
LEMMA ResultKeeps ==
  ASSUME VerifyRunInv, verify_run.pc \in {"streams", "walk"}, Kept,
         NEW s \in verify_run.page, NEW failure, NEW events,
         verify_run'.pc = "streams", verify_run'.after = verify_run.after, verify_run'.failure = verify_run.failure,
         verify_run'.page = verify_run.page \ {s}, verify_run'.results = Verify!Put(verify_run.results, s, Verify!Result(failure, events)),
         failure = "none" => s \in DOMAIN verify_run.heads /\ Verify!WellSealed(s) /\ events = InRange(s),
         ~verify_run.edited => failure = "none" \/ (failure = "stream_exists" /\ s \in verify_run.requested)
  PROVE  VerifyRunInv'
<1>1. SnapshotInv /\ CoverageInv /\ verify_run.failure = "none"
  BY DEF VerifyRunInv
<1>2. /\ DOMAIN verify_run'.results = DOMAIN verify_run.results \cup {s}
      /\ verify_run'.results[s] = [failure |-> failure, events |-> events]
      /\ \A t \in DOMAIN verify_run.results : t # s => verify_run'.results[t] = verify_run.results[t]
  <2>1. /\ DOMAIN Verify!Put(verify_run.results, s, Verify!Result(failure, events)) = DOMAIN verify_run.results \cup {s}
        /\ Verify!Put(verify_run.results, s, Verify!Result(failure, events))[s] = Verify!Result(failure, events)
        /\ \A t \in DOMAIN verify_run.results : t # s =>
             Verify!Put(verify_run.results, s, Verify!Result(failure, events))[t] = verify_run.results[t]
    BY DEF Verify!Put
  <2> QED BY <2>1 DEF Verify!Result
<1>3. Seen' = Seen
  <2>1. Seen' = DOMAIN verify_run'.results \cup verify_run'.page
    BY DEF Seen
  <2> QED BY <1>2, <2>1 DEF Seen
<1>4. ASSUME NEW t \in DOMAIN verify_run'.results PROVE ResultIsSound(t)'
  <2>1. CASE t = s
    <3>1. verify_run'.results[t].failure = failure /\ verify_run'.results[t].events = events
      BY <1>2, <2>1
    <3> QED BY <1>1, <2>1, <3>1, KeptFacts DEF ResultIsSound, Kept
  <2>2. CASE t # s
    <3>1. t \in DOMAIN verify_run.results /\ verify_run'.results[t] = verify_run.results[t] /\ ResultIsSound(t)
      BY <1>1, <1>2, <2>2 DEF CoverageInv
    <3> QED BY <1>1, <3>1, KeptFacts DEF ResultIsSound, Kept
  <2> QED BY <2>1, <2>2
<1>5. CoverageInv'
  <2>1. DOMAIN verify_run'.results \subseteq VerifyStreams /\ verify_run'.page \subseteq VerifyStreams /\ verify_run'.after \in Nat
    BY <1>1, <1>2 DEF CoverageInv
  <2>2. verify_run'.requested # {} => Seen' = verify_run'.requested
    BY <1>1, <1>3 DEF CoverageInv, Kept
  <2>3. verify_run'.requested = {} => /\ \A t \in VerifyStreams : Exists(t)' /\ t <= verify_run'.after => t \in Seen'
                                      /\ \A t \in verify_run'.page : Exists(t)'
    BY <1>1, <1>3, KeptFacts DEF CoverageInv, Kept
  <2> QED BY <1>4, <2>1, <2>2, <2>3 DEF CoverageInv
<1>6. SnapshotInv'
  BY <1>1, KeptFacts
<1> QED BY <1>1, <1>5, <1>6 DEF VerifyRunInv

\* The stream that is next has no head, starts after a hole, or is walked.
LEMMA EnterKeeps ==
  ASSUME Verify!VerifyAssumption, VerifyRunInv, verify_run.pc = "streams", NEW s \in verify_run.page, verify_run' = Verify!Enter(s)
  PROVE  VerifyRunInv'
<1> DEFINE stored == DOMAIN verify_run.rows[s]
           before == IF verify_run.since > 1 /\ verify_run.since - 1 \in stored
                     THEN verify_run.rows[s][verify_run.since - 1].sha ELSE NoDigest
           hole == /\ verify_run.since > 1 /\ verify_run.since - 1 \notin stored
                   /\ \E q \in stored : q >= verify_run.since
<1>1. /\ SnapshotInv /\ CoverageInv /\ verify_run.failure = "none" /\ s \in VerifyStreams
      /\ verify_run = [f \in Fields |-> verify_run[f]] /\ verify_run.since \in Nat \ {0}
  BY DEF VerifyRunInv, SnapshotInv, CoverageInv
<1>2. ASSUME NEW f, verify_run' = [verify_run EXCEPT !.results = Verify!Put(@, s, Verify!Result(f, {})), !.page = @ \ {s}],
             f # "none", ~verify_run.edited => f = "stream_exists" /\ s \in verify_run.requested
      PROVE  VerifyRunInv'
  <2>1. verify_run' = [g \in Fields |-> CASE g = "results" -> Verify!Put(verify_run.results, s, Verify!Result(f, {}))
                                          [] g = "page" -> verify_run.page \ {s}
                                          [] OTHER -> verify_run[g]]
    BY <1>1, <1>2 DEF Fields
  <2>2. /\ Kept /\ verify_run'.pc = verify_run.pc /\ verify_run'.after = verify_run.after /\ verify_run'.failure = verify_run.failure
        /\ verify_run'.page = verify_run.page \ {s} /\ verify_run'.results = Verify!Put(verify_run.results, s, Verify!Result(f, {}))
    BY <2>1 DEF Kept, Fields
  <2> QED BY <1>2, <2>2, ResultKeeps
<1>3. CASE s \notin DOMAIN verify_run.heads /\ stored = {}
  <2>1. verify_run' = [verify_run EXCEPT !.results = Verify!Put(@, s, Verify!Result("stream_exists", {})), !.page = @ \ {s}]
    BY <1>3 DEF Verify!Enter
  <2>2. s \in verify_run.requested
    BY <1>1, <1>3 DEF CoverageInv, Exists, Seen
  <2> QED BY <1>2, <2>1, <2>2
<1>4. CASE s \notin DOMAIN verify_run.heads /\ stored # {}
  <2>1. verify_run' = [verify_run EXCEPT !.results = Verify!Put(@, s, Verify!Result("stream_head_missing", {})), !.page = @ \ {s}]
    BY <1>4 DEF Verify!Enter
  <2>2. verify_run.edited
    BY <1>1, <1>4 DEF SnapshotInv, LedgerSealed
  <2> QED BY <1>2, <2>1, <2>2
<1>5. CASE s \in DOMAIN verify_run.heads /\ hole
  <2>1. verify_run' = [verify_run EXCEPT !.results = Verify!Put(@, s, Verify!Result("sequence", {})), !.page = @ \ {s}]
    BY <1>5 DEF Verify!Enter
  <2>2. verify_run.edited
    <3>1. SUFFICES ASSUME ~verify_run.edited PROVE FALSE
      OBVIOUS
    <3>2. PICK n \in Nat \ {0} : stored = 1 .. n
      BY <1>1, <1>5, <3>1, SealedRange
    <3> QED BY <1>1, <1>5, <3>2
  <2> QED BY <1>2, <2>1, <2>2
<1>6. CASE s \in DOMAIN verify_run.heads /\ ~hole
  <2> DEFINE w == [stream |-> s, expected |-> verify_run.since, prev |-> before, last |-> 0, events |-> {}]
  <2>1. verify_run' = [verify_run EXCEPT !.pc = "walk", !.walk = w]
    BY <1>6 DEF Verify!Enter
  <2>2. verify_run' = [g \in Fields |-> CASE g = "pc" -> "walk" [] g = "walk" -> w [] OTHER -> verify_run[g]]
    BY <1>1, <2>1 DEF Fields
  <2> HIDE DEF w
  <2>3. /\ Kept /\ verify_run'.pc = "walk" /\ verify_run'.walk = w /\ verify_run'.after = verify_run.after
        /\ verify_run'.failure = verify_run.failure /\ verify_run'.page = verify_run.page /\ verify_run'.results = verify_run.results
    BY <2>2 DEF Kept, Fields
  <2>4. /\ w.stream = s /\ w.expected = verify_run.since /\ w.prev = before /\ w.last = 0 /\ w.events = {}
    BY DEF w
  <2>5. CoverageInv'
    <3>1. Seen' = Seen /\ \A t \in DOMAIN verify_run.results : ResultIsSound(t)'
      <4>1. Seen' = Seen
        BY <2>3 DEF Seen
      <4>2. ASSUME NEW t \in DOMAIN verify_run.results PROVE ResultIsSound(t)'
        <5>1. ResultIsSound(t) /\ (Verify!WellSealed(t)' <=> Verify!WellSealed(t)) /\ InRange(t)' = InRange(t)
          BY <1>1, <2>3, KeptFacts DEF CoverageInv
        <5> QED BY <2>3, <5>1 DEF ResultIsSound, Kept
      <4> QED BY <4>1, <4>2
    <3> QED BY <1>1, <2>3, <3>1, KeptFacts DEF CoverageInv, Kept
  <2>6. WalkInv'
    <3>1. {q \in InRange(s) : q <= 0} = {}
      <4>1. DOMAIN verify_run.rows[s] \subseteq Nat \ {0}
        BY <1>1 DEF SnapshotInv, LedgerTyped
      <4> QED BY <4>1 DEF InRange
    <3>2. verify_run.since = 1 \/ verify_run.since - 1 \in stored \/ InRange(s) = {}
      BY <1>1, <1>6 DEF InRange
    <3>3. s \in verify_run'.page /\ s \in DOMAIN verify_run'.heads /\ InRange(s)' = InRange(s)
      BY <1>1, <1>6, <2>3, KeptFacts DEF Kept
    <3> QED BY <2>3, <2>4, <3>1, <3>2, <3>3 DEF WalkInv, Kept
  <2>7. SnapshotInv'
    BY <1>1, <2>3, KeptFacts
  <2> QED BY <1>1, <2>3, <2>5, <2>6, <2>7 DEF VerifyRunInv
<1> QED BY <1>3, <1>4, <1>5, <1>6
\* The next page holds every existing stream up to its last one.
LEMMA PageKeeps ==
  ASSUME Verify!VerifyAssumption, VerifyRunInv, verify_run.pc = "streams", verify_run.page = {}, verify_run.requested = {},
         Verify!StreamIds(verify_run.after) # {},
         verify_run' = [verify_run EXCEPT !.page = Verify!StreamIds(verify_run.after), !.after = Verify!Max(Verify!StreamIds(verify_run.after))]
  PROVE  VerifyRunInv'
<1> DEFINE page == Verify!StreamIds(verify_run.after)
           last == Verify!Max(page)
           H == {s \in DOMAIN verify_run.heads : s > verify_run.after}
           E == {s \in VerifyStreams : s > verify_run.after /\ DOMAIN verify_run.rows[s] # {}}
<1>1. /\ SnapshotInv /\ CoverageInv /\ verify_run.failure = "none" /\ verify_run = [f \in Fields |-> verify_run[f]]
      /\ PageSize \in Nat \ {0} /\ VerifyStreams \subseteq Nat \ {0} /\ IsFiniteSet(VerifyStreams)
      /\ DOMAIN verify_run.heads \subseteq VerifyStreams
  BY DEF VerifyRunInv, SnapshotInv, LedgerTyped, Verify!VerifyAssumption
<1>2. /\ H \subseteq VerifyStreams /\ E \subseteq VerifyStreams /\ H \subseteq Nat /\ E \subseteq Nat
      /\ IsFiniteSet(H) /\ IsFiniteSet(E)
  <2>1. H \subseteq VerifyStreams /\ E \subseteq VerifyStreams
    BY <1>1
  <2> HIDE DEF H, E
  <2> QED BY <1>1, <2>1, FS_Subset
<1>3. page = Verify!First(Verify!First(H, PageSize) \cup Verify!First(E, PageSize), PageSize)
  BY DEF Verify!StreamIds
<1>4. page \subseteq H \cup E /\ IsFiniteSet(page) /\ page # {}
  <2> HIDE DEF H, E
  <2>1. Verify!First(H, PageSize) \subseteq H /\ Verify!First(E, PageSize) \subseteq E
        /\ IsFiniteSet(Verify!First(H, PageSize)) /\ IsFiniteSet(Verify!First(E, PageSize))
    BY <1>1, <1>2, FirstFacts
  <2> DEFINE U == Verify!First(H, PageSize) \cup Verify!First(E, PageSize)
  <2>2. U \subseteq H \cup E /\ U \subseteq Nat /\ IsFiniteSet(U)
    BY <1>2, <2>1, FS_Union
  <2> HIDE DEF U
  <2>3. Verify!First(U, PageSize) \subseteq U /\ IsFiniteSet(Verify!First(U, PageSize))
    BY <1>1, <2>2, FirstFacts
  <2> QED BY <1>3, <2>2, <2>3 DEF U
<1>5. ASSUME NEW s \in VerifyStreams, Exists(s), s <= last PROVE s \in DOMAIN verify_run.results \cup page
  <2>1. CASE s <= verify_run.after
    BY <1>1, <1>5, <2>1 DEF CoverageInv, Seen
  <2>2. CASE ~(s <= verify_run.after)
    <3>1. s \in H \cup E
      <4>1. s > verify_run.after
        BY <1>1, <2>2 DEF CoverageInv
      <4> QED BY <1>5, <4>1 DEF Exists
    <3>2. last \in page
      <4> HIDE DEF page, H, E
      <4> QED BY <1>2, <1>4, MaxIn
    <3> HIDE DEF last, H, E
    <3> QED BY <1>1, <1>2, <1>3, <1>5, <3>1, <3>2, PageWhole
  <2> QED BY <2>1, <2>2
<1>6. last \in Nat
  <2> HIDE DEF page, H, E
  <2> QED BY <1>2, <1>4, MaxIn
<1>7. \A s \in page : Exists(s) /\ s \in VerifyStreams
  BY <1>1, <1>4 DEF Exists
<1>8. verify_run' = [g \in Fields |-> CASE g = "page" -> page [] g = "after" -> last [] OTHER -> verify_run[g]]
  <2> HIDE DEF last
  <2>1. verify_run' = [verify_run EXCEPT !.page = page, !.after = last]
    BY DEF last
  <2> HIDE DEF page
  <2> QED BY <1>1, <2>1 DEF Fields
<1> HIDE DEF page, last
<1>9. /\ Kept /\ verify_run'.pc = "streams" /\ verify_run'.page = page /\ verify_run'.after = last
      /\ verify_run'.failure = verify_run.failure /\ verify_run'.results = verify_run.results
  BY <1>8 DEF Kept, Fields
<1>10. CoverageInv'
  <2>1. \A t \in DOMAIN verify_run.results : ResultIsSound(t)'
    BY <1>1, <1>9, KeptFacts DEF CoverageInv, ResultIsSound, Kept
  <2>2. Seen' = DOMAIN verify_run.results \cup page
    BY <1>9 DEF Seen
  <2>3. /\ \A s \in VerifyStreams : Exists(s)' /\ s <= verify_run'.after => s \in Seen'
        /\ \A s \in verify_run'.page : Exists(s)'
    BY <1>1, <1>5, <1>7, <1>9, <2>2, KeptFacts
  <2> QED BY <1>1, <1>6, <1>7, <1>9, <2>1, <2>3 DEF CoverageInv, Kept
<1>11. SnapshotInv'
  BY <1>1, <1>9, KeptFacts
<1> QED BY <1>1, <1>9, <1>10, <1>11 DEF VerifyRunInv

\* After the last page every existing stream has a result.
LEMMA CountKeeps ==
  ASSUME Verify!VerifyAssumption, VerifyRunInv, verify_run.pc = "streams", verify_run.page = {},
         verify_run.requested # {} \/ Verify!StreamIds(verify_run.after) = {},
         verify_run' = [verify_run EXCEPT !.pc = "count"]
  PROVE  VerifyRunInv'
<1> DEFINE H == {s \in DOMAIN verify_run.heads : s > verify_run.after}
           E == {s \in VerifyStreams : s > verify_run.after /\ DOMAIN verify_run.rows[s] # {}}
<1>1. /\ SnapshotInv /\ CoverageInv /\ verify_run.failure = "none" /\ verify_run = [f \in Fields |-> verify_run[f]]
      /\ PageSize \in Nat \ {0} /\ VerifyStreams \subseteq Nat \ {0} /\ IsFiniteSet(VerifyStreams)
      /\ DOMAIN verify_run.heads \subseteq VerifyStreams
  BY DEF VerifyRunInv, SnapshotInv, LedgerTyped, Verify!VerifyAssumption
<1>2. H \subseteq Nat /\ E \subseteq Nat /\ IsFiniteSet(H) /\ IsFiniteSet(E)
  <2>1. H \subseteq VerifyStreams /\ E \subseteq VerifyStreams
    BY <1>1
  <2> HIDE DEF H, E
  <2> QED BY <1>1, <2>1, FS_Subset
<1>3. ASSUME verify_run.requested = {} PROVE H = {} /\ E = {}
  <2> DEFINE U == Verify!First(H, PageSize) \cup Verify!First(E, PageSize)
  <2>1. Verify!First(U, PageSize) = {}
    BY <1>3 DEF Verify!StreamIds
  <2> HIDE DEF H, E
  <2>2. U \subseteq Nat /\ IsFiniteSet(U)
    BY <1>1, <1>2, FirstFacts, FS_Union
  <2>3. U = {}
    <3> HIDE DEF U
    <3> QED BY <1>1, <2>1, <2>2, FirstFacts
  <2> QED BY <1>1, <1>2, <2>3, FirstFacts
<1>4. ASSUME verify_run.requested = {}, NEW s \in VerifyStreams, Exists(s) PROVE s \in Seen
  <2>1. ~(s > verify_run.after)
    BY <1>3, <1>4 DEF Exists
  <2>2. s <= verify_run.after
    BY <1>1, <2>1 DEF CoverageInv
  <2> QED BY <1>1, <1>4, <2>2 DEF CoverageInv
<1>5. verify_run' = [g \in Fields |-> CASE g = "pc" -> "count" [] OTHER -> verify_run[g]]
  BY <1>1 DEF Fields
<1>6. /\ Kept /\ verify_run'.pc = "count" /\ verify_run'.page = verify_run.page /\ verify_run'.after = verify_run.after
      /\ verify_run'.failure = verify_run.failure /\ verify_run'.results = verify_run.results
  BY <1>5 DEF Kept, Fields
<1>7. CoverageInv'
  <2>1. (\A t \in DOMAIN verify_run.results : ResultIsSound(t)') /\ Seen' = Seen
    BY <1>1, <1>6, KeptFacts DEF CoverageInv, ResultIsSound, Kept, Seen
  <2>2. verify_run'.requested = {} => \A s \in VerifyStreams : Exists(s)' => s \in Seen'
    BY <1>1, <1>4, <1>6, <2>1, KeptFacts DEF Kept
  <2> QED BY <1>1, <1>6, <2>1, <2>2, KeptFacts DEF CoverageInv, Kept
<1>8. SnapshotInv'
  BY <1>1, <1>6, KeptFacts
<1> QED BY <1>1, <1>6, <1>7, <1>8 DEF VerifyRunInv

LEMMA NextStreamKeeps ==
  ASSUME Verify!VerifyAssumption, VerifyRunInv, Verify!NextStream
  PROVE  VerifyRunInv'
<1>1. verify_run.pc = "streams" /\ SnapshotInv /\ CoverageInv
  BY DEF Verify!NextStream, VerifyRunInv
<1>2. CASE verify_run.page # {}
  <2>1. Verify!Min(verify_run.page) \in verify_run.page
    BY <1>1, <1>2, MinIn DEF CoverageInv, Verify!VerifyAssumption
  <2>2. verify_run' = Verify!Enter(Verify!Min(verify_run.page))
    BY <1>2 DEF Verify!NextStream
  <2> QED BY <1>1, <2>1, <2>2, EnterKeeps
<1>3. CASE verify_run.page = {} /\ verify_run.requested = {} /\ Verify!StreamIds(verify_run.after) # {}
  <2>1. verify_run' = [verify_run EXCEPT !.page = Verify!StreamIds(verify_run.after), !.after = Verify!Max(Verify!StreamIds(verify_run.after))]
    BY <1>3 DEF Verify!NextStream
  <2> QED BY <1>1, <1>3, <2>1, PageKeeps
<1>4. CASE verify_run.page = {} /\ ~(verify_run.requested = {} /\ Verify!StreamIds(verify_run.after) # {})
  <2>1. verify_run' = [verify_run EXCEPT !.pc = "count"]
    BY <1>4 DEF Verify!NextStream
  <2> QED BY <1>1, <1>4, <2>1, CountKeeps
<1> QED BY <1>2, <1>3, <1>4
\* The last event of a walk that has nothing left in range.
LEMMA WalkEnd ==
  ASSUME SnapshotInv, WalkInv, Verify!Batch = {}
  PROVE  LET s == verify_run.walk.stream
             last == IF verify_run.walk.last = 0 THEN Verify!LastOf(s) ELSE verify_run.walk.last
             stored == DOMAIN verify_run.rows[s]
         IN /\ verify_run.walk.events = InRange(s)
            /\ IF last = 0 THEN stored = {}
               ELSE last \in stored /\ last \in Nat /\ \A q \in stored : q <= last
<1> DEFINE s == verify_run.walk.stream
           rest == {q \in DOMAIN verify_run.rows[s] : q >= Verify!From}
           stored == DOMAIN verify_run.rows[s]
           w == verify_run.walk
<1>1. /\ verify_run.since \in Nat \ {0} /\ Verify!From \in Nat \ {0} /\ stored \subseteq Nat \ {0}
      /\ IsFiniteSet(stored) /\ rest = {}
      /\ w.last = 0 \/ (w.last \in InRange(s) /\ Verify!From = w.last + 1)
  BY BatchFacts
<1>2. \A q \in stored : ~(q >= Verify!From)
  BY <1>1
<1>3. w.events = {q \in InRange(s) : q <= w.last}
  BY DEF WalkInv
<1>4. CASE w.last = 0
  <2>1. InRange(s) = {}
    BY <1>2, <1>4 DEF InRange, Verify!From
  <2>2. CASE verify_run.since > 1 /\ stored # {}
    <3>1. Verify!LastOf(s) = Verify!Max(stored)
      BY <2>2 DEF Verify!LastOf
    <3> HIDE DEF stored
    <3>2. Verify!Max(stored) \in stored /\ \A q \in stored : q <= Verify!Max(stored)
      BY <1>1, <2>2, MaxIn
    <3>3. Verify!Max(stored) \in Nat \ {0}
      BY <1>1, <3>2
    <3> QED BY <1>3, <1>4, <2>1, <3>1, <3>2, <3>3 DEF stored
  <2>3. CASE ~(verify_run.since > 1 /\ stored # {})
    <3>1. Verify!LastOf(s) = 0
      BY <2>3 DEF Verify!LastOf
    <3>2. stored = {}
      <4>1. SUFFICES ASSUME stored # {} PROVE FALSE
        OBVIOUS
      <4>2. PICK q \in stored : TRUE
        BY <4>1
      <4>3. verify_run.since = 1
        BY <1>1, <2>3, <4>1
      <4>4. q \in InRange(s)
        BY <1>1, <4>2, <4>3 DEF InRange
      <4> QED BY <2>1, <4>4
    <3> QED BY <1>3, <1>4, <2>1, <3>1, <3>2
  <2> QED BY <2>2, <2>3
<1>5. CASE w.last # 0
  <2>1. w.last \in stored /\ w.last \in Nat /\ Verify!From = w.last + 1
    BY <1>1, <1>5 DEF InRange
  <2>2. \A q \in stored : q <= w.last
    BY <1>1, <1>2, <2>1
  <2>3. InRange(s) \subseteq stored
    BY DEF InRange
  <2> QED BY <1>3, <1>5, <2>1, <2>2, <2>3
<1> QED BY <1>4, <1>5

\* A walk that ended at the stream's head leaves the stream verified.
LEMMA HeadMeansSealed ==
  ASSUME SnapshotInv, WalkInv, Verify!Batch = {}, NEW last,
         last = IF verify_run.walk.last = 0 THEN Verify!LastOf(verify_run.walk.stream) ELSE verify_run.walk.last
  PROVE  /\ Verify!CheckHead(verify_run.walk.stream, last) = "none" => Verify!WellSealed(verify_run.walk.stream)
         /\ ~verify_run.edited => Verify!CheckHead(verify_run.walk.stream, last) = "none"
<1> DEFINE s == verify_run.walk.stream
           stored == DOMAIN verify_run.rows[s]
<1>1. /\ s \in VerifyStreams /\ s \in DOMAIN verify_run.heads /\ verify_run.walk.events = InRange(s)
      /\ stored \subseteq Nat \ {0} /\ IsFiniteSet(stored)
      /\ \A q \in InRange(s) : SealedAt(s, q)
  BY BatchFacts, WalkEnd DEF WalkInv
<1>2. IF last = 0 THEN stored = {} ELSE last \in stored /\ last \in Nat /\ \A q \in stored : q <= last
  BY WalkEnd
<1>3. last # 0 => Verify!Max(stored) = last /\ stored # {}
  <2>1. SUFFICES ASSUME last # 0 PROVE Verify!Max(stored) = last /\ stored # {}
    OBVIOUS
  <2> HIDE DEF stored
  <2>2. stored # {} /\ last \in stored /\ last \in Nat /\ \A q \in stored : q <= last
    BY <1>2, <2>1
  <2>3. Verify!Max(stored) \in stored /\ \A q \in stored : q <= Verify!Max(stored)
    BY <1>1, <2>2, MaxIn
  <2>4. Verify!Max(stored) \in Nat /\ Verify!Max(stored) <= last /\ last <= Verify!Max(stored)
    BY <1>1, <2>2, <2>3
  <2> QED BY <2>2, <2>4
<1>4. ASSUME Verify!CheckHead(s, last) = "none" PROVE Verify!WellSealed(s)
  <2>1. verify_run.heads[s] = IF last = 0 THEN Verify!NoHead ELSE [seq |-> last, sha |-> verify_run.rows[s][last].sha]
    BY <1>4 DEF Verify!CheckHead
  <2>2. verify_run.heads[s] = IF stored = {} THEN Verify!NoHead
                              ELSE [seq |-> Verify!Max(stored), sha |-> verify_run.rows[s][Verify!Max(stored)].sha]
    BY <1>2, <1>3, <2>1
  <2>3. \A q \in {x \in stored : x >= verify_run.since} :
          /\ q = 1 \/ q - 1 \in stored
          /\ verify_run.rows[s][q] = Verify!Seal(s, q, verify_run.rows[s][q].payload,
                                                 IF q = 1 THEN NoDigest ELSE verify_run.rows[s][q - 1].sha)
    BY <1>1 DEF SealedAt, InRange
  <2> QED BY <1>1, <2>2, <2>3 DEF Verify!WellSealed
<1>5. ASSUME ~verify_run.edited PROVE Verify!CheckHead(s, last) = "none"
  <2>1. PICK n \in Nat \ {0} : /\ stored = 1 .. n
                               /\ verify_run.heads[s] = [seq |-> n, sha |-> verify_run.rows[s][n].sha]
    BY <1>1, <1>5, SealedRange
  <2>2. last = n
    <3>1. n \in stored /\ 1 \in stored
      BY <2>1
    <3>2. last # 0 /\ last \in 1 .. n /\ n <= last
      BY <1>2, <2>1, <3>1
    <3> QED BY <3>2
  <2> QED BY <2>1, <2>2 DEF Verify!CheckHead
<1> QED BY <1>4, <1>5

\* A batch that passes carries the walk on to its last row.
LEMMA BatchKeeps ==
  ASSUME VerifyRunInv, verify_run.pc = "walk", Verify!Batch # {}, Verify!Failing = {},
         verify_run' = [verify_run EXCEPT !.walk =
                                 [stream |-> verify_run.walk.stream, expected |-> Verify!Max(Verify!Batch) + 1,
                                  prev |-> verify_run.rows[verify_run.walk.stream][Verify!Max(Verify!Batch)].sha, last |-> Verify!Max(Verify!Batch),
                                  events |-> verify_run.walk.events \cup Verify!Batch]]
  PROVE  VerifyRunInv'
<1> DEFINE s == verify_run.walk.stream
           rest == {q \in DOMAIN verify_run.rows[s] : q >= Verify!From}
           m == Verify!Max(Verify!Batch)
           w == [stream |-> s, expected |-> m + 1, prev |-> verify_run.rows[s][m].sha, last |-> m,
                 events |-> verify_run.walk.events \cup Verify!Batch]
<1>1. /\ SnapshotInv /\ CoverageInv /\ WalkInv /\ verify_run.failure = "none"
      /\ verify_run = [f \in Fields |-> verify_run[f]]
  BY DEF VerifyRunInv, SnapshotInv
<1>2. /\ verify_run.since \in Nat \ {0} /\ Verify!From \in Nat \ {0} /\ DOMAIN verify_run.rows[s] \subseteq Nat \ {0}
      /\ rest \subseteq InRange(s) /\ Verify!Batch \subseteq rest /\ IsFiniteSet(Verify!Batch)
      /\ \A x \in Verify!Batch, y \in rest : y < x => y \in Verify!Batch
      /\ verify_run.walk.last = 0 \/ (verify_run.walk.last \in InRange(s) /\ Verify!From = verify_run.walk.last + 1)
  BY <1>1, BatchFacts
<1>3. m \in Verify!Batch /\ m \in InRange(s) /\ m \in Nat \ {0} /\ \A q \in Verify!Batch : q <= m
  <2>1. Verify!Batch \subseteq Nat /\ Verify!Batch \subseteq InRange(s) /\ InRange(s) \subseteq Nat \ {0}
    BY <1>2 DEF InRange
  <2>2. m \in Verify!Batch /\ \A q \in Verify!Batch : q <= m
    BY <1>2, <2>1, MaxIn
  <2> QED BY <2>1, <2>2
<1>4. verify_run.walk.events \cup Verify!Batch = {q \in InRange(s) : q <= m}
  <2>0. /\ verify_run.walk.events = {q \in InRange(s) : q <= verify_run.walk.last}
        /\ \A q \in InRange(s) : q \in Nat \ {0} /\ q >= verify_run.since /\ q \in DOMAIN verify_run.rows[s]
    BY <1>1, <1>2 DEF WalkInv, InRange
  <2> HIDE DEF m
  <2>1. ASSUME NEW q \in verify_run.walk.events PROVE q \in InRange(s) /\ q <= m
    <3>1. q \in InRange(s) /\ q \in Nat \ {0} /\ q <= verify_run.walk.last
      BY <2>0, <2>1
    <3>2. verify_run.walk.last \in InRange(s) /\ Verify!From = verify_run.walk.last + 1
      BY <1>2, <3>1
    <3>3. m >= Verify!From
      BY <1>2, <1>3
    <3>4. verify_run.walk.last \in Nat
      BY <2>0, <3>2
    <3> QED BY <1>3, <3>1, <3>2, <3>3, <3>4
  <2>2. ASSUME NEW q \in InRange(s), q <= m PROVE q \in verify_run.walk.events \cup Verify!Batch
    <3>1. q \in Nat \ {0} /\ q >= verify_run.since /\ q \in DOMAIN verify_run.rows[s]
      BY <2>0
    <3>2. CASE q >= Verify!From
      <4>1. q \in rest
        BY <3>1, <3>2
      <4>2. q = m \/ q < m
        BY <1>3, <2>2, <3>1
      <4> QED BY <1>2, <1>3, <4>1, <4>2
    <3>3. CASE ~(q >= Verify!From)
      <4>1. verify_run.walk.last # 0
        BY <3>1, <3>3 DEF Verify!From
      <4>2. verify_run.walk.last \in Nat /\ Verify!From = verify_run.walk.last + 1
        BY <1>2, <2>0, <4>1
      <4>3. q <= verify_run.walk.last
        BY <3>1, <3>3, <4>2
      <4> QED BY <2>0, <4>3
    <3> QED BY <3>2, <3>3
  <2> QED BY <1>2, <1>3, <2>1, <2>2
<1>5. \A q \in verify_run.walk.events \cup Verify!Batch : SealedAt(s, q)
  BY <1>1, PassedIsSealed DEF Verify!Failing, WalkInv
<1>6. verify_run' = [g \in Fields |-> CASE g = "walk" -> w [] OTHER -> verify_run[g]]
  <2>1. verify_run' = [verify_run EXCEPT !.walk = w]
    OBVIOUS
  <2> HIDE DEF w
  <2> QED BY <1>1, <2>1 DEF Fields
<1>7. /\ w.stream = s /\ w.expected = m + 1 /\ w.prev = verify_run.rows[s][m].sha /\ w.last = m
      /\ w.events = verify_run.walk.events \cup Verify!Batch
  <2> HIDE DEF m, s
  <2> QED OBVIOUS
<1> HIDE DEF w, m
<1>8. /\ Kept /\ verify_run'.pc = "walk" /\ verify_run'.page = verify_run.page /\ verify_run'.after = verify_run.after
      /\ verify_run'.failure = verify_run.failure /\ verify_run'.results = verify_run.results /\ verify_run'.walk = w
  BY <1>6 DEF Kept, Fields
<1>9. CoverageInv'
  <2>1. Seen' = Seen /\ \A t \in DOMAIN verify_run.results : ResultIsSound(t)'
    <3>1. Seen' = Seen
      BY <1>8 DEF Seen
    <3>2. ASSUME NEW t \in DOMAIN verify_run.results PROVE ResultIsSound(t)'
      <4>1. ResultIsSound(t) /\ (Verify!WellSealed(t)' <=> Verify!WellSealed(t)) /\ InRange(t)' = InRange(t)
        BY <1>1, <1>8, KeptFacts DEF CoverageInv
      <4> QED BY <1>8, <4>1 DEF ResultIsSound, Kept
    <3> QED BY <3>1, <3>2
  <2> QED BY <1>1, <1>8, <2>1, KeptFacts DEF CoverageInv, Kept
<1>10. WalkInv'
  <2>0. PICK t : t = verify_run.walk.stream
    OBVIOUS
  <2>1. t \in verify_run'.page /\ t \in DOMAIN verify_run'.heads
    BY <1>1, <1>8, <2>0 DEF WalkInv, Kept
  <2>2. /\ InRange(t)' = InRange(t) /\ \A q : SealedAt(t, q)' <=> SealedAt(t, q)
    BY <1>1, <1>8, KeptFacts
  <2>3. m # 0 /\ verify_run'.walk.stream = t
    BY <1>3, <1>7, <1>8, <2>0
  <2>4. /\ verify_run'.walk.last = m /\ verify_run'.walk.expected = m + 1 /\ verify_run'.walk.prev = verify_run'.rows[t][m].sha
        /\ verify_run'.walk.events = {q \in InRange(t)' : q <= m}
        /\ \A q \in verify_run'.walk.events : SealedAt(t, q)'
    BY <1>4, <1>5, <1>7, <1>8, <2>0, <2>2 DEF Kept
  <2>5. m \in InRange(t)'
    BY <1>3, <2>0, <2>2
  <2> QED BY <2>1, <2>3, <2>4, <2>5 DEF WalkInv
<1>11. SnapshotInv'
  BY <1>1, <1>8, KeptFacts
<1> QED BY <1>1, <1>8, <1>9, <1>10, <1>11 DEF VerifyRunInv

LEMMA WalkBatchKeeps ==
  ASSUME Verify!VerifyAssumption, VerifyRunInv, Verify!WalkBatch
  PROVE  VerifyRunInv'
<1> DEFINE s == verify_run.walk.stream
           l == IF verify_run.walk.last = 0 THEN Verify!LastOf(s) ELSE verify_run.walk.last
<1>1. /\ verify_run.pc = "walk" /\ SnapshotInv /\ CoverageInv /\ WalkInv
      /\ verify_run = [f \in Fields |-> verify_run[f]] /\ s \in verify_run.page /\ s \in DOMAIN verify_run.heads
  BY DEF Verify!WalkBatch, VerifyRunInv, SnapshotInv, WalkInv
<1>2. ASSUME NEW f, NEW events, Verify!EndWalk(s, f, events),
             f = "none" => Verify!WellSealed(s) /\ events = InRange(s), ~verify_run.edited => f = "none"
      PROVE  VerifyRunInv'
  <2>1. verify_run' = [verify_run EXCEPT !.pc = "streams", !.page = @ \ {s},
                                         !.results = Verify!Put(@, s, Verify!Result(f, events)), !.walk = Verify!Empty]
    BY <1>2 DEF Verify!EndWalk
  <2>2. verify_run' = [g \in Fields |-> CASE g = "pc" -> "streams" [] g = "page" -> verify_run.page \ {s}
                                          [] g = "results" -> Verify!Put(verify_run.results, s, Verify!Result(f, events))
                                          [] g = "walk" -> Verify!Empty [] OTHER -> verify_run[g]]
    BY <1>1, <2>1 DEF Fields
  <2>3. /\ Kept /\ verify_run'.pc = "streams" /\ verify_run'.after = verify_run.after /\ verify_run'.failure = verify_run.failure
        /\ verify_run'.page = verify_run.page \ {s} /\ verify_run'.results = Verify!Put(verify_run.results, s, Verify!Result(f, events))
    BY <2>2 DEF Kept, Fields
  <2> QED BY <1>1, <1>2, <2>3, ResultKeeps
<1>3. CASE Verify!Batch = {} /\ Verify!EndWalk(s, Verify!CheckHead(s, l), verify_run.walk.events)
  <2>1. /\ Verify!CheckHead(s, l) = "none" => Verify!WellSealed(s)
        /\ ~verify_run.edited => Verify!CheckHead(s, l) = "none"
    BY <1>1, <1>3, HeadMeansSealed
  <2>2. verify_run.walk.events = InRange(s)
    BY <1>1, <1>3, WalkEnd
  <2> QED BY <1>2, <1>3, <2>1, <2>2
<1>4. CASE Verify!Failing # {} /\ Verify!EndWalk(s, Verify!Fails(Verify!Min(Verify!Failing)), verify_run.walk.events \cup Verify!Before(Verify!Min(Verify!Failing)))
  <2>1. Verify!Failing \subseteq Verify!Batch /\ Verify!Batch \subseteq Nat
    BY <1>1, BatchFacts DEF Verify!Failing
  <2>2. Verify!Min(Verify!Failing) \in Verify!Failing
    BY <1>4, <2>1, MinIn
  <2>3. Verify!Fails(Verify!Min(Verify!Failing)) # "none" /\ verify_run.edited
    BY <1>1, <2>1, <2>2, SealedPasses DEF Verify!Failing
  <2> QED BY <1>2, <1>4, <2>3
<1>5. CASE /\ Verify!Batch # {} /\ Verify!Failing = {}
           /\ verify_run' = [verify_run EXCEPT !.walk =
                                      [stream |-> s, expected |-> Verify!Max(Verify!Batch) + 1,
                                       prev |-> verify_run.rows[s][Verify!Max(Verify!Batch)].sha, last |-> Verify!Max(Verify!Batch),
                                       events |-> verify_run.walk.events \cup Verify!Batch]]
  BY <1>1, <1>5, BatchKeeps
<1> QED BY <1>3, <1>4, <1>5 DEF Verify!WalkBatch
\* Equal results, equal counts: the events walked are the events in scope.
LEMMA CountedIsStored ==
  ASSUME SnapshotInv, CoverageInv, verify_run.pc = "count",
         \A s \in DOMAIN verify_run.results : verify_run.results[s].failure = "none"
  PROVE  Verify!Walked = Verify!InScope
<1>1. \A s \in DOMAIN verify_run.results : verify_run.results[s].events = InRange(s) /\ s \in VerifyStreams
  BY DEF CoverageInv, ResultIsSound
<1>2. verify_run.requested # {} => DOMAIN verify_run.results = verify_run.requested
  BY DEF CoverageInv, Seen
<1>3. Verify!Walked \subseteq Verify!InScope
  <2>1. ASSUME NEW s \in DOMAIN verify_run.results
        PROVE  /\ s \in {t \in VerifyStreams : verify_run.requested = {} \/ t \in verify_run.requested}
               /\ verify_run.results[s].events = {q \in DOMAIN verify_run.rows[s] : q >= verify_run.since}
    BY <1>1, <1>2 DEF InRange
  <2> QED BY <2>1 DEF Verify!Walked, Verify!InScope
<1>4. Verify!InScope \subseteq Verify!Walked
  <2>1. ASSUME NEW s \in VerifyStreams, verify_run.requested = {} \/ s \in verify_run.requested,
               NEW q \in DOMAIN verify_run.rows[s], q >= verify_run.since
        PROVE  s \in DOMAIN verify_run.results /\ q \in verify_run.results[s].events
    <3>1. s \in DOMAIN verify_run.results
      <4>1. CASE verify_run.requested = {}
        BY <4>1 DEF CoverageInv, Exists, Seen
      <4>2. CASE verify_run.requested # {}
        BY <1>2, <2>1, <4>2
      <4> QED BY <4>1, <4>2
    <3> QED BY <1>1, <2>1, <3>1 DEF InRange
  <2> QED BY <2>1 DEF Verify!Walked, Verify!InScope
<1> QED BY <1>3, <1>4

LEMMA CheckCountKeeps ==
  ASSUME VerifyRunInv, Verify!CheckCount
  PROVE  VerifyRunInv'
<1> DEFINE verdict == IF Verify!Ok /\ Cardinality(Verify!Walked) # Cardinality(Verify!InScope)
                      THEN "event_count" ELSE verify_run.failure
<1>1. /\ verify_run.pc = "count" /\ SnapshotInv /\ CoverageInv /\ verify_run = [f \in Fields |-> verify_run[f]]
      /\ verify_run.failure = "none"
  BY DEF Verify!CheckCount, VerifyRunInv, SnapshotInv
<1>2. verify_run' = [verify_run EXCEPT !.pc = "done", !.failure = verdict]
  BY DEF Verify!CheckCount
<1>3. (\A s \in DOMAIN verify_run.results : verify_run.results[s].failure = "none") => verdict = "none"
  BY <1>1, CountedIsStored
<1> HIDE DEF verdict
<1>4. verify_run' = [g \in Fields |-> CASE g = "pc" -> "done" [] g = "failure" -> verdict [] OTHER -> verify_run[g]]
  BY <1>1, <1>2 DEF Fields
<1>5. /\ Kept /\ verify_run'.pc = "done" /\ verify_run'.page = verify_run.page /\ verify_run'.after = verify_run.after
      /\ verify_run'.failure = verdict /\ verify_run'.results = verify_run.results
  BY <1>4 DEF Kept, Fields
<1>6. CoverageInv'
  <2>1. Seen' = Seen /\ \A t \in DOMAIN verify_run.results : ResultIsSound(t)'
    <3>1. Seen' = Seen
      BY <1>5 DEF Seen
    <3>2. ASSUME NEW t \in DOMAIN verify_run.results PROVE ResultIsSound(t)'
      <4>1. ResultIsSound(t) /\ (Verify!WellSealed(t)' <=> Verify!WellSealed(t)) /\ InRange(t)' = InRange(t)
        BY <1>1, <1>5, KeptFacts DEF CoverageInv
      <4> QED BY <1>5, <4>1 DEF ResultIsSound, Kept
    <3> QED BY <3>1, <3>2
  <2> QED BY <1>1, <1>5, <2>1, KeptFacts DEF CoverageInv, Kept
<1>7. SnapshotInv'
  BY <1>1, <1>5, KeptFacts
<1> QED BY <1>3, <1>5, <1>6, <1>7 DEF VerifyRunInv

LEMMA BeginKeeps ==
  ASSUME Verify!VerifyAssumption, VerifyInv, NEW batch \in BatchSizes, NEW since \in Sinces,
         NEW requested \in Selections, Verify!Begin(batch, since, requested)
  PROVE  VerifyRunInv'
<1>1. /\ LedgerTyped(verify_rows, verify_heads) /\ verify_edits \in Nat /\ (verify_edits = 0 => LedgerSealed(verify_rows, verify_heads))
      /\ batch \in Nat \ {0} /\ since \in Nat \ {0} /\ requested \subseteq VerifyStreams
      /\ VerifyStreams \subseteq Nat \ {0}
  BY DEF Verify!VerifyAssumption, VerifyInv, LedgerInv
<1>2. verify_run' = [pc |-> "streams", rows |-> verify_rows, heads |-> verify_heads, edited |-> verify_edits > 0,
                     batch |-> batch, since |-> since, requested |-> requested,
                     after |-> 0, page |-> requested, walk |-> Verify!Empty,
                     results |-> Verify!Empty, failure |-> "none"]
  BY DEF Verify!Begin
<1>3. /\ verify_run' = [f \in Fields |-> verify_run'[f]]
      /\ verify_run'.pc = "streams" /\ verify_run'.rows = verify_rows /\ verify_run'.heads = verify_heads
      /\ verify_run'.batch = batch /\ verify_run'.since = since /\ verify_run'.requested = requested
      /\ verify_run'.after = 0 /\ verify_run'.page = requested /\ verify_run'.results = Verify!Empty /\ verify_run'.failure = "none"
  BY <1>2 DEF Fields
<1>4. ~verify_run'.edited <=> ~(verify_edits > 0)
  BY <1>2
<1>5. SnapshotInv'
  BY <1>1, <1>3, <1>4 DEF SnapshotInv
<1>6. CoverageInv'
  <2>1. DOMAIN verify_run'.results = {}
    BY <1>3 DEF Verify!Empty
  <2>2. Seen' = requested
    BY <1>3, <2>1 DEF Seen
  <2>3. \A s \in VerifyStreams : ~(s <= verify_run'.after)
    BY <1>1, <1>3
  <2> QED BY <1>1, <1>3, <2>1, <2>2, <2>3 DEF CoverageInv
<1> QED BY <1>3, <1>5, <1>6 DEF VerifyRunInv

\* Every step keeps the ledger and the verification as the invariant says.
LEMMA VerifyInvariant == ASSUME Verify!VerifyAssumption PROVE Verify!Spec => []VerifyInv
<1>1. Verify!Init => VerifyInv
  BY LedgerStarts DEF Verify!Init, VerifyInv, VerifyRunInv, Verify!Off
<1>2. ASSUME VerifyInv, [Verify!Next]_(Verify!vars) PROVE VerifyInv'
  <2>0. LedgerInv /\ VerifyRunInv
    BY <1>2 DEF VerifyInv
  <2>1. ASSUME UNCHANGED verify_run PROVE VerifyRunInv'
    <3>1. (SnapshotInv' <=> SnapshotInv) /\ (CoverageInv' <=> CoverageInv) /\ (WalkInv' <=> WalkInv)
      BY <2>1 DEF SnapshotInv, CoverageInv, ResultIsSound, Verify!WellSealed, InRange, Exists, Seen,
                  WalkInv, SealedAt
    <3> QED BY <2>0, <2>1, <3>1 DEF VerifyRunInv
  <2>2. ASSUME UNCHANGED <<verify_rows, verify_heads, verify_edits>> PROVE LedgerInv'
    BY <2>0, <2>2 DEF LedgerInv, LedgerTyped, LedgerSealed
  <2>3. CASE \E s \in VerifyStreams, p \in Payloads : Verify!Append(s, p)
    <3>1. UNCHANGED verify_run
      BY <2>3 DEF Verify!Append
    <3>2. LedgerInv'
      BY <2>0, <2>3, AppendKeeps
    <3> QED BY <2>1, <3>1, <3>2 DEF VerifyInv
  <2>4. CASE \E s \in VerifyStreams : Verify!Edit(s)
    <3>1. UNCHANGED verify_run
      BY <2>4 DEF Verify!Edit
    <3>2. LedgerInv'
      BY <2>0, <2>4, EditKeeps
    <3> QED BY <2>1, <3>1, <3>2 DEF VerifyInv
  <2>5. CASE \E b \in BatchSizes, since \in Sinces, r \in Selections : Verify!Begin(b, since, r)
    <3>1. UNCHANGED <<verify_rows, verify_heads, verify_edits>>
      BY <2>5 DEF Verify!Begin
    <3>2. VerifyRunInv'
      BY <1>2, <2>5, BeginKeeps
    <3> QED BY <2>2, <3>1, <3>2 DEF VerifyInv
  <2>6. CASE Verify!NextStream
    <3>1. UNCHANGED <<verify_rows, verify_heads, verify_edits>>
      BY <2>6 DEF Verify!NextStream
    <3> QED BY <2>0, <2>2, <2>6, <3>1, NextStreamKeeps DEF VerifyInv
  <2>7. CASE Verify!WalkBatch
    <3>1. UNCHANGED <<verify_rows, verify_heads, verify_edits>>
      BY <2>7 DEF Verify!WalkBatch
    <3> QED BY <2>0, <2>2, <2>7, <3>1, WalkBatchKeeps DEF VerifyInv
  <2>8. CASE Verify!CheckCount
    <3>1. UNCHANGED <<verify_rows, verify_heads, verify_edits>>
      BY <2>8 DEF Verify!CheckCount
    <3> QED BY <2>0, <2>2, <2>8, <3>1, CheckCountKeeps DEF VerifyInv
  <2>9. CASE UNCHANGED Verify!vars
    <3>1. UNCHANGED verify_run /\ UNCHANGED <<verify_rows, verify_heads, verify_edits>>
      BY <2>9 DEF Verify!vars
    <3> QED BY <2>1, <2>2, <3>1 DEF VerifyInv
  <2> QED BY <1>2, <2>3, <2>4, <2>5, <2>6, <2>7, <2>8, <2>9 DEF Verify!Next
<1> QED BY <1>1, <1>2, PTL DEF Verify!Spec

\* A verification that reports ok saw streams as sealing leaves them, and one
\* of a ledger nobody edited fails at most a requested stream that is not there.
THEOREM VerificationsAreSound == ASSUME Verify!VerifyAssumption PROVE Verify!Spec => []Verify!VerifySound
<1>1. ASSUME VerifyInv PROVE Verify!OkMeansSealed
  <2>1. SUFFICES ASSUME Verify!Done, Verify!Ok, NEW s \in Verify!Scope PROVE Verify!WellSealed(s)
    BY DEF Verify!OkMeansSealed
  <2>2. CoverageInv /\ SnapshotInv /\ verify_run.pc = "done"
    BY <1>1, <2>1 DEF Verify!Done, VerifyInv, VerifyRunInv
  <2>3. s \in VerifyStreams
    BY <2>1, <2>2 DEF Verify!Scope, SnapshotInv
  <2>4. CASE s \in DOMAIN verify_run.results
    BY <2>1, <2>2, <2>4 DEF Verify!Ok, CoverageInv, ResultIsSound
  <2>5. CASE s \notin DOMAIN verify_run.results
    <3>1. verify_run.requested = {}
      BY <2>1, <2>2, <2>5 DEF Verify!Scope, CoverageInv, Seen
    <3>2. ~Exists(s)
      BY <2>2, <2>3, <2>5, <3>1 DEF CoverageInv, Seen
    <3> QED BY <3>2 DEF Exists, Verify!WellSealed
  <2> QED BY <2>4, <2>5
<1>2. ASSUME VerifyInv PROVE Verify!NoFalseAlarm
  <2>1. SUFFICES ASSUME Verify!Done, ~verify_run.edited, ~Verify!Ok
                 PROVE  \E s \in verify_run.requested : verify_run.results[s].failure = "stream_exists"
    BY DEF Verify!NoFalseAlarm
  <2>2. /\ CoverageInv /\ verify_run.pc = "done"
        /\ (\A s \in DOMAIN verify_run.results : verify_run.results[s].failure = "none") => verify_run.failure = "none"
    BY <1>2, <2>1 DEF Verify!Done, VerifyInv, VerifyRunInv
  <2>3. PICK s \in DOMAIN verify_run.results : verify_run.results[s].failure # "none"
    BY <2>1, <2>2 DEF Verify!Ok
  <2> QED BY <2>1, <2>2, <2>3 DEF CoverageInv, ResultIsSound
<1> QED BY <1>1, <1>2, VerifyInvariant, PTL DEF Verify!VerifySound

HIDE VerifySets

-----------------------------------------------------------------------------
\* How a verification is put on record (RunReport).
Reports == INSTANCE RunReport WITH
  counts <- report_counts, log <- report_log, v <- report_v

\* What the ledger holds was some verifier's finding.
FindingsWhole ==
  \A e \in report_log : e.finding = [projector |-> e.finding.projector, outcome |-> e.finding.outcome,
                                     count |-> e.finding.count]

VerifiersWhole ==
  /\ report_v = [i \in Verifiers |-> report_v[i]]
  /\ \A i \in Verifiers :
       report_v[i] = [pc |-> report_v[i].pc, ranges |-> report_v[i].ranges, outcome |-> report_v[i].outcome,
                      stored |-> report_v[i].stored, result |-> report_v[i].result, runs |-> report_v[i].runs]

\* The keys a verifier read are stored; one alone has read all that are.
StoredIsCurrent ==
  \A i \in Verifiers :
    report_v[i].pc = "ingest" => /\ report_v[i].stored \subseteq Reports!StoredKeys
                                 /\ Reports!OneVerifier => report_v[i].stored = {Reports!Key(f) : f \in Reports!Runs(i)} \cap Reports!StoredKeys

Collected == {"scan", "read", "ingest"}

\* Without appends every range is empty, so a report is stored as a whole.
AllSame ==
  Reports!SameRanges =>
            /\ report_counts = [p \in Projectors |-> 0]
            /\ \A i \in Verifiers :
                 /\ \A p \in DOMAIN report_v[i].ranges : report_v[i].ranges[p] = 0
                 /\ report_v[i].pc \in Collected => DOMAIN report_v[i].ranges = Projectors
            /\ \A e \in report_log : /\ e.finding.count = 0
                                     /\ \A p \in Projectors : \E g \in report_log :
                                          g.finding = [projector |-> p, outcome |-> e.finding.outcome, count |-> 0]

ReportInv ==
  FindingsWhole /\ VerifiersWhole /\ StoredIsCurrent /\ AllSame
    /\ (Reports!OneVerifier \/ Reports!SameRanges => Reports!ReportedIsRecorded)

LEMMA ReportStarts == ASSUME Reports!Init PROVE ReportInv
<1>1. FindingsWhole /\ VerifiersWhole /\ StoredIsCurrent /\ Reports!ReportedIsRecorded
  BY DEF Reports!Init, Reports!Idle, FindingsWhole, VerifiersWhole, StoredIsCurrent, Reports!ReportedIsRecorded
<1>2. AllSame
  BY DEF Reports!Init, Reports!Idle, AllSame, Collected
<1> QED BY <1>1, <1>2 DEF ReportInv

\* A finding is known by its key.
LEMMA KeyIsFinding ==
  ASSUME FindingsWhole, NEW i \in Verifiers, NEW f \in Reports!Runs(i), Reports!Key(f) \in Reports!StoredKeys
  PROVE  \E e \in report_log : e.finding = f
<1>1. PICK e \in report_log : Reports!Key(e.finding) = Reports!Key(f)
  BY DEF Reports!StoredKeys
<1>2. e.finding = [projector |-> e.finding.projector, outcome |-> e.finding.outcome,
                   count |-> e.finding.count]
  BY DEF FindingsWhole
<1>3. f = [projector |-> f.projector, outcome |-> f.outcome, count |-> f.count]
  BY DEF Reports!Runs
<1>4. /\ e.finding.projector = f.projector /\ e.finding.outcome = f.outcome
      /\ e.finding.count = f.count
  BY <1>1 DEF Reports!Key
<1> QED BY <1>2, <1>3, <1>4

\* Of the same ranges a verifier's findings are all stored once one of them is.
LEMMA OneOfSameIsAll ==
  ASSUME Reports!SameRanges, ReportInv, NEW i \in Verifiers, report_v[i].pc = "ingest",
         NEW f \in Reports!Runs(i), Reports!Key(f) \in Reports!StoredKeys, NEW g \in Reports!Runs(i)
  PROVE  \E e \in report_log : e.finding = g
<1>1. PICK e \in report_log : e.finding = f
  BY KeyIsFinding DEF ReportInv
<1>2. DOMAIN report_v[i].ranges = Projectors /\ \A p \in Projectors : report_v[i].ranges[p] = 0
  BY DEF ReportInv, AllSame, Collected
<1>3. PICK p \in Projectors : g = [projector |-> p, outcome |-> report_v[i].outcome, count |-> 0]
  BY <1>2 DEF Reports!Runs
<1>4. e.finding.outcome = report_v[i].outcome
  BY <1>1 DEF Reports!Runs
<1> QED BY <1>3, <1>4 DEF ReportInv, AllSame

LEMMA ReportIngests ==
  ASSUME ReportInv, NEW i \in Verifiers, Reports!Ingest(i)
  PROVE  ReportInv'
<1> DEFINE fresh == {f \in Reports!Runs(i) : Reports!Key(f) \notin report_v[i].stored}
           mine == {[finding |-> f, by |-> <<i, report_v[i].runs>>] : f \in fresh}
<1>1. report_v[i].pc = "ingest" /\ report_v[i].stored \subseteq Reports!StoredKeys
  BY DEF Reports!Ingest, ReportInv, StoredIsCurrent
<1>2. PICK result :
        /\ Reports!Finish(i, result)
        /\ \/ result = "recorded" /\ report_log' = report_log \cup mine
           \/ result = "recorded" /\ report_log' = report_log /\ {Reports!Key(f) : f \in fresh} \cap Reports!StoredKeys # {}
           \/ result = "record_failed" /\ report_log' = report_log
  BY DEF Reports!Ingest
<1>3. /\ report_v'[i] = [report_v[i] EXCEPT !.pc = "idle", !.ranges = <<>>, !.stored = {},
                                            !.result = [of |-> Reports!Runs(i), is |-> result], !.runs = @ + 1]
      /\ report_v' = [j \in Verifiers |-> report_v'[j]] /\ \A j \in Verifiers : j # i => report_v'[j] = report_v[j]
  BY <1>2 DEF Reports!Finish, ReportInv, VerifiersWhole
<1>4. /\ report_v'[i].pc = "idle" /\ report_v'[i].ranges = <<>> /\ report_v'[i].result = [of |-> Reports!Runs(i), is |-> result]
      /\ report_v'[i] = [pc |-> report_v'[i].pc, ranges |-> report_v'[i].ranges, outcome |-> report_v'[i].outcome,
                         stored |-> report_v'[i].stored, result |-> report_v'[i].result, runs |-> report_v'[i].runs]
  BY <1>3 DEF ReportInv, VerifiersWhole
<1>5. \A e \in mine : /\ e.finding \in Reports!Runs(i)
                      /\ e.finding = [projector |-> e.finding.projector, outcome |-> report_v[i].outcome,
                                      count |-> e.finding.count]
                      /\ e.finding.outcome = report_v[i].outcome
  BY DEF Reports!Runs
<1>6. report_log \subseteq report_log' /\ \A e \in report_log' : e \in report_log \/ (e \in mine /\ report_log' = report_log \cup mine)
  BY <1>2
<1>7. FindingsWhole' /\ VerifiersWhole'
  <2>1. FindingsWhole'
    BY <1>5, <1>6 DEF ReportInv, FindingsWhole
  <2> QED BY <1>3, <1>4, <2>1 DEF ReportInv, VerifiersWhole
<1>8. result = "recorded" /\ (Reports!OneVerifier \/ Reports!SameRanges) => \A f \in Reports!Runs(i) : \E e \in report_log' : e.finding = f
  <2>1. SUFFICES ASSUME result = "recorded", Reports!OneVerifier \/ Reports!SameRanges, NEW f \in Reports!Runs(i)
                 PROVE  \E e \in report_log' : e.finding = f
    OBVIOUS
  <2>2. CASE report_log' = report_log \cup mine
    <3>1. CASE f \in fresh
      <4>1. [finding |-> f, by |-> <<i, report_v[i].runs>>] \in report_log'
        BY <2>2, <3>1
      <4> QED BY <4>1
    <3>2. CASE f \notin fresh
      BY <1>1, <1>6, <3>2, KeyIsFinding DEF ReportInv
    <3> QED BY <3>1, <3>2
  <2>3. CASE {Reports!Key(g) : g \in fresh} \cap Reports!StoredKeys # {}
    <3>1. PICK g \in Reports!Runs(i) : Reports!Key(g) \in Reports!StoredKeys /\ Reports!Key(g) \notin report_v[i].stored
      BY <2>3
    <3>2. ~Reports!OneVerifier
      BY <1>1, <3>1 DEF ReportInv, StoredIsCurrent
    <3>3. Reports!SameRanges
      BY <2>1, <3>2
    <3> QED BY <1>1, <1>6, <3>1, <3>3, OneOfSameIsAll
  <2> QED BY <1>2, <2>1, <2>2, <2>3
<1>9. Reports!OneVerifier \/ Reports!SameRanges => Reports!ReportedIsRecorded'
  <2>1. SUFFICES ASSUME Reports!OneVerifier \/ Reports!SameRanges, NEW j \in Verifiers,
                        report_v'[j].result # None, report_v'[j].result.is = "recorded"
                 PROVE  report_v'[j].result.of \subseteq {e.finding : e \in report_log'}
    BY DEF Reports!ReportedIsRecorded
  <2>2. CASE j = i
    BY <1>4, <1>8, <2>1, <2>2
  <2>3. CASE j # i
    BY <1>3, <1>6, <2>1, <2>3 DEF ReportInv, Reports!ReportedIsRecorded
  <2> QED BY <2>2, <2>3
<1>10. StoredIsCurrent'
  <2>1. Reports!StoredKeys \subseteq Reports!StoredKeys'
    BY <1>6 DEF Reports!StoredKeys
  <2>2. \A j \in Verifiers : report_v'[j].pc = "ingest" => j # i /\ report_v'[j] = report_v[j]
    BY <1>3, <1>4
  <2>3. \A j \in Verifiers : report_v'[j].pc = "ingest" => ~Reports!OneVerifier
    BY <2>2 DEF Reports!OneVerifier
  <2> QED BY <2>1, <2>2, <2>3 DEF ReportInv, StoredIsCurrent
<1>11. AllSame'
  <2>1. SUFFICES ASSUME Reports!SameRanges
                 PROVE  /\ report_counts' = [p \in Projectors |-> 0]
                        /\ \A j \in Verifiers :
                             /\ \A p \in DOMAIN report_v'[j].ranges : report_v'[j].ranges[p] = 0
                             /\ report_v'[j].pc \in Collected => DOMAIN report_v'[j].ranges = Projectors
                        /\ \A e \in report_log' :
                             /\ e.finding.count = 0
                             /\ \A p \in Projectors : \E g \in report_log' :
                                  g.finding = [projector |-> p, outcome |-> e.finding.outcome, count |-> 0]
    BY DEF AllSame, Reports!SameRanges
  <2>2. report_counts' = [p \in Projectors |-> 0]
    BY <2>1 DEF Reports!Ingest, ReportInv, AllSame
  <2>3. \A j \in Verifiers : /\ \A p \in DOMAIN report_v'[j].ranges : report_v'[j].ranges[p] = 0
                             /\ report_v'[j].pc \in Collected => DOMAIN report_v'[j].ranges = Projectors
    BY <1>3, <1>4, <2>1 DEF ReportInv, AllSame, Collected
  <2>4. DOMAIN report_v[i].ranges = Projectors /\ \A p \in Projectors : report_v[i].ranges[p] = 0
    BY <1>1, <2>1 DEF ReportInv, AllSame, Collected
  <2>5. ASSUME NEW e \in report_log' PROVE /\ e.finding.count = 0
                                           /\ \A p \in Projectors : \E g \in report_log' :
                                                g.finding = [projector |-> p, outcome |-> e.finding.outcome, count |-> 0]
    <3>1. CASE e \in report_log
      BY <1>6, <2>1, <3>1 DEF ReportInv, AllSame
    <3>2. CASE e \in mine /\ report_log' = report_log \cup mine /\ e \notin report_log
      <4>1. e.finding.count = 0
        BY <1>5, <2>4, <3>2 DEF Reports!Runs
      <4>2. ASSUME NEW p \in Projectors
            PROVE  \E g \in report_log' : g.finding = [projector |-> p, outcome |-> e.finding.outcome, count |-> 0]
        <5>1. [projector |-> p, outcome |-> report_v[i].outcome, count |-> 0] \in Reports!Runs(i)
          BY <2>4 DEF Reports!Runs
        <5>2. e.finding.outcome = report_v[i].outcome
          BY <1>5, <3>2
        <5>3. result = "recorded"
          BY <1>2, <3>2
        <5> QED BY <1>8, <2>1, <3>2, <5>1, <5>2, <5>3
      <4> QED BY <4>1, <4>2
    <3> QED BY <1>6, <3>1, <3>2
  <2> QED BY <2>2, <2>3, <2>5
<1> QED BY <1>7, <1>9, <1>10, <1>11 DEF ReportInv

\* A step of a verifier that neither reports nor stores.
LEMMA ReportPrepares ==
  ASSUME ReportInv, NEW i \in Verifiers, report_log' = report_log, report_counts' = report_counts,
         report_v' = [j \in Verifiers |-> report_v'[j]], \A j \in Verifiers : j # i => report_v'[j] = report_v[j],
         report_v'[i] = [pc |-> report_v'[i].pc, ranges |-> report_v'[i].ranges, outcome |-> report_v'[i].outcome,
                         stored |-> report_v'[i].stored, result |-> report_v'[i].result, runs |-> report_v'[i].runs],
         report_v'[i].result \in {report_v[i].result, None},
         report_v'[i].pc = "ingest" => /\ report_v'[i].stored = {Reports!Key(f) : f \in Reports!Runs(i)} \cap Reports!StoredKeys
                                       /\ report_v'[i].ranges = report_v[i].ranges /\ report_v'[i].outcome = report_v[i].outcome,
         Reports!SameRanges => /\ \A p \in DOMAIN report_v'[i].ranges : report_v'[i].ranges[p] = 0
                               /\ report_v'[i].pc \in Collected => DOMAIN report_v'[i].ranges = Projectors
  PROVE  ReportInv'
<1>1. report_v' = [j \in Verifiers |-> report_v'[j]] /\ \A j \in Verifiers : j # i => report_v'[j] = report_v[j]
  OBVIOUS
<1>2. FindingsWhole' /\ VerifiersWhole'
  BY <1>1 DEF ReportInv, FindingsWhole, VerifiersWhole
<1>3. Reports!StoredKeys' = Reports!StoredKeys
  BY DEF Reports!StoredKeys
<1>4. StoredIsCurrent'
  <2>1. SUFFICES ASSUME NEW j \in Verifiers, report_v'[j].pc = "ingest"
                 PROVE  /\ report_v'[j].stored \subseteq Reports!StoredKeys
                        /\ Reports!OneVerifier => report_v'[j].stored = {Reports!Key(f) : f \in Reports!Runs(j)'} \cap Reports!StoredKeys
    BY <1>3 DEF StoredIsCurrent, Reports!OneVerifier
  <2>2. Reports!Runs(j)' = Reports!Runs(j)
    BY <1>1, <2>1 DEF Reports!Runs
  <2> QED BY <1>1, <2>1, <2>2 DEF ReportInv, StoredIsCurrent
<1>5. AllSame'
  BY <1>1 DEF ReportInv, AllSame, Reports!SameRanges
<1>6. Reports!OneVerifier \/ Reports!SameRanges => Reports!ReportedIsRecorded'
  BY <1>1 DEF ReportInv, Reports!ReportedIsRecorded
<1> QED BY <1>2, <1>4, <1>5, <1>6 DEF ReportInv, Reports!OneVerifier, Reports!SameRanges

LEMMA ReportKeeps ==
  ASSUME Reports!ReportAssumption, ReportInv, [Reports!Next]_(Reports!vars)
  PROVE  ReportInv'
<1>1. CASE UNCHANGED <<report_log, report_v>> /\ (Reports!SameRanges => report_counts' = report_counts)
  <2>1. FindingsWhole' /\ VerifiersWhole' /\ (Reports!OneVerifier \/ Reports!SameRanges => Reports!ReportedIsRecorded')
    BY <1>1 DEF ReportInv, FindingsWhole, VerifiersWhole, Reports!ReportedIsRecorded
  <2>2. StoredIsCurrent' /\ AllSame'
    BY <1>1 DEF ReportInv, StoredIsCurrent, Reports!StoredKeys, Reports!Runs, AllSame, Reports!SameRanges, Reports!OneVerifier
  <2> QED BY <2>1, <2>2 DEF ReportInv, Reports!OneVerifier, Reports!SameRanges
<1>2. ASSUME NEW p \in Projectors, Reports!Append(p) PROVE ReportInv'
  <2>1. ~Reports!SameRanges \/ p \notin Projectors \/ report_counts # [q \in Projectors |-> 0]
    BY <1>2 DEF Reports!Append, Reports!SameRanges
  <2> QED BY <1>1, <1>2, <2>1 DEF Reports!Append, ReportInv, AllSame
<1>3. ASSUME NEW i \in Verifiers, NEW p \in Projectors, Reports!Collect(i, p) PROVE ReportInv'
  <2> DEFINE ranges == [q \in DOMAIN report_v[i].ranges \cup {p} |-> IF q = p THEN report_counts[p] ELSE report_v[i].ranges[q]]
             at == IF DOMAIN ranges = Projectors THEN "scan" ELSE "collect"
  <2>1. report_v' = [report_v EXCEPT ![i].ranges = ranges, ![i].result = None, ![i].pc = at]
    BY <1>3 DEF Reports!Collect
  <2>2. Reports!SameRanges => \A q \in DOMAIN ranges : ranges[q] = 0
    BY DEF ReportInv, AllSame
  <2>3. at \in {"scan", "collect"} /\ (at = "scan" => DOMAIN ranges = Projectors)
    OBVIOUS
  <2> HIDE DEF ranges, at
  <2>4. /\ report_v'[i] = [report_v[i] EXCEPT !.ranges = ranges, !.result = None, !.pc = at]
        /\ report_v' = [j \in Verifiers |-> report_v'[j]] /\ \A j \in Verifiers : j # i => report_v'[j] = report_v[j]
    BY <2>1 DEF ReportInv, VerifiersWhole
  <2>5. /\ report_v'[i].ranges = ranges /\ report_v'[i].result = None /\ report_v'[i].pc = at
        /\ report_v'[i] = [pc |-> report_v'[i].pc, ranges |-> report_v'[i].ranges, outcome |-> report_v'[i].outcome,
                            stored |-> report_v'[i].stored, result |-> report_v'[i].result, runs |-> report_v'[i].runs]
    BY <2>4 DEF ReportInv, VerifiersWhole
  <2>6. report_log' = report_log /\ report_counts' = report_counts
    BY <1>3 DEF Reports!Collect
  <2> QED BY <2>2, <2>3, <2>4, <2>5, <2>6, ReportPrepares DEF Collected
<1>4. ASSUME NEW i \in Verifiers, Reports!Scan(i) PROVE ReportInv'
  <2>1. PICK o : report_v' = [report_v EXCEPT ![i].outcome = o, ![i].pc = "read"]
    BY <1>4 DEF Reports!Scan
  <2>2. /\ report_v'[i] = [report_v[i] EXCEPT !.outcome = o, !.pc = "read"]
        /\ report_v' = [j \in Verifiers |-> report_v'[j]] /\ \A j \in Verifiers : j # i => report_v'[j] = report_v[j]
    BY <2>1 DEF ReportInv, VerifiersWhole
  <2>3. /\ report_v'[i].ranges = report_v[i].ranges /\ report_v'[i].result = report_v[i].result /\ report_v'[i].pc = "read"
        /\ report_v'[i] = [pc |-> report_v'[i].pc, ranges |-> report_v'[i].ranges, outcome |-> report_v'[i].outcome,
                            stored |-> report_v'[i].stored, result |-> report_v'[i].result, runs |-> report_v'[i].runs]
    BY <2>2 DEF ReportInv, VerifiersWhole
  <2>4. Reports!SameRanges => /\ \A q \in DOMAIN report_v[i].ranges : report_v[i].ranges[q] = 0
                              /\ DOMAIN report_v[i].ranges = Projectors
    BY <1>4 DEF Reports!Scan, ReportInv, AllSame, Collected
  <2>5. report_log' = report_log /\ report_counts' = report_counts
    BY <1>4 DEF Reports!Scan
  <2> QED BY <2>2, <2>3, <2>4, <2>5, ReportPrepares DEF Collected
<1>5. ASSUME NEW i \in Verifiers, Reports!ReadStored(i) PROVE ReportInv'
  <2> DEFINE read == {Reports!Key(f) : f \in Reports!Runs(i)} \cap Reports!StoredKeys
  <2>1. report_v' = [report_v EXCEPT ![i].stored = read, ![i].pc = "ingest"]
    BY <1>5 DEF Reports!ReadStored
  <2> HIDE DEF read
  <2>2. /\ report_v'[i] = [report_v[i] EXCEPT !.stored = read, !.pc = "ingest"]
        /\ report_v' = [j \in Verifiers |-> report_v'[j]] /\ \A j \in Verifiers : j # i => report_v'[j] = report_v[j]
    BY <2>1 DEF ReportInv, VerifiersWhole
  <2>3. /\ report_v'[i].ranges = report_v[i].ranges /\ report_v'[i].result = report_v[i].result /\ report_v'[i].outcome = report_v[i].outcome
        /\ report_v'[i].pc = "ingest" /\ report_v'[i].stored = read
        /\ report_v'[i] = [pc |-> report_v'[i].pc, ranges |-> report_v'[i].ranges, outcome |-> report_v'[i].outcome,
                            stored |-> report_v'[i].stored, result |-> report_v'[i].result, runs |-> report_v'[i].runs]
    BY <2>2 DEF ReportInv, VerifiersWhole
  <2>4. Reports!SameRanges => /\ \A q \in DOMAIN report_v[i].ranges : report_v[i].ranges[q] = 0
                              /\ DOMAIN report_v[i].ranges = Projectors
    BY <1>5 DEF Reports!ReadStored, ReportInv, AllSame, Collected
  <2>5. report_log' = report_log /\ report_counts' = report_counts
    BY <1>5 DEF Reports!ReadStored
  <2> QED BY <2>2, <2>3, <2>4, <2>5, ReportPrepares DEF Collected, read
<1>6. CASE UNCHANGED Reports!vars
  BY <1>1, <1>6 DEF Reports!vars
<1> QED BY <1>2, <1>3, <1>4, <1>5, <1>6, ReportIngests DEF Reports!Next

\* What a verification reports as recorded is in the ledger, its own event or
\* an earlier identical one, where one verifier runs at a time or all saw the
\* same ranges (ProjectionEventRecorder.record).
THEOREM RecordsAreSound == ASSUME Reports!ReportAssumption PROVE Reports!Spec => []Reports!RecordsSound
<1>1. Reports!Init => ReportInv
  BY ReportStarts
<1>2. ReportInv /\ [Reports!Next]_(Reports!vars) => ReportInv'
  BY ReportKeeps
<1>3. ReportInv => Reports!RecordsSound
  BY DEF ReportInv, Reports!RecordsSound
<1> QED BY <1>1, <1>2, <1>3, PTL DEF Reports!Spec

-----------------------------------------------------------------------------
\* A verification neither hides a broken ledger nor reports a sound one, and
\* records what it reports.
\* - A verification that reports ok saw streams exactly as sealing leaves
\*   them (LedgerVerify).
\* - A ledger nobody edited is never reported broken, for every range.
\* - A report that counts as recorded has each finding in the ledger
\*   (RunReport).
VerificationSound ==
  /\ part = "verify" => Verify!VerifySound
  /\ part = "report" => Reports!RecordsSound

\* Verifications and their records together, for any ledger, edits, arguments
\* and verifiers.
THEOREM VerificationIsSound ==
  ASSUME Verify!VerifyAssumption, Reports!ReportAssumption
  PROVE  Verify!Spec /\ Reports!Spec => []VerificationSound
<1>1. Verify!VerifySound /\ Reports!RecordsSound => VerificationSound
  BY DEF VerificationSound
<1> QED BY <1>1, VerificationsAreSound, RecordsAreSound, PTL

-----------------------------------------------------------------------------
\* What is projected from the ledger: rebuilds, the search index and the scan
\* of a graph, each proved in its module.
Live == INSTANCE Rebuild WITH
  outbox <- rebuild_outbox, checkpoints <- rebuild_checkpoints, graph <- rebuild_graph,
  marker <- rebuild_marker, worker <- rebuild_worker, rebuild <- rebuild_runs,
  shared <- rebuild_shared, exclusive <- rebuild_exclusive, failures <- rebuild_failures,
  lost_locks <- rebuild_lost_locks, Rows <- ReplayRows, Workers <- RebuildWorkers,
  Modes <- RebuildModes, PageSize <- ReplayPage, MaxFailures <- RebuildFailures
Search == INSTANCE SearchIndex WITH
  status <- search_status, attempts <- search_attempts, crashes <- search_crashes,
  docs <- search_docs, tomb <- search_tomb, nodes <- search_nodes, standby <- search_standby,
  lost <- search_lost, w <- search_worker, r <- search_replay, Events <- SearchEvents,
  Workers <- SearchWorkers, Contents <- SearchContents, MaxCrashes <- SearchCrashes,
  Modes <- ReplayModes
Digest == INSTANCE GraphDigest WITH
  kind <- digest_kind, edges <- digest_edges, batch <- digest_batch, pass <- digest_pass,
  after <- digest_after, nodeHashes <- digest_nodeHashes, relHashes <- digest_relHashes,
  missing <- digest_missing, pending <- digest_pending, orphans <- digest_orphans,
  Nodes <- DigestNodes, Kinds <- NodeKinds, Ledger <- DigestLedger, Batches <- DigestBatches

\* What the markers and checkpoints of a rebuilt projection say is true.
\* - A graph marker that names a version tells the truth, also after
\*   crashes and while two versions run (narrow_projection_history).
\* - A checkpoint that verification accepts never claims progress the graph
\*   lacks (classify_projector).
RebuildSound == part = "rebuild" => Live!RebuildSound

\* A single rebuild makes no claim ahead of what it replayed.
\* - While it keeps the lock and no row was given up, it is verified only when
\*   its target holds every delivered event (LocksKept, OneRebuild and
\*   NoneGivenUp; _verify_replayed_target).
\* - If the projector handles every event of its one version, a checkpoint
\*   becomes active only over a complete graph (OneRebuild, OneVersion and
\*   HandlesAll; _finalize_checkpoints): the case of LostLockHonest, whose
\*   lock may be lost.
RebuildHonest == [][part = "rebuild" => Live!ClaimsAreHonest]_(Live!vars)

\* The search index shows what was delivered and nothing that was purged,
\* live and replayed.
\* - No document row outlives the tombstone of its content.
\* - A delivered event is searchable, row and vector.
\* - Row and vector of one content ID describe the same bytes in the same
\*   scope.
\* - A rebuild that passed check_replay never fails after it wiped the
\*   index.
\* - A replay never indexes content the ledger purged.
\* - A standby graph never receives purged content.
SearchSound == part = "search" => Search!SearchSound

\* The scan of a graph that a verification compares is exact and bounded.
\* - Every node and relationship is hashed exactly once
\*   (compute_graph_digest).
\* - The source IDs the ledger lacks are reported, and no other
\*   (OrphanCollector).
\* - A keyed node without any identity is reported once.
\* - The scan holds one bounded set of source IDs.
ScanExact == part = "digest" => Digest!ScanExact

RebuildAssumptions ==
  /\ Live!RowsAssumption /\ Live!ProcessAssumption /\ Live!ModesAssumption
  /\ Live!SizesAssumption /\ Live!BoundsAssumption

\* For any rows, versions, workers, rebuilds, crashes and lost locks: markers
\* and checkpoints claim no more than the graph holds, under the conditions
\* on versions, workers and locks that each claim needs.
THEOREM RebuildsAreSound == ASSUME RebuildAssumptions PROVE Live!Spec => []RebuildSound
<1>1. Live!Spec => []Live!RebuildSound
  BY Live!RebuildsAreSound DEF RebuildAssumptions, Live!Assumptions
<1>2. Live!RebuildSound => RebuildSound
  BY DEF RebuildSound
<1> QED BY <1>1, <1>2, PTL

\* For the same, of a single rebuild: a step makes a checkpoint active only
\* over a complete graph if there is one version and the projector handles every
\* event (OneRebuild, OneVersion, HandlesAll), with the lock kept or lost; a step
\* verifies only a complete target while the lock is kept and no row was given
\* up (LocksKept, OneRebuild, NoneGivenUp).  Without these conditions it does not
\* hold: a projector that handles only some events commits over a gap
\* once its lock is lost.
THEOREM RebuildsAreHonest == ASSUME RebuildAssumptions PROVE Live!Spec => RebuildHonest
<1>1. Live!Spec => [][Live!ClaimsAreHonest]_(Live!vars)
  BY Live!RebuildsAreHonest DEF RebuildAssumptions, Live!Assumptions, Live!RebuildHonest
<1>2. [Live!ClaimsAreHonest]_(Live!vars) => [part = "rebuild" => Live!ClaimsAreHonest]_(Live!vars)
  OBVIOUS
<1> QED BY <1>1, <1>2, PTL DEF RebuildHonest

\* For any events, workers, crashes, lost bytes and replays: what the search
\* index promises live and in a replay.
THEOREM SearchIsSound == ASSUME Search!SearchAssumption PROVE Search!Spec => []SearchSound
<1>1. Search!Spec => []Search!SearchSound
  BY Search!SearchIsSound
<1>2. Search!SearchSound => SearchSound
  BY DEF SearchSound
<1> QED BY <1>1, <1>2, PTL

\* For any graph, label order, page and batch size: the paged scan of a graph
\* is exact and bounded.
THEOREM ScansAreExact == ASSUME Digest!DigestAssumption PROVE Digest!Spec => []ScanExact
<1>1. Digest!Spec => []Digest!ScanExact
  BY Digest!ScansAreExact
<1>2. Digest!ScanExact => ScanExact
  BY DEF ScanExact
<1> QED BY <1>1, <1>2, PTL

=============================================================================
