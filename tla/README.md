# Agent Context Platform: a TLA+ verification project

The platform stores what coding agents do as an append-only ledger of events,
projects the ledger into a Neo4j graph and search tables, indexes source code
into the same ledger, and answers questions from all of it. This project models
the parts whose correctness depends on how concurrent transactions, processes,
files and failures interleave, and the algorithms in which many inputs can meet
badly; it checks them with TLC and proves the central results with TLAPS. Paths
below are relative to `src/src/agent_context_platform/`.

## 1. The system

| Component | State | Operations | Interacts with |
|---|---|---|---|
| Event ledger (`ledger/repository.py`, `ledger/service.py`) | stream heads, hash-chained events, the outbox row of each event | `ingest`, `append_with_outcome`, `_reject` | producers over HTTP; content store in the same transaction; outbox to the projection |
| Content store and orphan sweep (`content/`) | S3 objects, catalog rows, inline contents | `prepare`, `attach`, `read`; `run`, `_sweep_one` | each other, through S3 and one advisory lock per digest |
| Projection runtime (`projection/runtime.py`, `checkpoints.py`, `cli.py` `run`) | outbox (status, lease, retries), checkpoints, dead letters, graph | claim, project, finalize, release | ledger, Neo4j, rebuilds through one advisory lock |
| Rebuild and verification (`projection/verify.py`, `schema.py`) | graph, checkpoints, history marker, report events | wipe, replay, rewrite checkpoints, scan, compare, report | excludes the workers by the rebuild lock; writes its report through `ingest` |
| Ledger verification (`ledger/verify.py`) | none (one snapshot) | `verify_ledger` | the ledger |
| Projectors (`projection/projectors/`) | nodes, edges, derived intervals; search documents, vectors, tombstones | `project`, purge, replay checks | called by the runtime and by a rebuild |
| OTLP receiver (`ledger/otlp_api.py`, `otlp_wire.py`, `codex_otel.py`) | decode gate | scan, decode, map, resubmit without offenders | `IngestionService.ingest` |
| Authentication and MCP (`mcp/`, `security/bearer.py`, `ledger/auth.py`) | principal cache, hash admission, token buckets, audit | authenticate, admit, limit | database, retrieval |
| Operations (`operations/`, `cli.py`) | credential rows and files, migration lock, in-flight probes | issue, rotate, revoke, upgrade, probe | database, file system |
| Indexing (`indexing/`) | none between runs but the ledger | scan, lineage, parse in child processes, bind names, import SCIP, build and submit claims | a worktree that its owner edits; the ledger |
| Retrieval (`retrieval/`) | none but what a cursor carries | revision views, traversals, decisions and failures in time, gather, rank, page | graph, search tables and ledger, all of which move between two reads |

What is hard, and which property answers it, is the list `hazards` of
`PROJECT.json`. The themes:

- a worker, a sweep, a verifier or an indexer that comes back after somebody took
  over what it held;
- a crash between two commits in two stores (graph and checkpoint, row and vector,
  credential file and credential row);
- a state read before an await and used after it (a principal, a listing, a
  snapshot of a file, a freshness watermark);
- events delivered in any order and more than once to projectors that promise
  convergence;
- caps and budgets that cut an answer, which must not make it wrong or silent;
- requests cancelled while a thread or a process they started cannot be stopped.

### What makes each component correct

- *Ledger*: every stream is one unbroken chain; an idempotency key is used once;
  a batch is stored whole or not at all; what a producer is told stays true;
  batches do not deadlock and are all answered.
- *Content store and sweep*: a committed reference has its row and its object; an
  upload is not deleted under a running request; an ordinary race raises no alarm.
- *Projection*: a delivered row is in the graph; checkpoints, attempts and dead
  letters are exact; leases are respected; every row is settled.
- *Rebuild and verification*: a marker, a checkpoint and a verdict never claim
  more than the graph holds; a scan counts everything once; a report that counts
  as recorded is recorded.
- *Projectors*: the graph depends on the set of events only; absence is never
  guessed; purged content never reappears in an index.
- *Receiver and access*: bounded threads, balanced slots, no silently lost record,
  no expired token, honest limits.
- *Operations*: no undelivered credential, no leftover file, migrations once and
  in order, an answer "ready" that is fresh.
- *Indexing*: what is claimed of a revision is what its bytes say; ids are stable;
  incomplete is never reported as complete; one bad file costs only itself.
- *Retrieval*: a revision shows what it held; the past is fixed; a cap says so; pages
  are contiguous, within budget, and cite what may be cited.

## 2. Modules

The proved and the abstract modules:

| Module | What it is |
|---|---|
| `ProjectionRuntime`, `Delivery`, `MCProjectionRuntime`, `ProjectionRuntimeProofs` | workers, outbox, checkpoints; the abstract delivery it implements; instances; theorems |
| `ContentStore`, `MCContentStore` | prepare, attach, commit, sweeps, with the theorems at the end; instances |
| `Ledger`, `AppendOnlyLog`, `MCLedger` | concurrent ingestion, with the theorems at the end; the abstract log it implements; instances |
| `SearchIndex`, `Rebuild`, `GraphDigest` | one component each, with its theorems at the end of the module; instantiated by `IndexingProofs` |
| `ServiceProofs`, `MCServices` | theorems about `OtlpExport` (extended) and, as instances, `DecodeGate`, `Provisioning`, `McpAccess`, `Migrate`, `Readiness`, `RateLimit`; their small instances |
| `IndexingProofs`, `MCIndexing` | theorems about `IndexRun` (extended) and, as instances, `IndexIngest`, `Scanner`, `LedgerVerify`, `RunReport`; those of `ContentStore`, `Ledger`, `Rebuild`, `SearchIndex`, `GraphDigest` cited; their small instances |

One module per further component:

| Area | Modules |
|---|---|
| Graph and its checks | `Rebuild`, `GraphDigest`, `RunReport`, `LedgerVerify`, `SearchIndex`, `CodeProjector` (with the reader of a revision), `GraphProjectors` |
| Reading the graph | `GraphWalk`, `DecisionTimes`, `FailureFixes`, `Candidates`, `ContextPages` |
| Services | `DecodeGate`, `OtlpExport`, `WireScan`, `McpAccess`, `RateLimit`, `Provisioning`, `Migrate`, `Readiness` |
| Indexing | `Scanner`, `Lineage`, `ImportResolution`, `NameBinding`, `ParsePlan`, `Sandbox`, `PythonWalk`, `AdapterAnswer`, `ScipImport`, `IndexRun`, `IndexIngest` |
| Suites of instances | `MCGraph`, `MCServices`, `MCIndexing`, `MCLiveness` |

A suite runs its modules side by side: the variable `part` is chosen once, at the
start, and a behaviour then is a behaviour of the instance of that part alone,
while the variables of every other component stay `Unused`. `MCServices` and
`MCIndexing` extend the module of their proofs and use its instances, so the
properties their runs check are, by name, the ones the theorems state. Where a
component is worth running with other bounds too, a further instance of it is
checked under `OtherBounds` or `OtherServiceBounds`. The parts of `MCGraph` and
`MCLiveness`, about which nothing is proved there, share slots `v1`, `v2`, ... A
property of a suite is a conjunction of the named properties of its parts
(section 3). Components that
interact are composed inside a module: sweeps and requests in `ContentStore`,
workers and rebuilds in `Rebuild`, projector and reader in `CodeProjector`.
`ProjectionRuntime` and `Ledger` instantiate the abstract specifications.

Definitions called `Mut_...` are seeded defects: a dropped guard, a missing reset, a
swapped order. No specification uses them. Each is paired in `PROJECT.json` with
the property that must detect it when it replaces the definition it imitates.

### 2.1 ProjectionRuntime

A step is one database or graph transaction, or one local step of a worker.
`pc[w]` follows `_drive_worker` and `run_once`: `idle` (about to ask for the
shared rebuild lock), `guarded` (lock held, about to claim), `load`, `write`,
`success` / `failure` (about to finalize the lowest row in hand), `polled`
(after an empty claim), `closing` (the `finally` of `run_command`), `stopped`,
`crashed`. `batch[w]` holds the `ClaimedOutboxRow` snapshots, which are stale by
design: retry counts are computed from them and the fence compares their lease.

- `ClaimBatch` is `_claim_batch`: pending rows that are due and leased rows that
  have expired by *this worker's* clock, lowest ids first, any subset of the rows
  other transactions may hold locked skipped.
- `LoadEvent`, `ProjectEvent` are `_process_claimed_row`: any load or projector
  may fail, and a graph transaction that is reported as failed may have committed.
- `FinalizeSuccess`, `FinalizeFailure`, `Fence`, `Advance`, `RetryDelay` are the
  methods of these names; the update of the row, the checkpoints and the dead
  letter are one transaction.
- `Stop`, `Abort`, `Crash`, `ReleaseLeases` are the ways out. Errors of the
  release are suppressed by the code; that case is `Crash` from `closing`.

Abstractions: an event is named by its outbox row; a projector's effect is a pair
(row, projector), applied idempotently (projectors MERGE by key, which
`CodeProjector` and `GraphProjectors` examine); real time saturates at `MaxTime`,
each worker's clock is off by at most `MaxSkew`.

### 2.2 ContentStore

A step is one S3 call or one SQL statement. A request runs through `prepare`
(`probe`, `put`, `created` / `existing`, `put_again`, `existing_again`: the paths
of `put_verified` in both write modes), `attach` / `verify`, `append`, `done`; a
failed request may be sent again. A sweep lists, then locks, checks and deletes
one object at a time. `LoseSession` is the death of the sweep's database session
while its DELETE, which runs in a thread, is on the way.

Abstractions: content is its digest; an object that is present is intact
(verification of bytes is not modelled, nor two compressions of one content).
`Tick` assumes that a request is shorter than the grace window (24 hours by
default); a sweep may take any time.

### 2.3 Ledger

A step is one SQL statement or savepoint under READ COMMITTED: lock the streams
in order, the idempotency keys in order of their lock numbers, insert or recover
each draft, commit. An insert that meets an uncommitted row of another
transaction waits for it; a deadlock is broken by PostgreSQL (`DeadlockVictim`).
`Touched` is `touched_streams`; a draft's `body` stands for everything a producer
sends except its id, key and stream, and an event's id also stands for its
digest, so `previous` is the hash link. Content is the business of
`ContentStore`: `Refuse` covers its refusals, `Fail` its outages. `_plan_batch`
sees no repeated keys, because `ingest` refuses such batches first. Quarantine is
done by operators; the code only reads it.

### 2.4 Rebuild, GraphDigest, RunReport, LedgerVerify

`Rebuild` runs rebuilds (`in_place`, `standby`, `standby_wipe`) beside workers. A
rebuild goes through the mark of the checkpoints, the removal of the marker, the
wipe in pieces (`wipe_graph`), the paged replay (`replay_ledger`), the rewrite of
the checkpoints (`_finalize_checkpoints`, `_require_nothing_missed`), the
verification and the new marker; it may fail at each step (`FailRebuild`) or lose
its lock (`LoseLock`). `StartWorker` narrows or writes the marker as `cli.py` does.
One projector in several versions is modelled; the effect of a row is the pair of
the row and the version, and outbox rows become visible in any order.

`GraphDigest` is the scan of `compute_graph_digest`: label by label in pages, last
the nodes without identity; the digest is the multiset of what was hashed.
`RunReport` is `record`: read what the ledger holds, submit the rest in one batch, take
a conflict for a recorded report. `LedgerVerify` walks a snapshot stream by stream
in batches (`verify_ledger`) after somebody edited, deleted or added rows; a digest
is the tuple it covers. A batch is the next few sequences of the stream, checked
one against the row before it; the first that fails ends the stream. The model
keeps the set of the sequences a walk has passed, not the list of its rows.

### 2.5 SearchIndex

Workers index the contents of events into PostgreSQL rows and Neo4j vectors, which
commit separately; purge events lay tombstones; a replay resets the tables and
seeds the tombstones (`check_replay`, the seeding from the ledger) and a standby
graph receives vectors only. Steps: claim, read, lock the contents in order, the
PostgreSQL transaction, the graph transaction, delivery, crash. Contents are
digests, a blank content yields no document.

### 2.6 CodeProjector

`Project(e)` merges the immutable facts of an event, then re-derives the entities
the event can affect (`_expand`) and writes their intervals: when a file, symbol
or relation was there, from which run, until which run. The derivation
(`derive_file`, `derive_symbol`, `_owner_status`, `_path_matches`, the ranking of
assertions) is a function of the delivered events. Occurred and observed time are
one clock; transaction times follow the same facts and are left out.
The second half of the module is the reader of one commit or snapshot
(`retrieval/revision.py`): `_view` from the members of a run inwards, `_history`
over the commits.

### 2.7 GraphProjectors

`Deliver(i)` is one transaction: the locks of all touched nodes, then each projector
that handles the event (agent, git, portfolio, quality, knowledge): minimum merges of
facts, current pointers by observation order, the moves of a test run with the
deletion of stubs, and the closure of decisions edge by edge. All immutable facts
of a node are one number, all fields of a pointer one value.

### 2.8 Reading: GraphWalk, DecisionTimes, FailureFixes, Candidates, ContextPages

- `GraphWalk` (`retrieval/graph.py`): one request, several statements at read
  committed, each with a LIMIT: the levels of a neighbourhood, callers and callees,
  and the dependencies of a file or module, while `Change` replaces the graph.
- `DecisionTimes` (`retrieval/temporal.py`, the pure helpers of `knowledge.py`): which
  decisions were in force at a valid time as known at a record time, and the chain
  around one, with their caps. Scope filters and subjects are left out.
- `FailureFixes`: the statements of `failures` over a graph that grows and that an
  in-place rebuild wipes and replays; the marker is read before and after
  (`CheckHistory`, `CheckAgain`). A run is a set of reports: its node says what the
  newest one says (`Newest`), and is visible from the time at which the first one was
  recorded (`recorded_at`), as `quality.py` keeps the smallest.
- `Candidates` (`retrieval/composer.py`): `context_for_task` reads a revision, the
  current graph around its anchors, the failures and the search hits;
  `decision_history` closes the matched decisions over supersession.
- `ContextPages`: a client pages through an answer with cursors; freshness
  (`ReadWaiting` ... `ReadCheckpoints`), gathering, event and excerpt loads and the
  packing of a page are separate reads, while rows are committed, claimed,
  projected, delivered and buried (`World`). Ranks are a fixed order, texts are
  their sizes, signatures hold.

### 2.9 Services

- `DecodeGate` (`otlp_api.py`): places, per-producer turn locks that come and go, worker
  slots that a cancelled request's thread keeps.
- `OtlpExport`: a request's checks in order, the mapping of spans to drafts, and the loop
  that resubmits a refused batch without the events the ledger blames; sends of the
  same export overlap, fail and are repeated.
- `WireScan` (`otlp_wire.py`): the walk over a tree of field occurrences that counts
  everything before it is parsed. Varints and byte lengths are abstracted to
  well-formed, unknown and bad.
- `McpAccess` (`mcp/auth.py`, `protocol_guard.py`, `security/bearer.py`): cache, admission,
  lookup, hash in a thread, audit. `RateLimit`: buckets in fractions of a token.
  The cache is a function from tokens to deadlines with the order of their insertion;
  the dict of the buckets is a function from owners and a relation, which of two
  owners was touched before the other. A request that passed the scope check goes on to
  the limiter in the code; `McpAccess` ends it there, as no property of the access
  depends on a request that is also limited.
- `Provisioning`: generate, write the row, deliver inside the transaction, commit; every
  failure, kill and replacement of the file. `Migrate`: jobs of different images
  around one session lock. `Readiness`: shared probes, abandoned checks.

### 2.10 Indexing

- `Scanner`: the pinned root, the git commands, then lstat, open and read per path,
  while files are edited, replaced and committed and the root is swapped. The paths
  still to observe are a set, of which the least is next: the code sorts them.
- `Lineage`: the walk of first-parent history; git's pairing of removals with additions
  is free, and chosen twice to compare two gits.
- `ImportResolution`, `NameBinding`: `resolve_import`, `bind_import`, `bind_names`,
  `bind_symbol_reference`, `pick_binding`, `owned`, `package_candidates` against a
  reference definition of what the language means at run time (`RunTimeImports`), where
  imports from outside the repository take their name as well. Files define no name
  that they import: what the binder does not see then is in section 6.
- `ParsePlan`: requests, bisection and solo retries (`parse_structural`); `Sandbox`: the
  processes of `tree_sitter/runner.py`, with kills that take effect late, daemons that
  leave the session, and concurrent runs.
- `PythonWalk`: one pass over a tree chosen node by node, with frames, scopes and
  budgets, and ERROR nodes that drop the innermost frame. `AdapterAnswer`: the
  child's answer for several files (`safe_module`) and the parent's validation
  (`validate_module`). `ScipImport`: the bounded wire scan, documents, external symbols.
- `IndexRun`: scan, later re-read, parse and the evidence built from them. The error
  class `snapshot_incomplete` is left out (`emitter.py:2090-2091`): it renames
  `files_skipped`, or replaces success where a path was rejected, and success is then
  claimed less often than here.
  `IndexIngest`: indexers that share files submit batches, crash and run again; what
  is still to submit is the set of the places of its drafts.

## 3. Runs

| Run | Instance | Shows |
|---|---|---|
| `projection_safety` | 2 workers, 2 rows, 2 projectors (row 1 for both, row 2 for one), batches of 2, 2 attempts, times 0..3, skew 1, 1 interruption | all safety and action properties, and the refinement of `Delivery` |
| `projection_liveness` | 2 workers, one of them `--once`, a normal and a corrupt row, batches of 1 | `EveryRowSettles`, `OnceEnds` |
| `content_safety` | 2 requests, one in each write mode, for 2 objects and 1 inline digest, of which they share 2; 2 overlapping sweeps, times 1..3, 1 failure, 1 lost session | references stay backed, batches never wait in a circle |
| `ledger_safety` | 4 batches, 2 streams, 4 keys on 3 locks, 1 failure, 1 quarantine | chains, answers, deadlock freedom, the refinement of `AppendOnlyLog` |
| `indexing` | the parts of `MCIndexing`, below | from a worktree to claims in the ledger, and what is stored, rebuilt, searched and verified from it |
| `services` | the parts of `MCServices` | receiver, access, operations |
| `graph` | the parts of `MCGraph` | from sources over claims to the graph and the answers read from it |
| `liveness` | the parts of `MCLiveness` | what is begun ends |
| `rebuild_missed`, `content_lost_session`, `code_retry`, `cursor_snapshot` | small instances | disagreements, section 6 |

Why these bounds suffice. The interactions in this code are between one actor and
one other: a late worker and its successor, a request and a sweep, two batches, a
reader and a writer. Two of each, with a second item so that order, batches and
positions matter, and one or two failures that may strike at every step, reach
every pair of interrupted steps. Limits (pages, caps, slots, budgets) are set to 1,
2 or 3 so that they bite within the instance. The proofs remove the bounds for the
properties they cover.

The bounds are constants called `Max...`: interruptions, failures, crashes, lost
sessions and locks, cancellations, faults, swaps, edits, appends, repeats and times.
The content, ledger and suite runs switch TLC's deadlock check off: when every
request is answered and the bounds are spent, the system really may stop. That no
one waits for ever is then the business of `NoLockCycle`, `NeverDeadlocks` and of
the liveness properties. The projection run checks deadlock.

### 3.1 `indexing`

Theorems state the first eight of these properties (section 5).

| Property | Members (module) | Parts and bounds |
|---|---|---|
| `RunSound` | `IndexedIsScanned`, `ScipIsOfTheCommit`, `NotIndexedIsCommitted`, `CompleteIsWhole`, `SuccessHidesNothing` (IndexRun), `ReportedIsStored`, `CompletedMeansAll` (IndexIngest) | `run`: 1 file with 3 contents, one of them too big, 2 edits; `ingest`: 2 indexers, 2 targets that share files, batches of 3, 2 crashes |
| `StorageSound` | `ContentSound` = `NoDanglingReference` and, with one sweeper, `UploadKept`, `NoFalseAlarm` (ContentStore); `OneEventPerKey`, `AcceptedOnce` (Ledger) | `store`: conditional PUTs, 2 requests for 1 object and 1 inline digest, 2 overlapping sweeps, 1 failure; `ledger`: 3 batches that swap event ids under other keys, with deadlock victims, 2 failures, 1 quarantine |
| `ScanFaithful` | `CleanIsHead`, `CapsReported`, `BudgetHard`, `DescriptorsClosed`, `LaterReadSameRoot` (Scanner) | `scanner`: 2 paths, contents of size 1 and 3, 3 edits, small caps |
| `VerificationSound` | `OkMeansSealed`, `NoFalseAlarm` (LedgerVerify), `ReportedIsRecorded` (RunReport) | `verify`: 1 stream, 2 events, 2 edits of any field; `report`: 2 verifiers with 2 runs each |
| `RebuildSound` | `MarkerTruthful`, `VerifySound` (Rebuild) | `rebuild`: 3 rows, 1 not handled, 1 worker, all three modes, 2 failures, pages of 2, wipes of 1 |
| `RebuildHonest` (action) | `VerifyHonest` while the lock is kept and no row is given up (Rebuild); its `ActiveHonest` needs all rows handled and is tried by `LostLockHonest` | `rebuild` |
| `SearchSound` | `PurgedStaysPurged`, `DeliveredIsSearchable`, `RowAndVectorAgree`, `CheckGuardsReplay`, `ReplayHidesPurged`, `StandbyHoldsNoPurged` (SearchIndex) | `search`: 2 workers, 2 indexings and a purge, 1 crash |
| `ScanExact` | `EachItemOnce`, `OrphansExact`, `MissingIdentityExact`, `PendingBounded` (GraphDigest) | `digest`: all graphs of 3 nodes over 2 keyed labels, a plain one and the marker's, 2 edge sets, pages of 1 and 2 |
| `OtherBounds` | the same members | `run_two`: 2 files; `scanner_caps`: 3 paths, every cap, 1 failure; `conditional`: one sweeper and 1 lost session; `verify_ranges`: 2 streams, 3 events, 1 edit, every range, batches of 2; `report_growing`: 1 verifier, 3 runs, 1 appended event; `versions`: 2 rows, 2 projector versions rolled back and forward; `search_reuse`: one id for two contents in two scopes; `search_replay`: in-place replay with lost bytes; `search_standby` |
| `LostLockHonest` (action) | `ActiveHonest` (Rebuild) | `lost_lock`: the rebuild lock lost once, 3 rows that are all handled |

### 3.2 `services`

Theorems state all of these but the last.

| Property | Members (module) | Parts and bounds |
|---|---|---|
| `GateBounded` | `ThreadsBounded`, `OneDecodePerProducer`, `PlacesBalance` (DecodeGate) | `gate`: 5 requests of 3 producers, 2 threads, 1 waiting place, 2 cancellations |
| `ExportHonest` | `InnocentKept` (where nothing is quarantined), `NoSilentLoss`, `NoLoop` (OtlpExport) | `otlp`: 3 overlapping exports with conflicts, 2 failures |
| `AccessSound` | `NeverExpired`, `RevocationBound`, `CacheBounded`, `AdmissionBalanced`, `AuditedOnce` (McpAccess) | `access`: 3 requests with times 0..3, a token that expires, a cache of 1 |
| `RateSound` | `SweepIsInvisible`, `BucketsBounded`, `RetryHintTrue` (RateLimit) | `rate`: 3 principals, 2 buckets, bursts of 2, two thirds of a token per time unit |
| `CredentialsSound`, `CredentialsKept` (action) | `NoUndelivered`, `SuccessIsTrue`, `NoLeftover`; `Displaced`, `ForeignKept` (Provisioning) | `tokens`: 4 commands for one producer, a file that is replaced once |
| `OperationsSound` | `EachOnceInOrder`, `ReportTrue` (Migrate), `ReadyIsFresh`, `OrphansBounded` (Readiness) | `migrate`: 4 jobs of two heads, one misconfigured, 2 faults; `ready`: overlapping probes with 2 checks |
| `OtherServiceBounds` | `AcceptedIsCounted`, `NoFalseRefusal`, `ParsedContainersBounded` (WireScan); the members above | `wire`: requests with attributes of 9 shapes in every container, all limits small; `otlp_last`: 2 attempts and a quarantine; `otlp_shapes`: every kind of span and record; `admission`: 5 requests for 1 slot and 1 place, 2 cancellations, 1 failure; `token_files`: 4 commands for one output file, 2 faults; `orphans`: 3 probes of 1 check |

### 3.3 `graph`

| Property | Members (module) | Parts and bounds |
|---|---|---|
| `ResolutionSound` | `LiveIsTree`, `SupersessionsGoBack`, `NeverResurrected`, `SameIdsForEveryGit`, `NeverInconsistent`, `PrivateRemoved` (Lineage), `RelativeStaysInTree`, `WholeIsExact`, `GoNeverGuesses`, `ScriptPathIsExact` (ImportResolution), `ImportsAreModuleLevel`, `ProductionNeverSeesTests` (NameBinding) | `lineage`, `lineage_pairings`: all histories of 3 commits over 3 paths and 2 blobs, every pairing; `imports`: trees of up to 3 of 17 files in both layouts, all import forms; `names`, `packages`: Python, and Go with test files |
| `ClaimsAreMeant` (action) | `ClaimIsMeant`, `TwoMeanings` (NameBinding) | `names`: up to 2 imports of 8 forms at 5 places and a use in Python; one form is an import from outside, of a name that the others bind. Claims are judged by the imports of repository files that a use may read (`ReadsInside`) |
| `ParseSound` | `EveryFileOnce`, `InnocentParsed`, `RunsBounded`, `RequestsFit` (ParsePlan), `NothingSurvives`, `SweptBeforeSpawn`, `OthersUntouched`, `AnswerWhole` (Sandbox), `NoStarvation`, `AnswerAccepted`, `NothingSilent` (PythonWalk), `BatchAccepted`, `NeverSilent`, `ChargeReturned`, `IdentitiesDistinct` (AdapterAnswer), `OneIdPerSymbol`, `DropsReported`, `NothingFabricated`, `BoundedFirst` (ScipImport) | `parse`: 4 files of 5 natures; `sandbox`, `sandbox_slow`, `sandbox_output`: 2 concurrent runs, with a daemon and a killed supervisor or with a slow one, or 1 run that overflows its pipe; `python`, `python_names`: all small syntax trees over two sets of nodes; `answer`: answers for 2 files, some against the rules; `scip`: indexes of 2 documents and 1 external symbol |
| `ProjectorsSound` | `Convergent`, `ClosedIsGone`, `GoneIsClosed` (CodeProjector), `OrderIrrelevant`, `ClosureAgrees`, `ValidatesCurrent` (GraphProjectors) | `code`: 11 ledgers of up to 3 index runs, every delivery order; `projectors`: quality, agent, git and decision histories of 4 or 5 events, every order, 1 repetition |
| `ReadsSound` | `ViewTrue`, `ViewAgrees`, `HistoryTrue` (CodeProjector), `WalkExact`, `CutKeepsNearest`, `DependenciesWhole`, `AnswerClosed` (GraphWalk), `PastIsFixed`, `AnswerConsistent`, `HistoryComplete` (DecisionTimes), `ServedWhole`, `ResolvedIsFixed`, `CapsHonest`, `PastMovesByRunsOnly` (FailureFixes) | `code`; `walk`, `walk_capped`, `walk_edges`: 9 nodes, depth 2, caps of 9, 4 and 2 nodes, one change of the graph; `decisions`, `decisions_capped`: 3 decisions that supersede each other or none, one of two recorded again, depth 2 or 1; `fixes`, `fixes_capped`, `fixes_rebuilt`: ledgers of failures, CI and test runs, one of which is reported twice, with record times on both sides of the cuts, a cap of 1 observation and a rebuild |
| `AnswersSound` | `NearInRevision`, `ResolvedByKept`, `ShownIsCitable`, `DecisionsClosed` (Candidates), `PagesContiguous`, `BudgetExact`, `WatermarkHolds`, `BacklogHidden`, `PurgeWins` (ContextPages) | `gather`: tasks with open and closed revisions, a run projected meanwhile, decision histories; `pages`: 4 rows, 2 delivered before, pages of 2 items and 9 bytes, 2 requests; `pages_expiry`: 2 requests and a cursor that expires |

A group has one seeded defect in `PROJECT.json`; when a member was written, a change of
the definitions it is about was seen to violate it in its part.

## 4. Fairness

- *Projection*: time passes, workers go on, a rebuild gives its lock back. The
  worker polls for the shared lock, so it needs strong fairness to meet a gap
  between rebuilds. `EveryRowSettles` is further conditional on two things the
  code does not guarantee and an operator has to: some worker stays up, and from
  some point on batches finish within their lease (`Timely`). Leases are never
  renewed, so two workers that are both slower than a lease can take a row from
  one another for ever, and neither attempt counts.
- *Content and ledger* (`BatchStored`, `BatchAnswered`): requests, their producers'
  retries and sweeps go on; a waiter for an advisory or row lock gets it when it
  comes free again and again, because PostgreSQL queues waiters (strong fairness).
- *Decode gate and hash admission* (`AdmittedLeaves`, `AdmittedEnds`): threads end; a
  waiter for an `asyncio` lock or semaphore, which are first-in first-out, gets it
  (strong fairness).
- *The others* (`RebuildEnds`, `EventsSettle`, `ExportEnds`, `AllEnd`, `Answered`,
  `ParseEnds`, `EveryRunReports`): each process that can take its next step takes it
  (weak fairness). Failures, cancellations, edits and the environment are never
  fair. `Answered` needs that due timers are served; `EveryRunReports` that an operator
  runs a crashed indexer again.

In `MCLiveness` the actors of a part are numbered; `Weak(k)` and `Strong(k)` are the
steps of actor `k` of the part at hand, and `Keep` says that the unused slots stay
unused. `Progress` states, per numbered actor, the liveness properties of the
modules at once (`Begun(k) ~> Ended(k)`): the parts never mix, so it says of each part
what its module says, and TLC checks a few formulas instead of twenty. Each part has
few actors (2 batches, 3 requests, 3 jobs, 2 indexers), so that the liveness graph
stays small.

## 5. Proofs

TLAPS checks the theorems for every set of workers, rows, projectors, requests,
sweeps, batches, events and digests and for every bound. In the modules that a
configuration extends, the assumptions are the named `ASSUME`s (finite sets of
positive ids, positive durations and attempts, distinct sentinels). The others are
only instantiated, so their assumptions are operators (`GateAssumption`,
`VerifyAssumption`, `SearchAssumption`, ...), hypotheses of their theorems, and the
suites evaluate them for each of their parts (`ConstantsLegal`). Everything else a
theorem supposes is a hypothesis with a name, discussed below.

Each component has one inductive invariant, checked by TLC before it was proved;
one lemma per action shows that the action keeps it, and each theorem follows from
it by unfolding. `ServiceProofs` and `IndexingProofs` host the proofs of several
components: each is an instance whose variables carry the component's prefix
(`gate_pc`, `rate_buckets`, `verify_rows`), so that one module can speak of all.

The properties the suites check are stated there too, and proved last, from the
theorems of the components: `GateIsBounded`, `ExportsAreSound`, `AccessIsSound`,
`LimitsAreExact`, `CredentialsAreSound`, `CredentialsAreKept`, `OperationsAreSound`,
`RunsAreSound`, `StorageIsSound`, `ScansAreFaithful`, `VerificationIsSound`,
`RebuildsAreSound`, `RebuildsAreHonest`, `SearchIsSound`, `ScansAreExact`. Such a
property is guarded by `part`, which says what a behaviour of the suite runs; in the
theorems `part` is unconstrained, so they hold in particular where it names the
component.

`ProjectionRuntimeProofs`: the invariant `Safe` is `TypeOK`, `Inductive` and the
invariants themselves.
- `CheckpointExact` needs that a row is finalized at most once under a lease
  (`LeaseShape`: owner iff leased) and that a projector without a row has a count
  of zero; `AdvanceBooks` is the arithmetic of one step.
- `DeadLetterExact` and `AttemptsMonotone` need `SnapshotFresh`: while a worker
  still owns a row it has in hand, the snapshot's retry count is the row's. That
  is what makes it right to compute from the snapshot behind the fence.
- `DeliveredIsProjected` needs `SuccessProjected`: a worker about to finalize a
  success has committed to the graph.
- `RebuildExcludesBatches` needs `BatchInGuard` and `LockExclusion`.
- `RuntimeImplementsDelivery` maps queued, delivered and given-up rows by status
  and shows each step to be a step of `Delivery` or a stutter.

`ContentStore`: `Safe` is `TypeOK` and `Inductive`.
- `ReferencesBacked` rests on `RowsBacked` and `RowsLocked` (an uncommitted row is
  protected by the digest lock of its request), `SweepLocked` (a sweep about to
  delete holds the lock of a digest without a row) and `NothingForgotten`.
- `AttachNeverDeadlocks` rests on `LockOrder` (what a request holds precedes all
  it still wants); the request of a waiting set with the greatest wanted digest
  cannot wait for a member.
- `UploadsAreKept` (`UploadKept`, `NoFalseAlarm`) needs `UploadsSafe`: a request is
  shorter than the grace window (`WithinGrace`), what a sweep lists is there
  (`ListedPresent`), and what a running request relies on is too recent for any list
  (`UploadsGuarded`). The hypothesis is `OneSweeper`: a second sweep acts on its own
  older listing, and the claim is then false (section 6). That no session was lost
  is the other condition, part of the properties themselves.

`Ledger`: `Safe` is `TypeOK` and `Inductive`.
- `ChainIntact` needs `StreamsHeld` (a transaction that has read a head holds the
  row lock of the stream, and nobody else moves it), `CommittedChains` and
  `OwnChains` (what a transaction will commit continues the head it read).
- `OneEventPerKey` and `AcceptedOnce` need `KeysHeld` and `RowsApart`: what two
  unfinished transactions have inserted differs in id and key, because an insert
  waits for the other's row; `FreshMatches` and `ResultsMatch` tie the rows of a
  transaction to the outcomes it collected, which `AnswersTrue` follows from.
- `NeverDeadlocks`: in a set of transactions that wait for each other, one that
  waits for a key waits for an inserting one, which by `OnlyInserting` waits for
  nobody when ids are not reused, or for one that wants a larger key; all others
  wait for a larger stream. A least element of the finite set of waited-for keys
  and streams gives the contradiction (`LockKeyAssumption`: the numbers of the
  advisory locks are finitely many, since a digest is cut to a fixed width).
- `LedgerImplementsLog` maps the ledger to the rows of each stream in order. A
  commit is one `AppendBatch`: the rows of the transaction are, per stream and in
  the order of the batch, the drafts that were not stored; every other step is a
  stutter. `AppendOnlyLog` states the appended part through the positions of the
  batch it comes from (`Extends`), so no recursion over the batch is needed.

`SearchIndex`: `Inductive` describes each store and what each worker may rely on
between its transactions.
- `PurgedStaysPurged` needs that a worker about to write (`Indexing`) holds the lock
  of each content and has re-read the tombstones under it; without the second
  read the invariant is not inductive.
- `RowAndVectorAgree` needs `Describes` (all sources of an entry name the same bytes
  and scope) and `NodesFollowRows` (a vector never knows a source its row lacks).
- `DeliveredIsSearchable` needs that a worker at the graph transaction has its row
  already, that a purge lays its tombstone before it deletes the vector, and that
  an in-place replay runs alone (`WorkersExcluded`).
- `CheckGuardsReplay` and `ReplayHidesPurged` need `FromChecked`: what the replay has
  written comes from events that `check_replay` read. The model lets bytes vanish
  at any time but while a replay runs: the check reads them once, before the wipe,
  and nothing in the code could keep them afterwards.
- `StandbyHoldsNoPurged` needs that the purges are seeded before the first page.

`Rebuild`: three invariants, since its claims need different things.
- `Kept` (locks, effects before outcomes, `ReplayOf`: an in-place rebuild has marked
  its checkpoint before it drops the marker, dropped it before it wipes, and has
  replayed all that was delivered up to where it stands) and `Truthful` give
  `MarkerTruthful` and `VerifySound`. They hold under `LocksKept` (no rebuild loses
  its lock) and one projector version (`OneVersion`), or for the marker under the
  operator's discipline `Rolling`: one worker at a time, stopped for every rebuild.
  With two versions running beside each other, a worker that starts while a
  rebuild holds the lock does not narrow the marker, and the claim is false.
- `Leased` and `Tallied` (a replay never counts more rows than it left in its target)
  give `ActiveHonest` even with lost locks: a replay whose count equals the number
  of delivered rows has them all. The hypotheses are one rebuild at a time and
  `HandlesAll`: where rows exist that the projector does not handle, the claim is
  false, which is what the run `rebuild_missed` shows.
- The same count gives `VerifyHonest`, for standby targets beside workers, as
  long as no row is given up (`NoneGivenUp`): a row dead-lettered after its replay
  and a lower one that becomes visible late cancel out in `classify_replay`.
- `RebuildSound` and `RebuildHonest` put the claims together, each under the condition
  it needs, so that they hold for every value of the constants.

`DecodeGate`: `GateInv` says that free slots and requests past the semaphore are
`workers` together (`SlotsBalance`), that the counters are the requests with a place
(`PlacesBalance`), that all requests of a producer with a place wait on the lock object
the table holds now (`TurnsShared`), and that an object is held by the request whose
turn it is (`TurnsHeld`). `_release` drops a lock object only when the producer's count
is one, and by `PlacesBalance` the leaving request is then the only one: so no
request waits on an object that the table has forgotten, and `OneDecodePerProducer`
follows. `PlacesBalance` is thus not only a result but a lemma of the other.

`OtlpExport`: `ExportsOK` follows each draft of each request.
- `NoSilentLoss` needs `NothingLost` (until the answer a draft is pending, stored as sent
  or counted) and that a stored event is never replaced (`Grows`): a batch is
  accepted only if nobody is to blame, and somebody is as soon as one draft conflicts
  or one stream is quarantined, because among the drafts one comes first (`Least`,
  `FirstDraft`, `BlameFacts`). Two drafts of an export never share a key
  (`OneDraftPerKey`), so the commit stores what each of them says.
- `InnocentKept` needs `ConflictsCounted`: every attempt so far has taken a conflict
  of its own out of the batch, so as many attempts as allowed mean as many conflicts.
  The hypothesis is `NoQuarantines`: blaming a quarantined stream takes an attempt
  without a conflict. TLC then refutes the claim with two attempts, one quarantined
  stream and one conflict; what quarantines cost is a point of section 6.
- `NoLoop` needs only `StoredWasSent`: what a key holds was a draft of some request.

`Provisioning`: `CommandsOK` says of each command by itself what it has done by the place
it is at (`CommandOK`): it holds the lock of its row exactly from the flush to the
commit, and until then the row may be displaced by it (`MayDisplace`); it delivered
before it commits; its file is its own, and holds its token once it delivered.
`OwnStep` says what a step of one command leaves alone: the locks others hold and the
rows under them, and the files of others. It makes one command at a time enough.
`OnlyRotateDisplaces` needs both: `register` compares the expiry with a moment in the past,
and nobody can change the row between that check and the commit.

`McpAccess`: `AccessInv` counts and dates.
- `AdmissionBalanced` is `Counted`: the requests inside are `pending`, those holding a
  slot and the free slots are `MaxConcurrency`. `AuditedOnce` is `AuditLines`: a request
  has its one line exactly when it was rejected or has responded.
- `NeverExpired` needs `Unexpired` of every request that was let through, by the cache
  too, because an entry is only taken before the token's own expiry.
- `RevocationBound` needs witnesses: `RowsTrue` (a lookup shows every revocation before
  it) and, for each scoped entry of the cache and each request let through, a full
  authentication that backs it (`CacheBacked`, `ServedBacked`): a request that was
  itself served after a lookup that saw no revocation, at most `Ttl` before. The
  witness stays when the entry is refreshed or evicted.
- `CacheBounded` needs that the eviction takes the first entry inserted, which exists.

`RateLimit`: `SweepIsInvisible` and `BucketsBounded` are inductive once the table is known
to be a finite set of owners in a strict total order (`OrderOK`) and each bucket a past
state with at most a full number of tokens (`BucketOK`). That dropping a full bucket is
invisible, and `RetryHintTrue` (`HintOK`), rest on one fact of arithmetic: refills over two
stretches add up (`RefillsAdd`), because tokens are counted in fractions and no refill
rounds.

`Migrate`: `JobsInv`. The lock is held by the job that works (`LockIsHeld`), so what it read
of the database stays true (`Upgrading`); the migrations ran as one chain (`ChainRan`), of
which an uncommitted job ran nothing (`NothingYet`) and one that reached its head exactly
what lay above the revision it read (`Owns`). `EachOnceInOrder` is the chain; `ReportTrue`
compares what was reported with what is owned.

`Readiness`: `ReadyIsFresh` needs `ProbesSee` (a check sees its component after the probe
began) and `JoinsFresh` (a request joins a probe younger than the timeout).
`OrphansBounded` needs `ReadyApart`: two tasks of one check that run together began a
timeout apart, and none outlives its timer by more than `Lag`. With `Lag < Timeout`, the
assumption that a due timer is served before another timeout is over, at most one
probe can then abandon a check above the limit (`Kept`).

`IndexRun`: the evidence of a run is built once, from what the run had (`BuiltOnce`), so each
claim is about the values of the last step. `IndexedIsScanned` and `NotIndexedIsCommitted`
need `StagedIsChanged`: the status may call a path clean whose bytes were just edited,
but never one that is staged. `CompleteIsWhole` and `SuccessHidesNothing` need
`ParsedWasRead`, `ScipIsOfTheCommit` needs `DocumentsCommitted`.

`IndexIngest`: `Submitting` says that each draft an indexer has passed is in the ledger.
`CompletedMeansAll` follows because the completion is the last draft and events are
never removed, so other indexers and crashes keep it.

`Scanner`: a listed path is waiting, observed or omitted (`AllAccounted`), and a cap that bit
left a reason. `CleanIsHead` needs `UnchangedIsHead` (what the status calls unchanged is in
the index as committed) and `ReadOrRaced` (what was read of such a path is that, or the
path was noticed as raced). `LaterReadSameRoot` needs `ReadLater`. The least waiting path
exists because the paths are natural numbers (`FirstIn`).

`LedgerVerify`: `OkMeansSealed` and `NoFalseAlarm` are the two halves of what a result says
(`ResultIsSound`). A walk has passed exactly the rows in range up to its last, all sealed
(`WalkInv`), each row compared with the one before it. `CoverageInv` says that every stream
up to the page's end has a result or is on the page, so none is skipped that exists by its
head only or by its rows only. From `LedgerSealed` of an unedited snapshot follows that
nothing is reported but a requested stream that does not exist.

`RunReport`: a conflict counts as recorded, so `ReportedIsRecorded` needs that the ledger
holds each finding of the report. One verifier alone knows all keys the ledger holds
(`StoredIsCurrent`); without appended events every finding is about the same empty range
and the reports of two verifiers are equal as wholes (`AllSame`). The property is
conditional on one or the other (`OneVerifier`, `SameRanges`); with neither it is false
(section 6).

`GraphDigest`: `Progress` compares the stores with the cursor: what is hashed, missing,
pending or an orphan is exactly what the pages up to the cursor hold, where each node
has its one turn (`Turn`: under the first of its keyed labels, or with the nodes without
identity). `EachItemOnce`, `OrphansExact` and `MissingIdentityExact` are `Progress` at the
end; `PendingBounded` is inductive. It is an argument about sets of positions, so that no
induction over pages is needed.

Theorems that need no run of their own: the type invariants, `RebuildExcludesBatches`
and `AttemptsMonotone` of the projection.

Only model-checked:
- Liveness (`projection_liveness`, `liveness`): fairness is out of the prover's reach.
- `ResolutionSound`, `ClaimsAreMeant`, `ParseSound`: `ImportResolution`, `NameBinding`,
  `PythonWalk`, `ScipImport` (and `WireScan` among the services) compute over trees or by
  recursive operators and compare the result with a reference definition; the provers
  have no induction for it. `Lineage`, `ParsePlan`, `Sandbox` and `AdapterAnswer` have
  inductive arguments that are not written down yet.
- `ProjectorsSound`, `ReadsSound`, `AnswersSound`: the same difficulty for the derivations of
  `CodeProjector`, the walks and the folds over pages and chains.
- `OtherBounds`, `OtherServiceBounds` and `LostLockHonest` are, but for the wire scan,
  further instances of what is proved.
- The claims of section 6, which are false.

## 6. Disagreements between code and comments

With a run that shows them:

1. *A rebuild can miss an event and be verified* (`rebuild_missed`). The replay goes
   on after the head of its last page, whatever that row is, but
   `_require_nothing_missed` counts only up to the last row the projector handles
   (`projection/verify.py:1477-1488`), and not at all if there was none. After a lost
   lock, an event delivered behind the head and above that position is neither
   replayed nor counted; `projection/verify.py:1413-1415` says that the rebuild fails.
2. *A dangling reference is possible* (`content_lost_session`) when a sweep's database
   session dies while its DELETE is on the way: the lock goes with the session,
   the DELETE does not.
3. *A retried index run hides what it found* (`code_retry`). The time of a run is its
   earliest event and a claim counts only if it is not later, so symbols claimed by
   the retry of an interrupted or degraded run are derived as absent at the commit
   that holds them, although `indexing/emitter.py:99-100` counts on the retry.
4. *A cursor survives a change of the answer* (`cursor_snapshot`). A row delivered behind
   a later one moves neither the watermark nor a checkpoint, and a projector writes
   before it delivers; `retrieval/composer.py:1782-1783` says that any delivery that
   changes an answer makes the cursor stale.

Met while modelling, without a run of their own. Where a definition is named, TLC
refutes it when it is added to the instance as an invariant:

- *Projection.* A graph commit followed by a lost lease, a crash or an ambiguous
  driver error, and then failing attempts, ends in a dead letter whose effects are in
  the graph; `projection/verify.py` says that the live graph never held them.
- *Rebuild.* A worker that starts while a rebuild holds the lock never narrows the
  marker, which may then name a version that missed events (`projection/schema.py:400`;
  the instance `versions` sets `StopFirst` and `KeepStopped`, the operator's
  discipline under which the marker is true). A standby rebuild without
  `--wipe-target` takes no lock, so a second rebuild can wipe its target while it is
  verified (`projection/verify.py:1572`; one rebuild in the instances).
  `classify_replay` compares counts, so a row dead-lettered after its replay and a
  lower row that became visible late cancel out (`projection/verify.py:569`;
  `VerifyHonest` is therefore required only while `NoneGivenUp`).
- *Verification report.* A conflict is answered with "a concurrent identical report
  won"; a report that shares one finding and differs in another is lost
  (`projection/verify.py:912`). It takes two
  verifiers and a growing ledger: the instances have one or the other.
- *Content.* A second sweep judges age from its own old listing and deletes an object
  uploaded again after the first sweep; the batch fails with an alarm and its retry
  stores it.
- *OTLP* (`QuarantineStaysInSession`). A refused batch whose only event of the
  quarantined stream is already stored names no offender, and the whole export is
  rejected (`docs/data/codex-otel-mapping.md:165-168`).
- *Access* (`RevokedWithinTtl`, `HashThreadsBounded`). The row is read before the hash and
  cached after it, so a revoked token works for the TTL plus the hash; a cancelled
  request returns its slot while its hash runs on (`mcp/auth.py:8`, `security/bearer.py:99`).
- *Provisioning* (`AmbiguousIsUnusable`). A commit that fails after delivery may have
  taken effect (`cli.py:1310` against `cli.py:337`).
- *Readiness* (`OrphansAtMost`). A check may be started beside one that is about to be
  kept, so one more than the limit is kept (`operations/readiness.py:101`).
- *Projectors.* A `POSSIBLY_SUPERSEDES` edge is missing until the next run when the older
  file's event is projected last (`projectors/code.py:35-36`); a `Repository` that an agent
  event merged as a bare identity is deleted as a stub when a test run moves away
  (`projectors/quality.py:139-142` against `projectors/__init__.py:3-4`).
- *Retrieval.* The traversal drops its anchor when the graph is wiped between its
  statements (`AnchorFirst`); a resolved failure of two targets may name a run of a dirty
  snapshot (`NamesNoDirtyRun`); circular supersessions end a decision history without
  `truncated`; the marker read before and after `failures` does not notice a rebuild
  that began and ended in between (constant `Swift`); a late-committed row below the
  watermark is not seen by it. A run that is reported again shows its newest status
  already at the record time of its first report, so the failures as known at a past
  time change (`FailureFixes!PastIsFixed`): `temporal.py:61-62` says so, and
  `PastMovesByRunsOnly` that nothing else moves them. A capped decision answer may show
  a decision active whose superseder the cap left out; it is marked `truncated`.
- *Indexing.* A supervisor that misses its grace period may leave orphans until the
  next run's sweep; `python.py` shares one memo between a base and a call site, and
  reports a name with more than 8 candidates as a reference; `scip.py` leaks the
  last document's declared kinds into the external symbols. `bind_import` returns
  before `bind_names` for an import without a target in the repository
  (`emitter.py:1628-1641`), and what the file itself defines is no binding: `from a
  import f; from requests import f; f()` is claimed to call `a.f`, although
  `emitter.py:35-38` and `1788-1794` say that only the binding in force is taken
  (`NameBinding!ClaimIsAlwaysMeant`, as the action property of the part `names`).

## 7. Not modelled

- *Go and TypeScript walks* (`tree_sitter/go.py`, `typescript.py`): the frames, scopes and
  budgets of `PythonWalk` over other grammars; token digests, fingerprints and the SCIP
  symbol grammar are string computations without state.
- *HTTP handlers* (`ledger/api.py`, `whoami.py`, `mcp/server.py`, `mcp/tools.py`): request
  parsing around modelled operations.
- *Search scores and embeddings* (`retrieval/search.py`, `embeddings.py`): numeric ranking
  by PostgreSQL, Neo4j and a model; `Candidates` takes the scores as inputs.
- *Catalog*: single-statement idempotent upserts.
- *Observability, settings, application assembly, fault injection*: no state of the
  system, or wiring.
- *Bytes*: verification of stored bytes, canonical encodings, landlock system calls.

What would come next: the invariants of `ContextPages` (contiguity and budgets are
statements about one cursor and one page), `Sandbox` and `ParsePlan` (a process table and
a work list), and `Lineage`, whose walk has the shape of `GraphDigest`.
