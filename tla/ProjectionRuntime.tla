------------------------- MODULE ProjectionRuntime -------------------------
(***************************************************************************)
(* The outbox-driven projection runtime: worker processes claim outbox     *)
(* rows under a lease, project each claimed row's event into the graph in  *)
(* one graph transaction, and finalize the row in a fenced database        *)
(* transaction that also advances the projector checkpoints.               *)
(*                                                                         *)
(* Sources: projection/runtime.py (ProjectionRunner), projection/          *)
(* checkpoints.py (CheckpointRepository), projection/models.py (the rows)  *)
(* and the worker loop of cli.py (_drive_worker, run_command).             *)
(*                                                                         *)
(* One step of this module is one database or graph transaction, or one    *)
(* local step of a worker.  Times are small integers; `now' is real time   *)
(* and saturates at MaxTime, and so does every time computed from it: once *)
(* it is reached, every lease has expired and every retry is due.  Each    *)
(* worker reads its own clock, off by at most MaxSkew.                     *)
(***************************************************************************)
EXTENDS Integers, FiniteSets

CONSTANTS
  Workers,          \* worker ids; a restarted process has a fresh one
  OnceWorkers,      \* the workers started with --once
  NoWorker,         \* lease_owner IS NULL
  Rows,             \* outbox ids, 1 or more
  Projectors,       \* registered (name, version) pairs
  Handles,          \* Handles[r]: the projectors that handle r's event type
  Corrupt,          \* rows whose event is missing or fails verify_event
  BatchSize,        \* limit of run_once
  LeaseDuration,
  MaxAttempts,
  BaseRetryDelay,
  MaxRetryDelay,
  MaxTime,          \* bound: the last instant the clock reaches
  MaxSkew,          \* bound: how far a worker's clock may be off
  MaxInterruptions  \* bound: stops, crashes and database errors, in all

ASSUME RowsAssumption == Rows \subseteq Nat \ {0} /\ IsFiniteSet(Rows)
ASSUME WorkersAssumption == NoWorker \notin Workers /\ OnceWorkers \subseteq Workers
ASSUME HandlesAssumption == Handles \in [Rows -> SUBSET Projectors] /\ Corrupt \subseteq Rows
ASSUME RunnerAssumption == /\ BatchSize \in Nat \ {0}
                           /\ LeaseDuration \in Nat \ {0}
                           /\ MaxAttempts \in Nat \ {0}
ASSUME RetryAssumption == /\ BaseRetryDelay \in Nat \ {0}
                          /\ MaxRetryDelay \in Nat
                          /\ BaseRetryDelay <= MaxRetryDelay
ASSUME BoundsAssumption == /\ MaxTime \in Nat \ {0}
                           /\ MaxSkew \in Nat
                           /\ MaxInterruptions \in Nat

\* Definitions named Mut_... are the seeded defects the runs must detect; no
\* specification uses them.

VARIABLES
  now,            \* real time
  outbox,         \* projection.outbox
  checkpoints,    \* projection.projection_checkpoints
  dead_letters,   \* projection.dead_letters: attempts of each open row, 0 for no row
  graph,          \* the (row, projector) pairs whose effect Neo4j holds
  pc,             \* where each worker process is
  batch,          \* the ClaimedOutboxRow snapshots a worker has still to process
  shared,         \* the workers that hold the rebuild lock shared
  exclusive,      \* whether a rebuild holds the rebuild lock
  interruptions   \* how many stops, crashes and database errors there were

vars == <<now, outbox, checkpoints, dead_letters, graph, pc, batch, shared,
          exclusive, interruptions>>

Time == 0 .. MaxTime

\* A time, saturated at the end of the modelled period.
At(t) == IF t \in Time THEN t ELSE MaxTime

\* What self._clock() may return to a worker now.
Clock == {t \in Time : t >= now - MaxSkew /\ t <= now + MaxSkew}

OutboxStatus == {"absent", "pending", "leased", "delivered", "dead_lettered"}

\* A row of projection.outbox; lease_expires_at 0 stands for NULL.
OutboxRow == [status : OutboxStatus, retry_count : Nat, available_at : Time,
              lease_owner : Workers \cup {NoWorker}, lease_expires_at : Time]

\* A row not committed yet.
NoRow == [status |-> "absent", retry_count |-> 0, available_at |-> 0,
          lease_owner |-> NoWorker, lease_expires_at |-> 0]

\* A checkpoint; 0 stands for NULL, and an event is named by its outbox row.
Checkpoint == [state : {"absent", "active", "rebuilding"},
               last_outbox_id : Rows \cup {0}, last_event_id : Rows \cup {0},
               processed_count : Nat]

NoCheckpoint == [state |-> "absent", last_outbox_id |-> 0, last_event_id |-> 0,
                 processed_count |-> 0]

\* The snapshot _claim_batch keeps of a row it leased.
ClaimedOutboxRow == [outbox_id : Rows, retry_count : Nat, lease_expires_at : Time]

\* A worker between entering the rebuild guard and leaving it.
InGuard == {"guarded", "load", "write", "success", "failure"}
Running == InGuard \cup {"idle", "polled"}
WorkerState == Running \cup {"off", "closing", "stopped", "crashed"}

TypeOK ==
  /\ now \in Time
  /\ outbox \in [Rows -> OutboxRow]
  /\ checkpoints \in [Projectors -> Checkpoint]
  /\ dead_letters \in [Rows -> Nat]
  /\ graph \subseteq Rows \X Projectors
  /\ pc \in [Workers -> WorkerState]
  /\ batch \in [Workers -> SUBSET ClaimedOutboxRow]
  /\ shared \subseteq Workers
  /\ exclusive \in BOOLEAN
  /\ interruptions \in 0 .. MaxInterruptions

Init ==
  /\ now = 0
  /\ outbox = [r \in Rows |-> NoRow]
  /\ checkpoints = [p \in Projectors |-> NoCheckpoint]
  /\ dead_letters = [r \in Rows |-> 0]
  /\ graph = {}
  /\ pc = [w \in Workers |-> "off"]
  /\ batch = [w \in Workers |-> {}]
  /\ shared = {}
  /\ exclusive = FALSE
  /\ interruptions = 0

----------------------------------------------------------------------------
(* The environment: time, ingestion, and a rebuild taking its lock.        *)

Tick ==
  /\ now < MaxTime
  /\ now' = now + 1
  /\ UNCHANGED <<outbox, checkpoints, dead_letters, graph, pc, batch, shared,
                 exclusive, interruptions>>

\* An ingestion transaction commits the row.  Ids are allocated before the
\* commit, so rows appear in any order.
Append(r) ==
  /\ outbox[r].status = "absent"
  /\ outbox' = [outbox EXCEPT ![r] = [NoRow EXCEPT !.status = "pending",
                                                   !.available_at = now]]
  /\ UNCHANGED <<now, checkpoints, dead_letters, graph, pc, batch, shared,
                 exclusive, interruptions>>

\* pg_try_advisory_lock: refused while any worker holds it shared.
RebuildLock ==
  /\ ~exclusive
  /\ shared = {}
  /\ exclusive' = TRUE
  /\ UNCHANGED <<now, outbox, checkpoints, dead_letters, graph, pc, batch, shared,
                 interruptions>>

RebuildUnlock ==
  /\ exclusive
  /\ exclusive' = FALSE
  /\ UNCHANGED <<now, outbox, checkpoints, dead_letters, graph, pc, batch, shared,
                 interruptions>>

----------------------------------------------------------------------------
(* Claiming.                                                               *)

\* The worker process starts its loop.
Start(w) ==
  /\ pc[w] = "off"
  /\ pc' = [pc EXCEPT ![w] = "idle"]
  /\ UNCHANGED <<now, outbox, checkpoints, dead_letters, graph, batch, shared,
                 exclusive, interruptions>>

\* pg_try_advisory_lock_shared: while a rebuild holds the lock the worker naps
\* and polls again.
EnterGuard(w) ==
  /\ pc[w] = "idle"
  /\ ~exclusive
  /\ pc' = [pc EXCEPT ![w] = "guarded"]
  /\ shared' = shared \cup {w}
  /\ UNCHANGED <<now, outbox, checkpoints, dead_letters, graph, batch, exclusive,
                 interruptions>>

Mut_Claimable(t) ==
  {r \in Rows : outbox[r].status = "pending" /\ outbox[r].available_at <= t}

\* Pending rows that are due, and leased rows whose lease has expired.
Claimable(t) ==
  {r \in Rows : \/ outbox[r].status = "pending" /\ outbox[r].available_at <= t
                \/ outbox[r].status = "leased" /\ outbox[r].lease_expires_at <= t}

\* The n smallest members of S: ORDER BY outbox_id LIMIT n.
Lowest(S, n) == {r \in S : Cardinality({q \in S : q < r}) < n}

\* Rows another worker's finalize transaction may hold locked (SKIP LOCKED).
Lockable(w) ==
  {r \in Rows : \E v \in Workers \ {w} : /\ pc[v] \in {"success", "failure"}
                                         /\ \E c \in batch[v] : c.outbox_id = r}

Lease(w, t) == [r \in Rows |-> [outbox[r] EXCEPT !.status = "leased",
                                                 !.lease_owner = w,
                                                 !.lease_expires_at = At(t + LeaseDuration)]]

\* _claim_batch.  An empty claim ends the guarded part of the iteration.
ClaimBatch(w) ==
  /\ pc[w] = "guarded"
  /\ \E t \in Clock, locked \in SUBSET Lockable(w) :
       LET claimed == Lowest(Claimable(t) \ locked, BatchSize) IN
       /\ outbox' = [r \in Rows |-> IF r \in claimed THEN Lease(w, t)[r] ELSE outbox[r]]
       /\ batch' = [batch EXCEPT ![w] =
            {[outbox_id |-> r, retry_count |-> outbox[r].retry_count,
              lease_expires_at |-> At(t + LeaseDuration)] : r \in claimed}]
       /\ IF claimed = {}
          THEN pc' = [pc EXCEPT ![w] = "polled"] /\ shared' = shared \ {w}
          ELSE pc' = [pc EXCEPT ![w] = "load"] /\ UNCHANGED shared
  /\ UNCHANGED <<now, checkpoints, dead_letters, graph, exclusive, interruptions>>

Mut_Outstanding == {r \in Rows : outbox[r].status \in {"pending", "leased", "dead_lettered"}}

\* Rows that are neither delivered nor dead-lettered.
Outstanding == {r \in Rows : outbox[r].status \in {"pending", "leased"}}

\* After an empty claim: a --once worker ends once nothing is outstanding.
AfterEmptyPoll(w) ==
  /\ pc[w] = "polled"
  /\ pc' = [pc EXCEPT ![w] = IF w \in OnceWorkers /\ Outstanding = {}
                             THEN "closing" ELSE "idle"]
  /\ UNCHANGED <<now, outbox, checkpoints, dead_letters, graph, batch, shared,
                 exclusive, interruptions>>

----------------------------------------------------------------------------
(* Processing one claimed row.                                             *)

\* Rows of a batch are processed in outbox order.
Current(w, c) ==
  /\ c \in batch[w]
  /\ \A d \in batch[w] : c.outbox_id <= d.outbox_id

Mut_LoadEvent(w, c) ==
  /\ pc[w] = "load"
  /\ Current(w, c)
  /\ pc' = [pc EXCEPT ![w] = IF c.outbox_id \in Corrupt THEN "failure" ELSE "success"]
  /\ UNCHANGED <<now, outbox, checkpoints, dead_letters, graph, batch, shared,
                 exclusive, interruptions>>

\* _load_event and the handles() calls.  A load error, a corrupt event or a
\* handles() that raises is a failed attempt; an event no projector handles
\* needs no graph write.
LoadEvent(w, c) ==
  /\ pc[w] = "load"
  /\ Current(w, c)
  /\ \/ pc' = [pc EXCEPT ![w] = "failure"]
     \/ /\ c.outbox_id \notin Corrupt
        /\ pc' = [pc EXCEPT ![w] = IF Handles[c.outbox_id] = {} THEN "success" ELSE "write"]
  /\ UNCHANGED <<now, outbox, checkpoints, dead_letters, graph, batch, shared,
                 exclusive, interruptions>>

Effects(r) == {r} \X Handles[r]

\* The graph transaction of all matching projectors: it commits, it fails and
\* rolls back, or it commits and the driver still reports an error.
ProjectEvent(w, c) ==
  /\ pc[w] = "write"
  /\ Current(w, c)
  /\ \/ /\ graph' = graph \cup Effects(c.outbox_id)
        /\ pc' = [pc EXCEPT ![w] = "success"]
     \/ /\ graph' \in {graph, graph \cup Effects(c.outbox_id)}
        /\ pc' = [pc EXCEPT ![w] = "failure"]
  /\ UNCHANGED <<now, outbox, checkpoints, dead_letters, batch, shared, exclusive,
                 interruptions>>

----------------------------------------------------------------------------
(* Finalizing one claimed row.                                             *)

Mut_Fence(w, c) == outbox[c.outbox_id].status = "leased"

\* The WHERE clause of _fenced_update: still leased to this worker under the
\* exact lease it observed when it claimed.
Fence(w, c) ==
  LET row == outbox[c.outbox_id] IN
  /\ row.status = "leased"
  /\ row.lease_owner = w
  /\ row.lease_expires_at = c.lease_expires_at

\* Every finalize clears the lease.
Finalized(row, status) == [row EXCEPT !.status = status, !.lease_owner = NoWorker,
                                      !.lease_expires_at = 0]

Larger(a, b) == IF a >= b THEN a ELSE b

Mut_Advance(k, r) ==
  IF k.state = "absent"
  THEN [state |-> "active", last_outbox_id |-> r, last_event_id |-> r,
        processed_count |-> 1]
  ELSE [k EXCEPT !.last_outbox_id = r,
                 !.last_event_id = r,
                 !.processed_count = @ + 1]

Mut_AdvanceKeeps(k, r) ==
  IF k.state = "absent"
  THEN [state |-> "active", last_outbox_id |-> r, last_event_id |-> r,
        processed_count |-> 1]
  ELSE k

\* CheckpointRepository.advance: the position never regresses, the count always
\* grows, and an existing row keeps its state.
Advance(k, r) ==
  IF k.state = "absent"
  THEN [state |-> "active", last_outbox_id |-> r, last_event_id |-> r,
        processed_count |-> 1]
  ELSE [k EXCEPT !.last_outbox_id = Larger(@, r),
                 !.last_event_id = IF k.last_outbox_id = 0 \/ r >= k.last_outbox_id
                                   THEN r ELSE @,
                 !.processed_count = @ + 1]

\* Go on with the next row of the batch, or leave the guard after the last one.
FinishRow(w, c) ==
  /\ batch' = [batch EXCEPT ![w] = @ \ {c}]
  /\ IF batch[w] = {c}
     THEN pc' = [pc EXCEPT ![w] = "idle"] /\ shared' = shared \ {w}
     ELSE pc' = [pc EXCEPT ![w] = "load"] /\ UNCHANGED shared

\* _finalize_success: the row and the checkpoints change in one transaction; a
\* lost lease changes nothing.
FinalizeSuccess(w, c) ==
  LET r == c.outbox_id IN
  /\ pc[w] = "success"
  /\ Current(w, c)
  /\ IF Fence(w, c)
     THEN /\ outbox' = [outbox EXCEPT ![r] = Finalized(@, "delivered")]
          /\ checkpoints' = [p \in Projectors |-> IF p \in Handles[r]
                                                  THEN Advance(checkpoints[p], r)
                                                  ELSE checkpoints[p]]
     ELSE UNCHANGED <<outbox, checkpoints>>
  /\ FinishRow(w, c)
  /\ UNCHANGED <<now, dead_letters, graph, exclusive, interruptions>>

\* Exponential backoff, its exponent capped before the power is taken.
RetryDelay(n) ==
  LET exponent == IF n - 1 <= 62 THEN n - 1 ELSE 62
      delay == BaseRetryDelay * 2 ^ exponent
  IN  IF delay <= MaxRetryDelay THEN delay ELSE MaxRetryDelay

Mut_FailedRow(row, c, t) ==
  LET attempts == c.retry_count + 1 IN
  IF attempts > MaxAttempts
  THEN [Finalized(row, "dead_lettered") EXCEPT !.retry_count = attempts]
  ELSE [Finalized(row, "pending") EXCEPT !.retry_count = attempts,
                                         !.available_at = At(t + RetryDelay(attempts))]

Mut_FailedRowRefunds(row, c, t) ==
  [Finalized(row, "pending") EXCEPT !.retry_count = c.retry_count - 1,
                                    !.available_at = At(t + RetryDelay(1))]

\* The row after a failed attempt: dead-lettered once the attempts are spent,
\* else pending again after the backoff.
FailedRow(row, c, t) ==
  LET attempts == c.retry_count + 1 IN
  IF attempts >= MaxAttempts
  THEN [Finalized(row, "dead_lettered") EXCEPT !.retry_count = attempts]
  ELSE [Finalized(row, "pending") EXCEPT !.retry_count = attempts,
                                         !.available_at = At(t + RetryDelay(attempts))]

\* _finalize_failure: with the last attempt the dead letter is upserted in the
\* same transaction.
FinalizeFailure(w, c) ==
  LET r == c.outbox_id IN
  /\ pc[w] = "failure"
  /\ Current(w, c)
  /\ \E t \in Clock :
       IF Fence(w, c)
       THEN /\ outbox' = [outbox EXCEPT ![r] = FailedRow(@, c, t)]
            /\ dead_letters' = [dead_letters EXCEPT ![r] =
                 IF c.retry_count + 1 >= MaxAttempts THEN c.retry_count + 1 ELSE @]
       ELSE UNCHANGED <<outbox, dead_letters>>
  /\ FinishRow(w, c)
  /\ UNCHANGED <<now, checkpoints, graph, exclusive, interruptions>>

----------------------------------------------------------------------------
(* Ends of a worker process.                                               *)

Interrupted ==
  /\ interruptions < MaxInterruptions
  /\ interruptions' = interruptions + 1

\* SIGTERM, SIGINT or --max-seconds: the loop ends between two batches.
Stop(w) ==
  /\ pc[w] \in {"idle", "guarded", "polled"}
  /\ Interrupted
  /\ pc' = [pc EXCEPT ![w] = "closing"]
  /\ shared' = shared \ {w}
  /\ UNCHANGED <<now, outbox, checkpoints, dead_letters, graph, batch, exclusive>>

\* A database error escapes run_once, before the transaction or after a commit
\* whose acknowledgement was lost: the batch is abandoned.
Abort(w) ==
  /\ pc[w] \in InGuard \ {"write"}
  /\ Interrupted
  /\ pc' = [pc EXCEPT ![w] = "closing"]
  /\ batch' = [batch EXCEPT ![w] = {}]
  /\ shared' = shared \ {w}
  /\ UNCHANGED <<now, outbox, checkpoints, dead_letters, graph, exclusive>>

\* The process dies; its connections and so its shared lock go with it.
Crash(w) ==
  /\ pc[w] \in Running \cup {"closing"}
  /\ Interrupted
  /\ pc' = [pc EXCEPT ![w] = "crashed"]
  /\ batch' = [batch EXCEPT ![w] = {}]
  /\ shared' = shared \ {w}
  /\ UNCHANGED <<now, outbox, checkpoints, dead_letters, graph, exclusive>>

Mut_ReleaseLeases(w) ==
  /\ pc[w] = "closing"
  /\ pc' = [pc EXCEPT ![w] = "stopped"]
  /\ UNCHANGED <<now, outbox, checkpoints, dead_letters, graph, batch, shared,
                 exclusive, interruptions>>

\* release_leases, in the finally block: every row still leased to this worker
\* is pending again, its attempts untouched.
ReleaseLeases(w) ==
  /\ pc[w] = "closing"
  /\ outbox' = [r \in Rows |->
       IF outbox[r].status = "leased" /\ outbox[r].lease_owner = w
       THEN Finalized(outbox[r], "pending") ELSE outbox[r]]
  /\ pc' = [pc EXCEPT ![w] = "stopped"]
  /\ UNCHANGED <<now, checkpoints, dead_letters, graph, batch, shared, exclusive,
                 interruptions>>

----------------------------------------------------------------------------
WorkerStep(w) ==
  \/ Start(w)
  \/ EnterGuard(w)
  \/ ClaimBatch(w)
  \/ AfterEmptyPoll(w)
  \/ \E c \in batch[w] : \/ LoadEvent(w, c)
                         \/ ProjectEvent(w, c)
                         \/ FinalizeSuccess(w, c)
                         \/ FinalizeFailure(w, c)
  \/ ReleaseLeases(w)

Interruption(w) == Stop(w) \/ Abort(w) \/ Crash(w)

Environment == Tick \/ RebuildLock \/ RebuildUnlock \/ \E r \in Rows : Append(r)

Next == Environment \/ \E w \in Workers : WorkerStep(w) \/ Interruption(w)

Spec == Init /\ [][Next]_vars

\* Workers keep taking steps, time passes and a rebuild gives its lock back.
\* Entering the guard needs strong fairness: rebuilds may come and go, and a
\* worker that polls again and again meets one of the gaps.
Fairness ==
  /\ WF_vars(Tick) /\ WF_vars(RebuildUnlock)
  /\ \A w \in Workers :
       /\ WF_vars(WorkerStep(w))
       /\ SF_vars(EnterGuard(w))

FairSpec == Spec /\ Fairness

----------------------------------------------------------------------------
(* Properties.                                                             *)

Delivered(p) == {r \in Rows : outbox[r].status = "delivered" /\ p \in Handles[r]}

\* No delivered row lacks its effect in the graph, whatever crashes, reclaims
\* and late finalizes came before (_process_claimed_row: the graph commits
\* before _finalize_success).
DeliveredIsProjected ==
  \A r \in Rows : outbox[r].status = "delivered" => Effects(r) \subseteq graph

\* The checkpoint is exact although workers finalize out of order and a row
\* may be projected by several of them: it counts the delivered rows its
\* projector handles and points at the highest of them
\* (_finalize_success, CheckpointRepository.advance).
CheckpointExact ==
  \A p \in Projectors :
    LET k == checkpoints[p] IN
    /\ k.processed_count = Cardinality(Delivered(p))
    /\ k.last_event_id = k.last_outbox_id
    /\ IF Delivered(p) = {} THEN k.last_outbox_id = 0
       ELSE /\ k.last_outbox_id \in Delivered(p)
            /\ \A r \in Delivered(p) : r <= k.last_outbox_id

\* A dead letter exists exactly for the rows that are dead-lettered, those
\* spent the whole retry budget, and no other row has (_finalize_failure).
DeadLetterExact ==
  \A r \in Rows :
    IF outbox[r].status = "dead_lettered"
    THEN outbox[r].retry_count = MaxAttempts /\ dead_letters[r] = MaxAttempts
    ELSE outbox[r].retry_count < MaxAttempts /\ dead_letters[r] = 0

\* No lease outlives a worker that ended in an orderly way, even one whose
\* batch was cut short by an error (release_leases in run_command's finally).
NoLeaseOutlivesStop ==
  \A w \in Workers, r \in Rows : pc[w] = "stopped" => outbox[r].lease_owner # w

\* While a rebuild holds its lock no worker has a claimed row in hand: the
\* shared lock covers a batch from before its claim until its last finalize,
\* on every way out (_shared_rebuild_lock, _drive_worker).
RebuildExcludesBatches ==
  exclusive => \A w \in Workers : batch[w] = {} /\ pc[w] \notin InGuard

\* Only the owner of a lease ends it; another worker can only take it over,
\* as a lease of its own, and only once its clock says that it has expired.  A
\* worker that comes back late never changes the row of the worker that
\* reclaimed it (_fenced_update, _claim_batch, release_leases).
LeaseRespectedStep ==
  \A r \in Rows : \A w \in Workers :
    outbox[r].lease_owner = w /\ outbox'[r] # outbox[r] =>
      \/ pc'[w] # pc[w] \/ batch'[w] # batch[w]
      \/ /\ outbox'[r].status = "leased" /\ outbox'[r].lease_owner # w
         /\ outbox[r].lease_expires_at <= now + MaxSkew

LeaseRespected == [][LeaseRespectedStep]_vars

\* A delivered or dead-lettered row never changes again, and each change of a
\* retry count is one more attempt, none lost and none counted twice, although
\* the new count is computed from the snapshot taken at the claim.
AttemptsStep ==
  \A r \in Rows :
    /\ outbox[r].status \in {"delivered", "dead_lettered"} => outbox'[r] = outbox[r]
    /\ outbox'[r].retry_count # outbox[r].retry_count =>
         outbox'[r].retry_count = outbox[r].retry_count + 1

AttemptsMonotone == [][AttemptsStep]_vars

\* What makes the properties above inductive: a lease belongs to a worker that
\* has not stopped, a batch is only in hand inside the guard, which is the
\* shared lock, a snapshot agrees with the row while its lease is held, and a
\* worker about to finalize a success has committed to the graph.
LeaseShape ==
  \A r \in Rows : /\ outbox[r].lease_owner # NoWorker <=> outbox[r].status = "leased"
                  /\ outbox[r].status = "absent" => outbox[r].retry_count = 0

BatchInGuard ==
  \A w \in Workers : /\ batch[w] # {} => pc[w] \in InGuard \ {"guarded"}
                     /\ pc[w] \in InGuard <=> w \in shared

LockExclusion == exclusive => shared = {}

SnapshotFresh ==
  \A w \in Workers : \A c \in batch[w] :
    /\ outbox[c.outbox_id].status # "absent"
    /\ outbox[c.outbox_id].lease_owner = w =>
         outbox[c.outbox_id].retry_count = c.retry_count

SuccessProjected ==
  \A w \in Workers : \A c \in batch[w] :
    pc[w] = "success" /\ Current(w, c) => Effects(c.outbox_id) \subseteq graph

CheckpointAbsent ==
  \A p \in Projectors : checkpoints[p].state = "absent" => checkpoints[p].processed_count = 0

\* The inductive invariant of the runtime (one invariant; its parts are proved
\* one by one).
Inductive ==
  /\ LeaseShape /\ BatchInGuard /\ LockExclusion /\ SnapshotFresh
  /\ SuccessProjected /\ CheckpointAbsent

RowsIn(statuses) == {r \in Rows : outbox[r].status \in statuses}

Abstract == INSTANCE Delivery WITH
  Items <- Rows, Consumers <- Projectors, Needs <- Handles,
  queued <- RowsIn({"pending", "leased"}),
  delivered <- RowsIn({"delivered"}),
  given_up <- RowsIn({"dead_lettered"}),
  effects <- graph,
  count <- [p \in Projectors |-> checkpoints[p].processed_count],
  position <- [p \in Projectors |-> checkpoints[p].last_outbox_id]

\* The runtime keeps the promise of Delivery: effects at least once, settled
\* and counted exactly once, nothing lost.
ImplementsDelivery == Abstract!Spec

\* A claim that takes a row out of the hands of a worker that still runs.
NoTakeover ==
  \A w \in Workers, r \in Rows :
    /\ \E c \in batch[w] : c.outbox_id = r
    /\ outbox[r].lease_owner = w
    => outbox'[r].lease_owner \in {w, NoWorker}

\* From some point on, batches finish within their lease.  Without it two
\* workers that are each slower than a lease may take a row from one another
\* for ever: leases are never renewed.
Timely == <>[][NoTakeover]_vars

\* Some worker process is always there in the end (an operator restarts one).
SomeWorkerRuns == \E w \in Workers : <>[](pc[w] \in Running)

\* Every row that is queued is in the end delivered or dead-lettered, through
\* crashes, failed releases, retries and rebuild pauses.
EveryRowSettles ==
  Timely /\ SomeWorkerRuns =>
    \A r \in Rows : outbox[r].status = "pending" ~>
                      outbox[r].status \in {"delivered", "dead_lettered"}

\* A --once worker ends: it waits out the retry delays and the leases of dead
\* workers, and does not poll for ever.
OnceEnds ==
  Timely => \A w \in OnceWorkers : pc[w] = "idle" ~> pc[w] \in {"stopped", "crashed"}

\* A comment on dead-lettered events says of them "the live graph never held
\* them" (verify.py, dead_lettered_event_ids and replay_ledger).
DeadLetteredNeverInGraph ==
  \A r \in Rows : outbox[r].status = "dead_lettered" => Effects(r) \cap graph = {}

=============================================================================
