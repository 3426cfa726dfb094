------------------------------ MODULE Rebuild ------------------------------
(***************************************************************************)
(* Rebuilding the graph from the ledger beside the projection workers, and *)
(* the history marker that says which projector versions have projected a  *)
(* graph from the start of the ledger.                                     *)
(*                                                                         *)
(* Sources: projection/verify.py (rebuild_projections and what it calls,   *)
(* record_history_if_fresh), projection/schema.py (the marker),            *)
(* projection/checkpoints.py, and cli.py (the start of a worker, its       *)
(* shared rebuild lock).  The workers are those of ProjectionRuntime with  *)
(* a batch of one row and without times: a lease left behind by a dead     *)
(* worker may be taken over at once.                                       *)
(*                                                                         *)
(* One projector is modelled, in several versions.  What projecting a row  *)
(* leaves in a graph is the pair of the row and the version.  A step is    *)
(* one database or graph transaction.                                      *)
(***************************************************************************)
EXTENDS Integers, FiniteSets, FiniteSetTheorems, TLAPS

CONSTANTS
  Rows,          \* outbox ids, 1 or more
  Handled,       \* the rows whose event type the projector handles
  Versions,      \* versions of the projector
  Workers,
  Rebuilds,      \* processes that may run `projection rebuild'
  Nobody,
  NoMarker,      \* no ProjectionHistory node
  Modes,         \* the kinds of rebuild that are run
  PageSize,      \* page_size of replay_ledger
  WipeLimit,     \* _WIPE_BATCH
  StopFirst,     \* operators stop the workers before they start a rebuild
  KeepStopped,   \* and do not start one before it has ended
  MaxFailures,   \* bound: crashes and errors, in all
  MaxLostLocks   \* bound: how often the connection with the rebuild lock dies

RowsAssumption == Rows \subseteq Nat \ {0} /\ IsFiniteSet(Rows) /\ Handled \subseteq Rows
ProcessAssumption == Nobody \notin Rebuilds /\ Versions # {} /\ \A V \in SUBSET Versions : V # NoMarker
ModesAssumption == Modes \subseteq {"in_place", "standby", "standby_wipe"}
SizesAssumption == PageSize \in Nat \ {0} /\ WipeLimit \in Nat \ {0}
OperatorAssumption == StopFirst \in BOOLEAN /\ KeepStopped \in BOOLEAN
BoundsAssumption == MaxFailures \in Nat /\ MaxLostLocks \in Nat

VARIABLES
  outbox,        \* the status of each outbox row
  checkpoints,   \* the checkpoint of each version
  graph,         \* what the live and the standby graph hold
  marker,        \* the versions the marker of each graph names
  worker,        \* [pc, version, row] of each worker
  rebuild,       \* the state of each rebuild process
  shared,        \* the workers that hold the rebuild lock shared
  exclusive,     \* the rebuild that holds it, or Nobody
  failures,
  lost_locks

vars == <<outbox, checkpoints, graph, marker, worker, rebuild, shared, exclusive,
          failures, lost_locks>>
bounds == <<failures, lost_locks>>

Stores == {"live", "standby"}
OutboxStatus == {"absent", "pending", "leased", "delivered", "dead_lettered"}
Checkpoint == [last : Rows \cup {0}, count : Nat, state : {"none", "active", "rebuilding"}]
NoCheckpoint == [last |-> 0, count |-> 0, state |-> "none"]

\* ReplayProgress with the loop state of replay_ledger; last and after are 0
\* before the first row.
Process == [pc : {"off", "check", "mark", "target", "marker", "wipe", "replay", "finalize",
                  "tail", "commit", "verify", "record"},
            mode : {"in_place", "standby", "standby_wipe"}, version : Versions,
            after : Rows \cup {0}, page : SUBSET Rows, count : Nat, last : Rows \cup {0}]
Fresh(m, v) == [pc |-> "off", mode |-> m, version |-> v, after |-> 0, page |-> {},
                count |-> 0, last |-> 0]

WorkerState == [pc : {"off", "count", "fresh", "record", "idle", "claimed", "written"},
                version : Versions, row : Rows \cup {0}]

TypeOK ==
  /\ outbox \in [Rows -> OutboxStatus]
  /\ checkpoints \in [Versions -> Checkpoint]
  /\ graph \in [Stores -> SUBSET (Rows \X Versions)]
  /\ marker \in [Stores -> (SUBSET Versions) \cup {NoMarker}]
  /\ worker \in [Workers -> WorkerState]
  /\ rebuild \in [Rebuilds -> Process]
  /\ shared \subseteq Workers
  /\ exclusive \in Rebuilds \cup {Nobody}
  /\ exclusive # Nobody => shared = {}
  /\ failures \in 0 .. MaxFailures /\ lost_locks \in 0 .. MaxLostLocks

AnyVersion == CHOOSE v \in Versions : TRUE

Init ==
  /\ outbox = [r \in Rows |-> "absent"]
  /\ checkpoints = [v \in Versions |-> NoCheckpoint]
  /\ graph = [g \in Stores |-> {}]
  /\ marker = [g \in Stores |-> NoMarker]
  /\ worker = [w \in Workers |-> [pc |-> "off", version |-> AnyVersion, row |-> 0]]
  /\ rebuild = [p \in Rebuilds |-> Fresh("standby", AnyVersion)]
  /\ shared = {} /\ exclusive = Nobody
  /\ failures = 0 /\ lost_locks = 0

\* An event is committed with its outbox row.  Ids come from a sequence, so a
\* row may become visible after one with a greater id.
AppendEvent(r) ==
  /\ outbox[r] = "absent"
  /\ outbox' = [outbox EXCEPT ![r] = "pending"]
  /\ UNCHANGED <<checkpoints, graph, marker, worker, rebuild, shared, exclusive, bounds>>

-----------------------------------------------------------------------------
(* Workers *)

Rebuilding == \E p \in Rebuilds : rebuild[p].pc # "off"

\* narrow_projection_history: a version that no longer runs cannot vouch for
\* what comes; nothing is added.
Narrowed(mk, v) == IF mk = NoMarker THEN NoMarker ELSE mk \cap {v}

\* A worker process starts.  While a rebuild holds the lock it leaves the
\* marker alone.
StartWorker(w, v) ==
  /\ worker[w].pc = "off"
  /\ KeepStopped => ~Rebuilding
  /\ IF exclusive # Nobody
     THEN /\ worker' = [worker EXCEPT ![w] = [pc |-> "idle", version |-> v, row |-> 0]]
          /\ UNCHANGED <<marker, shared>>
     ELSE /\ worker' = [worker EXCEPT ![w] = [pc |-> "count", version |-> v, row |-> 0]]
          /\ shared' = shared \cup {w}
          /\ marker' = [marker EXCEPT !["live"] = Narrowed(@, v)]
  /\ UNCHANGED <<outbox, checkpoints, graph, rebuild, exclusive, bounds>>

Empty(g) == graph[g] = {} /\ marker[g] = NoMarker

Goes(w, pc) == worker' = [worker EXCEPT ![w].pc = pc]

\* record_history_if_fresh: the graph is counted, then the outbox is asked for
\* a delivered row, then the marker is written.
CountGraph(w) ==
  /\ worker[w].pc = "count"
  /\ IF Empty("live")
     THEN Goes(w, "fresh") /\ UNCHANGED shared
     ELSE Goes(w, "idle") /\ shared' = shared \ {w}
  /\ UNCHANGED <<outbox, checkpoints, graph, marker, rebuild, exclusive, bounds>>

CheckDelivered(w) ==
  /\ worker[w].pc = "fresh"
  /\ IF \E r \in Rows : outbox[r] = "delivered"
     THEN Goes(w, "idle") /\ shared' = shared \ {w}
     ELSE Goes(w, "record") /\ UNCHANGED shared
  /\ UNCHANGED <<outbox, checkpoints, graph, marker, rebuild, exclusive, bounds>>

RecordFresh(w) ==
  /\ worker[w].pc = "record"
  /\ marker' = [marker EXCEPT !["live"] = {worker[w].version}]
  /\ Goes(w, "idle") /\ shared' = shared \ {w}
  /\ UNCHANGED <<outbox, checkpoints, graph, rebuild, exclusive, bounds>>

InHand == {worker[w].row : w \in Workers}

\* One iteration of the worker: the shared lock, held until the row is
\* finalized, and a claim.  A row whose worker died may be claimed again.
Claim(w, r) ==
  /\ worker[w].pc = "idle" /\ exclusive = Nobody
  /\ \/ outbox[r] = "pending"
     \/ outbox[r] = "leased" /\ r \notin InHand
  /\ outbox' = [outbox EXCEPT ![r] = "leased"]
  /\ worker' = [worker EXCEPT ![w].pc = "claimed", ![w].row = r]
  /\ shared' = shared \cup {w}
  /\ UNCHANGED <<checkpoints, graph, marker, rebuild, exclusive, bounds>>

Effect(r, v) == IF r \in Handled THEN {<<r, v>>} ELSE {}

Project(w) ==
  /\ worker[w].pc = "claimed"
  /\ graph' = [graph EXCEPT !["live"] = @ \cup Effect(worker[w].row, worker[w].version)]
  /\ Goes(w, "written")
  /\ UNCHANGED <<outbox, checkpoints, marker, rebuild, shared, exclusive, bounds>>

Larger(a, b) == IF a > b THEN a ELSE b

\* CheckpointRepository.advance; an existing row keeps its state.
Advance(c, r) ==
  IF c.state = "none" THEN [last |-> r, count |-> 1, state |-> "active"]
  ELSE [c EXCEPT !.last = Larger(@, r), !.count = @ + 1]

\* The checkpoint row a rebuild has locked FOR UPDATE.
Locked(v) == \E p \in Rebuilds : rebuild[p].pc \in {"tail", "commit"} /\ rebuild[p].version = v

Settle(w, status) ==
  /\ outbox' = [outbox EXCEPT ![worker[w].row] = status]
  /\ worker' = [worker EXCEPT ![w].pc = "idle", ![w].row = 0]
  /\ shared' = shared \ {w}

Deliver(w) ==
  LET r == worker[w].row  v == worker[w].version IN
  /\ worker[w].pc = "written"
  /\ r \in Handled => ~Locked(v)
  /\ Settle(w, "delivered")
  /\ checkpoints' = IF r \in Handled THEN [checkpoints EXCEPT ![v] = Advance(@, r)]
                    ELSE checkpoints
  /\ UNCHANGED <<graph, marker, rebuild, exclusive, bounds>>

\* The attempt failed, before or after the graph transaction.
FailRow(w, status) ==
  /\ worker[w].pc \in {"claimed", "written"}
  /\ Settle(w, status)
  /\ failures < MaxFailures /\ failures' = failures + 1
  /\ UNCHANGED <<checkpoints, graph, marker, rebuild, exclusive, lost_locks>>

StopWorker(w) ==
  /\ worker[w].pc = "idle" /\ Goes(w, "off")
  /\ UNCHANGED <<outbox, checkpoints, graph, marker, rebuild, shared, exclusive, bounds>>

CrashWorker(w) ==
  /\ worker[w].pc \notin {"off", "idle"}
  /\ failures < MaxFailures /\ failures' = failures + 1
  /\ worker' = [worker EXCEPT ![w].pc = "off", ![w].row = 0]
  /\ shared' = shared \ {w}
  /\ UNCHANGED <<outbox, checkpoints, graph, marker, rebuild, exclusive, lost_locks>>

-----------------------------------------------------------------------------
(* Rebuilds *)

Target(p) == IF rebuild[p].mode = "in_place" THEN "live" ELSE "standby"

Unlock(p) == exclusive' = IF exclusive = p THEN Nobody ELSE exclusive

To(p, pc) == rebuild' = [rebuild EXCEPT ![p].pc = pc]
End(p) == rebuild' = [rebuild EXCEPT ![p] = Fresh(@.mode, @.version)] /\ Unlock(p)

\* rebuild_projections: the lock only for what wipes a graph; a rebuild that
\* finds it held, by a worker too, is refused and does nothing.
Begin(p, m, v) ==
  /\ rebuild[p].pc = "off"
  /\ StopFirst => \A w \in Workers : worker[w].pc = "off"
  /\ IF m = "standby" THEN UNCHANGED exclusive
     ELSE exclusive = Nobody /\ shared = {} /\ exclusive' = p
  /\ rebuild' = [rebuild EXCEPT ![p] =
                   [Fresh(m, v) EXCEPT !.pc = IF m = "in_place" THEN "check" ELSE "target"]]
  /\ UNCHANGED <<outbox, checkpoints, graph, marker, worker, shared, bounds>>

\* ensure_runner_idle.  Leases, recent changes and connections are only seen
\* while they last, so it may pass beside a worker; it refuses only on a sign
\* of one.
EnsureIdle(p) ==
  /\ rebuild[p].pc = "check"
  /\ \/ To(p, "mark") /\ UNCHANGED exclusive
     \/ /\ \/ \E r \in Rows : outbox[r] \notin {"absent", "pending"}
           \/ \E w \in Workers : worker[w].pc # "off"
        /\ End(p)
  /\ UNCHANGED <<outbox, checkpoints, graph, marker, worker, shared, bounds>>

\* _write_checkpoints with no progress.
MarkRebuilding(p) ==
  /\ rebuild[p].pc = "mark"
  /\ checkpoints' = [checkpoints EXCEPT ![rebuild[p].version] =
                       [last |-> 0, count |-> 0, state |-> "rebuilding"]]
  /\ To(p, "marker")
  /\ UNCHANGED <<outbox, graph, marker, worker, shared, exclusive, bounds>>

\* count_nodes of a standby target.
CheckTarget(p) ==
  /\ rebuild[p].pc = "target"
  /\ \/ Empty("standby") /\ To(p, "replay") /\ UNCHANGED exclusive
     \/ ~Empty("standby") /\ rebuild[p].mode = "standby_wipe" /\ To(p, "marker")
        /\ UNCHANGED exclusive
     \/ ~Empty("standby") /\ rebuild[p].mode = "standby" /\ End(p)
  /\ UNCHANGED <<outbox, checkpoints, graph, marker, worker, shared, bounds>>

\* The marker is wiped with the rest.
Mut_DeleteMarker(p) ==
  /\ rebuild[p].pc = "marker" /\ To(p, "wipe")
  /\ UNCHANGED <<outbox, checkpoints, graph, marker, worker, shared, exclusive, bounds>>

\* wipe_graph: the marker goes first, in a transaction of its own.
DeleteMarker(p) ==
  /\ rebuild[p].pc = "marker"
  /\ marker' = [marker EXCEPT ![Target(p)] = NoMarker]
  /\ To(p, "wipe")
  /\ UNCHANGED <<outbox, checkpoints, graph, worker, shared, exclusive, bounds>>

\* One batch deletes any WipeLimit nodes; one that finds none is the last.
WipeBatch(p) ==
  LET g == Target(p) IN
  /\ rebuild[p].pc = "wipe"
  /\ \/ /\ graph[g] # {}
        /\ \E S \in SUBSET graph[g] :
             /\ Cardinality(S) = WipeLimit \/ (Cardinality(S) < WipeLimit /\ S = graph[g])
             /\ graph' = [graph EXCEPT ![g] = @ \ S]
        /\ UNCHANGED rebuild
     \/ graph[g] = {} /\ To(p, "replay") /\ UNCHANGED graph
  /\ UNCHANGED <<outbox, checkpoints, marker, worker, shared, exclusive, bounds>>

\* The rows replay_ledger selects: an in-place rebuild takes what was
\* delivered, a standby rebuild what was not given up.
Replayable(p) ==
  {r \in Rows : /\ r > rebuild[p].after
                /\ IF rebuild[p].mode = "in_place" THEN outbox[r] = "delivered"
                   ELSE outbox[r] \notin {"absent", "dead_lettered"}}

Lowest(S, n) == {r \in S : Cardinality({s \in S : s < r}) < n}

\* An empty page ends the loop.
ReadPage(p) ==
  /\ rebuild[p].pc \in {"replay", "tail"} /\ rebuild[p].page = {}
  /\ IF Replayable(p) # {}
     THEN rebuild' = [rebuild EXCEPT ![p].page = Lowest(Replayable(p), PageSize)]
     ELSE To(p, IF rebuild[p].pc = "tail" THEN "commit"
                ELSE IF rebuild[p].mode = "in_place" THEN "finalize" ELSE "verify")
  /\ UNCHANGED <<outbox, checkpoints, graph, marker, worker, shared, exclusive, bounds>>

ReplayRow(p) ==
  /\ rebuild[p].pc \in {"replay", "tail"}
  /\ \E r \in rebuild[p].page :
       /\ \A s \in rebuild[p].page : r <= s
       /\ graph' = [graph EXCEPT ![Target(p)] = @ \cup Effect(r, rebuild[p].version)]
       /\ rebuild' = [rebuild EXCEPT ![p].page = @ \ {r}, ![p].after = r,
                        ![p].count = IF r \in Handled THEN @ + 1 ELSE @,
                        ![p].last = IF r \in Handled THEN r ELSE @]
  /\ UNCHANGED <<outbox, checkpoints, marker, worker, shared, exclusive, bounds>>

\* _finalize_checkpoints: the row is locked, and the replay goes on under the
\* lock with what was delivered since.
LockCheckpoint(p) ==
  /\ rebuild[p].pc = "finalize" /\ ~Locked(rebuild[p].version)
  /\ To(p, "tail")
  /\ UNCHANGED <<outbox, checkpoints, graph, marker, worker, shared, exclusive, bounds>>

\* event_type_stats for the handled types, at a position.
HandledWith(status) == {r \in Handled : outbox[r] \in status}
Covered(pos, status) == {r \in HandledWith(status) : r <= pos}
Queued == OutboxStatus \ {"absent"}
DeliveredTo(pos) == Cardinality(Covered(pos, {"delivered"}))

\* Deliveries behind the replay are not looked for.
Mut_NothingMissed(p) == TRUE

NothingMissed(p) == rebuild[p].last # 0 => DeliveredTo(rebuild[p].last) = rebuild[p].count

CommitCheckpoint(p) ==
  LET v == rebuild[p].version
      position == Larger(checkpoints[v].last, rebuild[p].last)
  IN
  /\ rebuild[p].pc = "commit"
  /\ IF NothingMissed(p)
     THEN /\ checkpoints' = [checkpoints EXCEPT ![v] =
                [last |-> position, count |-> DeliveredTo(position), state |-> "active"]]
          /\ To(p, "verify") /\ UNCHANGED exclusive
     ELSE End(p) /\ UNCHANGED checkpoints
  /\ UNCHANGED <<outbox, graph, marker, worker, shared, bounds>>

\* classify_projector: the findings about a checkpoint.
Issues(v) ==
  LET c == checkpoints[v] IN
  {i \in {"rebuilding", "regressed", "dead_lettered", "count"} :
     CASE i = "rebuilding" -> c.state = "rebuilding"
       [] i = "regressed" -> HandledWith({"delivered"}) # Covered(c.last, {"delivered"})
       [] i = "dead_lettered" -> Covered(c.last, {"dead_lettered"}) # {}
       [] i = "count" -> c.count # DeliveredTo(c.last)}

\* Deliveries beyond the head are taken for lag.
Mut_ReplayComplete(p) ==
  rebuild[p].count = Cardinality(Covered(rebuild[p].after, Queued \ {"dead_lettered"}))

\* classify_replay: coverage at the head of the replay, and nothing delivered
\* beyond it.
ReplayComplete(p) ==
  /\ rebuild[p].count = Cardinality(Covered(rebuild[p].after, Queued \ {"dead_lettered"}))
  /\ HandledWith({"delivered"}) = Covered(rebuild[p].after, {"delivered"})

Verified(p) == IF rebuild[p].mode = "in_place" THEN Issues(rebuild[p].version) = {}
               ELSE ReplayComplete(p)

\* A rebuild that fails its verification ends as failed.
Verify(p) ==
  /\ rebuild[p].pc = "verify"
  /\ IF Verified(p) THEN To(p, "record") /\ UNCHANGED exclusive ELSE End(p)
  /\ UNCHANGED <<outbox, checkpoints, graph, marker, worker, shared, bounds>>

RecordHistory(p) ==
  /\ rebuild[p].pc = "record"
  /\ marker' = [marker EXCEPT ![Target(p)] = {rebuild[p].version}]
  /\ End(p)
  /\ UNCHANGED <<outbox, checkpoints, graph, worker, shared, bounds>>

\* A crash or an error; the lock goes with the connection.
FailRebuild(p) ==
  /\ rebuild[p].pc # "off"
  /\ failures < MaxFailures /\ failures' = failures + 1
  /\ End(p)
  /\ UNCHANGED <<outbox, checkpoints, graph, marker, worker, shared, lost_locks>>

\* The connection that holds the lock dies; the rebuild does not notice.
LoseLock(p) ==
  /\ exclusive = p /\ lost_locks < MaxLostLocks
  /\ exclusive' = Nobody /\ lost_locks' = lost_locks + 1
  /\ UNCHANGED <<outbox, checkpoints, graph, marker, worker, rebuild, shared, failures>>

-----------------------------------------------------------------------------
RebuildStep(p) ==
  \/ EnsureIdle(p) \/ MarkRebuilding(p) \/ CheckTarget(p) \/ DeleteMarker(p)
  \/ WipeBatch(p) \/ ReadPage(p) \/ ReplayRow(p) \/ LockCheckpoint(p)
  \/ CommitCheckpoint(p) \/ Verify(p) \/ RecordHistory(p)

WorkerStep(w) ==
  \/ CountGraph(w) \/ CheckDelivered(w) \/ RecordFresh(w)
  \/ (\E r \in Rows : Claim(w, r))
  \/ Project(w) \/ Deliver(w)
  \/ FailRow(w, "pending") \/ FailRow(w, "dead_lettered")
  \/ StopWorker(w) \/ CrashWorker(w)

Next ==
  \/ \E r \in Rows : AppendEvent(r)
  \/ \E w \in Workers : WorkerStep(w) \/ (\E v \in Versions : StartWorker(w, v))
  \/ \E p \in Rebuilds : \/ RebuildStep(p) \/ FailRebuild(p) \/ LoseLock(p)
                         \/ (\E m \in Modes, v \in Versions : Begin(p, m, v))

Spec == Init /\ [][Next]_vars

\* A rebuild that runs goes on.
FairSpec == Spec /\ \A p \in Rebuilds : WF_vars(RebuildStep(p))

-----------------------------------------------------------------------------
(* Properties *)

\* What a graph that has projected every delivered event with v holds.
Complete(g, v) == \A r \in HandledWith({"delivered"}) : <<r, v>> \in graph[g]

\* A marker that names a version tells the truth: that version has projected
\* every delivered event into this graph, whatever was wiped, interrupted,
\* rolled back or started meanwhile (narrow_projection_history,
\* record_history_if_fresh, record_projection_history, wipe_graph).
MarkerTruthful == marker["live"] # NoMarker => \A v \in marker["live"] : Complete("live", v)

\* When verification finds nothing wrong with a checkpoint, the graph lacks
\* nothing: a crash in a rebuild never leaves a checkpoint that claims
\* progress the graph does not have (_rebuild_projections, classify_projector).
VerifySound == \A v \in Versions : Issues(v) = {} => Complete("live", v)

\* A rebuild is verified only when its target holds every event delivered by
\* then, live or standby, with workers running beside it and rows appearing
\* out of order (_verify_replayed_target, verify_projections).
VerifyHonest ==
  \A p \in Rebuilds : rebuild[p].pc = "verify" /\ rebuild'[p].pc = "record"
                         => Complete(Target(p), rebuild[p].version)
VerifiedIsComplete == [][VerifyHonest]_vars

\* Even when the rebuild lock was lost and a worker delivers beside the
\* rebuild, the checkpoint is written as active only when the graph holds
\* every delivered event (_finalize_checkpoints, _require_nothing_missed).
ActiveHonest ==
  \A p \in Rebuilds : rebuild[p].pc = "commit" /\ rebuild'[p].pc = "verify"
                         => Complete("live", rebuild[p].version)
CommitHonest == [][ActiveHonest]_vars

\* Every rebuild ends and gives the lock back (wipe_graph and replay_ledger
\* terminate beside a ledger that grows and a worker that waits).
Running(p) == rebuild[p].pc # "off"
RebuildEnds == \A p \in Rebuilds : Running(p) ~> ~Running(p)

-----------------------------------------------------------------------------
(* Why the claims hold: what is proved, and from which assumptions.        *)

\* The connection with the rebuild lock does not die.
LocksKept == MaxLostLocks = 0
OneVersion == \A u, v \in Versions : u = v
OneRebuild == \A p, q \in Rebuilds : p = q
\* One worker process at a time, in any version, stopped for every rebuild.
Rolling == StopFirst /\ KeepStopped /\ \A w, x \in Workers : w = x
HandlesAll == Handled = Rows

Working(w) == worker[w].pc \notin {"off", "idle"}
InPlace(p) == Running(p) /\ rebuild[p].mode = "in_place"

\* Only a rebuild in place touches the checkpoints.
CheckpointSteps ==
  \A p \in Rebuilds : rebuild[p].mode # "in_place" =>
    rebuild[p].pc \notin {"check", "mark", "finalize", "tail", "commit"}

\* Who writes a graph holds a lock, and the lock keeps the others out.
LocksHeld ==
  /\ \A w \in Workers : Working(w) => w \in shared
  /\ \A p \in Rebuilds : Running(p) /\ rebuild[p].mode # "standby" => exclusive = p
  /\ \A p \in Rebuilds : exclusive = p => Running(p)
  /\ CheckpointSteps

ProjectedFirst ==
  \A w \in Workers : worker[w].pc = "written" =>
    Effect(worker[w].row, worker[w].version) \subseteq graph["live"]

\* An in-place rebuild marks its checkpoint, then drops the marker, then wipes;
\* it has replayed what was delivered up to where it stands, and the page is
\* the next that follows.
ReplayOf(p) ==
  LET v == rebuild[p].version  pc == rebuild[p].pc IN
  /\ pc # "target"
  /\ pc \in {"wipe", "replay", "finalize", "tail", "commit", "verify", "record"} =>
       marker["live"] = NoMarker
  /\ pc \in {"marker", "wipe", "replay", "finalize", "tail", "commit"} =>
       checkpoints[v].state = "rebuilding"
  /\ pc \in {"check", "mark", "marker", "wipe"} => rebuild[p].after = 0 /\ rebuild[p].page = {}
  /\ pc = "replay" =>
       /\ \A r \in HandledWith({"delivered"}) : r <= rebuild[p].after => <<r, v>> \in graph["live"]
       /\ \A r \in rebuild[p].page : r > rebuild[p].after
       /\ \A r \in HandledWith({"delivered"}) :
            r > rebuild[p].after /\ r \notin rebuild[p].page => \A s \in rebuild[p].page : s < r
  /\ pc \in {"finalize", "tail", "commit", "verify", "record"} => Complete("live", v)

Kept == /\ TypeOK /\ LocksHeld /\ ProjectedFirst
        /\ \A p \in Rebuilds : InPlace(p) => ReplayOf(p)

\* No worker runs beside a rebuild, and the marker names no other version
\* than the one that runs.
Alone ==
  /\ Rebuilding => \A w \in Workers : worker[w].pc = "off"
  /\ \A w \in Workers : worker[w].pc # "off" /\ marker["live"] # NoMarker =>
       marker["live"] \subseteq {worker[w].version}

Truthful ==
  /\ Kept
  /\ MarkerTruthful
  /\ \A w \in Workers : worker[w].pc = "record" => Complete("live", worker[w].version)
  /\ OneVersion \/ Alone
  /\ OneVersion => \A v \in Versions : checkpoints[v].state # "rebuilding" => Complete("live", v)

\* A row is in one hand, and leased; what is delivered or given up stays so.
Leased ==
  /\ \A w \in Workers : worker[w].pc \in {"claimed", "written"} =>
       worker[w].row \in Rows /\ outbox[worker[w].row] = "leased"
  /\ \A w, x \in Workers :
       worker[w].pc \in {"claimed", "written"} /\ worker[x].pc \in {"claimed", "written"} =>
         worker[w].row # worker[x].row \/ w = x

\* A replay never counts more rows than it left in its target.
Wanted(p, r) == IF rebuild[p].mode = "in_place" THEN outbox[r] = "delivered"
                ELSE outbox[r] \notin {"absent", "dead_lettered"}
Left(p) == {r \in Handled : /\ r <= rebuild[p].after /\ Wanted(p, r)
                            /\ <<r, rebuild[p].version>> \in graph[Target(p)]}
Tally(p) ==
  /\ \A r \in rebuild[p].page : r > rebuild[p].after /\ Wanted(p, r)
  /\ rebuild[p].count <= Cardinality(Left(p))
  /\ rebuild[p].pc \in {"check", "mark", "target", "marker", "wipe"} =>
       rebuild[p].count = 0 /\ rebuild[p].after = 0 /\ rebuild[p].last = 0 /\ rebuild[p].page = {}
  /\ HandlesAll => rebuild[p].last = rebuild[p].after
  /\ OneVersion /\ rebuild[p].pc = "commit" =>
       \A r \in HandledWith({"delivered"}) : r <= rebuild[p].after

NoneGivenUp == \A r \in Rows : outbox[r] # "dead_lettered"

\* What markers and checkpoints say is true: of a single version, and of the
\* marker also when one worker runs several versions, stopped for every rebuild
\* (narrow_projection_history, classify_projector).
RebuildSound ==
  LocksKept => /\ OneVersion \/ Rolling => MarkerTruthful
               /\ OneVersion => VerifySound

\* A single rebuild makes no claim ahead of what it replayed: its checkpoint is
\* active over a complete graph, even with the lock lost, if the projector
\* handles every event; it is verified with a complete target while no row was
\* given up (_finalize_checkpoints, _verify_replayed_target).
ClaimsAreHonest ==
  /\ OneRebuild /\ OneVersion /\ HandlesAll => ActiveHonest
  /\ LocksKept /\ OneRebuild /\ NoneGivenUp => VerifyHonest
RebuildHonest == [][ClaimsAreHonest]_vars

Tallied ==
  /\ TypeOK /\ Leased /\ CheckpointSteps
  /\ \A p \in Rebuilds :
       Running(p) /\ (rebuild[p].mode = "in_place" \/ NoneGivenUp) => Tally(p)

-----------------------------------------------------------------------------
(* Proofs *)

Assumptions ==
  RowsAssumption /\ ProcessAssumption /\ ModesAssumption /\ SizesAssumption /\ BoundsAssumption

\* What a step of a worker leaves of the workers.
Stepped(w, pc, v, r) ==
  /\ worker' \in [Workers -> WorkerState]
  /\ worker'[w].pc = pc /\ worker'[w].version = v /\ worker'[w].row = r
  /\ \A x \in Workers : x # w => worker'[x] = worker[x]

LEMMA WorkerSteps ==
  ASSUME TypeOK, NEW w \in Workers, NEW pc \in {"off", "count", "fresh", "record", "idle", "claimed", "written"},
         NEW v \in Versions, NEW r \in Rows \cup {0}
  PROVE  /\ worker' = [worker EXCEPT ![w] = [pc |-> pc, version |-> v, row |-> r]] => Stepped(w, pc, v, r)
         /\ worker' = [worker EXCEPT ![w].pc = pc] => Stepped(w, pc, worker[w].version, worker[w].row)
         /\ worker' = [worker EXCEPT ![w].pc = pc, ![w].row = r] => Stepped(w, pc, worker[w].version, r)
<1>1. worker \in [Workers -> WorkerState] /\ worker[w] \in WorkerState
  BY DEF TypeOK
<1>2. ASSUME worker' = [worker EXCEPT ![w] = [pc |-> pc, version |-> v, row |-> r]]
      PROVE  Stepped(w, pc, v, r)
  BY <1>1, <1>2 DEF Stepped, WorkerState
<1>3. ASSUME worker' = [worker EXCEPT ![w].pc = pc]
      PROVE  Stepped(w, pc, worker[w].version, worker[w].row)
  BY <1>1, <1>3 DEF Stepped, WorkerState
<1>4. ASSUME worker' = [worker EXCEPT ![w].pc = pc, ![w].row = r]
      PROVE  Stepped(w, pc, worker[w].version, r)
  BY <1>1, <1>4 DEF Stepped, WorkerState
<1> QED BY <1>2, <1>3, <1>4

\* And of a rebuild.
Steps == {"off", "check", "mark", "target", "marker", "wipe", "replay", "finalize",
          "tail", "commit", "verify", "record"}

Others(p) == rebuild' \in [Rebuilds -> Process] /\ \A q \in Rebuilds : q # p => rebuild'[q] = rebuild[q]

Moved(p, pc) ==
  /\ Others(p)
  /\ rebuild'[p].pc = pc /\ rebuild'[p].mode = rebuild[p].mode /\ rebuild'[p].version = rebuild[p].version
  /\ rebuild'[p].after = rebuild[p].after /\ rebuild'[p].page = rebuild[p].page
  /\ rebuild'[p].count = rebuild[p].count /\ rebuild'[p].last = rebuild[p].last

Begun(p, pc, m, v) ==
  /\ Others(p)
  /\ rebuild'[p].pc = pc /\ rebuild'[p].mode = m /\ rebuild'[p].version = v
  /\ rebuild'[p].after = 0 /\ rebuild'[p].page = {} /\ rebuild'[p].count = 0 /\ rebuild'[p].last = 0

LEMMA MovedBy ==
  ASSUME TypeOK, NEW p \in Rebuilds, NEW pc \in Steps, To(p, pc)
  PROVE  Moved(p, pc)
<1>1. rebuild \in [Rebuilds -> Process] /\ rebuild[p] \in Process
  BY DEF TypeOK
<1>2. [rebuild[p] EXCEPT !.pc = pc] \in Process
  BY <1>1 DEF Process, Steps
<1>3. rebuild' = [rebuild EXCEPT ![p] = [rebuild[p] EXCEPT !.pc = pc]]
  BY <1>1 DEF To
<1>4. rebuild'[p] = [rebuild[p] EXCEPT !.pc = pc] /\ Others(p)
  BY <1>1, <1>2, <1>3 DEF Others
<1> QED BY <1>1, <1>4 DEF Moved, Process

LEMMA EndedBy ==
  ASSUME Assumptions, TypeOK, NEW p \in Rebuilds, End(p)
  PROVE  /\ Begun(p, "off", rebuild[p].mode, rebuild[p].version)
         /\ exclusive' \in Rebuilds \cup {Nobody}
         /\ exclusive' = exclusive \/ (exclusive = p /\ exclusive' = Nobody)
         /\ \A q \in Rebuilds : q # p => (exclusive' = q <=> exclusive = q)
         /\ exclusive' # p
<1>1. rebuild \in [Rebuilds -> Process] /\ rebuild[p] \in Process /\ exclusive \in Rebuilds \cup {Nobody}
  BY DEF TypeOK
<1> DEFINE new == Fresh(rebuild[p].mode, rebuild[p].version)
<1>2. new \in Process
  BY <1>1 DEF Fresh, Process
<1>3. rebuild' = [rebuild EXCEPT ![p] = new] /\ exclusive' = IF exclusive = p THEN Nobody ELSE exclusive
  BY DEF End, Unlock
<1>4. /\ new.pc = "off" /\ new.mode = rebuild[p].mode /\ new.version = rebuild[p].version
      /\ new.after = 0 /\ new.page = {} /\ new.count = 0 /\ new.last = 0
  BY DEF Fresh
<1> HIDE DEF new
<1>5. Others(p) /\ rebuild'[p] = new
  BY <1>1, <1>2, <1>3 DEF Others
<1>6. Begun(p, "off", rebuild[p].mode, rebuild[p].version)
  BY <1>4, <1>5 DEF Begun
<1>7. Nobody \notin Rebuilds
  BY DEF Assumptions, ProcessAssumption
<1> QED BY <1>1, <1>3, <1>6, <1>7

LEMMA BegunBy ==
  ASSUME Assumptions, TypeOK, NEW p \in Rebuilds, NEW m \in Modes, NEW v \in Versions, Begin(p, m, v)
  PROVE  Begun(p, IF m = "in_place" THEN "check" ELSE "target", m, v)
<1>1. rebuild \in [Rebuilds -> Process] /\ m \in {"in_place", "standby", "standby_wipe"}
  BY DEF TypeOK, Assumptions, ModesAssumption
<1> DEFINE pc == IF m = "in_place" THEN "check" ELSE "target"
           new == [Fresh(m, v) EXCEPT !.pc = pc]
<1>2. new \in Process
  BY <1>1 DEF Fresh, Process
<1>3. rebuild' = [rebuild EXCEPT ![p] = new]
  BY DEF Begin
<1>4. /\ new.pc = pc /\ new.mode = m /\ new.version = v
      /\ new.after = 0 /\ new.page = {} /\ new.count = 0 /\ new.last = 0
  BY DEF Fresh
<1> HIDE DEF new
<1>5. Others(p) /\ rebuild'[p] = new
  BY <1>1, <1>2, <1>3 DEF Others
<1> QED BY <1>4, <1>5 DEF Begun

\* A page is read: the lowest of what is left to replay.
Paged(p) ==
  /\ Others(p)
  /\ rebuild'[p].pc = rebuild[p].pc /\ rebuild'[p].mode = rebuild[p].mode
  /\ rebuild'[p].version = rebuild[p].version /\ rebuild'[p].after = rebuild[p].after
  /\ rebuild'[p].count = rebuild[p].count /\ rebuild'[p].last = rebuild[p].last
  /\ rebuild'[p].page \subseteq Replayable(p)
  /\ \A r \in Replayable(p) : r \notin rebuild'[p].page => \A s \in rebuild'[p].page : s < r

LEMMA LowestFirst ==
  ASSUME Assumptions, NEW S \in SUBSET Rows, NEW n, NEW r \in S, r \notin Lowest(S, n), NEW s \in Lowest(S, n),
         n \in Nat
  PROVE  s < r
<1>1. r \in Nat /\ s \in Nat /\ s \in S /\ S \subseteq Nat /\ IsFiniteSet(S)
  BY FS_Subset DEF Assumptions, RowsAssumption, Lowest
<1> DEFINE Below(x) == {t \in S : t < x}
<1>2. SUFFICES ASSUME r <= s PROVE FALSE
  BY <1>1
<1>3. Below(r) \subseteq Below(s)
  <2> SUFFICES ASSUME NEW t \in S, t < r PROVE t < s
    OBVIOUS
  <2>1. t \in Nat
    BY <1>1
  <2> QED BY <2>1, <1>1, <1>2
<1>4. IsFiniteSet(Below(s)) /\ IsFiniteSet(Below(r))
  BY <1>1, FS_Subset
<1>5. Cardinality(Below(s)) \in Nat /\ Cardinality(Below(r)) \in Nat
  BY <1>4, FS_CardinalityType
<1>6. Cardinality(Below(s)) < n /\ ~(Cardinality(Below(r)) < n)
  BY DEF Lowest
<1> HIDE DEF Below
<1>7. Cardinality(Below(r)) <= Cardinality(Below(s))
  BY <1>3, <1>4, FS_Subset
<1> QED BY <1>5, <1>6, <1>7

LEMMA PagedBy ==
  ASSUME Assumptions, TypeOK, NEW p \in Rebuilds,
         rebuild' = [rebuild EXCEPT ![p].page = Lowest(Replayable(p), PageSize)]
  PROVE  Paged(p)
<1>1. rebuild \in [Rebuilds -> Process] /\ rebuild[p] \in Process
  BY DEF TypeOK
<1> DEFINE page == Lowest(Replayable(p), PageSize)
           new == [rebuild[p] EXCEPT !.page = page]
<1>2. page \subseteq Replayable(p) /\ Replayable(p) \subseteq Rows
  BY DEF Lowest, Replayable
<1>3. \A r \in Replayable(p) : r \notin page => \A s \in page : s < r
  BY <1>2, LowestFirst DEF Assumptions, SizesAssumption
<1> HIDE DEF page
<1>4. /\ new \in Process /\ new.page = page /\ new.pc = rebuild[p].pc /\ new.mode = rebuild[p].mode
      /\ new.version = rebuild[p].version /\ new.after = rebuild[p].after
      /\ new.count = rebuild[p].count /\ new.last = rebuild[p].last
  BY <1>1, <1>2 DEF Process
<1>5. rebuild' = [rebuild EXCEPT ![p] = new]
  BY <1>1 DEF page
<1> HIDE DEF new
<1>6. Others(p) /\ rebuild'[p] = new
  BY <1>1, <1>4, <1>5 DEF Others
<1> QED BY <1>2, <1>3, <1>4, <1>6 DEF Paged

\* A row of the page is replayed.
Replayed(p, r) ==
  /\ Others(p)
  /\ r \in rebuild[p].page /\ \A s \in rebuild[p].page : r <= s
  /\ graph' = [graph EXCEPT ![Target(p)] = @ \cup Effect(r, rebuild[p].version)]
  /\ rebuild'[p].pc = rebuild[p].pc /\ rebuild'[p].mode = rebuild[p].mode
  /\ rebuild'[p].version = rebuild[p].version
  /\ rebuild'[p].page = rebuild[p].page \ {r} /\ rebuild'[p].after = r
  /\ rebuild'[p].count = (IF r \in Handled THEN rebuild[p].count + 1 ELSE rebuild[p].count)
  /\ rebuild'[p].last = (IF r \in Handled THEN r ELSE rebuild[p].last)

LEMMA ReplayedBy ==
  ASSUME TypeOK, NEW p \in Rebuilds, ReplayRow(p)
  PROVE  \E r \in Rows : Replayed(p, r)
<1>1. rebuild \in [Rebuilds -> Process] /\ rebuild[p] \in Process
  BY DEF TypeOK
<1>2. PICK r \in rebuild[p].page :
        /\ \A s \in rebuild[p].page : r <= s
        /\ graph' = [graph EXCEPT ![Target(p)] = @ \cup Effect(r, rebuild[p].version)]
        /\ rebuild' = [rebuild EXCEPT ![p].page = @ \ {r}, ![p].after = r,
                        ![p].count = IF r \in Handled THEN @ + 1 ELSE @,
                        ![p].last = IF r \in Handled THEN r ELSE @]
  BY DEF ReplayRow
<1>3. r \in Rows
  BY <1>1 DEF Process
<1> DEFINE count == IF r \in Handled THEN rebuild[p].count + 1 ELSE rebuild[p].count
           last == IF r \in Handled THEN r ELSE rebuild[p].last
           page == rebuild[p].page \ {r}
           new == [rebuild[p] EXCEPT !.page = page, !.after = r, !.count = count, !.last = last]
<1>4. rebuild' = [rebuild EXCEPT ![p] = new]
  BY <1>1, <1>2
<1>5. count \in Nat /\ last \in Rows \cup {0} /\ page \in SUBSET Rows
  BY <1>1, <1>3 DEF Process
<1> HIDE DEF count, last, page
<1>6. /\ new \in Process /\ new.pc = rebuild[p].pc /\ new.mode = rebuild[p].mode
      /\ new.version = rebuild[p].version /\ new.page = page /\ new.after = r
      /\ new.count = count /\ new.last = last
  BY <1>1, <1>3, <1>5 DEF Process
<1> HIDE DEF new
<1>7. Others(p) /\ rebuild'[p] = new
  BY <1>1, <1>4, <1>6 DEF Others
<1>8. Replayed(p, r)
  BY <1>2, <1>6, <1>7 DEF Replayed, count, last, page
<1> QED BY <1>3, <1>8

-----------------------------------------------------------------------------
LEMMA Positions ==
  ASSUME Assumptions, TypeOK, NEW p \in Rebuilds
  PROVE  /\ rebuild[p].after \in Nat /\ rebuild[p].last \in Nat /\ rebuild[p].count \in Nat
         /\ rebuild[p].page \subseteq Rows
<1>1. rebuild[p] \in Process /\ Rows \subseteq Nat
  BY DEF TypeOK, Assumptions, RowsAssumption
<1>2. ASSUME NEW n \in Rows \cup {0} PROVE n \in Nat
  <2>1. CASE n \in Rows
    BY <1>1, <2>1
  <2>2. CASE n = 0
    BY <2>2
  <2> QED BY <2>1, <2>2
<1>3. rebuild[p].after \in Rows \cup {0} /\ rebuild[p].last \in Rows \cup {0}
  BY <1>1 DEF Process
<1>4. rebuild[p].after \in Nat /\ rebuild[p].last \in Nat
  BY <1>2, <1>3
<1> QED BY <1>1, <1>3, <1>4 DEF Process

LEMMA CountsAreNumbers ==
  ASSUME Assumptions, NEW position, NEW status
  PROVE  DeliveredTo(position) \in Nat /\ IsFiniteSet(Covered(position, status))
<1>1. IsFiniteSet(Handled)
  BY FS_Subset DEF Assumptions, RowsAssumption
<1>2. Covered(position, status) \subseteq Handled /\ Covered(position, {"delivered"}) \subseteq Handled
  BY DEF Covered, HandledWith
<1>3. IsFiniteSet(Covered(position, status)) /\ IsFiniteSet(Covered(position, {"delivered"}))
  BY <1>1, <1>2, FS_Subset
<1> QED BY <1>3, FS_CardinalityType DEF DeliveredTo

LEMMA Advanced ==
  ASSUME Assumptions, NEW c \in Checkpoint, NEW r \in Rows
  PROVE  Advance(c, r) \in Checkpoint /\ (Advance(c, r).state = "rebuilding" <=> c.state = "rebuilding")
<1>1. CASE c.state = "none"
  BY <1>1 DEF Advance, Checkpoint
<1>2. CASE c.state # "none"
  <2> DEFINE last == Larger(c.last, r)
             count == c.count + 1
  <2>1. last \in Rows \cup {0} /\ count \in Nat
    BY DEF Larger, Checkpoint
  <2>2. Advance(c, r) = [c EXCEPT !.last = last, !.count = count]
    BY <1>2 DEF Advance
  <2> HIDE DEF last, count
  <2> QED BY <2>1, <2>2 DEF Checkpoint
<1> QED BY <1>1, <1>2

LEMMA Delivered ==
  ASSUME Assumptions, TypeOK, NEW w \in Workers, Deliver(w)
  PROVE  /\ checkpoints' \in [Versions -> Checkpoint]
         /\ \A v \in Versions : checkpoints'[v].state = "rebuilding" <=> checkpoints[v].state = "rebuilding"
<1>1. checkpoints \in [Versions -> Checkpoint] /\ worker[w].version \in Versions
  BY DEF TypeOK, WorkerState
<1> DEFINE v == worker[w].version
           r == worker[w].row
           c == Advance(checkpoints[v], r)
<1>2. CASE r \in Handled
  <2>1. r \in Rows
    BY <1>2 DEF Assumptions, RowsAssumption
  <2>2. c \in Checkpoint /\ (c.state = "rebuilding" <=> checkpoints[v].state = "rebuilding")
    BY <1>1, <2>1, Advanced
  <2>3. checkpoints' = [checkpoints EXCEPT ![v] = c]
    BY <1>2 DEF Deliver
  <2> HIDE DEF c
  <2> QED BY <1>1, <2>2, <2>3
<1>3. CASE r \notin Handled
  BY <1>1, <1>3 DEF Deliver
<1> QED BY <1>2, <1>3

\* The steps of a worker, by what they leave of the workers.
LEMMA WorkerTyped ==
  ASSUME TypeOK, NEW w \in Workers
  PROVE  /\ \A v \in Versions : StartWorker(w, v) =>
              Stepped(w, IF exclusive # Nobody THEN "idle" ELSE "count", v, 0)
         /\ CountGraph(w) => \/ Empty("live") /\ shared' = shared /\ Stepped(w, "fresh", worker[w].version, worker[w].row)
                             \/ shared' = shared \ {w} /\ Stepped(w, "idle", worker[w].version, worker[w].row)
         /\ CheckDelivered(w) => \/ /\ ~ \E r \in Rows : outbox[r] = "delivered"
                                    /\ shared' = shared /\ Stepped(w, "record", worker[w].version, worker[w].row)
                                 \/ shared' = shared \ {w} /\ Stepped(w, "idle", worker[w].version, worker[w].row)
         /\ RecordFresh(w) => Stepped(w, "idle", worker[w].version, worker[w].row)
         /\ \A r \in Rows : Claim(w, r) => Stepped(w, "claimed", worker[w].version, r)
         /\ Project(w) => Stepped(w, "written", worker[w].version, worker[w].row)
         /\ Deliver(w) => Stepped(w, "idle", worker[w].version, 0)
         /\ \A status : FailRow(w, status) => Stepped(w, "idle", worker[w].version, 0)
         /\ StopWorker(w) => Stepped(w, "off", worker[w].version, worker[w].row)
         /\ CrashWorker(w) => Stepped(w, "off", worker[w].version, 0)
<1> DEFINE v == worker[w].version  r == worker[w].row
<1>1. v \in Versions /\ r \in Rows \cup {0}
  BY DEF TypeOK, WorkerState
<1>2. ASSUME NEW u \in Versions, StartWorker(w, u)
      PROVE  Stepped(w, IF exclusive # Nobody THEN "idle" ELSE "count", u, 0)
  <2>1. \/ exclusive # Nobody /\ worker' = [worker EXCEPT ![w] = [pc |-> "idle", version |-> u, row |-> 0]]
        \/ exclusive = Nobody /\ worker' = [worker EXCEPT ![w] = [pc |-> "count", version |-> u, row |-> 0]]
    BY <1>2 DEF StartWorker
  <2> QED BY <2>1, WorkerSteps
<1>3. ASSUME CountGraph(w)
      PROVE  \/ Empty("live") /\ shared' = shared /\ Stepped(w, "fresh", v, r)
             \/ shared' = shared \ {w} /\ Stepped(w, "idle", v, r)
  BY <1>1, <1>3, WorkerSteps DEF CountGraph, Goes
<1>4. ASSUME CheckDelivered(w)
      PROVE  \/ (~ \E x \in Rows : outbox[x] = "delivered") /\ shared' = shared /\ Stepped(w, "record", v, r)
             \/ shared' = shared \ {w} /\ Stepped(w, "idle", v, r)
  BY <1>1, <1>4, WorkerSteps DEF CheckDelivered, Goes
<1>5. RecordFresh(w) => Stepped(w, "idle", v, r)
  BY <1>1, WorkerSteps DEF RecordFresh, Goes
<1>6. ASSUME NEW x \in Rows, Claim(w, x) PROVE Stepped(w, "claimed", v, x)
  BY <1>1, <1>6, WorkerSteps DEF Claim
<1>7. Project(w) => Stepped(w, "written", v, r)
  BY <1>1, WorkerSteps DEF Project, Goes
<1>8. Deliver(w) => Stepped(w, "idle", v, 0)
  BY <1>1, WorkerSteps DEF Deliver, Settle
<1>9. \A status : FailRow(w, status) => Stepped(w, "idle", v, 0)
  BY <1>1, WorkerSteps DEF FailRow, Settle
<1>10. StopWorker(w) => Stepped(w, "off", v, r)
  BY <1>1, WorkerSteps DEF StopWorker, Goes
<1>11. CrashWorker(w) => Stepped(w, "off", v, 0)
  BY <1>1, WorkerSteps DEF CrashWorker
<1> QED BY <1>2, <1>3, <1>4, <1>5, <1>6, <1>7, <1>8, <1>9, <1>10, <1>11

LEMMA WorkerTypeSafe ==
  ASSUME Assumptions, TypeOK, NEW w \in Workers,
         WorkerStep(w) \/ \E v \in Versions : StartWorker(w, v)
  PROVE  TypeOK'
<1>1. worker[w] \in WorkerState
  BY DEF TypeOK
<1>2. ASSUME NEW v \in Versions, StartWorker(w, v) PROVE TypeOK'
  <2>1. worker' \in [Workers -> WorkerState]
    BY <1>2, WorkerTyped DEF Stepped
  <2>2. marker' \in [Stores -> (SUBSET Versions) \cup {NoMarker}]
    BY <1>2 DEF StartWorker, TypeOK, Narrowed, Stores
  <2> QED BY <1>2, <2>1, <2>2 DEF StartWorker, TypeOK, bounds
<1>3. CASE CountGraph(w) \/ CheckDelivered(w)
  <2>1. worker' \in [Workers -> WorkerState] /\ shared' \subseteq shared
    BY <1>3, WorkerTyped DEF Stepped
  <2>2. UNCHANGED <<outbox, checkpoints, graph, marker, rebuild, exclusive, bounds>>
    BY <1>3 DEF CountGraph, CheckDelivered
  <2> QED BY <2>1, <2>2 DEF TypeOK, bounds
<1>4. CASE RecordFresh(w)
  <2>1. worker' \in [Workers -> WorkerState]
    BY <1>4, WorkerTyped DEF Stepped
  <2>2. marker' \in [Stores -> (SUBSET Versions) \cup {NoMarker}]
    BY <1>1, <1>4 DEF RecordFresh, TypeOK, WorkerState, Stores
  <2> QED BY <1>4, <2>1, <2>2 DEF RecordFresh, TypeOK, bounds
<1>5. ASSUME NEW r \in Rows, Claim(w, r) PROVE TypeOK'
  <2>1. worker' \in [Workers -> WorkerState]
    BY <1>5, WorkerTyped DEF Stepped
  <2>2. outbox' \in [Rows -> OutboxStatus]
    BY <1>5 DEF Claim, TypeOK, OutboxStatus
  <2> QED BY <1>5, <2>1, <2>2 DEF Claim, TypeOK, bounds
<1>6. CASE Project(w)
  <2>1. worker' \in [Workers -> WorkerState]
    BY <1>6, WorkerTyped DEF Stepped
  <2>2. Effect(worker[w].row, worker[w].version) \subseteq Rows \X Versions
    BY <1>1 DEF Effect, WorkerState, Assumptions, RowsAssumption
  <2>3. graph' \in [Stores -> SUBSET (Rows \X Versions)]
    BY <1>6, <2>2 DEF Project, TypeOK, Stores
  <2> QED BY <1>6, <2>1, <2>3 DEF Project, TypeOK, bounds
<1>7. CASE Deliver(w)
  <2>1. worker' \in [Workers -> WorkerState]
    BY <1>7, WorkerTyped DEF Stepped
  <2>2. outbox' \in [Rows -> OutboxStatus]
    BY <1>7 DEF Deliver, Settle, TypeOK, OutboxStatus
  <2> QED BY <1>7, <2>1, <2>2, Delivered DEF Deliver, Settle, TypeOK, bounds
<1>8. ASSUME NEW status \in {"pending", "dead_lettered"}, FailRow(w, status) PROVE TypeOK'
  <2>1. worker' \in [Workers -> WorkerState]
    BY <1>8, WorkerTyped DEF Stepped
  <2>2. outbox' \in [Rows -> OutboxStatus]
    BY <1>8 DEF FailRow, Settle, TypeOK, OutboxStatus
  <2>3. failures' \in 0 .. MaxFailures
    BY <1>8 DEF FailRow, TypeOK, Assumptions, BoundsAssumption
  <2> QED BY <1>8, <2>1, <2>2, <2>3 DEF FailRow, Settle, TypeOK
<1>9. CASE StopWorker(w)
  <2>1. worker' \in [Workers -> WorkerState]
    BY <1>9, WorkerTyped DEF Stepped
  <2> QED BY <1>9, <2>1 DEF StopWorker, TypeOK, bounds
<1>10. CASE CrashWorker(w)
  <2>1. worker' \in [Workers -> WorkerState]
    BY <1>10, WorkerTyped DEF Stepped
  <2>2. failures' \in 0 .. MaxFailures
    BY <1>10 DEF CrashWorker, TypeOK, Assumptions, BoundsAssumption
  <2> QED BY <1>10, <2>1, <2>2 DEF CrashWorker, TypeOK
<1> QED BY <1>2, <1>3, <1>4, <1>5, <1>6, <1>7, <1>8, <1>9, <1>10 DEF WorkerStep

\* The steps of a rebuild, by what they leave of the rebuilds.
Ended(p) == Begun(p, "off", rebuild[p].mode, rebuild[p].version)

LEMMA RebuildTyped ==
  ASSUME Assumptions, TypeOK, NEW p \in Rebuilds
  PROVE  /\ EnsureIdle(p) => (Moved(p, "mark") /\ exclusive' = exclusive) \/ Ended(p)
         /\ MarkRebuilding(p) => Moved(p, "marker")
         /\ CheckTarget(p) => \/ Moved(p, "replay") /\ exclusive' = exclusive
                              \/ Moved(p, "marker") /\ exclusive' = exclusive /\ rebuild[p].mode = "standby_wipe"
                              \/ Ended(p)
         /\ DeleteMarker(p) => Moved(p, "wipe")
         /\ WipeBatch(p) => \/ rebuild' = rebuild
                            \/ Moved(p, "replay") /\ graph' = graph
         /\ ReadPage(p) => \/ Paged(p)
                           \/ Replayable(p) = {} /\
                              Moved(p, IF rebuild[p].pc = "tail" THEN "commit"
                                       ELSE IF rebuild[p].mode = "in_place" THEN "finalize" ELSE "verify")
         /\ LockCheckpoint(p) => Moved(p, "tail")
         /\ CommitCheckpoint(p) => \/ NothingMissed(p) /\ Moved(p, "verify") /\ exclusive' = exclusive
                                   \/ Ended(p) /\ checkpoints' = checkpoints
         /\ Verify(p) => \/ Verified(p) /\ Moved(p, "record") /\ exclusive' = exclusive
                         \/ Ended(p)
         /\ RecordHistory(p) => Ended(p)
         /\ FailRebuild(p) => Ended(p)
<1>1. EnsureIdle(p) => (Moved(p, "mark") /\ exclusive' = exclusive) \/ Ended(p)
  BY MovedBy, EndedBy DEF EnsureIdle, Ended, Steps
<1>2. MarkRebuilding(p) => Moved(p, "marker")
  BY MovedBy DEF MarkRebuilding, Steps
<1>3. CheckTarget(p) => \/ Moved(p, "replay") /\ exclusive' = exclusive
                        \/ Moved(p, "marker") /\ exclusive' = exclusive /\ rebuild[p].mode = "standby_wipe"
                        \/ Ended(p)
  BY MovedBy, EndedBy DEF CheckTarget, Ended, Steps
<1>4. DeleteMarker(p) => Moved(p, "wipe")
  BY MovedBy DEF DeleteMarker, Steps
<1>5. WipeBatch(p) => rebuild' = rebuild \/ (Moved(p, "replay") /\ graph' = graph)
  BY MovedBy DEF WipeBatch, Steps
<1>6. ReadPage(p) => \/ Paged(p)
                     \/ Replayable(p) = {} /\
                        Moved(p, IF rebuild[p].pc = "tail" THEN "commit"
                                 ELSE IF rebuild[p].mode = "in_place" THEN "finalize" ELSE "verify")
  BY MovedBy, PagedBy DEF ReadPage, Steps
<1>7. LockCheckpoint(p) => Moved(p, "tail")
  BY MovedBy DEF LockCheckpoint, Steps
<1>8. CommitCheckpoint(p) => \/ NothingMissed(p) /\ Moved(p, "verify") /\ exclusive' = exclusive
                             \/ Ended(p) /\ checkpoints' = checkpoints
  BY MovedBy, EndedBy DEF CommitCheckpoint, Ended, Steps
<1>9. Verify(p) => (Verified(p) /\ Moved(p, "record") /\ exclusive' = exclusive) \/ Ended(p)
  BY MovedBy, EndedBy DEF Verify, Ended, Steps
<1>10. RecordHistory(p) => Ended(p)
  BY EndedBy DEF RecordHistory, Ended
<1>11. FailRebuild(p) => Ended(p)
  BY EndedBy DEF FailRebuild, Ended
<1> QED BY <1>1, <1>2, <1>3, <1>4, <1>5, <1>6, <1>7, <1>8, <1>9, <1>10, <1>11

LEMMA RebuildTypeSafe ==
  ASSUME Assumptions, TypeOK, NEW p \in Rebuilds,
         RebuildStep(p) \/ FailRebuild(p) \/ LoseLock(p) \/ \E m \in Modes, v \in Versions : Begin(p, m, v)
  PROVE  TypeOK'
<1>1. rebuild[p] \in Process /\ Target(p) \in Stores
  BY DEF TypeOK, Target, Stores
<1> DEFINE Typed == rebuild' \in [Rebuilds -> Process] /\ exclusive' \in Rebuilds \cup {Nobody}
                    /\ (exclusive' # Nobody => shared = {})
<1>2. (\E pc \in Steps : Moved(p, pc)) /\ exclusive' = exclusive => Typed
  BY DEF Moved, Others, TypeOK
<1>3. End(p) => Typed
  BY EndedBy DEF Begun, Others, TypeOK
<1>4. ASSUME NEW m \in Modes, NEW v \in Versions, Begin(p, m, v) PROVE TypeOK'
  <2>1. rebuild' \in [Rebuilds -> Process]
    BY <1>4, BegunBy DEF Begun, Others
  <2>2. exclusive' = exclusive \/ (exclusive' = p /\ shared = {})
    BY <1>4 DEF Begin
  <2> QED BY <1>4, <2>1, <2>2 DEF Begin, TypeOK, bounds
<1>5. CASE EnsureIdle(p)
  <2>1. Typed
    BY <1>2, <1>3, <1>5, MovedBy DEF EnsureIdle, Steps
  <2> QED BY <1>5, <2>1 DEF EnsureIdle, TypeOK, bounds
<1>6. CASE MarkRebuilding(p)
  <2>1. Typed
    BY <1>2, <1>6, MovedBy DEF MarkRebuilding, Steps
  <2>2. checkpoints' \in [Versions -> Checkpoint]
    BY <1>1, <1>6 DEF MarkRebuilding, TypeOK, Checkpoint, Process
  <2> QED BY <1>6, <2>1, <2>2 DEF MarkRebuilding, TypeOK, bounds
<1>7. CASE CheckTarget(p)
  <2>1. Typed
    BY <1>2, <1>3, <1>7, MovedBy DEF CheckTarget, Steps
  <2> QED BY <1>7, <2>1 DEF CheckTarget, TypeOK, bounds
<1>8. CASE DeleteMarker(p)
  <2>1. Typed
    BY <1>2, <1>8, MovedBy DEF DeleteMarker, Steps
  <2>2. marker' \in [Stores -> (SUBSET Versions) \cup {NoMarker}]
    <3>1. marker' = [marker EXCEPT ![Target(p)] = NoMarker] /\ marker \in [Stores -> (SUBSET Versions) \cup {NoMarker}]
      BY <1>8 DEF DeleteMarker, TypeOK
    <3>2. NoMarker \in {NoMarker}
      BY Zenon
    <3> DEFINE Markers == (SUBSET Versions) \cup {NoMarker}
    <3> HIDE DEF Markers
    <3>3. \A g \in Stores, mk \in Markers : marker \in [Stores -> Markers] => [marker EXCEPT ![g] = mk] \in [Stores -> Markers]
      OBVIOUS
    <3> QED BY <1>1, <3>1, <3>2, <3>3 DEF Markers
  <2> QED BY <1>8, <2>1, <2>2 DEF DeleteMarker, TypeOK, bounds
<1>9. CASE WipeBatch(p)
  <2>1. Typed
    BY <1>2, <1>9, MovedBy DEF WipeBatch, Steps, TypeOK
  <2>2. graph' \in [Stores -> SUBSET (Rows \X Versions)]
    <3>1. graph' = graph \/ \E S : graph' = [graph EXCEPT ![Target(p)] = graph[Target(p)] \ S]
      BY <1>9 DEF WipeBatch
    <3> QED BY <1>1, <3>1 DEF TypeOK
  <2> QED BY <1>9, <2>1, <2>2 DEF WipeBatch, TypeOK, bounds
<1>10. CASE ReadPage(p)
  <2>1. Typed
    BY <1>2, <1>10, RebuildTyped DEF ReadPage, Steps, Paged, Others, TypeOK, Moved
  <2> QED BY <1>10, <2>1 DEF ReadPage, TypeOK, bounds
<1>11. CASE ReplayRow(p)
  <2>1. PICK r \in Rows : Replayed(p, r)
    BY <1>11, ReplayedBy
  <2>2. UNCHANGED <<outbox, checkpoints, marker, worker, shared, exclusive, bounds>>
    BY <1>11 DEF ReplayRow
  <2>3. Effect(r, rebuild[p].version) \subseteq Rows \X Versions
    BY <1>1 DEF Effect, Process
  <2>4. graph' \in [Stores -> SUBSET (Rows \X Versions)]
    BY <1>1, <2>1, <2>3 DEF Replayed, TypeOK
  <2>5. rebuild' \in [Rebuilds -> Process]
    BY <2>1 DEF Replayed, Others
  <2> QED BY <2>2, <2>4, <2>5 DEF TypeOK, bounds
<1>12. CASE LockCheckpoint(p)
  <2>1. Typed
    BY <1>2, <1>12, MovedBy DEF LockCheckpoint, Steps
  <2> QED BY <1>12, <2>1 DEF LockCheckpoint, TypeOK, bounds
<1>13. CASE CommitCheckpoint(p)
  <2>1. Typed
    BY <1>2, <1>3, <1>13, MovedBy DEF CommitCheckpoint, Steps
  <2> DEFINE v == rebuild[p].version
             position == Larger(checkpoints[v].last, rebuild[p].last)
             new == [last |-> position, count |-> DeliveredTo(position), state |-> "active"]
  <2>2. v \in Versions /\ checkpoints[v] \in Checkpoint /\ rebuild[p].last \in Rows \cup {0}
    BY <1>1 DEF TypeOK, Process
  <2>3. position \in Rows \cup {0}
    BY <2>2 DEF Larger, Checkpoint
  <2> HIDE DEF position
  <2>4. new \in Checkpoint
    BY <2>3, CountsAreNumbers DEF Checkpoint
  <2>5. checkpoints' = checkpoints \/ checkpoints' = [checkpoints EXCEPT ![v] = new]
    BY <1>13 DEF CommitCheckpoint, position
  <2> HIDE DEF new
  <2>6. checkpoints' \in [Versions -> Checkpoint]
    BY <2>2, <2>4, <2>5 DEF TypeOK
  <2> QED BY <1>13, <2>1, <2>6 DEF CommitCheckpoint, TypeOK, bounds
<1>14. CASE Verify(p)
  <2>1. Typed
    BY <1>2, <1>3, <1>14, MovedBy DEF Verify, Steps
  <2> QED BY <1>14, <2>1 DEF Verify, TypeOK, bounds
<1>15. CASE RecordHistory(p)
  <2>1. Typed
    BY <1>3, <1>15 DEF RecordHistory
  <2>2. marker' \in [Stores -> (SUBSET Versions) \cup {NoMarker}]
    BY <1>1, <1>15 DEF RecordHistory, TypeOK, Process
  <2> QED BY <1>15, <2>1, <2>2 DEF RecordHistory, TypeOK, bounds
<1>16. CASE FailRebuild(p)
  <2>1. Typed
    BY <1>3, <1>16 DEF FailRebuild
  <2>2. failures' \in 0 .. MaxFailures
    BY <1>16 DEF FailRebuild, TypeOK, Assumptions, BoundsAssumption
  <2> QED BY <1>16, <2>1, <2>2 DEF FailRebuild, TypeOK
<1>17. CASE LoseLock(p)
  <2>1. lost_locks' \in 0 .. MaxLostLocks
    BY <1>17 DEF LoseLock, TypeOK, Assumptions, BoundsAssumption
  <2> QED BY <1>17, <2>1 DEF LoseLock, TypeOK
<1> QED BY <1>4, <1>5, <1>6, <1>7, <1>8, <1>9, <1>10, <1>11, <1>12, <1>13, <1>14, <1>15, <1>16, <1>17
     DEF RebuildStep

LEMMA TypeSafe ==
  ASSUME Assumptions, TypeOK, [Next]_vars
  PROVE  TypeOK'
<1>1. CASE UNCHANGED vars
  BY <1>1 DEF vars, bounds, TypeOK
<1>2. ASSUME NEW r \in Rows, AppendEvent(r) PROVE TypeOK'
  BY <1>2 DEF AppendEvent, TypeOK, OutboxStatus, bounds
<1> QED BY <1>1, <1>2, WorkerTypeSafe, RebuildTypeSafe DEF Next

LEMMA InitTyped ==
  ASSUME Assumptions, Init
  PROVE  TypeOK
<1>1. AnyVersion \in Versions
  BY DEF AnyVersion, Assumptions, ProcessAssumption
<1>2. outbox \in [Rows -> OutboxStatus] /\ graph \in [Stores -> SUBSET (Rows \X Versions)]
  BY DEF Init, OutboxStatus
<1>3. checkpoints \in [Versions -> Checkpoint]
  BY DEF Init, Checkpoint, NoCheckpoint
<1>4. marker \in [Stores -> (SUBSET Versions) \cup {NoMarker}]
  <2>1. NoMarker \in {NoMarker}
    OBVIOUS
  <2> DEFINE Markers == (SUBSET Versions) \cup {NoMarker}
  <2>2. NoMarker \in Markers
    BY <2>1, Zenon
  <2> HIDE DEF Markers
  <2>3. marker \in [Stores -> Markers]
    BY <2>2 DEF Init
  <2> QED BY <2>3 DEF Markers
<1>5. worker \in [Workers -> WorkerState]
  BY <1>1 DEF Init, WorkerState
<1>6. Fresh("standby", AnyVersion) \in Process
  BY <1>1 DEF Fresh, Process
<1>7. rebuild \in [Rebuilds -> Process]
  BY <1>6 DEF Init
<1>8. failures \in 0 .. MaxFailures /\ lost_locks \in 0 .. MaxLostLocks
  BY DEF Init, Assumptions, BoundsAssumption
<1> QED BY <1>2, <1>3, <1>4, <1>5, <1>7, <1>8 DEF Init, TypeOK

-----------------------------------------------------------------------------
\* What the steps of the others leave alone.
DeliveredShrinks == HandledWith({"delivered"})' \subseteq HandledWith({"delivered"})

LEMMA WorkerLeaves ==
  ASSUME Assumptions, TypeOK, LocksHeld, NEW w \in Workers,
         WorkerStep(w) \/ \E v \in Versions : StartWorker(w, v)
  PROVE  /\ rebuild' = rebuild /\ exclusive' = exclusive
         /\ \A x \in Workers : x # w => worker'[x] = worker[x]
         /\ \A x \in Workers : x # w /\ x \in shared => x \in shared'
         /\ Working(w)' => w \in shared'
         /\ graph["live"] \subseteq graph'["live"]
         /\ Deliver(w) \/ (checkpoints' = checkpoints /\ DeliveredShrinks)
         /\ ~Deliver(w) => \A v \in Versions : checkpoints'[v].state = checkpoints[v].state
<1> DEFINE Leaves == /\ rebuild' = rebuild /\ exclusive' = exclusive
                     /\ \A x \in Workers : x # w => worker'[x] = worker[x]
                     /\ \A x \in Workers : x # w /\ x \in shared => x \in shared'
                     /\ Working(w)' => w \in shared'
                     /\ graph["live"] \subseteq graph'["live"]
                     /\ Deliver(w) \/ (checkpoints' = checkpoints /\ DeliveredShrinks)
<1>1. Working(w) => w \in shared
  BY DEF LocksHeld
<1>2. ASSUME NEW v \in Versions, StartWorker(w, v) PROVE Leaves
  <2>1. Stepped(w, IF exclusive # Nobody THEN "idle" ELSE "count", v, 0)
    BY <1>2, WorkerTyped
  <2> QED BY <1>2, <2>1 DEF StartWorker, Stepped, DeliveredShrinks, HandledWith, Working
<1>3. CASE CountGraph(w) \/ CheckDelivered(w)
  <2>1. Working(w)
    BY <1>3 DEF CountGraph, CheckDelivered, Working
  <2>2. UNCHANGED <<outbox, checkpoints, graph, rebuild, exclusive>>
    BY <1>3 DEF CountGraph, CheckDelivered
  <2>3. \E pc \in {"fresh", "record", "idle"} :
          Stepped(w, pc, worker[w].version, worker[w].row) /\ shared' = (IF pc = "idle" THEN shared \ {w} ELSE shared)
    BY <1>3, WorkerTyped
  <2> QED BY <1>1, <2>1, <2>2, <2>3 DEF Stepped, DeliveredShrinks, HandledWith, Working
<1>4. CASE RecordFresh(w)
  <2>1. Stepped(w, "idle", worker[w].version, worker[w].row)
    BY <1>4, WorkerTyped
  <2> QED BY <1>4, <2>1 DEF RecordFresh, Stepped, DeliveredShrinks, HandledWith, Working
<1>5. ASSUME NEW r \in Rows, Claim(w, r) PROVE Leaves
  <2>1. Stepped(w, "claimed", worker[w].version, r)
    BY <1>5, WorkerTyped
  <2>2. DeliveredShrinks
    BY <1>5 DEF Claim, DeliveredShrinks, HandledWith, TypeOK, Assumptions, RowsAssumption
  <2> QED BY <1>5, <2>1, <2>2 DEF Claim, Stepped, Working
<1>6. CASE Project(w)
  <2>1. Stepped(w, "written", worker[w].version, worker[w].row)
    BY <1>6, WorkerTyped
  <2>2. w \in shared
    BY <1>1, <1>6 DEF Project, Working
  <2>3. graph["live"] \subseteq graph'["live"]
    BY <1>6 DEF Project, TypeOK, Stores
  <2> QED BY <1>6, <2>1, <2>2, <2>3 DEF Project, Stepped, Working, DeliveredShrinks, HandledWith
<1>7. CASE Deliver(w)
  <2>1. Stepped(w, "idle", worker[w].version, 0)
    BY <1>7, WorkerTyped
  <2> QED BY <1>7, <2>1 DEF Deliver, Settle, Stepped, Working
<1>8. ASSUME NEW status \in {"pending", "dead_lettered"}, FailRow(w, status) PROVE Leaves
  <2>1. Stepped(w, "idle", worker[w].version, 0)
    BY <1>8, WorkerTyped
  <2>2. DeliveredShrinks
    BY <1>8 DEF FailRow, Settle, DeliveredShrinks, HandledWith, TypeOK, Assumptions, RowsAssumption
  <2> QED BY <1>8, <2>1, <2>2 DEF FailRow, Settle, Stepped, Working
<1>9. CASE StopWorker(w)
  <2>1. Stepped(w, "off", worker[w].version, worker[w].row)
    BY <1>9, WorkerTyped
  <2> QED BY <1>9, <2>1 DEF StopWorker, Stepped, Working, DeliveredShrinks, HandledWith
<1>10. CASE CrashWorker(w)
  <2>1. Stepped(w, "off", worker[w].version, 0)
    BY <1>10, WorkerTyped
  <2> QED BY <1>10, <2>1 DEF CrashWorker, Stepped, Working, DeliveredShrinks, HandledWith
<1>11. Leaves
  BY <1>2, <1>3, <1>4, <1>5, <1>6, <1>7, <1>8, <1>9, <1>10 DEF WorkerStep
<1> QED BY <1>11

\* The steps of a rebuild leave the workers and the outbox alone, and unless it
\* runs in place the live graph, its marker and the checkpoints too.
LEMMA RebuildLeaves ==
  ASSUME Assumptions, TypeOK, CheckpointSteps, NEW p \in Rebuilds,
         RebuildStep(p) \/ FailRebuild(p) \/ LoseLock(p) \/ \E m \in Modes, v \in Versions : Begin(p, m, v)
  PROVE  /\ worker' = worker /\ shared' = shared /\ outbox' = outbox
         /\ \A q \in Rebuilds : q # p => rebuild'[q] = rebuild[q]
         /\ ~InPlace(p) => /\ graph'["live"] = graph["live"] /\ marker'["live"] = marker["live"]
                           /\ checkpoints' = checkpoints
<1> DEFINE Leaves == /\ worker' = worker /\ shared' = shared /\ outbox' = outbox
                     /\ \A q \in Rebuilds : q # p => rebuild'[q] = rebuild[q]
                     /\ ~InPlace(p) => /\ graph'["live"] = graph["live"] /\ marker'["live"] = marker["live"]
                                       /\ checkpoints' = checkpoints
<1>1. LoseLock(p) => Leaves
  BY DEF LoseLock
<1>2. ~InPlace(p) => rebuild[p].pc \notin {"check", "mark", "finalize", "tail", "commit"}
  BY DEF CheckpointSteps, InPlace, Running
<1>3. ~InPlace(p) /\ Running(p) => Target(p) = "standby"
  BY DEF Target, InPlace
<1>4. ASSUME NEW m \in Modes, NEW v \in Versions, Begin(p, m, v) PROVE Leaves
  BY <1>4, BegunBy DEF Begin, Begun, Others
<1>5. CASE EnsureIdle(p) \/ MarkRebuilding(p) \/ CheckTarget(p) \/ LockCheckpoint(p) \/ CommitCheckpoint(p)
           \/ Verify(p) \/ FailRebuild(p)
  <2>1. \A q \in Rebuilds : q # p => rebuild'[q] = rebuild[q]
    BY <1>5, RebuildTyped DEF Moved, Ended, Begun, Others
  <2> QED BY <1>2, <1>5, <2>1
       DEF EnsureIdle, MarkRebuilding, CheckTarget, LockCheckpoint, CommitCheckpoint, Verify, FailRebuild
<1>6. CASE DeleteMarker(p) \/ RecordHistory(p)
  <2>1. \A q \in Rebuilds : q # p => rebuild'[q] = rebuild[q]
    BY <1>6, RebuildTyped DEF Moved, Ended, Begun, Others
  <2>2. \E mk : marker' = [marker EXCEPT ![Target(p)] = mk] /\ Running(p)
    BY <1>6 DEF DeleteMarker, RecordHistory, Running
  <2>3. ~InPlace(p) => marker'["live"] = marker["live"]
    BY <1>3, <2>2 DEF TypeOK, Stores
  <2> QED BY <1>6, <2>1, <2>3 DEF DeleteMarker, RecordHistory
<1>7. CASE WipeBatch(p)
  <2>1. \A q \in Rebuilds : q # p => rebuild'[q] = rebuild[q]
    BY <1>7, RebuildTyped DEF Moved, Others
  <2>2. Running(p) /\ (graph' = graph \/ \E S : graph' = [graph EXCEPT ![Target(p)] = S])
    BY <1>7 DEF WipeBatch, Running
  <2>3. ~InPlace(p) => graph'["live"] = graph["live"]
    BY <1>3, <2>2 DEF TypeOK, Stores
  <2> QED BY <1>7, <2>1, <2>3 DEF WipeBatch
<1>8. CASE ReadPage(p)
  <2>1. \A q \in Rebuilds : q # p => rebuild'[q] = rebuild[q]
    BY <1>8, RebuildTyped DEF Moved, Paged, Others
  <2> QED BY <1>8, <2>1 DEF ReadPage
<1>9. CASE ReplayRow(p)
  <2>1. PICK r \in Rows : Replayed(p, r)
    BY <1>9, ReplayedBy
  <2>2. Running(p)
    BY <1>9 DEF ReplayRow, Running
  <2>3. ~InPlace(p) => graph'["live"] = graph["live"]
    BY <1>3, <2>1, <2>2 DEF Replayed, TypeOK, Stores
  <2> QED BY <1>9, <2>1, <2>3 DEF ReplayRow, Replayed, Others
<1>10. Leaves
  BY <1>1, <1>4, <1>5, <1>6, <1>7, <1>8, <1>9 DEF RebuildStep
<1> QED BY <1>10

LEMMA CheckpointStepsStay ==
  ASSUME Assumptions, TypeOK, CheckpointSteps, [Next]_vars
  PROVE  CheckpointSteps'
<1>1. CASE UNCHANGED rebuild
  BY <1>1 DEF CheckpointSteps
<1>2. ASSUME NEW p \in Rebuilds,
             RebuildStep(p) \/ FailRebuild(p) \/ LoseLock(p) \/ \E m \in Modes, v \in Versions : Begin(p, m, v)
      PROVE  CheckpointSteps'
  <2> DEFINE Ours == {"check", "mark", "finalize", "tail", "commit"}
             Right == rebuild'[p].mode # "in_place" => rebuild'[p].pc \notin Ours
  <2>1. rebuild[p].mode # "in_place" => rebuild[p].pc \notin Ours
    BY DEF CheckpointSteps
  <2>2. ASSUME FailRebuild(p) \/ RecordHistory(p) PROVE Right
    BY <2>2, RebuildTyped DEF Ended, Begun
  <2>3. ASSUME EnsureIdle(p) \/ MarkRebuilding(p) \/ LockCheckpoint(p) \/ CommitCheckpoint(p) PROVE Right
    BY <2>1, <2>3, RebuildTyped DEF EnsureIdle, MarkRebuilding, LockCheckpoint, CommitCheckpoint, Moved, Ended, Begun
  <2>4. ASSUME DeleteMarker(p) \/ CheckTarget(p) \/ Verify(p) \/ WipeBatch(p) PROVE Right
    BY <2>1, <2>4, RebuildTyped DEF Moved, Ended, Begun
  <2>5. ASSUME ReadPage(p) PROVE Right
    BY <2>1, <2>5, RebuildTyped DEF Moved, Paged
  <2>6. ASSUME ReplayRow(p) \/ LoseLock(p) PROVE Right
    BY <2>1, <2>6, ReplayedBy DEF Replayed, LoseLock
  <2>7. ASSUME NEW m \in Modes, NEW v \in Versions, Begin(p, m, v) PROVE Right
    BY <2>7, BegunBy DEF Begun
  <2>8. Right
    BY <1>2, <2>2, <2>3, <2>4, <2>5, <2>6, <2>7 DEF RebuildStep
  <2> QED BY <1>2, <2>8, RebuildLeaves DEF CheckpointSteps
<1>3. UNCHANGED vars \/ (\E r \in Rows : AppendEvent(r)) => UNCHANGED rebuild
  BY DEF vars, AppendEvent
<1>4. ASSUME NEW w \in Workers, WorkerStep(w) \/ \E v \in Versions : StartWorker(w, v) PROVE UNCHANGED rebuild
  BY <1>4 DEF WorkerStep, StartWorker, CountGraph, CheckDelivered, RecordFresh, Claim, Project, Deliver, FailRow,
              StopWorker, CrashWorker
<1> QED BY <1>1, <1>2, <1>3, <1>4 DEF Next

LEMMA LocksStay ==
  ASSUME Assumptions, LocksKept, TypeOK, LocksHeld, [Next]_vars
  PROVE  LocksHeld'
<1>0. CheckpointSteps'
  BY CheckpointStepsStay DEF LocksHeld
<1>1. CASE UNCHANGED vars
  BY <1>0, <1>1 DEF vars, LocksHeld, Working, Running
<1>2. ASSUME NEW r \in Rows, AppendEvent(r) PROVE LocksHeld'
  BY <1>0, <1>2 DEF AppendEvent, LocksHeld, Working, Running
<1>3. ASSUME NEW w \in Workers, WorkerStep(w) \/ \E v \in Versions : StartWorker(w, v) PROVE LocksHeld'
  <2>1. ASSUME NEW x \in Workers, Working(x)' PROVE x \in shared'
    <3>1. CASE x = w
      BY <1>3, <2>1, <3>1, WorkerLeaves
    <3>2. CASE x # w
      BY <1>3, <2>1, <3>2, WorkerLeaves DEF LocksHeld, Working
    <3> QED BY <3>1, <3>2
  <2>2. rebuild' = rebuild /\ exclusive' = exclusive
    BY <1>3, WorkerLeaves
  <2> QED BY <1>0, <2>1, <2>2 DEF LocksHeld, Running
<1>4. ASSUME NEW p \in Rebuilds,
             RebuildStep(p) \/ FailRebuild(p) \/ LoseLock(p) \/ \E m \in Modes, v \in Versions : Begin(p, m, v)
      PROVE  LocksHeld'
  <2>1. worker' = worker /\ shared' = shared /\ \A q \in Rebuilds : q # p => rebuild'[q] = rebuild[q]
    BY <1>4, RebuildLeaves DEF LocksHeld
  <2>2. \A w \in Workers : Working(w)' => w \in shared'
    BY <2>1 DEF LocksHeld, Working
  <2> DEFINE Mine == /\ Running(p)' /\ rebuild'[p].mode # "standby" => exclusive' = p
                     /\ exclusive' = p => Running(p)'
             Theirs == \A q \in Rebuilds : q # p /\ Running(q) /\ rebuild[q].mode # "standby" => (exclusive' = q)
             Still == \A q \in Rebuilds : q # p => (exclusive' = q => exclusive = q)
  <2>3. ASSUME NEW m \in Modes, NEW v \in Versions, Begin(p, m, v) PROVE Mine /\ Theirs /\ Still
    <3>1. Begun(p, IF m = "in_place" THEN "check" ELSE "target", m, v)
      BY <2>3, BegunBy
    <3>2. exclusive' = (IF m = "standby" THEN exclusive ELSE p) /\ (m # "standby" => exclusive = Nobody)
      BY <2>3 DEF Begin
    <3>3. Nobody \notin Rebuilds
      BY DEF Assumptions, ProcessAssumption
    <3>4. Mine
      BY <3>1, <3>2 DEF Begun, Running
    <3>5. Theirs /\ Still
      BY <3>2, <3>3 DEF LocksHeld
    <3> QED BY <3>4, <3>5
  <2>4. End(p) => Mine /\ Theirs /\ Still
    BY EndedBy DEF Ended, Begun, Running, LocksHeld
  <2>5. ASSUME NEW pc \in Steps, Moved(p, pc), exclusive' = exclusive, pc # "off", Running(p)
        PROVE  Mine /\ Theirs /\ Still
    BY <2>5 DEF Moved, Running, LocksHeld
  <2>7. ASSUME rebuild'[p].pc = rebuild[p].pc, rebuild'[p].mode = rebuild[p].mode, exclusive' = exclusive
        PROVE  Mine /\ Theirs /\ Still
    BY <2>7 DEF LocksHeld, Running
  <2> HIDE DEF Mine, Theirs, Still
  <2>8. ASSUME EnsureIdle(p) \/ MarkRebuilding(p) \/ DeleteMarker(p) \/ LockCheckpoint(p)
        PROVE  Mine /\ Theirs /\ Still
    <3>1. Running(p) /\ (End(p) \/ \E pc \in {"mark", "marker", "wipe", "tail"} :
             To(p, pc) /\ exclusive' = exclusive)
      BY <2>8 DEF EnsureIdle, MarkRebuilding, DeleteMarker, LockCheckpoint, Running
    <3> QED BY <3>1, <2>4, <2>5, MovedBy DEF Steps
  <2>9. ASSUME CheckTarget(p) \/ CommitCheckpoint(p) \/ Verify(p) \/ RecordHistory(p) \/ FailRebuild(p)
        PROVE  Mine /\ Theirs /\ Still
    <3>1. Running(p) /\ (End(p) \/ \E pc \in {"replay", "marker", "verify", "record"} :
             To(p, pc) /\ exclusive' = exclusive)
      BY <2>9 DEF CheckTarget, CommitCheckpoint, Verify, RecordHistory, FailRebuild, Running
    <3> QED BY <3>1, <2>4, <2>5, MovedBy DEF Steps
  <2>10. ASSUME WipeBatch(p)
        PROVE  Mine /\ Theirs /\ Still
    <3>1. Running(p) /\ exclusive' = exclusive /\ (rebuild' = rebuild \/ To(p, "replay"))
      BY <2>10 DEF WipeBatch, Running
    <3> QED BY <3>1, <2>5, <2>7, MovedBy DEF Steps
  <2>11. ASSUME ReadPage(p)
        PROVE  Mine /\ Theirs /\ Still
    <3>1. Running(p) /\ exclusive' = exclusive
      BY <2>11 DEF ReadPage, Running
    <3>2. Paged(p) \/ \E pc \in {"commit", "finalize", "verify"} :
             Moved(p, pc)
      BY <2>11, RebuildTyped
    <3> QED BY <3>1, <3>2, <2>5, <2>7 DEF Paged, Steps
  <2>12. ASSUME ReplayRow(p)
        PROVE  Mine /\ Theirs /\ Still
    <3>1. exclusive' = exclusive
      BY <2>12 DEF ReplayRow
    <3> QED BY <3>1, <2>7, <2>12, ReplayedBy DEF Replayed
  <2>13. ~LoseLock(p)
    BY DEF LoseLock, LocksKept, TypeOK
  <2>14. Mine /\ Theirs /\ Still
    BY <1>4, <2>3, <2>8, <2>9, <2>10, <2>11, <2>12, <2>13 DEF RebuildStep
  <2> USE DEF Mine, Theirs, Still
  <2>15. ASSUME NEW q \in Rebuilds
         PROVE  /\ Running(q)' /\ rebuild'[q].mode # "standby" => exclusive' = q
                /\ exclusive' = q => Running(q)'
    <3>1. CASE q = p
      BY <2>14, <3>1
    <3>2. CASE q # p
      BY <2>1, <2>14, <3>2 DEF LocksHeld, Running
    <3> QED BY <3>1, <3>2
  <2> QED BY <1>0, <2>2, <2>15 DEF LocksHeld
<1> QED BY <1>1, <1>2, <1>3, <1>4 DEF Next

\* Beside an in-place rebuild nobody holds the lock: no worker is at work, and
\* the other rebuilds write elsewhere.
LEMMA Apart ==
  ASSUME Assumptions, TypeOK, LocksHeld, NEW p \in Rebuilds, InPlace(p)
  PROVE  /\ exclusive = p /\ exclusive # Nobody
         /\ \A w \in Workers : worker[w].pc \in {"off", "idle"}
         /\ \A q \in Rebuilds : q # p => ~InPlace(q)
<1>1. exclusive = p
  BY DEF InPlace, LocksHeld
<1>2. exclusive # Nobody /\ shared = {}
  BY <1>1 DEF Assumptions, ProcessAssumption, TypeOK
<1>3. \A w \in Workers : ~Working(w)
  BY <1>2 DEF LocksHeld
<1> QED BY <1>1, <1>2, <1>3 DEF InPlace, LocksHeld, Working

Undisturbed(p) ==
  /\ HandledWith({"delivered"})' = HandledWith({"delivered"})
  /\ graph'["live"] = graph["live"] /\ marker'["live"] = marker["live"] /\ checkpoints' = checkpoints
  /\ rebuild'[p] = rebuild[p]

LEMMA UndisturbedReplay ==
  ASSUME NEW p \in Rebuilds, InPlace(p) => ReplayOf(p), Undisturbed(p)
  PROVE  (InPlace(p) => ReplayOf(p))'
BY DEF Undisturbed, InPlace, Running, ReplayOf, Complete

LEMMA WorkerBeside ==
  ASSUME Assumptions, TypeOK, LocksHeld, NEW p \in Rebuilds, InPlace(p), NEW w \in Workers,
         WorkerStep(w) \/ \E v \in Versions : StartWorker(w, v)
  PROVE  Undisturbed(p)
<1>1. exclusive # Nobody /\ worker[w].pc \in {"off", "idle"}
  BY Apart
<1>2. StopWorker(w) \/ \E v \in Versions : StartWorker(w, v)
  BY <1>1 DEF WorkerStep, CountGraph, CheckDelivered, RecordFresh, Claim, Project, Deliver, FailRow, CrashWorker
<1>3. outbox' = outbox /\ graph' = graph /\ marker' = marker /\ checkpoints' = checkpoints /\ rebuild' = rebuild
  BY <1>1, <1>2 DEF StopWorker, StartWorker
<1> QED BY <1>3 DEF Undisturbed, HandledWith

\* What the worker has written stays: a graph is only wiped without workers.
LEMMA ProjectedStays ==
  ASSUME Assumptions, LocksKept, TypeOK, LocksHeld, ProjectedFirst, [Next]_vars
  PROVE  ProjectedFirst'
<1>1. CASE UNCHANGED vars
  BY <1>1 DEF vars, ProjectedFirst
<1>2. ASSUME NEW r \in Rows, AppendEvent(r) PROVE ProjectedFirst'
  BY <1>2 DEF AppendEvent, ProjectedFirst
<1>3. ASSUME NEW w \in Workers, WorkerStep(w) \/ \E v \in Versions : StartWorker(w, v) PROVE ProjectedFirst'
  <2>1. graph["live"] \subseteq graph'["live"] /\ \A x \in Workers : x # w => worker'[x] = worker[x]
    BY <1>3, WorkerLeaves
  <2>2. ASSUME worker'[w].pc = "written"
        PROVE  Effect(worker'[w].row, worker'[w].version) \subseteq graph'["live"]
    <3>1. Project(w)
      BY <1>3, <2>2, WorkerTyped DEF Stepped, WorkerStep
    <3>2. worker'[w].row = worker[w].row /\ worker'[w].version = worker[w].version
      BY <3>1, WorkerTyped DEF Stepped
    <3>3. graph'["live"] = graph["live"] \cup Effect(worker[w].row, worker[w].version)
      BY <3>1 DEF Project, TypeOK, Stores
    <3> QED BY <3>2, <3>3
  <2> QED BY <2>1, <2>2 DEF ProjectedFirst
<1>4. ASSUME NEW p \in Rebuilds,
             RebuildStep(p) \/ FailRebuild(p) \/ LoseLock(p) \/ \E m \in Modes, v \in Versions : Begin(p, m, v)
      PROVE  ProjectedFirst'
  <2>1. worker' = worker
    BY <1>4, RebuildLeaves DEF LocksHeld
  <2>2. CASE ~InPlace(p)
    BY <1>4, <2>1, <2>2, RebuildLeaves DEF LocksHeld, ProjectedFirst
  <2>3. CASE InPlace(p)
    BY <2>1, <2>3, Apart DEF ProjectedFirst
  <2> QED BY <2>2, <2>3
<1> QED BY <1>1, <1>2, <1>3, <1>4 DEF Next

\* A replay in place, step by step.
LEMMA ReplayGoesOn ==
  ASSUME Assumptions, LocksKept, Kept, NEW p \in Rebuilds, InPlace(p),
         RebuildStep(p), InPlace(p)'
  PROVE  ReplayOf(p)'
<1>1. TypeOK /\ LocksHeld /\ ReplayOf(p)
  BY DEF Kept
<1>2. rebuild[p] \in Process /\ rebuild[p].version \in Versions /\ Target(p) = "live"
  BY <1>1 DEF TypeOK, Process, Target, InPlace
<1>3. outbox' = outbox /\ HandledWith({"delivered"})' = HandledWith({"delivered"})
  BY <1>1, RebuildLeaves DEF LocksHeld, HandledWith
<1>4. ~Ended(p)
  BY DEF Ended, Begun, InPlace, Running
<1>5. rebuild[p].mode = "in_place"
  BY DEF InPlace
<1>6. CASE EnsureIdle(p)
  <2>1. Moved(p, "mark")
    BY <1>1, <1>4, <1>6, RebuildTyped
  <2> QED BY <1>1, <1>6, <2>1 DEF EnsureIdle, ReplayOf, Moved
<1>7. CASE MarkRebuilding(p)
  <2>1. Moved(p, "marker")
    BY <1>1, <1>7, RebuildTyped
  <2>2. checkpoints'[rebuild[p].version].state = "rebuilding"
    BY <1>1, <1>2, <1>7 DEF MarkRebuilding, TypeOK
  <2> QED BY <1>1, <1>7, <2>1, <2>2 DEF MarkRebuilding, ReplayOf, Moved
<1>8. CASE CheckTarget(p)
  BY <1>1, <1>8 DEF CheckTarget, ReplayOf
<1>9. CASE DeleteMarker(p)
  <2>1. Moved(p, "wipe")
    BY <1>1, <1>9, RebuildTyped
  <2>2. marker'["live"] = NoMarker
    BY <1>1, <1>2, <1>9 DEF DeleteMarker, TypeOK, Stores
  <2> QED BY <1>1, <1>9, <2>1, <2>2 DEF DeleteMarker, ReplayOf, Moved
<1>10. CASE WipeBatch(p)
  <2>1. UNCHANGED <<checkpoints, marker>> /\ rebuild[p].pc = "wipe"
    BY <1>10 DEF WipeBatch
  <2>2. CASE rebuild' = rebuild
    BY <1>1, <2>1, <2>2 DEF ReplayOf
  <2>3. CASE Moved(p, "replay")
    <3>1. \A r \in HandledWith({"delivered"}) : ~(r <= 0)
      BY DEF HandledWith, Assumptions, RowsAssumption
    <3>2. rebuild'[p].after = 0 /\ rebuild'[p].page = {}
      BY <1>1, <2>1, <2>3 DEF Moved, ReplayOf
    <3> QED BY <1>1, <1>3, <2>1, <2>3, <3>1, <3>2 DEF Moved, ReplayOf
  <2> QED BY <1>1, <1>10, <2>2, <2>3, RebuildTyped
<1>11. CASE ReadPage(p)
  <2>1. UNCHANGED <<checkpoints, marker, graph>> /\ rebuild[p].pc \in {"replay", "tail"} /\ rebuild[p].page = {}
    BY <1>11 DEF ReadPage
  <2>2. \A r \in HandledWith({"delivered"}) : r > rebuild[p].after => r \in Replayable(p)
    BY <1>5 DEF HandledWith, Replayable, Assumptions, RowsAssumption
  <2>3. CASE Paged(p) /\ rebuild[p].pc = "replay"
    <3>1. \A r \in rebuild'[p].page : r > rebuild[p].after
      BY <2>3 DEF Paged, Replayable
    <3> QED BY <1>1, <1>3, <2>1, <2>2, <2>3, <3>1 DEF Paged, ReplayOf
  <2>4. CASE Paged(p) /\ rebuild[p].pc = "tail"
    BY <1>1, <1>3, <2>1, <2>4 DEF Paged, ReplayOf, Complete
  <2>5. CASE Replayable(p) = {} /\ rebuild[p].pc = "tail" /\ Moved(p, "commit")
    BY <1>1, <1>3, <2>1, <2>5 DEF Moved, ReplayOf, Complete
  <2>6. CASE Replayable(p) = {} /\ rebuild[p].pc = "replay" /\ Moved(p, "finalize")
    <3>1. \A r \in HandledWith({"delivered"}) : r \in Nat /\ ~(r > rebuild[p].after)
      BY <2>2, <2>6 DEF HandledWith, Assumptions, RowsAssumption
    <3>2. \A r \in HandledWith({"delivered"}) : r <= rebuild[p].after
      BY <1>1, <3>1, Positions
    <3>3. Complete("live", rebuild[p].version)
      BY <1>1, <2>6, <3>2 DEF ReplayOf, Complete
    <3> QED BY <1>1, <1>3, <2>1, <2>6, <3>3 DEF Moved, ReplayOf, Complete
  <2> QED BY <1>1, <1>5, <1>11, <2>1, <2>3, <2>4, <2>5, <2>6, RebuildTyped
<1>12. CASE ReplayRow(p)
  <2>1. PICK r \in Rows : Replayed(p, r)
    BY <1>1, <1>12, ReplayedBy
  <2>2. UNCHANGED <<checkpoints, marker>> /\ rebuild[p].pc \in {"replay", "tail"}
    BY <1>12 DEF ReplayRow
  <2>3. graph'["live"] = graph["live"] \cup Effect(r, rebuild[p].version)
    BY <1>1, <1>2, <2>1 DEF Replayed, TypeOK, Stores
  <2>4. CASE rebuild[p].pc = "tail"
    BY <1>1, <1>3, <2>1, <2>2, <2>3, <2>4 DEF Replayed, ReplayOf, Complete
  <2>5. CASE rebuild[p].pc = "replay"
    <3> DEFINE v == rebuild[p].version  after == rebuild[p].after  page == rebuild[p].page
    <3>1. /\ \A s \in HandledWith({"delivered"}) : s <= after => <<s, v>> \in graph["live"]
          /\ \A s \in page : s > after
          /\ \A s \in HandledWith({"delivered"}) : s > after /\ s \notin page => \A t \in page : t < s
      BY <1>1, <2>5 DEF ReplayOf
    <3>2. r \in page /\ \A s \in page : r <= s
      BY <2>1 DEF Replayed
    <3>3. /\ Rows \subseteq Nat /\ after \in Nat /\ page \subseteq Rows
          /\ HandledWith({"delivered"}) \subseteq Handled /\ Handled \subseteq Rows
      BY <1>1, Positions DEF Assumptions, RowsAssumption, HandledWith
    <3>4. ASSUME NEW s \in HandledWith({"delivered"}), s <= r PROVE <<s, v>> \in graph'["live"]
      <4>1. s \in Nat /\ r \in Nat /\ s \in Handled
        BY <3>3
      <4>2. CASE s <= after
        BY <3>1, <4>2, <2>3
      <4>3. CASE s > after
        <5>1. s \in page
          BY <3>1, <3>2, <3>4, <4>1, <4>3
        <5>2. s = r
          BY <3>2, <3>4, <4>1, <5>1
        <5> QED BY <2>3, <4>1, <5>2 DEF Effect
      <4> QED BY <3>3, <4>1, <4>2, <4>3
    <3>5. ASSUME NEW s \in page \ {r} PROVE s > r
      <4>1. s \in Nat /\ r \in Nat /\ r <= s /\ r # s
        BY <3>2, <3>3
      <4> QED BY <4>1
    <3>6. ASSUME NEW s \in HandledWith({"delivered"}), s > r, s \notin page \ {r}, NEW t \in page \ {r} PROVE t < s
      <4>1. r > after /\ s \in Nat /\ r \in Nat
        BY <3>1, <3>2, <3>3
      <4>2. s > after /\ s \notin page
        BY <3>3, <3>6, <4>1
      <4> QED BY <3>1, <4>2
    <3>7. rebuild'[p].pc = "replay" /\ rebuild'[p].version = v /\ rebuild'[p].after = r /\ rebuild'[p].page = page \ {r}
      BY <2>1, <2>5 DEF Replayed
    <3> HIDE DEF v, after, page
    <3>8. checkpoints'[v].state = "rebuilding" /\ marker'["live"] = NoMarker
      BY <1>1, <2>2, <2>5 DEF ReplayOf, v
    <3> QED BY <1>3, <3>4, <3>5, <3>6, <3>7, <3>8 DEF ReplayOf
  <2> QED BY <2>2, <2>4, <2>5
<1>13. CASE LockCheckpoint(p)
  <2>1. Moved(p, "tail")
    BY <1>1, <1>13, RebuildTyped
  <2> QED BY <1>1, <1>3, <1>13, <2>1 DEF LockCheckpoint, Moved, ReplayOf, Complete
<1>14. CASE CommitCheckpoint(p)
  <2>1. Moved(p, "verify")
    BY <1>1, <1>4, <1>14, RebuildTyped
  <2> QED BY <1>1, <1>3, <1>14, <2>1 DEF CommitCheckpoint, Moved, ReplayOf, Complete
<1>15. CASE Verify(p)
  <2>1. Moved(p, "record")
    BY <1>1, <1>4, <1>15, RebuildTyped
  <2> QED BY <1>1, <1>3, <1>15, <2>1 DEF Verify, Moved, ReplayOf, Complete
<1>16. CASE RecordHistory(p)
  BY <1>1, <1>4, <1>16, RebuildTyped
<1> QED BY <1>6, <1>7, <1>8, <1>9, <1>10, <1>11, <1>12, <1>13, <1>14, <1>15, <1>16 DEF RebuildStep

LEMMA KeptStays ==
  ASSUME Assumptions, LocksKept, Kept, [Next]_vars
  PROVE  Kept'
<1>1. TypeOK' /\ LocksHeld' /\ ProjectedFirst'
  BY TypeSafe, LocksStay, ProjectedStays DEF Kept
<1>2. SUFFICES ASSUME NEW p \in Rebuilds, InPlace(p)' PROVE ReplayOf(p)'
  BY <1>1 DEF Kept
<1>3. TypeOK /\ LocksHeld /\ (InPlace(p) => ReplayOf(p))
  BY DEF Kept
<1>4. CASE UNCHANGED vars
  BY <1>2, <1>3, <1>4, UndisturbedReplay DEF vars, Undisturbed, HandledWith
<1>5. ASSUME NEW r \in Rows, AppendEvent(r) PROVE ReplayOf(p)'
  <2>1. HandledWith({"delivered"})' = HandledWith({"delivered"})
    BY <1>3, <1>5 DEF AppendEvent, HandledWith, TypeOK, Assumptions, RowsAssumption
  <2> QED BY <1>2, <1>3, <1>5, <2>1, UndisturbedReplay DEF AppendEvent, Undisturbed
<1>6. ASSUME NEW w \in Workers, WorkerStep(w) \/ \E v \in Versions : StartWorker(w, v) PROVE ReplayOf(p)'
  <2>1. InPlace(p)
    BY <1>2, <1>3, <1>6, WorkerLeaves DEF InPlace, Running
  <2> QED BY <1>2, <1>3, <1>6, <2>1, WorkerBeside, UndisturbedReplay
<1>7. ASSUME NEW q \in Rebuilds,
             RebuildStep(q) \/ FailRebuild(q) \/ LoseLock(q) \/ \E m \in Modes, v \in Versions : Begin(q, m, v)
      PROVE  ReplayOf(p)'
  <2>1. CASE q # p
    <3>1. rebuild'[p] = rebuild[p] /\ InPlace(p)
      BY <1>2, <1>3, <1>7, <2>1, RebuildLeaves DEF LocksHeld, InPlace, Running
    <3>2. ~InPlace(q)
      BY <1>3, <2>1, <3>1, Apart
    <3>3. Undisturbed(p)
      BY <1>3, <1>7, <3>1, <3>2, RebuildLeaves DEF LocksHeld, Undisturbed, HandledWith
    <3> QED BY <1>2, <1>3, <3>3, UndisturbedReplay
  <2>2. CASE q = p /\ RebuildStep(p)
    <3>1. InPlace(p)
      <4>1. rebuild'[p].mode = rebuild[p].mode
        BY <1>3, <2>2, RebuildTyped, ReplayedBy DEF RebuildStep, Moved, Ended, Begun, Paged, Replayed
      <4>2. Running(p)
        BY <2>2 DEF RebuildStep, EnsureIdle, MarkRebuilding, CheckTarget, DeleteMarker, WipeBatch, ReadPage,
                    ReplayRow, LockCheckpoint, CommitCheckpoint, Verify, RecordHistory, Running
      <4> QED BY <1>2, <4>1, <4>2 DEF InPlace
    <3> QED BY <1>2, <2>2, <3>1, ReplayGoesOn
  <2>3. CASE q = p /\ FailRebuild(p)
    BY <1>2, <1>3, <2>3, RebuildTyped DEF Ended, Begun, InPlace, Running
  <2>4. ASSUME NEW m \in Modes, NEW v \in Versions, q = p, Begin(p, m, v) PROVE ReplayOf(p)'
    <3>1. Begun(p, IF m = "in_place" THEN "check" ELSE "target", m, v)
      BY <1>3, <2>4, BegunBy
    <3>2. rebuild'[p].pc = "check" /\ rebuild'[p].after = 0 /\ rebuild'[p].page = {}
      BY <1>2, <3>1 DEF Begun, InPlace
    <3> QED BY <3>2 DEF ReplayOf
  <2>5. ~LoseLock(q)
    BY <1>3 DEF LoseLock, LocksKept, TypeOK
  <2> QED BY <1>7, <2>1, <2>2, <2>3, <2>4, <2>5
<1> QED BY <1>4, <1>5, <1>6, <1>7 DEF Next

-----------------------------------------------------------------------------
\* The claims of the marker and of the checkpoints, as parts of Truthful.
FreshTruth == \A w \in Workers : worker[w].pc = "record" => Complete("live", worker[w].version)
CheckpointTruth == \A v \in Versions : checkpoints[v].state # "rebuilding" => Complete("live", v)

LEMMA StillComplete ==
  ASSUME DeliveredShrinks, graph["live"] \subseteq graph'["live"], NEW v, Complete("live", v)
  PROVE  Complete("live", v)'
BY DEF DeliveredShrinks, Complete

LEMMA DeliveredComplete ==
  ASSUME Assumptions, Kept, NEW w \in Workers, Deliver(w), NEW v, v = worker[w].version, Complete("live", v)
  PROVE  Complete("live", v)'
<1>1. graph' = graph /\ outbox' = [outbox EXCEPT ![worker[w].row] = "delivered"] /\ worker[w].pc = "written"
  BY DEF Deliver, Settle
<1>2. \A r \in HandledWith({"delivered"})' : r \in HandledWith({"delivered"}) \/ r = worker[w].row
  BY <1>1 DEF HandledWith, Kept, TypeOK, Assumptions, RowsAssumption
<1>3. \A r \in Handled : r = worker[w].row => <<r, v>> \in graph["live"]
  BY <1>1 DEF Kept, ProjectedFirst, Effect
<1>4. ASSUME NEW r \in HandledWith({"delivered"})' PROVE <<r, v>> \in graph'["live"]
  <2>1. r \in Handled
    BY DEF HandledWith
  <2> QED BY <1>1, <1>2, <1>3, <2>1 DEF Complete
<1> QED BY <1>4 DEF Complete

\* A worker that delivers, in the version the claims are about.
LEMMA ClaimsSurviveDelivery ==
  ASSUME Assumptions, OneVersion \/ Rolling, Truthful, NEW w \in Workers, Deliver(w)
  PROVE  /\ MarkerTruthful' /\ FreshTruth' /\ (OneVersion => CheckpointTruth')
<1>1. PICK v \in Versions : v = worker[w].version
  BY DEF Truthful, Kept, TypeOK, WorkerState
<1>2. Kept /\ TypeOK
  BY DEF Truthful, Kept
<1>3. Complete("live", v) => Complete("live", v)'
  BY <1>1, <1>2, DeliveredComplete
<1>4. marker' = marker /\ worker[w].pc = "written" /\ Stepped(w, "idle", v, 0)
  BY <1>1, <1>2, WorkerTyped DEF Deliver
<1>5. MarkerTruthful'
  <2> SUFFICES ASSUME marker'["live"] # NoMarker, NEW u \in marker'["live"] PROVE Complete("live", u)'
    BY DEF MarkerTruthful
  <2>1. u \in Versions
    BY <1>2, <1>4 DEF TypeOK, Stores
  <2>2. u = v
    BY <1>1, <1>4, <2>1 DEF Truthful, Alone, OneVersion
  <2>3. Complete("live", u)
    BY <1>4 DEF Truthful, MarkerTruthful
  <2> QED BY <1>3, <2>2, <2>3
<1>6. FreshTruth'
  <2>1. ASSUME NEW x \in Workers, worker'[x].pc = "record"
        PROVE  worker'[x].version = v /\ Complete("live", v)
    <3>1. x # w /\ worker'[x] = worker[x] /\ worker[x].version \in Versions
      BY <1>2, <1>4, <2>1 DEF Stepped, TypeOK, WorkerState
    <3>2. worker[x].version = v
      BY <1>1, <3>1 DEF OneVersion, Rolling
    <3>3. Complete("live", worker[x].version)
      BY <2>1, <3>1 DEF Truthful
    <3> QED BY <3>1, <3>2, <3>3
  <2> QED BY <1>3, <2>1 DEF FreshTruth
<1>7. ASSUME OneVersion PROVE CheckpointTruth'
  <2> SUFFICES ASSUME NEW u \in Versions, checkpoints'[u].state # "rebuilding" PROVE Complete("live", u)'
    BY DEF CheckpointTruth
  <2>1. u = v /\ checkpoints[u].state # "rebuilding"
    BY <1>2, <1>7, Delivered DEF OneVersion
  <2>2. Complete("live", u)
    BY <1>7, <2>1 DEF Truthful
  <2> QED BY <1>3, <2>1, <2>2
<1> QED BY <1>5, <1>6, <1>7

LEMMA WorkerTruthful ==
  ASSUME Assumptions, OneVersion \/ Rolling, Truthful, NEW w \in Workers,
         WorkerStep(w) \/ \E v \in Versions : StartWorker(w, v), ~Deliver(w)
  PROVE  /\ MarkerTruthful' /\ FreshTruth' /\ (OneVersion => CheckpointTruth')
<1>1. Kept /\ TypeOK /\ LocksHeld /\ worker[w] \in WorkerState
  BY DEF Truthful, Kept, TypeOK
<1>2. /\ checkpoints' = checkpoints /\ DeliveredShrinks /\ graph["live"] \subseteq graph'["live"]
      /\ \A x \in Workers : x # w => worker'[x] = worker[x]
  BY <1>1, WorkerLeaves
<1>3. \A v : Complete("live", v) => Complete("live", v)'
  BY <1>2, StillComplete
<1>4. MarkerTruthful'
  <2>1. marker'["live"] # NoMarker =>
           \/ marker["live"] # NoMarker /\ marker'["live"] \subseteq marker["live"]
           \/ RecordFresh(w) /\ marker'["live"] = {worker[w].version}
    <3>1. ASSUME NEW v \in Versions, StartWorker(w, v)
          PROVE  marker'["live"] # NoMarker => marker["live"] # NoMarker /\ marker'["live"] \subseteq marker["live"]
      BY <1>1, <3>1 DEF StartWorker, Narrowed, TypeOK, Stores
    <3>2. RecordFresh(w) => marker'["live"] = {worker[w].version}
      BY <1>1 DEF RecordFresh, TypeOK, Stores
    <3>3. marker' = marker \/ RecordFresh(w) \/ \E v \in Versions : StartWorker(w, v)
      BY DEF WorkerStep, CountGraph, CheckDelivered, Claim, Project, Deliver, FailRow, StopWorker, CrashWorker
    <3> QED BY <3>1, <3>2, <3>3
  <2>2. RecordFresh(w) => Complete("live", worker[w].version)
    BY DEF RecordFresh, Truthful
  <2> QED BY <1>3, <2>1, <2>2 DEF MarkerTruthful, Truthful
<1>5. FreshTruth'
  <2>1. ASSUME NEW x \in Workers, worker'[x].pc = "record" PROVE Complete("live", worker'[x].version)
    <3>1. CASE x # w
      BY <1>2, <2>1, <3>1 DEF Truthful
    <3>2. CASE x = w
      <4>1. CheckDelivered(w)
        BY <1>1, <2>1, <3>2, WorkerTyped DEF Stepped, WorkerStep
      <4>2. \A r \in Rows : outbox[r] # "delivered"
        BY <1>1, <2>1, <3>2, <4>1, WorkerTyped DEF Stepped
      <4> QED BY <4>2 DEF Complete, HandledWith, Assumptions, RowsAssumption
    <3> QED BY <3>1, <3>2
  <2> QED BY <1>3, <2>1 DEF FreshTruth
<1>6. OneVersion => CheckpointTruth'
  BY <1>2, <1>3 DEF Truthful, CheckpointTruth
<1> QED BY <1>4, <1>5, <1>6

LEMMA RebuildTruthful ==
  ASSUME Assumptions, LocksKept, Truthful, NEW p \in Rebuilds,
         RebuildStep(p) \/ FailRebuild(p) \/ LoseLock(p) \/ \E m \in Modes, v \in Versions : Begin(p, m, v)
  PROVE  /\ MarkerTruthful' /\ FreshTruth' /\ (OneVersion => CheckpointTruth')
<1>1. Kept /\ TypeOK /\ LocksHeld /\ rebuild[p] \in Process
  BY DEF Truthful, Kept, TypeOK
<1>2. worker' = worker /\ outbox' = outbox /\ DeliveredShrinks
  BY <1>1, RebuildLeaves DEF LocksHeld, DeliveredShrinks, HandledWith
<1>3. CASE ~InPlace(p)
  <2>1. graph'["live"] = graph["live"] /\ marker'["live"] = marker["live"] /\ checkpoints' = checkpoints
    BY <1>1, <1>3, RebuildLeaves DEF LocksHeld
  <2>2. \A v : Complete("live", v) => Complete("live", v)'
    BY <1>2, <2>1, StillComplete
  <2> QED BY <1>2, <2>1, <2>2 DEF Truthful, MarkerTruthful, FreshTruth, CheckpointTruth
<1>4. CASE InPlace(p)
  <2> DEFINE v == rebuild[p].version
  <2>1. ReplayOf(p) /\ v \in Versions /\ Target(p) = "live" /\ Running(p)
    BY <1>1, <1>4 DEF Kept, Process, InPlace, Target
  <2>2. FreshTruth'
    BY <1>1, <1>2, <1>4, Apart DEF FreshTruth
  <2>3. CASE WipeBatch(p)
    <3>1. marker'["live"] = NoMarker /\ checkpoints[v].state = "rebuilding" /\ checkpoints' = checkpoints
      BY <2>1, <2>3 DEF WipeBatch, ReplayOf
    <3>2. MarkerTruthful'
      BY <3>1 DEF MarkerTruthful
    <3>3. OneVersion => CheckpointTruth'
      BY <2>1, <3>1 DEF OneVersion, CheckpointTruth
    <3> QED BY <2>2, <3>2, <3>3
  <2>4. CASE ~WipeBatch(p)
    <3>1. graph["live"] \subseteq graph'["live"]
      <4>1. CASE ReplayRow(p)
        BY <1>1, <2>1, <4>1, ReplayedBy DEF Replayed, TypeOK, Stores
      <4>2. CASE ~ReplayRow(p)
        BY <2>4, <4>2 DEF RebuildStep, EnsureIdle, MarkRebuilding, CheckTarget, DeleteMarker, ReadPage,
             LockCheckpoint, CommitCheckpoint, Verify, RecordHistory, FailRebuild, LoseLock, Begin
      <4> QED BY <4>1, <4>2
    <3>2. \A u : Complete("live", u) => Complete("live", u)'
      BY <1>2, <3>1, StillComplete
    <3>3. marker'["live"] = marker["live"] \/ marker'["live"] = NoMarker
             \/ (marker'["live"] = {v} /\ Complete("live", v))
      <4>1. DeleteMarker(p) => marker'["live"] = NoMarker
        BY <1>1, <2>1 DEF DeleteMarker, TypeOK, Stores
      <4>2. RecordHistory(p) => marker'["live"] = {v} /\ Complete("live", v)
        BY <1>1, <2>1 DEF RecordHistory, TypeOK, Stores, ReplayOf
      <4>3. DeleteMarker(p) \/ RecordHistory(p) \/ marker' = marker
        BY DEF RebuildStep, EnsureIdle, MarkRebuilding, CheckTarget, WipeBatch, ReadPage, ReplayRow,
             LockCheckpoint, CommitCheckpoint, Verify, FailRebuild, LoseLock, Begin
      <4> QED BY <4>1, <4>2, <4>3
    <3>4. MarkerTruthful'
      BY <3>2, <3>3 DEF MarkerTruthful, Truthful
    <3>5. ASSUME OneVersion PROVE CheckpointTruth'
      <4>1. MarkRebuilding(p) => checkpoints'[v].state = "rebuilding"
        BY <1>1, <2>1 DEF MarkRebuilding, TypeOK
      <4>2. CommitCheckpoint(p) => Complete("live", v)
        BY <2>1 DEF CommitCheckpoint, ReplayOf
      <4>3. MarkRebuilding(p) \/ CommitCheckpoint(p) \/ checkpoints' = checkpoints
        BY DEF RebuildStep, EnsureIdle, DeleteMarker, RecordHistory, CheckTarget, WipeBatch, ReadPage, ReplayRow,
             LockCheckpoint, Verify, FailRebuild, LoseLock, Begin
      <4>4. \A u \in Versions : u = v
        BY <2>1, <3>5 DEF OneVersion
      <4>5. checkpoints'[v].state = "rebuilding" \/ Complete("live", v) \/ checkpoints' = checkpoints
        BY <4>1, <4>2, <4>3
      <4> QED BY <2>1, <3>2, <3>5, <4>4, <4>5 DEF Truthful, CheckpointTruth
    <3> QED BY <2>2, <3>4, <3>5
  <2> QED BY <2>3, <2>4
<1> QED BY <1>3, <1>4

LEMMA AloneStays ==
  ASSUME Assumptions, LocksKept, Rolling, Kept, Alone, [Next]_vars
  PROVE  Alone'
<1>1. TypeOK /\ LocksHeld
  BY DEF Kept
<1>2. CASE UNCHANGED vars
  BY <1>2 DEF vars, Alone, Rebuilding
<1>3. ASSUME NEW r \in Rows, AppendEvent(r) PROVE Alone'
  BY <1>3 DEF AppendEvent, Alone, Rebuilding
<1>4. ASSUME NEW w \in Workers, NEW v \in Versions, StartWorker(w, v) PROVE Alone'
  <2>1. ~Rebuilding
    BY <1>4 DEF StartWorker, Rolling
  <2>2. exclusive = Nobody
    BY <1>1, <2>1 DEF TypeOK, LocksHeld, Running, Rebuilding
  <2>3. rebuild' = rebuild /\ marker' = [marker EXCEPT !["live"] = Narrowed(@, v)]
    BY <1>4, <2>2 DEF StartWorker
  <2>4. worker'[w].version = v
    BY <1>1, <1>4, WorkerTyped DEF Stepped
  <2>5. marker'["live"] # NoMarker => marker'["live"] \subseteq {v}
    BY <1>1, <2>3 DEF Narrowed, TypeOK, Stores
  <2> QED BY <2>1, <2>3, <2>4, <2>5 DEF Alone, Rebuilding, Rolling
<1>5. ASSUME NEW w \in Workers, WorkerStep(w) PROVE Alone'
  <2>1. rebuild' = rebuild /\ worker[w].pc # "off"
    BY <1>5 DEF WorkerStep, CountGraph, CheckDelivered, RecordFresh, Claim, Project, Deliver, FailRow,
                StopWorker, CrashWorker
  <2>2. worker'[w].version = worker[w].version
    BY <1>1, <1>5, WorkerTyped DEF Stepped, WorkerStep
  <2>3. marker' = marker \/ marker' = [marker EXCEPT !["live"] = {worker[w].version}]
    BY <1>5 DEF WorkerStep, CountGraph, CheckDelivered, RecordFresh, Claim, Project, Deliver, FailRow,
                StopWorker, CrashWorker
  <2>4. marker'["live"] # NoMarker => marker'["live"] \subseteq {worker[w].version}
    BY <1>1, <2>1, <2>3 DEF Alone, TypeOK, Stores
  <2>5. ~Rebuilding
    BY <2>1 DEF Alone
  <2> QED BY <2>1, <2>2, <2>4, <2>5 DEF Alone, Rebuilding, Rolling
<1>6. ASSUME NEW p \in Rebuilds,
             RebuildStep(p) \/ FailRebuild(p) \/ LoseLock(p) \/ \E m \in Modes, v \in Versions : Begin(p, m, v)
      PROVE  Alone'
  <2>1. \A w \in Workers : worker[w].pc = "off"
    <3>1. CASE Running(p)
      BY <3>1 DEF Alone, Rebuilding, Running
    <3>2. CASE ~Running(p)
      <4>1. ~LoseLock(p)
        BY <1>1 DEF LoseLock, LocksKept, TypeOK
      <4>2. ~RebuildStep(p) /\ ~FailRebuild(p)
        BY <3>2 DEF RebuildStep, EnsureIdle, MarkRebuilding, CheckTarget, DeleteMarker, WipeBatch,
             ReadPage, ReplayRow, LockCheckpoint, CommitCheckpoint, Verify, RecordHistory, FailRebuild, Running
      <4> QED BY <1>6, <4>1, <4>2 DEF Begin, Rolling
    <3> QED BY <3>1, <3>2
  <2>2. worker' = worker
    BY <1>1, <1>6, RebuildLeaves DEF LocksHeld
  <2> QED BY <2>1, <2>2 DEF Alone
<1> QED BY <1>2, <1>3, <1>4, <1>5, <1>6 DEF Next

LEMMA TruthfulStays ==
  ASSUME Assumptions, LocksKept, OneVersion \/ Rolling, Truthful, [Next]_vars
  PROVE  Truthful'
<1>1. Kept'
  BY KeptStays DEF Truthful
<1>2. OneVersion \/ Alone'
  BY AloneStays DEF Truthful
<1>3. MarkerTruthful' /\ FreshTruth' /\ (OneVersion => CheckpointTruth')
  <2> DEFINE Same == worker' = worker /\ marker' = marker /\ checkpoints' = checkpoints /\ graph' = graph
                     /\ DeliveredShrinks
  <2>1. ASSUME Same PROVE MarkerTruthful' /\ FreshTruth' /\ (OneVersion => CheckpointTruth')
    <3>1. \A v : Complete("live", v) => Complete("live", v)'
      BY <2>1, StillComplete
    <3> QED BY <2>1, <3>1 DEF Truthful, MarkerTruthful, FreshTruth, CheckpointTruth
  <2>2. CASE UNCHANGED vars
    BY <2>1, <2>2 DEF vars, DeliveredShrinks, HandledWith
  <2>3. ASSUME NEW r \in Rows, AppendEvent(r) PROVE Same
    BY <2>3 DEF AppendEvent, DeliveredShrinks, HandledWith, Truthful, Kept, TypeOK, Assumptions, RowsAssumption
  <2> HIDE DEF Same
  <2> QED BY <2>1, <2>2, <2>3, ClaimsSurviveDelivery, WorkerTruthful, RebuildTruthful DEF Next
<1> QED BY <1>1, <1>2, <1>3 DEF Truthful, FreshTruth, CheckpointTruth

LEMMA InitTruthful ==
  ASSUME Assumptions, Init
  PROVE  Truthful
<1>1. TypeOK
  BY InitTyped
<1>2. \A w \in Workers : worker[w].pc = "off"
  BY DEF Init
<1>3. \A p \in Rebuilds : rebuild[p].pc = "off"
  BY DEF Init, Fresh
<1>4. marker["live"] = NoMarker /\ exclusive = Nobody
  BY DEF Init, Stores
<1>5. \A v : Complete("live", v)
  BY DEF Init, Complete, HandledWith, Assumptions, RowsAssumption
<1>6. Kept
  BY <1>1, <1>2, <1>3, <1>4
     DEF Kept, LocksHeld, CheckpointSteps, ProjectedFirst, InPlace, Running, Working, Assumptions, ProcessAssumption
<1> QED BY <1>2, <1>3, <1>4, <1>5, <1>6 DEF Truthful, MarkerTruthful, Alone, Rebuilding

\* Every state is well typed, whoever runs beside whom (the steps of
\* rebuild_projections, the worker's start and its loop).
THEOREM RebuildTypeCorrect ==
  ASSUME Assumptions
  PROVE  Spec => []TypeOK
<1>1. Init => TypeOK
  BY InitTyped
<1>2. TypeOK /\ [Next]_vars => TypeOK'
  BY TypeSafe
<1> QED BY <1>1, <1>2, PTL DEF Spec

LEMMA TruthfulHolds ==
  ASSUME Assumptions, LocksKept, OneVersion \/ Rolling
  PROVE  Spec => []Truthful
<1>1. Init => Truthful
  BY InitTruthful
<1>2. Truthful /\ [Next]_vars => Truthful'
  BY TruthfulStays
<1> QED BY <1>1, <1>2, PTL DEF Spec

\* The marker never vouches for a version that has not projected every
\* delivered event into the live graph (narrow_projection_history,
\* record_history_if_fresh, record_projection_history, wipe_graph): with the
\* rebuild lock kept, and either a single version or one worker process that is
\* stopped for every rebuild.
THEOREM MarkerIsTruthful ==
  ASSUME Assumptions, LocksKept, OneVersion \/ Rolling
  PROVE  Spec => []MarkerTruthful
<1>1. Truthful => MarkerTruthful
  BY DEF Truthful
<1> QED BY <1>1, TruthfulHolds, PTL

\* A checkpoint that classify_projector finds nothing wrong with never claims
\* more than the graph holds: an in-place rebuild marks it before it wipes, and
\* commits it after everything delivered has been replayed.
THEOREM CheckpointsAreSound ==
  ASSUME Assumptions, LocksKept, OneVersion
  PROVE  Spec => []VerifySound
<1>1. Truthful => VerifySound
  BY DEF Truthful, VerifySound, Issues
<1> QED BY <1>1, TruthfulHolds, PTL

-----------------------------------------------------------------------------
\* Delivered and given up is for good, and no row disappears.
Settled ==
  \A r \in Rows : /\ outbox[r] = "delivered" => outbox'[r] = "delivered"
                  /\ outbox[r] = "dead_lettered" => outbox'[r] = "dead_lettered"
                  /\ outbox[r] # "absent" => outbox'[r] # "absent"

LEMMA WorkerLeased ==
  ASSUME Assumptions, TypeOK, Leased, NEW w \in Workers,
         WorkerStep(w) \/ \E v \in Versions : StartWorker(w, v)
  PROVE  Leased' /\ Settled
<1> DEFINE Held(x) == worker[x].pc \in {"claimed", "written"}
<1>1. \A x \in Workers : Held(x) => worker[x].row \in Rows /\ outbox[worker[x].row] = "leased"
  BY DEF Leased
<1>2. \A x, y \in Workers : Held(x) /\ Held(y) => worker[x].row # worker[y].row \/ x = y
  BY DEF Leased
<1>3. outbox \in [Rows -> OutboxStatus]
  BY DEF TypeOK
<1>4. ASSUME NEW pc, NEW v, NEW row, Stepped(w, pc, v, row), outbox' = outbox,
             pc \in {"claimed", "written"} => Held(w) /\ row = worker[w].row
      PROVE  Leased' /\ Settled
  BY <1>1, <1>2, <1>4 DEF Leased, Settled, Stepped
<1>5. ASSUME NEW v \in Versions, StartWorker(w, v) PROVE Leased' /\ Settled
  <2>1. Stepped(w, IF exclusive # Nobody THEN "idle" ELSE "count", v, 0) /\ outbox' = outbox
    BY <1>5, WorkerTyped DEF StartWorker
  <2> QED BY <1>4, <2>1
<1>6. CASE CountGraph(w) \/ CheckDelivered(w) \/ RecordFresh(w)
  <2>1. outbox' = outbox /\ \E pc \in {"fresh", "record", "idle"} : Stepped(w, pc, worker[w].version, worker[w].row)
    BY <1>6, WorkerTyped DEF CountGraph, CheckDelivered, RecordFresh
  <2> QED BY <1>4, <2>1
<1>7. CASE Project(w)
  <2>1. outbox' = outbox /\ Stepped(w, "written", worker[w].version, worker[w].row) /\ Held(w)
    BY <1>7, WorkerTyped DEF Project
  <2> QED BY <1>4, <2>1
<1>8. CASE StopWorker(w) \/ CrashWorker(w)
  <2>1. outbox' = outbox /\ \E row : Stepped(w, "off", worker[w].version, row)
    BY <1>8, WorkerTyped DEF StopWorker, CrashWorker
  <2> QED BY <1>4, <2>1
<1>9. ASSUME NEW r \in Rows, Claim(w, r) PROVE Leased' /\ Settled
  <2>1. Stepped(w, "claimed", worker[w].version, r) /\ ~Held(w)
    BY <1>9, WorkerTyped DEF Claim
  <2>2. outbox' = [outbox EXCEPT ![r] = "leased"] /\ outbox[r] \in {"pending", "leased"}
    BY <1>9 DEF Claim
  <2>3. \A x \in Workers : Held(x) => worker[x].row # r
    BY <1>1, <1>9 DEF Claim, InHand
  <2>4. Settled
    BY <1>3, <2>2 DEF Settled
  <2>5. \A x \in Workers : x # w => worker'[x] = worker[x]
    BY <2>1 DEF Stepped
  <2>6. worker'[w].row = r /\ outbox'[r] = "leased"
    BY <1>3, <2>1, <2>2 DEF Stepped
  <2>7. \A x \in Workers : x # w /\ Held(x) => outbox'[worker[x].row] = "leased"
    BY <1>1, <1>3, <2>2
  <2>8. Leased'
    BY <1>1, <1>2, <2>3, <2>5, <2>6, <2>7 DEF Leased
  <2> QED BY <2>4, <2>8
<1>10. ASSUME NEW status \in {"delivered", "pending", "dead_lettered"}, Settle(w, status),
              worker[w].pc \in {"claimed", "written"}, Stepped(w, "idle", worker[w].version, 0)
       PROVE  Leased' /\ Settled
  <2>1. outbox' = [outbox EXCEPT ![worker[w].row] = status]
    BY <1>10 DEF Settle
  <2>2. outbox[worker[w].row] = "leased" /\ worker[w].row \in Rows
    BY <1>1, <1>10
  <2>3. Settled
    BY <1>3, <1>10, <2>1, <2>2 DEF Settled
  <2>4. worker'[w].pc = "idle" /\ \A x \in Workers : x # w => worker'[x] = worker[x]
    BY <1>10 DEF Stepped
  <2>5. \A x \in Workers : x # w /\ Held(x) => outbox'[worker[x].row] = "leased"
    BY <1>1, <1>2, <1>3, <1>10, <2>1
  <2>6. Leased'
    BY <1>1, <1>2, <2>4, <2>5 DEF Leased
  <2> QED BY <2>3, <2>6
<1>11. Deliver(w) => Leased' /\ Settled
  BY <1>10, WorkerTyped DEF Deliver
<1>12. \A status \in {"pending", "dead_lettered"} : FailRow(w, status) => Leased' /\ Settled
  BY <1>10, WorkerTyped DEF FailRow
<1> QED BY <1>5, <1>6, <1>7, <1>8, <1>9, <1>11, <1>12 DEF WorkerStep

LEMMA RowsFinite ==
  ASSUME Assumptions, NEW T \in SUBSET Rows
  PROVE  /\ IsFiniteSet(T) /\ Cardinality(T) \in Nat
         /\ \A S \in SUBSET T : /\ IsFiniteSet(S) /\ Cardinality(S) \in Nat /\ Cardinality(S) <= Cardinality(T)
                                /\ Cardinality(S) = Cardinality(T) => S = T
BY FS_Subset, FS_CardinalityType DEF Assumptions, RowsAssumption

LEMMA LeftRows ==
  ASSUME Assumptions, NEW p \in Rebuilds
  PROVE  Left(p) \in SUBSET Rows /\ Left(p)' \in SUBSET Rows
BY DEF Left, Assumptions, RowsAssumption

SameProgress(p) ==
  /\ rebuild'[p].mode = rebuild[p].mode /\ rebuild'[p].version = rebuild[p].version
  /\ rebuild'[p].after = rebuild[p].after /\ rebuild'[p].page = rebuild[p].page
  /\ rebuild'[p].count = rebuild[p].count /\ rebuild'[p].last = rebuild[p].last

\* What was counted stays where it was put.
LEMMA TallyGoesOn ==
  ASSUME Assumptions, TypeOK, NEW p \in Rebuilds, Tally(p), SameProgress(p),
         \A r \in Rows : Wanted(p, r) => Wanted(p, r)',
         graph[Target(p)] \subseteq graph'[Target(p)] \/ rebuild[p].count = 0,
         rebuild'[p].pc \in {"check", "mark", "target", "marker", "wipe"} =>
           rebuild[p].pc \in {"check", "mark", "target", "marker", "wipe"},
         OneVersion /\ rebuild'[p].pc = "commit" =>
           \A r \in HandledWith({"delivered"})' : r <= rebuild[p].after
  PROVE  Tally(p)'
<1>1. rebuild[p].page \subseteq Rows /\ rebuild[p].count \in Nat
  BY Positions
<1>2. Target(p)' = Target(p)
  BY DEF Target, SameProgress
<1>3. rebuild'[p].count <= Cardinality(Left(p)')
  <2>1. CASE rebuild[p].count = 0
    BY <2>1, LeftRows, RowsFinite DEF SameProgress
  <2>2. CASE graph[Target(p)] \subseteq graph'[Target(p)]
    <3>1. Left(p) \subseteq Left(p)'
      BY <1>2, <2>2 DEF Left, SameProgress, Assumptions, RowsAssumption
    <3>2. Cardinality(Left(p)) \in Nat /\ Cardinality(Left(p)') \in Nat /\ Cardinality(Left(p)) <= Cardinality(Left(p)')
      BY <3>1, LeftRows, RowsFinite
    <3>3. rebuild[p].count <= Cardinality(Left(p))
      BY DEF Tally
    <3> QED BY <1>1, <3>2, <3>3 DEF SameProgress
  <2> QED BY <2>1, <2>2
<1>4. \A r \in rebuild'[p].page : r > rebuild'[p].after /\ Wanted(p, r)'
  BY <1>1 DEF Tally, SameProgress
<1>5. rebuild'[p].pc \in {"check", "mark", "target", "marker", "wipe"} =>
        rebuild'[p].count = 0 /\ rebuild'[p].after = 0 /\ rebuild'[p].last = 0 /\ rebuild'[p].page = {}
  BY DEF Tally, SameProgress
<1>6. HandlesAll => rebuild'[p].last = rebuild'[p].after
  BY DEF Tally, SameProgress
<1>7. OneVersion /\ rebuild'[p].pc = "commit" => \A r \in HandledWith({"delivered"})' : r <= rebuild'[p].after
  BY DEF SameProgress
<1> QED BY <1>3, <1>4, <1>5, <1>6, <1>7 DEF Tally

\* The row that is replayed counts once: it lies beyond all that was.
LEMMA TallyReplayed ==
  ASSUME Assumptions, TypeOK, NEW p \in Rebuilds, Tally(p), ReplayRow(p)
  PROVE  Tally(p)'
<1>1. PICK r \in Rows : Replayed(p, r)
  BY ReplayedBy
<1>2. outbox' = outbox /\ rebuild[p].pc \in {"replay", "tail"}
  BY DEF ReplayRow
<1>3. rebuild[p] \in Process /\ Target(p) \in Stores /\ rebuild[p].page \subseteq Rows /\ rebuild[p].count \in Nat
      /\ rebuild[p].after \in Nat /\ Rows \subseteq Nat /\ Handled \subseteq Rows
  BY Positions DEF TypeOK, Target, Stores, Assumptions, RowsAssumption
<1>4. /\ rebuild'[p].pc = rebuild[p].pc /\ rebuild'[p].mode = rebuild[p].mode /\ rebuild'[p].version = rebuild[p].version
      /\ rebuild'[p].page = rebuild[p].page \ {r} /\ rebuild'[p].after = r
      /\ r \in rebuild[p].page /\ \A s \in rebuild[p].page : r <= s
  BY <1>1 DEF Replayed
<1>5. Target(p)' = Target(p) /\ \A s \in Rows : Wanted(p, s)' = Wanted(p, s)
  BY <1>2, <1>4 DEF Target, Wanted
<1>6. r > rebuild[p].after /\ Wanted(p, r)
  BY <1>4 DEF Tally
<1>7. graph'[Target(p)] = graph[Target(p)] \cup Effect(r, rebuild[p].version)
  BY <1>1, <1>3 DEF Replayed, TypeOK
<1>8. ASSUME NEW s \in Left(p) PROVE s \in Left(p)'
  <2>1. s \in Handled /\ s \in Rows /\ s \in Nat /\ r \in Nat /\ s <= rebuild[p].after
    BY <1>3 DEF Left
  <2>2. s <= r
    BY <1>3, <1>6, <2>1
  <2>3. Wanted(p, s) /\ <<s, rebuild[p].version>> \in graph[Target(p)]
    BY DEF Left
  <2> QED BY <1>4, <1>5, <1>7, <2>1, <2>2, <2>3 DEF Left
<1>9. rebuild[p].count <= Cardinality(Left(p))
  BY DEF Tally
<1>10. rebuild'[p].count <= Cardinality(Left(p)')
  <2>1. CASE r \in Handled
    <3>1. r \in Left(p)'
      <4>1. <<r, rebuild[p].version>> \in graph'[Target(p)]
        BY <1>7, <2>1 DEF Effect
      <4> QED BY <1>3, <1>4, <1>5, <1>6, <2>1, <4>1 DEF Left
    <3>2. r \notin Left(p)
      BY <1>3, <1>6 DEF Left
    <3>3. Cardinality(Left(p)) \in Nat /\ Cardinality(Left(p)') \in Nat
          /\ Cardinality(Left(p)) <= Cardinality(Left(p)')
          /\ Cardinality(Left(p)) # Cardinality(Left(p)')
      BY <1>8, <3>1, <3>2, LeftRows, RowsFinite
    <3>4. rebuild'[p].count = rebuild[p].count + 1
      BY <1>1, <2>1 DEF Replayed
    <3> QED BY <1>3, <1>9, <3>3, <3>4
  <2>2. CASE r \notin Handled
    <3>1. Cardinality(Left(p)) \in Nat /\ Cardinality(Left(p)') \in Nat
          /\ Cardinality(Left(p)) <= Cardinality(Left(p)')
      BY <1>8, LeftRows, RowsFinite
    <3>2. rebuild'[p].count = rebuild[p].count
      BY <1>1, <2>2 DEF Replayed
    <3> QED BY <1>3, <1>9, <3>1, <3>2
  <2> QED BY <2>1, <2>2
<1>11. ASSUME NEW s \in rebuild[p].page \ {r} PROVE s > r /\ Wanted(p, s)'
  <2>1. s \in Nat /\ r \in Nat /\ r <= s /\ s # r /\ s \in Rows
    BY <1>3, <1>4
  <2> QED BY <1>5, <2>1 DEF Tally
<1>12. HandlesAll => rebuild'[p].last = r
  BY <1>1 DEF Replayed, HandlesAll
<1> QED BY <1>2, <1>4, <1>10, <1>11, <1>12 DEF Tally

LEMMA TallyOwnSteps ==
  ASSUME Assumptions, TypeOK, CheckpointSteps, NEW p \in Rebuilds, Tally(p),
         RebuildStep(p), Running(p)'
  PROVE  Tally(p)'
<1>1. outbox' = outbox /\ \A r \in Rows : Wanted(p, r) /\ rebuild'[p].mode = rebuild[p].mode => Wanted(p, r)'
  BY RebuildLeaves DEF Wanted
<1>2. ~Ended(p)
  BY DEF Ended, Begun, Running
<1>3. \A pc : Moved(p, pc) => SameProgress(p) /\ rebuild'[p].pc = pc
  BY DEF Moved, SameProgress
<1>4. ASSUME NEW pc, Moved(p, pc), graph' = graph, pc # "commit",
             pc \in {"mark", "marker", "wipe"} => rebuild[p].pc \in {"check", "mark", "target", "marker", "wipe"},
             pc \notin {"check", "target"}
      PROVE  Tally(p)'
  BY <1>1, <1>3, <1>4, TallyGoesOn DEF SameProgress
<1>5. CASE EnsureIdle(p)
  <2>1. Moved(p, "mark") /\ graph' = graph /\ rebuild[p].pc = "check"
    BY <1>2, <1>5, RebuildTyped DEF EnsureIdle
  <2> QED BY <1>4, <2>1
<1>6. CASE MarkRebuilding(p)
  <2>1. Moved(p, "marker") /\ graph' = graph /\ rebuild[p].pc = "mark"
    BY <1>6, RebuildTyped DEF MarkRebuilding
  <2> QED BY <1>4, <2>1
<1>7. CASE CheckTarget(p)
  <2>1. (Moved(p, "replay") \/ Moved(p, "marker")) /\ graph' = graph /\ rebuild[p].pc = "target"
    BY <1>2, <1>7, RebuildTyped DEF CheckTarget
  <2> QED BY <1>4, <2>1
<1>8. CASE DeleteMarker(p)
  <2>1. Moved(p, "wipe") /\ graph' = graph /\ rebuild[p].pc = "marker"
    BY <1>8, RebuildTyped DEF DeleteMarker
  <2> QED BY <1>4, <2>1
<1>9. CASE WipeBatch(p)
  <2>1. rebuild[p].pc = "wipe" /\ rebuild[p].count = 0
    BY <1>9 DEF WipeBatch, Tally
  <2>2. CASE rebuild' = rebuild
    BY <1>1, <2>1, <2>2, TallyGoesOn DEF SameProgress
  <2>3. CASE Moved(p, "replay") /\ graph' = graph
    BY <1>4, <2>3
  <2> QED BY <1>9, <2>2, <2>3, RebuildTyped
<1>10. CASE ReadPage(p)
  <2>1. graph' = graph /\ rebuild[p].pc \in {"replay", "tail"}
    BY <1>10 DEF ReadPage
  <2>2. CASE Paged(p)
    <3>1. \A r \in rebuild'[p].page : r > rebuild[p].after /\ Wanted(p, r)
      BY <2>2 DEF Paged, Replayable, Wanted
    <3>2. Left(p)' = Left(p)
      BY <1>1, <2>1, <2>2 DEF Paged, Left, Wanted, Target
    <3> QED BY <1>1, <2>1, <2>2, <3>1, <3>2 DEF Paged, Tally, Wanted
  <2>3. CASE Replayable(p) = {} /\ rebuild[p].pc = "tail" /\ Moved(p, "commit")
    <3>1. rebuild[p].mode = "in_place"
      BY <2>3 DEF CheckpointSteps
    <3>2. \A r \in HandledWith({"delivered"}) : r \in Nat /\ ~(r > rebuild[p].after)
      BY <2>3, <3>1 DEF HandledWith, Replayable, Assumptions, RowsAssumption
    <3>3. \A r \in HandledWith({"delivered"})' : r <= rebuild[p].after
      BY <1>1, <3>2, Positions DEF HandledWith
    <3> QED BY <1>1, <1>3, <2>1, <2>3, <3>3, TallyGoesOn DEF SameProgress
  <2>4. CASE Moved(p, "finalize") \/ Moved(p, "verify")
    BY <1>4, <2>1, <2>4
  <2> QED BY <1>10, <2>1, <2>2, <2>3, <2>4, RebuildTyped
<1>11. CASE ReplayRow(p)
  BY <1>11, TallyReplayed
<1>12. CASE LockCheckpoint(p)
  <2>1. Moved(p, "tail") /\ graph' = graph
    BY <1>12, RebuildTyped DEF LockCheckpoint
  <2> QED BY <1>4, <2>1
<1>13. CASE CommitCheckpoint(p)
  <2>1. Moved(p, "verify") /\ graph' = graph
    BY <1>2, <1>13, RebuildTyped DEF CommitCheckpoint
  <2> QED BY <1>4, <2>1
<1>14. CASE Verify(p)
  <2>1. Moved(p, "record") /\ graph' = graph
    BY <1>2, <1>14, RebuildTyped DEF Verify
  <2> QED BY <1>4, <2>1
<1>15. CASE RecordHistory(p)
  BY <1>2, <1>15, RebuildTyped
<1> QED BY <1>5, <1>6, <1>7, <1>8, <1>9, <1>10, <1>11, <1>12, <1>13, <1>14, <1>15 DEF RebuildStep

LEMMA LeasedStays ==
  ASSUME Assumptions, TypeOK, CheckpointSteps, Leased, [Next]_vars
  PROVE  Leased' /\ Settled
<1>1. ASSUME UNCHANGED <<worker, outbox>> PROVE Leased' /\ Settled
  BY <1>1 DEF Leased, Settled
<1>2. CASE UNCHANGED vars
  BY <1>1, <1>2 DEF vars
<1>3. ASSUME NEW r \in Rows, AppendEvent(r) PROVE Leased' /\ Settled
  <2>1. outbox[r] = "absent" /\ outbox' = [outbox EXCEPT ![r] = "pending"] /\ worker' = worker
    BY <1>3 DEF AppendEvent
  <2>2. outbox \in [Rows -> OutboxStatus]
    BY DEF TypeOK
  <2> QED BY <2>1, <2>2 DEF Leased, Settled
<1> QED BY <1>1, <1>2, <1>3, WorkerLeased, RebuildLeaves DEF Next

\* Nobody takes away from what a rebuild counts, and under its lock nothing
\* is delivered that it should have seen.
LEMMA TallyBesideWorker ==
  ASSUME Assumptions, TypeOK, Settled, NEW p \in Rebuilds, Tally(p), rebuild' = rebuild,
         rebuild[p].mode = "in_place" \/ NoneGivenUp',
         \/ UNCHANGED vars \/ (\E r \in Rows : AppendEvent(r))
         \/ (\E q \in Rebuilds : LoseLock(q))
         \/ (\E w \in Workers : WorkerStep(w) \/ \E v \in Versions : StartWorker(w, v))
  PROVE  Tally(p)'
<1>1. SameProgress(p) /\ rebuild'[p].pc = rebuild[p].pc
  BY DEF SameProgress
<1>2. \A r \in Rows : Wanted(p, r) => Wanted(p, r)'
  BY DEF Wanted, Settled, NoneGivenUp
<1>3. graph[Target(p)] \subseteq graph'[Target(p)]
  <2>1. graph' = graph \/ \E w \in Workers : Project(w)
    BY DEF vars, AppendEvent, LoseLock, StartWorker, WorkerStep, CountGraph, CheckDelivered, RecordFresh, Claim,
           Deliver, FailRow, StopWorker, CrashWorker
  <2>2. ASSUME NEW w \in Workers, Project(w) PROVE graph[Target(p)] \subseteq graph'[Target(p)]
    BY <2>2 DEF Project, TypeOK, Stores, Target
  <2> QED BY <2>1, <2>2
<1>4. ASSUME OneVersion, rebuild[p].pc = "commit", NEW r \in HandledWith({"delivered"})'
      PROVE  r \in HandledWith({"delivered"})
  <2>1. r \in Handled /\ r \in Rows /\ outbox'[r] = "delivered"
    BY DEF HandledWith, Assumptions, RowsAssumption
  <2>2. outbox \in [Rows -> OutboxStatus]
    BY DEF TypeOK
  <2>3. CASE \E w \in Workers : Deliver(w)
    <3>1. PICK w \in Workers : Deliver(w)
      BY <2>3
    <3>2. worker[w].version = rebuild[p].version
      BY <1>4 DEF TypeOK, WorkerState, Process, OneVersion
    <3>3. worker[w].row \notin Handled
      BY <1>4, <3>1, <3>2 DEF Deliver, Locked
    <3>4. outbox' = [outbox EXCEPT ![worker[w].row] = "delivered"]
      BY <3>1 DEF Deliver, Settle
    <3> QED BY <2>1, <2>2, <3>3, <3>4 DEF HandledWith
  <2>4. CASE ~ \E w \in Workers : Deliver(w)
    <3>1. \/ outbox' = outbox
          \/ \E x \in Rows, status \in {"pending", "leased"} : outbox' = [outbox EXCEPT ![x] = status]
          \/ \E w \in Workers, status \in {"pending", "dead_lettered"} : FailRow(w, status)
      BY <2>4 DEF vars, AppendEvent, LoseLock, StartWorker, WorkerStep, CountGraph, CheckDelivered, RecordFresh,
                  Claim, Project, StopWorker, CrashWorker
    <3>2. outbox' = outbox \/ \E x, status : status # "delivered" /\ outbox' = [outbox EXCEPT ![x] = status]
      BY <3>1 DEF FailRow, Settle
    <3> QED BY <2>1, <2>2, <3>2 DEF HandledWith
  <2> QED BY <2>3, <2>4
<1>5. OneVersion /\ rebuild[p].pc = "commit" => \A r \in HandledWith({"delivered"})' : r <= rebuild[p].after
  BY <1>4 DEF Tally
<1> QED BY <1>1, <1>2, <1>3, <1>5, TallyGoesOn

LEMMA TalliedStays ==
  ASSUME Assumptions, OneRebuild, Tallied, [Next]_vars
  PROVE  Tallied'
<1>1. TypeOK /\ CheckpointSteps /\ Leased
  BY DEF Tallied
<1>2. TypeOK' /\ CheckpointSteps' /\ Leased' /\ Settled
  BY <1>1, TypeSafe, CheckpointStepsStay, LeasedStays
<1>3. NoneGivenUp' => NoneGivenUp
  BY <1>2 DEF NoneGivenUp, Settled
<1>4. SUFFICES ASSUME NEW p \in Rebuilds, Running(p)', rebuild'[p].mode = "in_place" \/ NoneGivenUp'
      PROVE  Tally(p)'
  BY <1>2 DEF Tallied
<1>5. ASSUME rebuild' = rebuild,
             \/ UNCHANGED vars \/ (\E r \in Rows : AppendEvent(r))
             \/ (\E q \in Rebuilds : LoseLock(q))
             \/ (\E w \in Workers : WorkerStep(w) \/ \E v \in Versions : StartWorker(w, v))
      PROVE  Tally(p)'
  <2>1. Tally(p)
    BY <1>3, <1>4, <1>5 DEF Tallied, Running
  <2> QED BY <1>1, <1>2, <1>4, <1>5, <2>1, TallyBesideWorker
<1>6. UNCHANGED vars \/ (\E r \in Rows : AppendEvent(r)) \/ (\E q \in Rebuilds : LoseLock(q)) => rebuild' = rebuild
  BY DEF vars, AppendEvent, LoseLock
<1>7. (\E w \in Workers : WorkerStep(w) \/ \E v \in Versions : StartWorker(w, v)) => rebuild' = rebuild
  BY DEF WorkerStep, StartWorker, CountGraph, CheckDelivered, RecordFresh, Claim, Project, Deliver, FailRow,
         StopWorker, CrashWorker
<1>8. CASE RebuildStep(p)
  <2>1. Running(p)
    BY <1>8 DEF RebuildStep, EnsureIdle, MarkRebuilding, CheckTarget, DeleteMarker, WipeBatch, ReadPage,
                ReplayRow, LockCheckpoint, CommitCheckpoint, Verify, RecordHistory, Running
  <2>2. rebuild'[p].mode = rebuild[p].mode
    BY <1>1, <1>8, RebuildTyped, ReplayedBy DEF RebuildStep, Moved, Ended, Begun, Paged, Replayed
  <2>3. Tally(p)
    BY <1>3, <1>4, <2>1, <2>2 DEF Tallied
  <2> QED BY <1>1, <1>4, <1>8, <2>3, TallyOwnSteps
<1>9. CASE FailRebuild(p)
  BY <1>1, <1>4, <1>9, RebuildTyped DEF Ended, Begun, Running
<1>10. ASSUME NEW m \in Modes, NEW v \in Versions, Begin(p, m, v) PROVE Tally(p)'
  <2>1. /\ rebuild'[p].pc \in {"check", "target"} /\ rebuild'[p].after = 0 /\ rebuild'[p].page = {}
        /\ rebuild'[p].count = 0 /\ rebuild'[p].last = 0
    BY <1>1, <1>10, BegunBy DEF Begun
  <2>2. 0 <= Cardinality(Left(p)')
    BY LeftRows, RowsFinite
  <2> QED BY <2>1, <2>2 DEF Tally
<1>11. \A q \in Rebuilds : q = p
  BY DEF OneRebuild
<1> QED BY <1>5, <1>6, <1>7, <1>8, <1>9, <1>10, <1>11 DEF Next

LEMMA TalliedHolds ==
  ASSUME Assumptions, OneRebuild
  PROVE  Spec => []Tallied
<1>1. Init => Tallied
  BY InitTyped DEF Init, Tallied, Leased, CheckpointSteps, Running, Fresh
<1>2. Tallied /\ [Next]_vars => Tallied'
  BY TalliedStays
<1> QED BY <1>1, <1>2, PTL DEF Spec

LEMMA CommittedComplete ==
  ASSUME Assumptions, OneRebuild, OneVersion, HandlesAll, Tallied, [Next]_vars
  PROVE  ActiveHonest
<1> SUFFICES ASSUME NEW p \in Rebuilds, rebuild[p].pc = "commit", rebuild'[p].pc = "verify"
             PROVE  Complete("live", rebuild[p].version)
  BY DEF ActiveHonest
<1>1. TypeOK /\ CheckpointSteps /\ rebuild[p].mode = "in_place" /\ Running(p)
  BY DEF Tallied, CheckpointSteps, Running
<1>2. Tally(p)
  BY <1>1 DEF Tallied
<1>3. NothingMissed(p)
  <2>1. rebuild' # rebuild
    OBVIOUS
  <2>2. \E q \in Rebuilds : RebuildStep(q) \/ FailRebuild(q) \/ \E m \in Modes, v \in Versions : Begin(q, m, v)
    BY <2>1 DEF Next, vars, AppendEvent, WorkerStep, StartWorker, CountGraph, CheckDelivered, RecordFresh, Claim,
                Project, Deliver, FailRow, StopWorker, CrashWorker, LoseLock
  <2>3. RebuildStep(p) \/ FailRebuild(p) \/ \E m \in Modes, v \in Versions : Begin(p, m, v)
    BY <2>2 DEF OneRebuild
  <2>4. ~FailRebuild(p)
    BY <1>1, RebuildTyped DEF Ended, Begun
  <2>5. CommitCheckpoint(p)
    BY <2>3, <2>4 DEF Begin, RebuildStep, EnsureIdle, MarkRebuilding, CheckTarget, DeleteMarker, WipeBatch,
                      ReadPage, ReplayRow, LockCheckpoint, Verify, RecordHistory
  <2> QED BY <1>1, <2>5, RebuildTyped DEF Ended, Begun
<1>4. /\ rebuild[p].last = rebuild[p].after /\ rebuild[p].after \in Nat
      /\ rebuild[p].count <= Cardinality(Left(p)) /\ rebuild[p].count \in Nat
      /\ \A r \in HandledWith({"delivered"}) : r <= rebuild[p].after
  BY <1>1, <1>2, Positions DEF Tally
<1>5. Target(p) = "live"
  BY <1>1 DEF Target
<1>6. CASE rebuild[p].after = 0
  <2>1. \A r \in HandledWith({"delivered"}) : r \in Nat \ {0}
    BY DEF HandledWith, Assumptions, RowsAssumption
  <2> QED BY <1>4, <1>6, <2>1 DEF Complete
<1>7. CASE rebuild[p].after # 0
  <2> DEFINE C == Covered(rebuild[p].after, {"delivered"})
  <2>1. Cardinality(C) = rebuild[p].count /\ C \in SUBSET Rows
    BY <1>3, <1>4, <1>7 DEF NothingMissed, DeliveredTo, Covered, HandledWith, Assumptions, RowsAssumption
  <2>2. Left(p) \subseteq C
    BY <1>1 DEF Left, Wanted, Covered, HandledWith
  <2> HIDE DEF C
  <2>3. Left(p) = C
    BY <1>4, <2>1, <2>2, RowsFinite
  <2>4. HandledWith({"delivered"}) \subseteq C
    BY <1>4 DEF C, Covered
  <2> QED BY <1>5, <2>3, <2>4 DEF Complete, Left
<1> QED BY <1>6, <1>7

\* An in-place rebuild makes its checkpoint active only over a graph that holds
\* every delivered event, even when the rebuild lock was lost and workers
\* delivered beside it (_finalize_checkpoints, _require_nothing_missed): with a
\* single rebuild, a single version, and a projector that handles every event.
THEOREM CommitIsHonest ==
  ASSUME Assumptions, OneRebuild, OneVersion, HandlesAll
  PROVE  Spec => CommitHonest
<1>1. Tallied /\ [Next]_vars => [ActiveHonest]_vars
  BY CommittedComplete
<1> QED BY <1>1, TalliedHolds, PTL DEF Spec, CommitHonest

LEMMA KeptHolds ==
  ASSUME Assumptions, LocksKept
  PROVE  Spec => []Kept
<1>1. Init => Kept
  BY InitTruthful DEF Truthful
<1>2. Kept /\ [Next]_vars => Kept'
  BY KeptStays
<1> QED BY <1>1, <1>2, PTL DEF Spec

LEMMA VerifiedComplete ==
  ASSUME Assumptions, OneRebuild, Kept, Tallied, NoneGivenUp, [Next]_vars
  PROVE  VerifyHonest
<1> SUFFICES ASSUME NEW p \in Rebuilds, rebuild[p].pc = "verify", rebuild'[p].pc = "record"
             PROVE  Complete(Target(p), rebuild[p].version)
  BY DEF VerifyHonest
<1>1. TypeOK /\ Running(p)
  BY DEF Tallied, Running
<1>2. CASE rebuild[p].mode = "in_place"
  BY <1>1, <1>2 DEF Kept, InPlace, ReplayOf, Target
<1>3. CASE rebuild[p].mode # "in_place"
  <2>1. Tally(p)
    BY <1>1 DEF Tallied
  <2>2. Verified(p)
    <3>1. rebuild' # rebuild
      OBVIOUS
    <3>2. \E q \in Rebuilds : RebuildStep(q) \/ FailRebuild(q) \/ \E m \in Modes, v \in Versions : Begin(q, m, v)
      BY <3>1 DEF Next, vars, AppendEvent, WorkerStep, StartWorker, CountGraph, CheckDelivered, RecordFresh, Claim,
                  Project, Deliver, FailRow, StopWorker, CrashWorker, LoseLock
    <3>3. RebuildStep(p) \/ FailRebuild(p) \/ \E m \in Modes, v \in Versions : Begin(p, m, v)
      BY <3>2 DEF OneRebuild
    <3>4. ~FailRebuild(p)
      BY <1>1, RebuildTyped DEF Ended, Begun
    <3>5. Verify(p)
      BY <3>3, <3>4 DEF Begin, RebuildStep, EnsureIdle, MarkRebuilding, CheckTarget, DeleteMarker, WipeBatch,
                        ReadPage, ReplayRow, LockCheckpoint, CommitCheckpoint, RecordHistory
    <3> QED BY <1>1, <3>5, RebuildTyped DEF Ended, Begun
  <2> DEFINE C == Covered(rebuild[p].after, Queued \ {"dead_lettered"})
  <2>3. Cardinality(C) = rebuild[p].count /\ HandledWith({"delivered"}) = Covered(rebuild[p].after, {"delivered"})
    BY <1>3, <2>2 DEF Verified, ReplayComplete
  <2>4. C \in SUBSET Rows /\ Left(p) \subseteq C
    BY <1>1, <1>3 DEF Left, Wanted, Covered, HandledWith, Queued, OutboxStatus, TypeOK, Assumptions, RowsAssumption
  <2>5. HandledWith({"delivered"}) \subseteq C
    BY <2>3 DEF Covered, HandledWith, Queued, OutboxStatus
  <2> HIDE DEF C
  <2>6. rebuild[p].count <= Cardinality(Left(p)) /\ rebuild[p].count \in Nat
    BY <1>1, <2>1, Positions DEF Tally
  <2>7. Left(p) = C
    BY <2>3, <2>4, <2>6, RowsFinite
  <2> QED BY <2>5, <2>7 DEF Complete, Left
<1> QED BY <1>2, <1>3

\* A rebuild that is verified, live or standby, beside running workers and rows
\* that appear out of order, has every delivered event in its target
\* (_verify_replayed_target, verify_projections): with the rebuild lock kept, a
\* single rebuild, and no row given up while it runs.
THEOREM VerificationIsComplete ==
  ASSUME Assumptions, LocksKept, OneRebuild
  PROVE  Spec /\ []NoneGivenUp => VerifiedIsComplete
<1>1. Kept /\ Tallied /\ NoneGivenUp /\ [Next]_vars => [VerifyHonest]_vars
  BY VerifiedComplete
<1> QED BY <1>1, KeptHolds, TalliedHolds, PTL DEF Spec, VerifiedIsComplete

\* Both claims about markers and checkpoints, each where it holds.
THEOREM RebuildsAreSound ==
  ASSUME Assumptions PROVE Spec => []RebuildSound
<1>1. CASE ~LocksKept
  <2>1. RebuildSound
    BY <1>1 DEF RebuildSound
  <2> QED BY <2>1, PTL
<1>2. CASE LocksKept
  <2>1. CASE OneVersion
    <3>1. MarkerTruthful /\ VerifySound => RebuildSound
      BY DEF RebuildSound
    <3>2. Spec => []MarkerTruthful
      BY <1>2, <2>1, MarkerIsTruthful
    <3>3. Spec => []VerifySound
      BY <1>2, <2>1, CheckpointsAreSound
    <3> QED BY <3>1, <3>2, <3>3, PTL
  <2>2. CASE ~OneVersion /\ Rolling
    <3>1. MarkerTruthful => RebuildSound
      BY <2>2 DEF RebuildSound
    <3>2. Spec => []MarkerTruthful
      BY <1>2, <2>2, MarkerIsTruthful
    <3> QED BY <3>1, <3>2, PTL
  <2>3. CASE ~OneVersion /\ ~Rolling
    <3>1. RebuildSound
      BY <2>3 DEF RebuildSound
    <3> QED BY <3>1, PTL
  <2> QED BY <2>1, <2>2, <2>3
<1> QED BY <1>1, <1>2

\* Both claims of a rebuild about what it replayed, each where it holds.
THEOREM RebuildsAreHonest ==
  ASSUME Assumptions PROVE Spec => RebuildHonest
<1>1. ASSUME Tallied, [Next]_vars, OneRebuild, OneVersion, HandlesAll PROVE [ActiveHonest]_vars
  BY <1>1, CommittedComplete
<1>2. ASSUME LocksKept, OneRebuild, Kept, Tallied, NoneGivenUp, [Next]_vars PROVE VerifyHonest
  BY <1>2, VerifiedComplete
<1>0. CASE ~OneRebuild
  <2>1. [ClaimsAreHonest]_vars
    BY <1>0 DEF ClaimsAreHonest
  <2> QED BY <2>1, PTL DEF RebuildHonest
<1>3. CASE OneRebuild /\ LocksKept
  <2>1. Kept /\ Tallied /\ [Next]_vars => [ClaimsAreHonest]_vars
    BY <1>1, <1>2 DEF ClaimsAreHonest
  <2>2. Spec => []Kept
    BY <1>3, KeptHolds
  <2>3. Spec => []Tallied
    BY <1>3, TalliedHolds
  <2> QED BY <2>1, <2>2, <2>3, PTL DEF Spec, RebuildHonest
<1>4. CASE OneRebuild /\ ~LocksKept
  <2>1. Tallied /\ [Next]_vars => [ClaimsAreHonest]_vars
    BY <1>1, <1>4 DEF ClaimsAreHonest
  <2>2. Spec => []Tallied
    BY <1>4, TalliedHolds
  <2> QED BY <2>1, <2>2, PTL DEF Spec, RebuildHonest
<1> QED BY <1>0, <1>3, <1>4
=============================================================================
