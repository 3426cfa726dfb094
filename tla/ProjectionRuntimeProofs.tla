---------------------- MODULE ProjectionRuntimeProofs ----------------------
(***************************************************************************)
(* Proofs about ProjectionRuntime, for any sets of workers, rows and       *)
(* projectors, any retry policy, any clock skew and any number of          *)
(* interruptions.                                                          *)
(***************************************************************************)
EXTENDS ProjectionRuntime, FiniteSetTheorems, TLAPS

----------------------------------------------------------------------------
(* Types.                                                                  *)

\* Outbox ids are positive numbers.
LEMMA RowType == \A r \in Rows : r \in Nat /\ r > 0
  BY RowsAssumption

\* A saturated time is a time.
LEMMA AtType == ASSUME NEW t PROVE At(t) \in Time
  BY BoundsAssumption DEF At, Time

\* A finalized row is an outbox row.
LEMMA FinalizedType ==
  ASSUME NEW row \in OutboxRow, NEW s \in OutboxStatus
  PROVE  /\ Finalized(row, s) \in OutboxRow
         /\ Finalized(row, s).status = s
         /\ Finalized(row, s).retry_count = row.retry_count
         /\ Finalized(row, s).lease_owner = NoWorker
         /\ Finalized(row, s).lease_expires_at = 0
<1>1. 0 \in Time
  BY BoundsAssumption DEF Time
<1> QED BY <1>1 DEF Finalized, OutboxRow

\* What a failed attempt makes of a row.
LEMMA FailedRowType ==
  ASSUME NEW row \in OutboxRow, NEW c \in ClaimedOutboxRow, NEW t \in Time
  PROVE  /\ FailedRow(row, c, t) \in OutboxRow
         /\ FailedRow(row, c, t).retry_count = c.retry_count + 1
         /\ FailedRow(row, c, t).lease_owner = NoWorker
         /\ FailedRow(row, c, t).status =
              IF c.retry_count + 1 >= MaxAttempts THEN "dead_lettered" ELSE "pending"
<1>1. /\ Finalized(row, "dead_lettered") \in OutboxRow
      /\ Finalized(row, "dead_lettered").status = "dead_lettered"
      /\ Finalized(row, "dead_lettered").lease_owner = NoWorker
      /\ Finalized(row, "pending") \in OutboxRow
      /\ Finalized(row, "pending").status = "pending"
      /\ Finalized(row, "pending").lease_owner = NoWorker
  BY FinalizedType DEF OutboxStatus
<1>2. c.retry_count + 1 \in Nat
  BY DEF ClaimedOutboxRow
<1>3. At(t + RetryDelay(c.retry_count + 1)) \in Time
  BY AtType
<1> QED BY <1>1, <1>2, <1>3 DEF FailedRow, OutboxRow

\* A leased row.
LEMMA LeaseType ==
  ASSUME TypeOK, NEW w \in Workers, NEW t, NEW r \in Rows
  PROVE  /\ Lease(w, t)[r] \in OutboxRow
         /\ Lease(w, t)[r].status = "leased"
         /\ Lease(w, t)[r].lease_owner = w
         /\ Lease(w, t)[r].retry_count = outbox[r].retry_count
<1>1. outbox[r] \in OutboxRow
  BY DEF TypeOK
<1>2. At(t + LeaseDuration) \in Time
  BY AtType
<1>3. Lease(w, t)[r] = [outbox[r] EXCEPT !.status = "leased", !.lease_owner = w,
                                        !.lease_expires_at = At(t + LeaseDuration)]
  BY DEF Lease
<1> QED BY <1>1, <1>2, <1>3 DEF OutboxRow, OutboxStatus

\* An advanced checkpoint.
LEMMA AdvanceType ==
  ASSUME NEW k \in Checkpoint, NEW r \in Rows
  PROVE  Advance(k, r) \in Checkpoint
<1>0. k.last_outbox_id \in Rows \cup {0} /\ k.processed_count \in Nat
  BY DEF Checkpoint
<1>1. r \in Nat /\ k.last_outbox_id \in Nat /\ k.processed_count + 1 \in Nat
  BY <1>0, RowType
<1>2. Larger(k.last_outbox_id, r) \in Rows \cup {0}
  BY <1>1 DEF Larger, Checkpoint
<1>3. CASE k.state = "absent"
  BY <1>3 DEF Advance, Checkpoint
<1>4. CASE k.state # "absent"
  BY <1>1, <1>2, <1>4 DEF Advance, Checkpoint
<1> QED BY <1>3, <1>4

LEMMA NoRowType == NoRow \in OutboxRow
<1>1. 0 \in Time
  BY BoundsAssumption DEF Time
<1> QED BY <1>1 DEF NoRow, OutboxRow, OutboxStatus

LEMMA InitTypeOK == Init => TypeOK
<1>1. NoCheckpoint \in Checkpoint
  BY DEF NoCheckpoint, Checkpoint
<1> SUFFICES ASSUME Init PROVE TypeOK
  OBVIOUS
<1>2. now \in Time /\ interruptions \in 0 .. MaxInterruptions
  BY BoundsAssumption DEF Init, Time
<1>3. outbox \in [Rows -> OutboxRow]
  BY NoRowType DEF Init
<1>4. checkpoints \in [Projectors -> Checkpoint]
  BY <1>1 DEF Init
<1> QED BY <1>2, <1>3, <1>4 DEF Init, TypeOK, WorkerState

\* The disjuncts of a worker's step, for the case splits below.
LEMMA NextCases ==
  ASSUME Next
  PROVE  \/ Tick \/ RebuildLock \/ RebuildUnlock
         \/ \E r \in Rows : Append(r)
         \/ \E w \in Workers : \/ Start(w) \/ EnterGuard(w) \/ ClaimBatch(w)
                               \/ AfterEmptyPoll(w) \/ ReleaseLeases(w)
                               \/ Stop(w) \/ Abort(w) \/ Crash(w)
         \/ \E w \in Workers : \E c \in batch[w] : \/ LoadEvent(w, c)
                                                   \/ ProjectEvent(w, c)
                                                   \/ FinalizeSuccess(w, c)
                                                   \/ FinalizeFailure(w, c)
  BY DEF Next, Environment, WorkerStep, Interruption

\* Finishing a row keeps the types of what it changes.
LEMMA FinishRowType ==
  ASSUME TypeOK, NEW w \in Workers, NEW c \in batch[w], FinishRow(w, c)
  PROVE  /\ batch' \in [Workers -> SUBSET ClaimedOutboxRow]
         /\ pc' \in [Workers -> WorkerState]
         /\ shared' \subseteq Workers
  BY DEF TypeOK, FinishRow, WorkerState, Running, InGuard

\* A claim only takes rows, and the snapshots it keeps are claims.
LEMMA ClaimTypes ==
  ASSUME TypeOK, NEW w \in Workers, ClaimBatch(w)
  PROVE  TypeOK'
<1>1. PICK t \in Clock, locked \in SUBSET Lockable(w) :
        LET claimed == Lowest(Claimable(t) \ locked, BatchSize) IN
        /\ outbox' = [r \in Rows |-> IF r \in claimed THEN Lease(w, t)[r] ELSE outbox[r]]
        /\ batch' = [batch EXCEPT ![w] =
             {[outbox_id |-> r, retry_count |-> outbox[r].retry_count,
               lease_expires_at |-> At(t + LeaseDuration)] : r \in claimed}]
        /\ IF claimed = {}
           THEN pc' = [pc EXCEPT ![w] = "polled"] /\ shared' = shared \ {w}
           ELSE pc' = [pc EXCEPT ![w] = "load"] /\ UNCHANGED shared
  BY DEF ClaimBatch
<1> DEFINE claimed == Lowest(Claimable(t) \ locked, BatchSize)
<1>2. claimed \subseteq Rows
  BY DEF Lowest, Claimable
<1>3. outbox' \in [Rows -> OutboxRow]
  BY <1>1, LeaseType DEF TypeOK
<1>4. ASSUME NEW r \in claimed
      PROVE  [outbox_id |-> r, retry_count |-> outbox[r].retry_count,
              lease_expires_at |-> At(t + LeaseDuration)] \in ClaimedOutboxRow
  <2>1. outbox[r].retry_count \in Nat
    BY <1>2, <1>4 DEF TypeOK, OutboxRow
  <2>2. At(t + LeaseDuration) \in Time
    BY AtType
  <2> QED BY <1>2, <1>4, <2>1, <2>2 DEF ClaimedOutboxRow
<1>5. {[outbox_id |-> r, retry_count |-> outbox[r].retry_count,
        lease_expires_at |-> At(t + LeaseDuration)] : r \in claimed}
        \subseteq ClaimedOutboxRow
  BY <1>4
<1>6. batch' \in [Workers -> SUBSET ClaimedOutboxRow]
  BY <1>1, <1>5 DEF TypeOK
<1>7. pc' \in [Workers -> WorkerState] /\ shared' \subseteq Workers
  BY <1>1 DEF TypeOK, WorkerState, Running, InGuard
<1> QED BY <1>3, <1>6, <1>7 DEF ClaimBatch, TypeOK

LEMMA TypeStep == TypeOK /\ [Next]_vars => TypeOK'
<1> SUFFICES ASSUME TypeOK, [Next]_vars PROVE TypeOK'
  OBVIOUS
<1> USE DEF WorkerState, Running, InGuard
<1>1. CASE Tick
  BY <1>1, BoundsAssumption DEF Tick, TypeOK, Time
<1>2. CASE RebuildLock \/ RebuildUnlock
  BY <1>2 DEF RebuildLock, RebuildUnlock, TypeOK
<1>3. ASSUME NEW r \in Rows, Append(r) PROVE TypeOK'
  <2>1. [NoRow EXCEPT !.status = "pending", !.available_at = now] \in OutboxRow
    BY NoRowType DEF OutboxRow, OutboxStatus, TypeOK
  <2> QED BY <1>3, <2>1 DEF Append, TypeOK
<1>4. ASSUME NEW w \in Workers,
             Start(w) \/ EnterGuard(w) \/ AfterEmptyPoll(w)
      PROVE  TypeOK'
  BY <1>4 DEF Start, EnterGuard, AfterEmptyPoll, TypeOK
<1>5. ASSUME NEW w \in Workers, ClaimBatch(w) PROVE TypeOK'
  BY <1>5, ClaimTypes
<1>6. ASSUME NEW w \in Workers, ReleaseLeases(w) PROVE TypeOK'
  <2>1. \A r \in Rows : Finalized(outbox[r], "pending") \in OutboxRow
    BY FinalizedType DEF TypeOK, OutboxStatus
  <2> QED BY <1>6, <2>1 DEF ReleaseLeases, TypeOK
<1>7. ASSUME NEW w \in Workers, Stop(w) \/ Abort(w) \/ Crash(w) PROVE TypeOK'
  <2>1. interruptions' \in 0 .. MaxInterruptions
    BY <1>7, BoundsAssumption DEF Stop, Abort, Crash, Interrupted, TypeOK
  <2> QED BY <1>7, <2>1 DEF Stop, Abort, Crash, TypeOK
<1>8. ASSUME NEW w \in Workers, NEW c \in batch[w], LoadEvent(w, c) PROVE TypeOK'
  BY <1>8 DEF LoadEvent, TypeOK
<1>9. ASSUME NEW w \in Workers, NEW c \in batch[w], ProjectEvent(w, c) PROVE TypeOK'
  <2>1. c.outbox_id \in Rows
    BY DEF TypeOK, ClaimedOutboxRow
  <2>2. Effects(c.outbox_id) \subseteq Rows \X Projectors
    BY <2>1, HandlesAssumption DEF Effects
  <2> QED BY <1>9, <2>2 DEF ProjectEvent, TypeOK
<1>10. ASSUME NEW w \in Workers, NEW c \in batch[w], FinalizeSuccess(w, c) PROVE TypeOK'
  <2>1. c.outbox_id \in Rows
    BY DEF TypeOK, ClaimedOutboxRow
  <2>2. Finalized(outbox[c.outbox_id], "delivered") \in OutboxRow
    BY <2>1, FinalizedType DEF TypeOK, OutboxStatus
  <2>3. \A p \in Projectors : Advance(checkpoints[p], c.outbox_id) \in Checkpoint
    BY <2>1, AdvanceType DEF TypeOK
  <2>4. outbox' \in [Rows -> OutboxRow] /\ checkpoints' \in [Projectors -> Checkpoint]
    BY <1>10, <2>1, <2>2, <2>3 DEF FinalizeSuccess, TypeOK
  <2> QED BY <1>10, <2>4, FinishRowType DEF FinalizeSuccess, TypeOK
<1>11. ASSUME NEW w \in Workers, NEW c \in batch[w], FinalizeFailure(w, c) PROVE TypeOK'
  <2>1. c \in ClaimedOutboxRow /\ c.outbox_id \in Rows /\ c.retry_count + 1 \in Nat
    BY DEF TypeOK, ClaimedOutboxRow
  <2>2. \A t \in Clock : FailedRow(outbox[c.outbox_id], c, t) \in OutboxRow
    BY <2>1, FailedRowType DEF TypeOK, Clock
  <2>3. outbox' \in [Rows -> OutboxRow] /\ dead_letters' \in [Rows -> Nat]
    BY <1>11, <2>1, <2>2 DEF FinalizeFailure, TypeOK
  <2> QED BY <1>11, <2>3, FinishRowType DEF FinalizeFailure, TypeOK
<1>12. CASE UNCHANGED vars
  BY <1>12 DEF vars, TypeOK
<1> QED BY <1>1, <1>2, <1>3, <1>4, <1>5, <1>6, <1>7, <1>8, <1>9, <1>10, <1>11,
           <1>12, NextCases

\* Every variable keeps its type, whatever the workers, the ingestion and the
\* rebuilds do.
THEOREM TypeCorrect == Spec => []TypeOK
<1>1. Init => TypeOK
  BY InitTypeOK
<1>2. TypeOK /\ [Next]_vars => TypeOK'
  BY TypeStep
<1> QED BY <1>1, <1>2, PTL DEF Spec

----------------------------------------------------------------------------
(* How a row can change.  Every safety proof below is a case analysis over *)
(* these five ways.                                                        *)

Appended(r) ==
  /\ Append(r)
  /\ outbox[r].status = "absent" /\ outbox'[r].status = "pending"
  /\ outbox'[r].retry_count = 0 /\ outbox'[r].lease_owner = NoWorker

Taken(w, r) ==
  /\ ClaimBatch(w)
  /\ \/ outbox[r].status = "pending"
     \/ outbox[r].status = "leased" /\ outbox[r].lease_expires_at <= now + MaxSkew
  /\ outbox'[r].status = "leased" /\ outbox'[r].lease_owner = w
  /\ outbox'[r].retry_count = outbox[r].retry_count

DeliveredBy(w, c) ==
  LET r == c.outbox_id IN
  /\ FinalizeSuccess(w, c) /\ Fence(w, c)
  /\ outbox'[r].status = "delivered" /\ outbox'[r].lease_owner = NoWorker
  /\ outbox'[r].retry_count = outbox[r].retry_count

FailedBy(w, c) ==
  LET r == c.outbox_id IN
  /\ FinalizeFailure(w, c) /\ Fence(w, c)
  /\ outbox'[r].status = IF c.retry_count + 1 >= MaxAttempts
                         THEN "dead_lettered" ELSE "pending"
  /\ outbox'[r].lease_owner = NoWorker
  /\ outbox'[r].retry_count = c.retry_count + 1

Released(w, r) ==
  /\ ReleaseLeases(w)
  /\ outbox[r].status = "leased" /\ outbox[r].lease_owner = w
  /\ outbox'[r].status = "pending" /\ outbox'[r].lease_owner = NoWorker
  /\ outbox'[r].retry_count = outbox[r].retry_count

\* A claim changes the rows it took and no other.
LEMMA ClaimChange ==
  ASSUME TypeOK, NEW w \in Workers, ClaimBatch(w), NEW r \in Rows, outbox'[r] # outbox[r]
  PROVE  Taken(w, r)
<1>1. PICK t \in Clock, locked \in SUBSET Lockable(w) :
        outbox' = [q \in Rows |-> IF q \in Lowest(Claimable(t) \ locked, BatchSize)
                                  THEN Lease(w, t)[q] ELSE outbox[q]]
  BY DEF ClaimBatch
<1>2. r \in Lowest(Claimable(t) \ locked, BatchSize) /\ outbox'[r] = Lease(w, t)[r]
  BY <1>1
<1>3. r \in Claimable(t)
  BY <1>2 DEF Lowest
<1>4. t \in Time /\ t <= now + MaxSkew
  BY DEF Clock
<1>5. outbox[r].lease_expires_at \in Nat /\ now \in Nat /\ t \in Nat /\ MaxSkew \in Nat
  BY <1>4, BoundsAssumption DEF TypeOK, OutboxRow, Time
<1>6. \/ outbox[r].status = "pending"
      \/ outbox[r].status = "leased" /\ outbox[r].lease_expires_at <= now + MaxSkew
  BY <1>3, <1>4, <1>5 DEF Claimable
<1> QED BY <1>2, <1>6, LeaseType DEF Taken

LEMMA RowChange ==
  ASSUME TypeOK, [Next]_vars, NEW r \in Rows, outbox'[r] # outbox[r]
  PROVE  \/ Appended(r)
         \/ \E w \in Workers : Taken(w, r) \/ Released(w, r)
         \/ \E w \in Workers : \E c \in batch[w] :
              c.outbox_id = r /\ (DeliveredBy(w, c) \/ FailedBy(w, c))
<1>1. CASE Tick \/ RebuildLock \/ RebuildUnlock \/ UNCHANGED vars
  BY <1>1 DEF Tick, RebuildLock, RebuildUnlock, vars
<1>2. ASSUME NEW q \in Rows, Append(q) PROVE Appended(r)
  <2>1. q = r /\ outbox'[r] = [NoRow EXCEPT !.status = "pending", !.available_at = now]
    BY <1>2 DEF Append, TypeOK
  <2> QED BY <1>2, <2>1, NoRowType DEF Appended, Append, NoRow, OutboxRow
<1>3. ASSUME NEW w \in Workers,
             \/ Start(w) \/ EnterGuard(w) \/ AfterEmptyPoll(w)
             \/ Stop(w) \/ Abort(w) \/ Crash(w)
      PROVE  FALSE
  BY <1>3 DEF Start, EnterGuard, AfterEmptyPoll, Stop, Abort, Crash
<1>4. ASSUME NEW w \in Workers, ClaimBatch(w) PROVE Taken(w, r)
  BY <1>4, ClaimChange
<1>5. ASSUME NEW w \in Workers, ReleaseLeases(w) PROVE Released(w, r)
  <2>1. /\ outbox[r].status = "leased" /\ outbox[r].lease_owner = w
        /\ outbox'[r] = Finalized(outbox[r], "pending")
    BY <1>5 DEF ReleaseLeases
  <2> QED BY <1>5, <2>1, FinalizedType DEF Released, TypeOK, OutboxStatus
<1>6. ASSUME NEW w \in Workers, NEW c \in batch[w], LoadEvent(w, c) \/ ProjectEvent(w, c)
      PROVE  FALSE
  BY <1>6 DEF LoadEvent, ProjectEvent
<1>7. ASSUME NEW w \in Workers, NEW c \in batch[w], FinalizeSuccess(w, c)
      PROVE  c.outbox_id = r /\ DeliveredBy(w, c)
  <2>1. /\ Fence(w, c) /\ c.outbox_id = r
        /\ outbox'[r] = Finalized(outbox[r], "delivered")
    BY <1>7 DEF FinalizeSuccess, TypeOK
  <2> QED BY <1>7, <2>1, FinalizedType DEF DeliveredBy, TypeOK, OutboxStatus
<1>8. ASSUME NEW w \in Workers, NEW c \in batch[w], FinalizeFailure(w, c)
      PROVE  c.outbox_id = r /\ FailedBy(w, c)
  <2>1. PICK t \in Clock : /\ Fence(w, c) /\ c.outbox_id = r
                           /\ outbox'[r] = FailedRow(outbox[r], c, t)
    BY <1>8 DEF FinalizeFailure, TypeOK
  <2>2. c \in ClaimedOutboxRow /\ t \in Time /\ outbox[r] \in OutboxRow
    BY DEF TypeOK, Clock
  <2> QED BY <1>8, <2>1, <2>2, FailedRowType DEF FailedBy
<1> QED BY <1>1, <1>2, <1>3, <1>4, <1>5, <1>6, <1>7, <1>8, NextCases

----------------------------------------------------------------------------
(* The inductive invariant, part by part.                                  *)

LEMMA LeaseShapeStep == TypeOK /\ LeaseShape /\ [Next]_vars => LeaseShape'
<1> SUFFICES ASSUME TypeOK, LeaseShape, [Next]_vars, NEW r \in Rows
             PROVE  /\ outbox'[r].lease_owner # NoWorker <=> outbox'[r].status = "leased"
                    /\ outbox'[r].status = "absent" => outbox'[r].retry_count = 0
  BY DEF LeaseShape
<1>1. CASE outbox'[r] = outbox[r]
  BY <1>1 DEF LeaseShape
<1>2. CASE outbox'[r] # outbox[r]
  BY <1>2, RowChange, WorkersAssumption
     DEF Appended, Taken, Released, DeliveredBy, FailedBy
<1> QED BY <1>1, <1>2

LEMMA GuardStep ==
  TypeOK /\ BatchInGuard /\ LockExclusion /\ [Next]_vars => BatchInGuard' /\ LockExclusion'
<1> SUFFICES ASSUME TypeOK, BatchInGuard, LockExclusion, [Next]_vars
             PROVE  BatchInGuard' /\ LockExclusion'
  OBVIOUS
<1> USE DEF BatchInGuard, LockExclusion, InGuard
<1>1. CASE Tick \/ RebuildLock \/ RebuildUnlock \/ UNCHANGED vars
  BY <1>1 DEF Tick, RebuildLock, RebuildUnlock, vars
<1>2. ASSUME NEW r \in Rows, Append(r) PROVE BatchInGuard' /\ LockExclusion'
  BY <1>2 DEF Append
<1>3. ASSUME NEW w \in Workers, Start(w) \/ EnterGuard(w) \/ AfterEmptyPoll(w)
      PROVE  BatchInGuard' /\ LockExclusion'
  BY <1>3 DEF Start, EnterGuard, AfterEmptyPoll, TypeOK
<1>4. ASSUME NEW w \in Workers, Stop(w) \/ Abort(w) \/ Crash(w) \/ ReleaseLeases(w)
      PROVE  BatchInGuard' /\ LockExclusion'
  BY <1>4 DEF Stop, Abort, Crash, ReleaseLeases, TypeOK, Running
<1>5. ASSUME NEW w \in Workers, ClaimBatch(w) PROVE BatchInGuard' /\ LockExclusion'
  <2>1. \/ /\ batch' = [batch EXCEPT ![w] = {}]
           /\ pc' = [pc EXCEPT ![w] = "polled"] /\ shared' = shared \ {w}
        \/ /\ \A v \in Workers : v # w => batch'[v] = batch[v]
           /\ pc' = [pc EXCEPT ![w] = "load"] /\ UNCHANGED shared
    <3>1. PICK t \in Clock, locked \in SUBSET Lockable(w) :
            LET claimed == Lowest(Claimable(t) \ locked, BatchSize) IN
            /\ batch' = [batch EXCEPT ![w] =
                 {[outbox_id |-> r, retry_count |-> outbox[r].retry_count,
                   lease_expires_at |-> At(t + LeaseDuration)] : r \in claimed}]
            /\ IF claimed = {}
               THEN pc' = [pc EXCEPT ![w] = "polled"] /\ shared' = shared \ {w}
               ELSE pc' = [pc EXCEPT ![w] = "load"] /\ UNCHANGED shared
      BY <1>5 DEF ClaimBatch
    <3>2. CASE Lowest(Claimable(t) \ locked, BatchSize) = {}
      BY <3>1, <3>2
    <3>3. CASE Lowest(Claimable(t) \ locked, BatchSize) # {}
      <4>1. \A v \in Workers : v # w => batch'[v] = batch[v]
        BY <3>1 DEF TypeOK
      <4> QED BY <3>1, <3>3, <4>1
    <3> QED BY <3>2, <3>3
  <2>2. pc[w] = "guarded" /\ UNCHANGED exclusive
    BY <1>5 DEF ClaimBatch
  <2> QED BY <2>1, <2>2 DEF TypeOK
<1>6. ASSUME NEW w \in Workers, NEW c \in batch[w], LoadEvent(w, c) \/ ProjectEvent(w, c)
      PROVE  BatchInGuard' /\ LockExclusion'
  BY <1>6 DEF LoadEvent, ProjectEvent, TypeOK
<1>7. ASSUME NEW w \in Workers, NEW c \in batch[w],
             FinalizeSuccess(w, c) \/ FinalizeFailure(w, c)
      PROVE  BatchInGuard' /\ LockExclusion'
  <2>1. FinishRow(w, c) /\ UNCHANGED exclusive
    BY <1>7 DEF FinalizeSuccess, FinalizeFailure
  <2> QED BY <2>1 DEF FinishRow, TypeOK
<1> QED BY <1>1, <1>2, <1>3, <1>4, <1>5, <1>6, <1>7, NextCases

\* How the batch of a worker can change: only its own claim adds to it.
LEMMA BatchChange ==
  ASSUME TypeOK, [Next]_vars, NEW w \in Workers, NEW c \in batch'[w], c \notin batch[w]
  PROVE  /\ ClaimBatch(w)
         /\ c.outbox_id \in Rows
         /\ c.retry_count = outbox'[c.outbox_id].retry_count
         /\ outbox'[c.outbox_id].status = "leased"
<1>1. CASE Tick \/ RebuildLock \/ RebuildUnlock \/ UNCHANGED vars
  BY <1>1 DEF Tick, RebuildLock, RebuildUnlock, vars
<1>2. ASSUME NEW r \in Rows, Append(r) PROVE FALSE
  BY <1>2 DEF Append
<1>3. ASSUME NEW v \in Workers,
             \/ Start(v) \/ EnterGuard(v) \/ AfterEmptyPoll(v) \/ ReleaseLeases(v)
             \/ Stop(v) \/ Abort(v) \/ Crash(v)
      PROVE  FALSE
  BY <1>3 DEF Start, EnterGuard, AfterEmptyPoll, ReleaseLeases, Stop, Abort, Crash, TypeOK
<1>4. ASSUME NEW v \in Workers, NEW d \in batch[v],
             \/ LoadEvent(v, d) \/ ProjectEvent(v, d)
             \/ FinalizeSuccess(v, d) \/ FinalizeFailure(v, d)
      PROVE  FALSE
  BY <1>4 DEF LoadEvent, ProjectEvent, FinalizeSuccess, FinalizeFailure, FinishRow, TypeOK
<1>5. ASSUME NEW v \in Workers, ClaimBatch(v)
      PROVE  /\ v = w
             /\ c.outbox_id \in Rows
             /\ c.retry_count = outbox'[c.outbox_id].retry_count
             /\ outbox'[c.outbox_id].status = "leased"
  <2>1. PICK t \in Clock, locked \in SUBSET Lockable(v) :
          LET claimed == Lowest(Claimable(t) \ locked, BatchSize) IN
          /\ outbox' = [r \in Rows |-> IF r \in claimed THEN Lease(v, t)[r] ELSE outbox[r]]
          /\ batch' = [batch EXCEPT ![v] =
               {[outbox_id |-> r, retry_count |-> outbox[r].retry_count,
                 lease_expires_at |-> At(t + LeaseDuration)] : r \in claimed}]
    BY <1>5 DEF ClaimBatch
  <2> DEFINE claimed == Lowest(Claimable(t) \ locked, BatchSize)
  <2>2. claimed \subseteq Rows
    BY DEF Lowest, Claimable
  <2>3. v = w
    BY <2>1 DEF TypeOK
  <2>4. PICK r \in claimed : c = [outbox_id |-> r, retry_count |-> outbox[r].retry_count,
                                  lease_expires_at |-> At(t + LeaseDuration)]
    BY <2>1, <2>3 DEF TypeOK
  <2>5. r \in Rows /\ outbox'[r] = Lease(v, t)[r]
    BY <2>1, <2>2, <2>4
  <2>6. c.outbox_id = r /\ c.retry_count = outbox[r].retry_count
    BY <2>4
  <2>7. Lease(v, t)[r].status = "leased" /\ Lease(v, t)[r].retry_count = outbox[r].retry_count
    BY <2>5, LeaseType
  <2> QED BY <2>3, <2>5, <2>6, <2>7
<1> QED BY <1>1, <1>2, <1>3, <1>4, <1>5, NextCases

LEMMA SnapshotStep ==
  TypeOK /\ LeaseShape /\ BatchInGuard /\ SnapshotFresh /\ [Next]_vars => SnapshotFresh'
<1> SUFFICES ASSUME TypeOK, LeaseShape, BatchInGuard, SnapshotFresh, [Next]_vars,
                    NEW w \in Workers, NEW c \in batch'[w]
             PROVE  /\ outbox'[c.outbox_id].status # "absent"
                    /\ outbox'[c.outbox_id].lease_owner = w =>
                         outbox'[c.outbox_id].retry_count = c.retry_count
  BY DEF SnapshotFresh
<1>1. CASE c \notin batch[w]
  BY <1>1, BatchChange
<1>2. CASE c \in batch[w]
  <2>1. /\ outbox[c.outbox_id].status # "absent"
        /\ outbox[c.outbox_id].lease_owner = w =>
             outbox[c.outbox_id].retry_count = c.retry_count
    BY <1>2 DEF SnapshotFresh
  <2>2. c.outbox_id \in Rows
    BY <1>2 DEF TypeOK, ClaimedOutboxRow
  <2>3. CASE outbox'[c.outbox_id] = outbox[c.outbox_id]
    BY <2>1, <2>3
  <2>4. ASSUME NEW v \in Workers, Taken(v, c.outbox_id), v # w
        PROVE  /\ outbox'[c.outbox_id].status # "absent"
               /\ outbox'[c.outbox_id].lease_owner # w
    BY <2>4 DEF Taken
  <2>5. ~ClaimBatch(w)
    BY <1>2 DEF ClaimBatch, BatchInGuard
  <2> QED BY <2>1, <2>2, <2>3, <2>4, <2>5, RowChange, WorkersAssumption
          DEF Appended, Taken, Released, DeliveredBy, FailedBy
<1> QED BY <1>1, <1>2

\* The effects of a row, and that the current row of a batch is unique.
LEMMA CurrentUnique ==
  ASSUME TypeOK, NEW w \in Workers, NEW c \in batch[w], NEW d \in batch[w],
         Current(w, c), Current(w, d)
  PROVE  c.outbox_id = d.outbox_id
<1>1. c.outbox_id \in Rows /\ d.outbox_id \in Rows
  BY DEF TypeOK, ClaimedOutboxRow
<1>2. c.outbox_id \in Nat /\ d.outbox_id \in Nat
  BY <1>1, RowType
<1> QED BY <1>2 DEF Current

LEMMA GraphGrows == TypeOK /\ [Next]_vars => graph \subseteq graph'
<1> SUFFICES ASSUME TypeOK, [Next]_vars PROVE graph \subseteq graph'
  OBVIOUS
<1>1. CASE Tick \/ RebuildLock \/ RebuildUnlock \/ UNCHANGED vars
  BY <1>1 DEF Tick, RebuildLock, RebuildUnlock, vars
<1>2. ASSUME NEW r \in Rows, Append(r) PROVE graph' = graph
  BY <1>2 DEF Append
<1>3. ASSUME NEW w \in Workers,
             \/ Start(w) \/ EnterGuard(w) \/ AfterEmptyPoll(w) \/ ReleaseLeases(w)
             \/ Stop(w) \/ Abort(w) \/ Crash(w) \/ ClaimBatch(w)
      PROVE  graph' = graph
  BY <1>3 DEF Start, EnterGuard, AfterEmptyPoll, ReleaseLeases, Stop, Abort, Crash, ClaimBatch
<1>4. ASSUME NEW w \in Workers, NEW c \in batch[w],
             LoadEvent(w, c) \/ FinalizeSuccess(w, c) \/ FinalizeFailure(w, c)
      PROVE  graph' = graph
  BY <1>4 DEF LoadEvent, FinalizeSuccess, FinalizeFailure
<1>5. ASSUME NEW w \in Workers, NEW c \in batch[w], ProjectEvent(w, c)
      PROVE  graph \subseteq graph'
  BY <1>5 DEF ProjectEvent
<1> QED BY <1>1, <1>2, <1>3, <1>4, <1>5, NextCases

\* A worker reaches "success" only by its own graph commit, or with nothing to
\* write; afterwards its batch stays as it is until it finalizes.
LEMMA SuccessChange ==
  ASSUME TypeOK, [Next]_vars, NEW w \in Workers, pc'[w] = "success"
  PROVE  /\ batch'[w] = batch[w]
         /\ \/ pc[w] = "success"
            \/ \E c \in batch[w] : /\ Current(w, c)
                                   /\ Effects(c.outbox_id) \subseteq graph'
<1>1. CASE Tick \/ RebuildLock \/ RebuildUnlock \/ UNCHANGED vars
  BY <1>1 DEF Tick, RebuildLock, RebuildUnlock, vars
<1>2. ASSUME NEW r \in Rows, Append(r) PROVE batch' = batch /\ pc' = pc
  BY <1>2 DEF Append
<1>3. ASSUME NEW v \in Workers,
             \/ Start(v) \/ EnterGuard(v) \/ AfterEmptyPoll(v) \/ ReleaseLeases(v)
             \/ Stop(v) \/ Abort(v) \/ Crash(v)
      PROVE  batch'[w] = batch[w] /\ pc[w] = "success"
  BY <1>3 DEF Start, EnterGuard, AfterEmptyPoll, ReleaseLeases, Stop, Abort, Crash, TypeOK
<1>4. ASSUME NEW v \in Workers, ClaimBatch(v)
      PROVE  batch'[w] = batch[w] /\ pc[w] = "success"
  <2>1. v # w /\ pc'[w] = pc[w]
    BY <1>4 DEF ClaimBatch, TypeOK
  <2>2. batch'[w] = batch[w]
    BY <1>4, <2>1 DEF ClaimBatch, TypeOK
  <2> QED BY <2>1, <2>2
<1>5. ASSUME NEW v \in Workers, NEW c \in batch[v], FinalizeSuccess(v, c) \/ FinalizeFailure(v, c)
      PROVE  batch'[w] = batch[w] /\ pc[w] = "success"
  <2>1. FinishRow(v, c)
    BY <1>5 DEF FinalizeSuccess, FinalizeFailure
  <2> QED BY <2>1 DEF FinishRow, TypeOK
<1>6. ASSUME NEW v \in Workers, NEW c \in batch[v], LoadEvent(v, c)
      PROVE  /\ batch'[w] = batch[w]
             /\ \/ pc[w] = "success"
                \/ v = w /\ Current(w, c) /\ Effects(c.outbox_id) \subseteq graph'
  <2>1. batch' = batch /\ graph' = graph /\ Current(v, c)
    BY <1>6 DEF LoadEvent
  <2>2. CASE v = w
    <3>1. Handles[c.outbox_id] = {}
      BY <1>6, <2>2 DEF LoadEvent, TypeOK
    <3> QED BY <2>1, <2>2, <3>1 DEF Effects
  <2>3. CASE v # w
    BY <1>6, <2>1, <2>3 DEF LoadEvent, TypeOK
  <2> QED BY <2>2, <2>3
<1>7. ASSUME NEW v \in Workers, NEW c \in batch[v], ProjectEvent(v, c)
      PROVE  /\ batch'[w] = batch[w]
             /\ \/ pc[w] = "success"
                \/ v = w /\ Current(w, c) /\ Effects(c.outbox_id) \subseteq graph'
  BY <1>7 DEF ProjectEvent, TypeOK
<1> QED BY <1>1, <1>2, <1>3, <1>4, <1>5, <1>6, <1>7, NextCases

LEMMA SuccessStep == TypeOK /\ SuccessProjected /\ [Next]_vars => SuccessProjected'
<1> SUFFICES ASSUME TypeOK, SuccessProjected, [Next]_vars,
                    NEW w \in Workers, NEW c \in batch'[w], pc'[w] = "success", Current(w, c)'
             PROVE  Effects(c.outbox_id) \subseteq graph'
  BY DEF SuccessProjected, Effects
<1>1. batch'[w] = batch[w] /\ c \in batch[w] /\ Current(w, c)
  BY SuccessChange DEF Current
<1>2. CASE pc[w] = "success"
  BY <1>1, <1>2, GraphGrows DEF SuccessProjected
<1>3. ASSUME NEW d \in batch[w], Current(w, d), Effects(d.outbox_id) \subseteq graph'
      PROVE  Effects(c.outbox_id) \subseteq graph'
  BY <1>1, <1>3, CurrentUnique
<1> QED BY <1>2, <1>3, SuccessChange

----------------------------------------------------------------------------
(* The safety properties.                                                  *)

LEMMA DeliveredStep ==
  TypeOK /\ SuccessProjected /\ DeliveredIsProjected /\ [Next]_vars => DeliveredIsProjected'
<1> SUFFICES ASSUME TypeOK, SuccessProjected, DeliveredIsProjected, [Next]_vars,
                    NEW r \in Rows, outbox'[r].status = "delivered"
             PROVE  Effects(r) \subseteq graph'
  BY DEF DeliveredIsProjected, Effects
<1>1. CASE outbox'[r] = outbox[r]
  BY <1>1, GraphGrows DEF DeliveredIsProjected
<1>2. CASE outbox'[r] # outbox[r]
  <2>1. PICK w \in Workers : \E c \in batch[w] : c.outbox_id = r /\ DeliveredBy(w, c)
    BY <1>2, RowChange DEF Appended, Taken, Released, FailedBy
  <2>2. PICK c \in batch[w] : c.outbox_id = r /\ DeliveredBy(w, c)
    BY <2>1
  <2>3. pc[w] = "success" /\ Current(w, c)
    BY <2>2 DEF DeliveredBy, FinalizeSuccess
  <2> QED BY <2>2, <2>3, GraphGrows DEF SuccessProjected
<1> QED BY <1>1, <1>2

\* A dead letter changes only together with its row.
LEMMA DeadLetterChange ==
  ASSUME TypeOK, [Next]_vars, NEW r \in Rows
  PROVE  \/ dead_letters'[r] = dead_letters[r] /\ outbox'[r] = outbox[r]
         \/ dead_letters'[r] = dead_letters[r]
            /\ (Appended(r) \/ \E w \in Workers : \/ Taken(w, r) \/ Released(w, r)
                                                  \/ \E c \in batch[w] : c.outbox_id = r /\ DeliveredBy(w, c))
         \/ \E w \in Workers : \E c \in batch[w] :
              /\ c.outbox_id = r /\ FailedBy(w, c)
              /\ dead_letters'[r] = IF c.retry_count + 1 >= MaxAttempts
                                    THEN c.retry_count + 1 ELSE dead_letters[r]
<1>1. ASSUME NEW w \in Workers, NEW c \in batch[w], FinalizeFailure(w, c)
      PROVE  \/ dead_letters'[r] = dead_letters[r] /\ outbox'[r] = outbox[r]
             \/ /\ c.outbox_id = r /\ FailedBy(w, c)
                /\ dead_letters'[r] = IF c.retry_count + 1 >= MaxAttempts
                                      THEN c.retry_count + 1 ELSE dead_letters[r]
  <2>1. CASE ~Fence(w, c) \/ c.outbox_id # r
    BY <1>1, <2>1 DEF FinalizeFailure, TypeOK
  <2>2. CASE Fence(w, c) /\ c.outbox_id = r
    <3>1. PICK t \in Clock : outbox'[r] = FailedRow(outbox[r], c, t)
      BY <1>1, <2>2 DEF FinalizeFailure, TypeOK
    <3>2. c \in ClaimedOutboxRow /\ t \in Time /\ outbox[r] \in OutboxRow
      BY DEF TypeOK, Clock
    <3>3. FailedBy(w, c)
      BY <1>1, <2>2, <3>1, <3>2, FailedRowType DEF FailedBy
    <3> QED BY <1>1, <2>2, <3>3 DEF FinalizeFailure, TypeOK
  <2> QED BY <2>1, <2>2
<1>2. ASSUME ~\E w \in Workers : \E c \in batch[w] : FinalizeFailure(w, c)
      PROVE  dead_letters' = dead_letters
  <2>1. CASE Tick \/ RebuildLock \/ RebuildUnlock \/ UNCHANGED vars
    BY <2>1 DEF Tick, RebuildLock, RebuildUnlock, vars
  <2>2. ASSUME NEW q \in Rows, Append(q) PROVE dead_letters' = dead_letters
    BY <2>2 DEF Append
  <2>3. ASSUME NEW v \in Workers,
               \/ Start(v) \/ EnterGuard(v) \/ AfterEmptyPoll(v) \/ ReleaseLeases(v)
               \/ Stop(v) \/ Abort(v) \/ Crash(v) \/ ClaimBatch(v)
        PROVE  dead_letters' = dead_letters
    BY <2>3 DEF Start, EnterGuard, AfterEmptyPoll, ReleaseLeases, Stop, Abort, Crash, ClaimBatch
  <2>4. ASSUME NEW v \in Workers, NEW c \in batch[v],
               LoadEvent(v, c) \/ ProjectEvent(v, c) \/ FinalizeSuccess(v, c)
        PROVE  dead_letters' = dead_letters
    BY <2>4 DEF LoadEvent, ProjectEvent, FinalizeSuccess
  <2> QED BY <1>2, <2>1, <2>2, <2>3, <2>4, NextCases
<1>3. CASE \E w \in Workers : \E c \in batch[w] : FinalizeFailure(w, c)
  BY <1>1, <1>3
<1>4. CASE ~\E w \in Workers : \E c \in batch[w] : FinalizeFailure(w, c)
  BY <1>2, <1>4, RowChange DEF FailedBy
<1> QED BY <1>3, <1>4

LEMMA DeadLetterStep ==
  TypeOK /\ SnapshotFresh /\ DeadLetterExact /\ [Next]_vars => DeadLetterExact'
<1> SUFFICES ASSUME TypeOK, SnapshotFresh, DeadLetterExact, [Next]_vars, NEW r \in Rows
             PROVE  IF outbox'[r].status = "dead_lettered"
                    THEN outbox'[r].retry_count = MaxAttempts /\ dead_letters'[r] = MaxAttempts
                    ELSE outbox'[r].retry_count < MaxAttempts /\ dead_letters'[r] = 0
  BY DEF DeadLetterExact
<1>1. IF outbox[r].status = "dead_lettered"
      THEN outbox[r].retry_count = MaxAttempts /\ dead_letters[r] = MaxAttempts
      ELSE outbox[r].retry_count < MaxAttempts /\ dead_letters[r] = 0
  BY DEF DeadLetterExact
<1>2. ASSUME NEW w \in Workers, NEW c \in batch[w], c.outbox_id = r, FailedBy(w, c),
             dead_letters'[r] = IF c.retry_count + 1 >= MaxAttempts
                                THEN c.retry_count + 1 ELSE dead_letters[r]
      PROVE  IF outbox'[r].status = "dead_lettered"
             THEN outbox'[r].retry_count = MaxAttempts /\ dead_letters'[r] = MaxAttempts
             ELSE outbox'[r].retry_count < MaxAttempts /\ dead_letters'[r] = 0
  <2>1. outbox[r].status = "leased" /\ outbox[r].retry_count = c.retry_count
    BY <1>2 DEF FailedBy, Fence, SnapshotFresh
  <2>2. c.retry_count \in Nat /\ MaxAttempts \in Nat
    BY RunnerAssumption DEF TypeOK, ClaimedOutboxRow
  <2> QED BY <1>1, <1>2, <2>1, <2>2 DEF FailedBy
<1>3. MaxAttempts > 0
  BY RunnerAssumption
<1> QED BY <1>1, <1>2, <1>3, DeadLetterChange DEF Appended, Taken, Released, DeliveredBy, Fence

LEMMA StopStep ==
  TypeOK /\ LeaseShape /\ NoLeaseOutlivesStop /\ [Next]_vars => NoLeaseOutlivesStop'
<1> SUFFICES ASSUME TypeOK, LeaseShape, NoLeaseOutlivesStop, [Next]_vars,
                    NEW w \in Workers, NEW r \in Rows, pc'[w] = "stopped"
             PROVE  outbox'[r].lease_owner # w
  BY DEF NoLeaseOutlivesStop
<1>1. pc[w] = "stopped" \/ ReleaseLeases(w)
  <2>1. CASE Tick \/ RebuildLock \/ RebuildUnlock \/ UNCHANGED vars
    BY <2>1 DEF Tick, RebuildLock, RebuildUnlock, vars
  <2>2. ASSUME NEW q \in Rows, Append(q) PROVE pc' = pc
    BY <2>2 DEF Append
  <2>3. ASSUME NEW v \in Workers,
               \/ Start(v) \/ EnterGuard(v) \/ AfterEmptyPoll(v)
               \/ Stop(v) \/ Abort(v) \/ Crash(v)
        PROVE  pc[w] = "stopped"
    BY <2>3 DEF Start, EnterGuard, AfterEmptyPoll, Stop, Abort, Crash, TypeOK
  <2>4. ASSUME NEW v \in Workers, ReleaseLeases(v) PROVE pc[w] = "stopped" \/ v = w
    BY <2>4 DEF ReleaseLeases, TypeOK
  <2>5. ASSUME NEW v \in Workers, ClaimBatch(v) PROVE pc[w] = "stopped"
    BY <2>5 DEF ClaimBatch, TypeOK
  <2>6. ASSUME NEW v \in Workers, NEW c \in batch[v],
               \/ LoadEvent(v, c) \/ ProjectEvent(v, c)
               \/ FinalizeSuccess(v, c) \/ FinalizeFailure(v, c)
        PROVE  pc[w] = "stopped"
    BY <2>6 DEF LoadEvent, ProjectEvent, FinalizeSuccess, FinalizeFailure, FinishRow, TypeOK
  <2> QED BY <2>1, <2>2, <2>3, <2>4, <2>5, <2>6, NextCases
<1>2. CASE ReleaseLeases(w)
  <2>1. CASE outbox[r].status = "leased" /\ outbox[r].lease_owner = w
    <3>1. outbox'[r] = Finalized(outbox[r], "pending")
      BY <1>2, <2>1 DEF ReleaseLeases
    <3>2. outbox'[r].lease_owner = NoWorker
      BY <3>1, FinalizedType DEF TypeOK, OutboxStatus
    <3> QED BY <3>2, WorkersAssumption
  <2>2. CASE ~(outbox[r].status = "leased" /\ outbox[r].lease_owner = w)
    <3>1. outbox'[r] = outbox[r]
      BY <1>2, <2>2 DEF ReleaseLeases
    <3> QED BY <2>2, <3>1, WorkersAssumption DEF LeaseShape
  <2> QED BY <2>1, <2>2
<1>3. CASE pc[w] = "stopped"
  <2>1. outbox[r].lease_owner # w
    BY <1>3 DEF NoLeaseOutlivesStop
  <2>2. ~ClaimBatch(w)
    BY <1>3 DEF ClaimBatch
  <2> QED BY <2>1, <2>2, RowChange, WorkersAssumption
          DEF Appended, Taken, Released, DeliveredBy, FailedBy
<1> QED BY <1>1, <1>2, <1>3

\* The set a checkpoint counts grows by one row exactly when the checkpoint
\* advances by that row.
LEMMA DeliveredChange ==
  ASSUME TypeOK, [Next]_vars, NEW p \in Projectors
  PROVE  \/ checkpoints'[p] = checkpoints[p] /\ Delivered(p)' = Delivered(p)
         \/ \E r \in Rows : /\ r \notin Delivered(p)
                            /\ Delivered(p)' = Delivered(p) \cup {r}
                            /\ checkpoints'[p] = Advance(checkpoints[p], r)
<1>1. ASSUME NEW w \in Workers, NEW c \in batch[w], FinalizeSuccess(w, c), Fence(w, c)
      PROVE  \/ checkpoints'[p] = checkpoints[p] /\ Delivered(p)' = Delivered(p)
             \/ /\ c.outbox_id \notin Delivered(p)
                /\ Delivered(p)' = Delivered(p) \cup {c.outbox_id}
                /\ checkpoints'[p] = Advance(checkpoints[p], c.outbox_id)
  <2> DEFINE r == c.outbox_id
  <2>1. r \in Rows
    BY DEF TypeOK, ClaimedOutboxRow
  <2>2. outbox'[r] = Finalized(outbox[r], "delivered") /\ outbox[r].status = "leased"
    BY <1>1, <2>1 DEF FinalizeSuccess, Fence, TypeOK
  <2>3. outbox'[r].status = "delivered"
    BY <2>1, <2>2, FinalizedType DEF TypeOK, OutboxStatus
  <2>4. \A q \in Rows : q # r => outbox'[q] = outbox[q]
    BY <1>1 DEF FinalizeSuccess, TypeOK
  <2>5. Delivered(p)' = IF p \in Handles[r] THEN Delivered(p) \cup {r} ELSE Delivered(p)
    BY <2>1, <2>2, <2>3, <2>4 DEF Delivered
  <2>6. r \notin Delivered(p)
    BY <2>2 DEF Delivered
  <2>7. checkpoints'[p] = IF p \in Handles[r] THEN Advance(checkpoints[p], r)
                                              ELSE checkpoints[p]
    BY <1>1 DEF FinalizeSuccess
  <2> QED BY <2>5, <2>6, <2>7
<1>2. ASSUME ~\E w \in Workers : \E c \in batch[w] : FinalizeSuccess(w, c) /\ Fence(w, c)
      PROVE  checkpoints'[p] = checkpoints[p] /\ Delivered(p)' = Delivered(p)
  <2>1. \A r \in Rows : outbox[r].status = "delivered" <=> outbox'[r].status = "delivered"
    BY <1>2, RowChange DEF Appended, Taken, Released, DeliveredBy, FailedBy, Fence
  <2>2. checkpoints' = checkpoints
    <3>1. CASE Tick \/ RebuildLock \/ RebuildUnlock \/ UNCHANGED vars
      BY <3>1 DEF Tick, RebuildLock, RebuildUnlock, vars
    <3>2. ASSUME NEW q \in Rows, Append(q) PROVE checkpoints' = checkpoints
      BY <3>2 DEF Append
    <3>3. ASSUME NEW v \in Workers,
                 \/ Start(v) \/ EnterGuard(v) \/ AfterEmptyPoll(v) \/ ReleaseLeases(v)
                 \/ Stop(v) \/ Abort(v) \/ Crash(v) \/ ClaimBatch(v)
          PROVE  checkpoints' = checkpoints
      BY <3>3 DEF Start, EnterGuard, AfterEmptyPoll, ReleaseLeases, Stop, Abort, Crash,
                  ClaimBatch
    <3>4. ASSUME NEW v \in Workers, NEW c \in batch[v],
                 \/ LoadEvent(v, c) \/ ProjectEvent(v, c)
                 \/ FinalizeSuccess(v, c) \/ FinalizeFailure(v, c)
          PROVE  checkpoints' = checkpoints
      BY <1>2, <3>4 DEF LoadEvent, ProjectEvent, FinalizeSuccess, FinalizeFailure
    <3> QED BY <3>1, <3>2, <3>3, <3>4, NextCases
  <2>3. Delivered(p)' = Delivered(p)
    BY <2>1 DEF Delivered
  <2> QED BY <2>2, <2>3
<1>3. CASE \E w \in Workers : \E c \in batch[w] : FinalizeSuccess(w, c) /\ Fence(w, c)
  <2>1. PICK w \in Workers : \E c \in batch[w] : FinalizeSuccess(w, c) /\ Fence(w, c)
    BY <1>3
  <2>2. PICK c \in batch[w] : FinalizeSuccess(w, c) /\ Fence(w, c)
    BY <2>1
  <2>3. c.outbox_id \in Rows
    BY DEF TypeOK, ClaimedOutboxRow
  <2> QED BY <1>1, <2>2, <2>3
<1> QED BY <1>2, <1>3

\* What Advance does to the books of a checkpoint that is not ahead of them.
LEMMA AdvanceBooks ==
  ASSUME NEW k \in Checkpoint, NEW r \in Rows,
         k.state = "absent" => k.processed_count = 0 /\ k.last_outbox_id = 0,
         k.last_event_id = k.last_outbox_id
  PROVE  /\ Advance(k, r).processed_count = k.processed_count + 1
         /\ Advance(k, r).last_outbox_id = Larger(k.last_outbox_id, r)
         /\ Advance(k, r).last_event_id = Advance(k, r).last_outbox_id
         /\ Advance(k, r).state # "absent"
<1>0. k.last_outbox_id \in Rows \cup {0} /\ k.processed_count \in Nat
  BY DEF Checkpoint
<1>1. r \in Nat /\ r > 0 /\ k.last_outbox_id \in Nat
  BY <1>0, RowType
<1>2. CASE k.state = "absent"
  BY <1>0, <1>1, <1>2 DEF Advance, Larger
<1>3. CASE k.state # "absent"
  <2> DEFINE a == [k EXCEPT !.last_outbox_id = Larger(@, r),
                            !.last_event_id = IF k.last_outbox_id = 0 \/ r >= k.last_outbox_id
                                              THEN r ELSE @,
                            !.processed_count = @ + 1]
  <2>1. Advance(k, r) = a
    BY <1>3 DEF Advance
  <2>2. /\ a.processed_count = k.processed_count + 1
        /\ a.last_outbox_id = Larger(k.last_outbox_id, r)
        /\ a.last_event_id = IF k.last_outbox_id = 0 \/ r >= k.last_outbox_id
                             THEN r ELSE k.last_event_id
        /\ a.state = k.state
    BY DEF Checkpoint
  <2>3. a.last_event_id = a.last_outbox_id
    BY <1>1, <2>2 DEF Larger
  <2> QED BY <1>3, <2>1, <2>2, <2>3
<1> QED BY <1>2, <1>3

LEMMA CheckpointStep ==
  TypeOK /\ CheckpointAbsent /\ CheckpointExact /\ [Next]_vars
    => CheckpointAbsent' /\ CheckpointExact'
<1> SUFFICES ASSUME TypeOK, CheckpointAbsent, CheckpointExact, [Next]_vars,
                    NEW p \in Projectors
             PROVE  /\ (checkpoints[p].state = "absent" => checkpoints[p].processed_count = 0)'
                    /\ checkpoints'[p].processed_count = Cardinality(Delivered(p)')
                    /\ checkpoints'[p].last_event_id = checkpoints'[p].last_outbox_id
                    /\ IF Delivered(p)' = {} THEN checkpoints'[p].last_outbox_id = 0
                       ELSE /\ checkpoints'[p].last_outbox_id \in Delivered(p)'
                            /\ \A r \in Delivered(p)' : r <= checkpoints'[p].last_outbox_id
  BY DEF CheckpointAbsent, CheckpointExact
<1> DEFINE k == checkpoints[p]
<1>1. /\ k.state = "absent" => k.processed_count = 0
      /\ k.processed_count = Cardinality(Delivered(p))
      /\ k.last_event_id = k.last_outbox_id
      /\ IF Delivered(p) = {} THEN k.last_outbox_id = 0
         ELSE /\ k.last_outbox_id \in Delivered(p)
              /\ \A r \in Delivered(p) : r <= k.last_outbox_id
  BY DEF CheckpointAbsent, CheckpointExact
<1>2. CASE checkpoints'[p] = checkpoints[p] /\ Delivered(p)' = Delivered(p)
  BY <1>1, <1>2
<1>3. ASSUME NEW r \in Rows, r \notin Delivered(p),
             Delivered(p)' = Delivered(p) \cup {r},
             checkpoints'[p] = Advance(k, r)
      PROVE  /\ (checkpoints[p].state = "absent" => checkpoints[p].processed_count = 0)'
             /\ checkpoints'[p].processed_count = Cardinality(Delivered(p)')
             /\ checkpoints'[p].last_event_id = checkpoints'[p].last_outbox_id
             /\ checkpoints'[p].last_outbox_id \in Delivered(p)'
             /\ \A q \in Delivered(p)' : q <= checkpoints'[p].last_outbox_id
  <2>1. IsFiniteSet(Delivered(p)) /\ Delivered(p) \subseteq Rows
    <3>1. Delivered(p) \subseteq Rows
      BY DEF Delivered
    <3>2. IsFiniteSet(Rows)
      BY RowsAssumption
    <3> QED BY <3>1, <3>2, FS_Subset
  <2>2. Cardinality(Delivered(p)') = Cardinality(Delivered(p)) + 1
    BY <1>3, <2>1, FS_AddElement
  <2>3. k.processed_count = 0 => Delivered(p) = {}
    BY <1>1, <2>1, FS_EmptySet
  <2>4. k \in Checkpoint
    BY DEF TypeOK
  <2>5. /\ checkpoints'[p].processed_count = k.processed_count + 1
        /\ checkpoints'[p].last_outbox_id = Larger(k.last_outbox_id, r)
        /\ checkpoints'[p].last_event_id = checkpoints'[p].last_outbox_id
        /\ checkpoints'[p].state # "absent"
    BY <1>1, <1>3, <2>3, <2>4, AdvanceBooks
  <2>6. /\ r \in Nat /\ r > 0
        /\ \A q \in Delivered(p) : q \in Nat
        /\ k.last_outbox_id \in Nat
    <3>1. k.last_outbox_id \in Rows \cup {0}
      BY <2>4 DEF Checkpoint
    <3> QED BY <2>1, <3>1, RowType
  <2>7. /\ Larger(k.last_outbox_id, r) \in Delivered(p) \cup {r}
        /\ \A q \in Delivered(p) \cup {r} : q <= Larger(k.last_outbox_id, r)
    BY <1>1, <2>6 DEF Larger
  <2> QED BY <1>1, <1>3, <2>2, <2>5, <2>7
<1> QED BY <1>2, <1>3, DeliveredChange

----------------------------------------------------------------------------
(* The theorems.                                                           *)

Safe ==
  /\ TypeOK /\ Inductive
  /\ DeliveredIsProjected /\ CheckpointExact /\ DeadLetterExact /\ NoLeaseOutlivesStop

LEMMA InitSafe == Init => Safe
<1> SUFFICES ASSUME Init PROVE Safe
  OBVIOUS
<1>1. \A r \in Rows : outbox[r] = NoRow /\ dead_letters[r] = 0
  BY DEF Init
<1>2. \A w \in Workers : batch[w] = {} /\ pc[w] = "off"
  BY DEF Init
<1>3. \A p \in Projectors : checkpoints[p] = NoCheckpoint
  BY DEF Init
<1>4. \A p \in Projectors : Delivered(p) = {}
  BY <1>1 DEF Delivered, NoRow
<1>5. CheckpointAbsent /\ CheckpointExact
  BY <1>3, <1>4, FS_EmptySet DEF CheckpointAbsent, CheckpointExact, NoCheckpoint
<1>6. LeaseShape /\ DeliveredIsProjected /\ NoLeaseOutlivesStop
  BY <1>1, <1>2, WorkersAssumption DEF LeaseShape, DeliveredIsProjected, NoLeaseOutlivesStop, NoRow
<1>7. BatchInGuard /\ LockExclusion /\ SnapshotFresh /\ SuccessProjected
  BY <1>2 DEF Init, BatchInGuard, LockExclusion, SnapshotFresh, SuccessProjected, InGuard
<1>8. DeadLetterExact
  BY <1>1, RunnerAssumption DEF DeadLetterExact, NoRow
<1> QED BY InitTypeOK, <1>5, <1>6, <1>7, <1>8 DEF Safe, Inductive

LEMMA SafeStep == Safe /\ [Next]_vars => Safe'
  BY TypeStep, LeaseShapeStep, GuardStep, SnapshotStep, SuccessStep, DeliveredStep,
     DeadLetterStep, StopStep, CheckpointStep
     DEF Safe, Inductive

LEMMA AlwaysSafe == Spec => []Safe
<1>1. Safe /\ [Next]_vars => Safe'
  BY SafeStep
<1> QED BY InitSafe, <1>1, PTL DEF Spec

\* A delivered row's effects are in the graph (_process_claimed_row commits to
\* the graph before _finalize_success), for every interleaving of workers.
THEOREM DeliveredProjected == Spec => []DeliveredIsProjected
<1>1. Safe => DeliveredIsProjected
  BY DEF Safe
<1> QED BY AlwaysSafe, <1>1, PTL

\* Checkpoints count and point exactly (CheckpointRepository.advance in the
\* transaction of the fenced update).
THEOREM CheckpointsExact == Spec => []CheckpointExact
<1>1. Safe => CheckpointExact
  BY DEF Safe
<1> QED BY AlwaysSafe, <1>1, PTL

\* Dead letters and the retry budget agree (_finalize_failure).
THEOREM DeadLettersExact == Spec => []DeadLetterExact
<1>1. Safe => DeadLetterExact
  BY DEF Safe
<1> QED BY AlwaysSafe, <1>1, PTL

\* No lease outlives an orderly end (release_leases).
THEOREM StoppedHoldsNoLease == Spec => []NoLeaseOutlivesStop
<1>1. Safe => NoLeaseOutlivesStop
  BY DEF Safe
<1> QED BY AlwaysSafe, <1>1, PTL

\* A rebuild that holds its lock meets no batch in hand (_shared_rebuild_lock).
THEOREM RebuildMeetsNoBatch == Spec => []RebuildExcludesBatches
<1>1. Safe => RebuildExcludesBatches
  BY DEF Safe, Inductive, RebuildExcludesBatches, BatchInGuard, LockExclusion, InGuard
<1> QED BY AlwaysSafe, <1>1, PTL

\* Leases are respected: fencing and expiry are the only ways out of one
\* (_fenced_update, _claim_batch, release_leases).
THEOREM LeasesRespected == Spec => LeaseRespected
<1>1. Safe /\ [Next]_vars => LeaseRespectedStep
  <2> SUFFICES ASSUME Safe, [Next]_vars, NEW r \in Rows, NEW w \in Workers,
                      outbox[r].lease_owner = w, outbox'[r] # outbox[r]
               PROVE  \/ pc'[w] # pc[w] \/ batch'[w] # batch[w]
                      \/ /\ outbox'[r].status = "leased" /\ outbox'[r].lease_owner # w
                         /\ outbox[r].lease_expires_at <= now + MaxSkew
    BY DEF LeaseRespectedStep
  <2> TypeOK /\ LeaseShape
    BY DEF Safe, Inductive
  <2>1. outbox[r].status = "leased"
    BY WorkersAssumption DEF LeaseShape
  <2>2. ASSUME NEW v \in Workers, Taken(v, r), v = w PROVE pc'[w] # pc[w]
    BY <2>2 DEF Taken, ClaimBatch, TypeOK
  <2>3. ASSUME NEW v \in Workers, Taken(v, r), v # w
        PROVE  /\ outbox'[r].status = "leased" /\ outbox'[r].lease_owner # w
               /\ outbox[r].lease_expires_at <= now + MaxSkew
    BY <2>1, <2>3 DEF Taken
  <2>4. ASSUME NEW v \in Workers, Released(v, r) PROVE pc'[w] # pc[w]
    BY <2>4 DEF Released, ReleaseLeases, TypeOK
  <2>5. ASSUME NEW v \in Workers, NEW c \in batch[v], c.outbox_id = r,
               DeliveredBy(v, c) \/ FailedBy(v, c)
        PROVE  batch'[w] # batch[w]
    <3>1. v = w /\ FinishRow(v, c)
      BY <2>5 DEF DeliveredBy, FailedBy, Fence, FinalizeSuccess, FinalizeFailure
    <3> QED BY <2>5, <3>1 DEF FinishRow, TypeOK
  <2>6. ~Appended(r)
    BY <2>1 DEF Appended
  <2> QED BY <2>2, <2>3, <2>4, <2>5, <2>6, RowChange
<1> QED BY AlwaysSafe, <1>1, PTL DEF Spec, LeaseRespected

\* Settled rows stay as they are and every attempt is counted once, although
\* the count is written from the snapshot of the claim (ClaimedOutboxRow).
THEOREM AttemptsCounted == Spec => AttemptsMonotone
<1>1. Safe /\ [Next]_vars => AttemptsStep
  <2> SUFFICES ASSUME Safe, [Next]_vars, NEW r \in Rows, outbox'[r] # outbox[r]
               PROVE  /\ outbox[r].status \notin {"delivered", "dead_lettered"}
                      /\ outbox'[r].retry_count # outbox[r].retry_count =>
                           outbox'[r].retry_count = outbox[r].retry_count + 1
    BY DEF AttemptsStep
  <2> TypeOK /\ LeaseShape /\ SnapshotFresh
    BY DEF Safe, Inductive
  <2>1. ASSUME NEW v \in Workers, NEW c \in batch[v], c.outbox_id = r, FailedBy(v, c)
        PROVE  /\ outbox[r].status = "leased"
               /\ outbox'[r].retry_count = outbox[r].retry_count + 1
    BY <2>1 DEF FailedBy, Fence, SnapshotFresh
  <2>2. Appended(r) => outbox'[r].retry_count = outbox[r].retry_count
    BY DEF Appended, LeaseShape
  <2> QED BY <2>1, <2>2, RowChange DEF Appended, Taken, Released, DeliveredBy, Fence
<1> QED BY AlwaysSafe, <1>1, PTL DEF Spec, AttemptsMonotone

----------------------------------------------------------------------------
(* The runtime implements Delivery.                                        *)

\* A step that settles nothing, queues nothing and projects nothing stutters.
LEMMA QuietStep ==
  ASSUME TypeOK, [Next]_vars, graph' = graph, checkpoints' = checkpoints,
         \A r \in Rows : outbox'[r] # outbox[r] =>
            /\ outbox[r].status \in {"pending", "leased"}
            /\ outbox'[r].status \in {"pending", "leased"}
  PROVE  UNCHANGED Abstract!vars
<1>1. /\ RowsIn({"pending", "leased"})' = RowsIn({"pending", "leased"})
      /\ RowsIn({"delivered"})' = RowsIn({"delivered"})
      /\ RowsIn({"dead_lettered"})' = RowsIn({"dead_lettered"})
  BY DEF RowsIn
<1> QED BY <1>1 DEF Abstract!vars

\* One row moves from one status to another and the others keep theirs.
LEMMA OneRowMoves ==
  ASSUME NEW r \in Rows, \A q \in Rows : q # r => outbox'[q] = outbox[q]
  PROVE  \A S : RowsIn(S)' = IF outbox'[r].status \in S THEN RowsIn(S) \cup {r}
                                                        ELSE RowsIn(S) \ {r}
  BY DEF RowsIn

LEMMA InitRefines == Init => Abstract!Init
<1> SUFFICES ASSUME Init PROVE Abstract!Init
  OBVIOUS
<1>1. \A r \in Rows : outbox[r] = NoRow
  BY DEF Init
<1>2. \A p \in Projectors : checkpoints[p] = NoCheckpoint
  BY DEF Init
<1>3. \A S : "absent" \notin S => RowsIn(S) = {}
  BY <1>1 DEF RowsIn, NoRow
<1>4. /\ RowsIn({"pending", "leased"}) = {} /\ RowsIn({"delivered"}) = {}
      /\ RowsIn({"dead_lettered"}) = {}
  BY <1>3
<1>5. /\ [p \in Projectors |-> checkpoints[p].processed_count] = [p \in Projectors |-> 0]
      /\ [p \in Projectors |-> checkpoints[p].last_outbox_id] = [p \in Projectors |-> 0]
  BY <1>2 DEF NoCheckpoint
<1> QED BY <1>4, <1>5 DEF Init, Abstract!Init

LEMMA StepRefines == Safe /\ [Next]_vars => [Abstract!Next]_(Abstract!vars)
<1> SUFFICES ASSUME Safe, [Next]_vars PROVE Abstract!Next \/ UNCHANGED Abstract!vars
  OBVIOUS
<1> TypeOK /\ LeaseShape /\ SnapshotFresh /\ SuccessProjected /\ CheckpointAbsent /\ CheckpointExact
  BY DEF Safe, Inductive
<1>1. CASE Tick \/ RebuildLock \/ RebuildUnlock \/ UNCHANGED vars
  BY <1>1, QuietStep DEF Tick, RebuildLock, RebuildUnlock, vars
<1>2. ASSUME NEW r \in Rows, Append(r) PROVE Abstract!Next
  <2>1. /\ outbox[r].status = "absent" /\ outbox'[r].status = "pending"
        /\ \A q \in Rows : q # r => outbox'[q] = outbox[q]
        /\ graph' = graph /\ checkpoints' = checkpoints
    BY <1>2, NoRowType DEF Append, TypeOK, OutboxRow
  <2>2. \A S : RowsIn(S)' = IF "pending" \in S THEN RowsIn(S) \cup {r} ELSE RowsIn(S) \ {r}
    BY <2>1, OneRowMoves
  <2>3. \A S : "absent" \notin S => r \notin RowsIn(S)
    BY <2>1 DEF RowsIn
  <2>4. r \notin Abstract!Known
    BY <2>3 DEF Abstract!Known
  <2>5. /\ RowsIn({"pending", "leased"})' = RowsIn({"pending", "leased"}) \cup {r}
        /\ RowsIn({"delivered"})' = RowsIn({"delivered"})
        /\ RowsIn({"dead_lettered"})' = RowsIn({"dead_lettered"})
    BY <2>2, <2>3
  <2>6. Abstract!Enqueue(r)
    BY <2>1, <2>4, <2>5 DEF Abstract!Enqueue
  <2> QED BY <2>6 DEF Abstract!Next
<1>3. ASSUME NEW w \in Workers,
             \/ Start(w) \/ EnterGuard(w) \/ AfterEmptyPoll(w)
             \/ Stop(w) \/ Abort(w) \/ Crash(w)
      PROVE  UNCHANGED Abstract!vars
  BY <1>3, QuietStep DEF Start, EnterGuard, AfterEmptyPoll, Stop, Abort, Crash
<1>4. ASSUME NEW w \in Workers, ClaimBatch(w) PROVE UNCHANGED Abstract!vars
  <2>1. graph' = graph /\ checkpoints' = checkpoints
    BY <1>4 DEF ClaimBatch
  <2> QED BY <1>4, <2>1, ClaimChange, QuietStep DEF Taken
<1>5. ASSUME NEW w \in Workers, ReleaseLeases(w) PROVE UNCHANGED Abstract!vars
  <2>1. graph' = graph /\ checkpoints' = checkpoints
    BY <1>5 DEF ReleaseLeases
  <2>2. \A r \in Rows : outbox'[r] # outbox[r] =>
          outbox[r].status = "leased" /\ outbox'[r] = Finalized(outbox[r], "pending")
    BY <1>5 DEF ReleaseLeases
  <2>3. \A r \in Rows : Finalized(outbox[r], "pending").status = "pending"
    BY FinalizedType DEF TypeOK, OutboxStatus
  <2> QED BY <2>1, <2>2, <2>3, QuietStep
<1>6. ASSUME NEW w \in Workers, NEW c \in batch[w], LoadEvent(w, c)
      PROVE  UNCHANGED Abstract!vars
  BY <1>6, QuietStep DEF LoadEvent
<1>7. ASSUME NEW w \in Workers, NEW c \in batch[w], ProjectEvent(w, c)
      PROVE  Abstract!Next \/ UNCHANGED Abstract!vars
  <2>1. outbox' = outbox /\ checkpoints' = checkpoints
    BY <1>7 DEF ProjectEvent
  <2>2. CASE graph' = graph
    BY <2>1, <2>2, QuietStep
  <2>3. CASE graph' = graph \cup Effects(c.outbox_id)
    <3>1. c.outbox_id \in Rows /\ outbox[c.outbox_id].status # "absent"
      BY DEF TypeOK, ClaimedOutboxRow, SnapshotFresh
    <3>2. outbox[c.outbox_id].status \in OutboxStatus
      BY <3>1 DEF TypeOK, OutboxRow
    <3>3. c.outbox_id \in Abstract!Known
      BY <3>1, <3>2 DEF Abstract!Known, RowsIn, OutboxStatus
    <3>4. \A S : RowsIn(S)' = RowsIn(S)
      BY <2>1 DEF RowsIn
    <3>5. Abstract!Apply(c.outbox_id)
      BY <2>1, <2>3, <3>3, <3>4 DEF Abstract!Apply, Effects
    <3> QED BY <3>1, <3>5 DEF Abstract!Next
  <2> QED BY <1>7, <2>2, <2>3 DEF ProjectEvent
<1>8. ASSUME NEW w \in Workers, NEW c \in batch[w], FinalizeSuccess(w, c)
      PROVE  Abstract!Next \/ UNCHANGED Abstract!vars
  <2> DEFINE r == c.outbox_id
  <2>1. r \in Rows /\ graph' = graph
    BY <1>8 DEF TypeOK, ClaimedOutboxRow, FinalizeSuccess
  <2>2. CASE ~Fence(w, c)
    BY <1>8, <2>1, <2>2, QuietStep DEF FinalizeSuccess
  <2>3. CASE Fence(w, c)
    <3>1. /\ outbox[r].status = "leased"
          /\ outbox'[r] = Finalized(outbox[r], "delivered")
          /\ \A q \in Rows : q # r => outbox'[q] = outbox[q]
      BY <1>8, <2>1, <2>3 DEF FinalizeSuccess, Fence, TypeOK
    <3>2. outbox'[r].status = "delivered"
      BY <2>1, <3>1, FinalizedType DEF TypeOK, OutboxStatus
    <3>3. \A S : RowsIn(S)' = IF "delivered" \in S THEN RowsIn(S) \cup {r} ELSE RowsIn(S) \ {r}
      BY <2>1, <3>1, <3>2, OneRowMoves
    <3>4. r \in RowsIn({"pending", "leased"}) /\ r \notin RowsIn({"dead_lettered"})
      BY <2>1, <3>1 DEF RowsIn
    <3>5. Effects(r) \subseteq graph
      BY <1>8 DEF FinalizeSuccess, SuccessProjected
    <3>6. \A p \in Projectors :
            /\ checkpoints'[p].processed_count =
                 IF p \in Handles[r] THEN checkpoints[p].processed_count + 1
                                     ELSE checkpoints[p].processed_count
            /\ checkpoints'[p].last_outbox_id =
                 IF p \in Handles[r] /\ r > checkpoints[p].last_outbox_id
                 THEN r ELSE checkpoints[p].last_outbox_id
      <4> SUFFICES ASSUME NEW p \in Projectors
                   PROVE  /\ checkpoints'[p].processed_count =
                               IF p \in Handles[r] THEN checkpoints[p].processed_count + 1
                                                   ELSE checkpoints[p].processed_count
                          /\ checkpoints'[p].last_outbox_id =
                               IF p \in Handles[r] /\ r > checkpoints[p].last_outbox_id
                               THEN r ELSE checkpoints[p].last_outbox_id
        OBVIOUS
      <4> DEFINE k == checkpoints[p]
      <4>1. checkpoints'[p] = IF p \in Handles[r] THEN Advance(k, r) ELSE k
        BY <1>8, <2>3 DEF FinalizeSuccess
      <4>2. k \in Checkpoint /\ k.last_event_id = k.last_outbox_id
        BY DEF TypeOK, CheckpointExact
      <4>3. k.state = "absent" => k.processed_count = 0 /\ k.last_outbox_id = 0
        <5>1. k.processed_count = Cardinality(Delivered(p))
              /\ (Delivered(p) = {} => k.last_outbox_id = 0)
          BY DEF CheckpointExact
        <5>2. IsFiniteSet(Delivered(p))
          <6>1. Delivered(p) \subseteq Rows
            BY DEF Delivered
          <6>2. IsFiniteSet(Rows)
            BY RowsAssumption
          <6> QED BY <6>1, <6>2, FS_Subset
        <5>3. k.processed_count = 0 => Delivered(p) = {}
          BY <5>1, <5>2, FS_EmptySet
        <5> QED BY <5>1, <5>3 DEF CheckpointAbsent
      <4>4. /\ Advance(k, r).processed_count = k.processed_count + 1
            /\ Advance(k, r).last_outbox_id = Larger(k.last_outbox_id, r)
        BY <2>1, <4>2, <4>3, AdvanceBooks
      <4>5. k.last_outbox_id \in Nat /\ r \in Nat
        <5>1. k.last_outbox_id \in Rows \cup {0}
          BY <4>2 DEF Checkpoint
        <5> QED BY <2>1, <5>1, RowType
      <4> QED BY <4>1, <4>4, <4>5 DEF Larger
    <3>7. Abstract!Deliver(r)
      <4>1. /\ RowsIn({"pending", "leased"})' = RowsIn({"pending", "leased"}) \ {r}
            /\ RowsIn({"delivered"})' = RowsIn({"delivered"}) \cup {r}
            /\ RowsIn({"dead_lettered"})' = RowsIn({"dead_lettered"})
        BY <3>3, <3>4
      <4> QED BY <2>1, <3>4, <3>5, <3>6, <4>1 DEF Abstract!Deliver, Effects
    <3> QED BY <2>1, <3>7 DEF Abstract!Next
  <2> QED BY <2>2, <2>3
<1>9. ASSUME NEW w \in Workers, NEW c \in batch[w], FinalizeFailure(w, c)
      PROVE  Abstract!Next \/ UNCHANGED Abstract!vars
  <2> DEFINE r == c.outbox_id
  <2>1. r \in Rows /\ graph' = graph /\ checkpoints' = checkpoints
    BY <1>9 DEF TypeOK, ClaimedOutboxRow, FinalizeFailure
  <2>2. CASE outbox' = outbox
    BY <2>1, <2>2, QuietStep
  <2>3. CASE Fence(w, c)
    <3>1. PICK t \in Clock :
            /\ outbox[r].status = "leased"
            /\ outbox'[r] = FailedRow(outbox[r], c, t)
            /\ \A q \in Rows : q # r => outbox'[q] = outbox[q]
      BY <1>9, <2>1, <2>3 DEF FinalizeFailure, Fence, TypeOK
    <3>2. c \in ClaimedOutboxRow /\ t \in Time /\ outbox[r] \in OutboxRow
      BY <2>1 DEF TypeOK, Clock
    <3>3. outbox'[r].status \in {"pending", "dead_lettered"}
      BY <3>1, <3>2, FailedRowType
    <3>4. CASE outbox'[r].status = "pending"
      BY <2>1, <3>1, <3>4, QuietStep
    <3>5. CASE outbox'[r].status = "dead_lettered"
      <4>1. \A S : RowsIn(S)' = IF "dead_lettered" \in S THEN RowsIn(S) \cup {r}
                                                         ELSE RowsIn(S) \ {r}
        BY <2>1, <3>1, <3>5, OneRowMoves
      <4>2. r \in RowsIn({"pending", "leased"}) /\ r \notin RowsIn({"delivered"})
        BY <2>1, <3>1 DEF RowsIn
      <4>3. /\ RowsIn({"pending", "leased"})' = RowsIn({"pending", "leased"}) \ {r}
            /\ RowsIn({"delivered"})' = RowsIn({"delivered"})
            /\ RowsIn({"dead_lettered"})' = RowsIn({"dead_lettered"}) \cup {r}
        BY <4>1, <4>2
      <4>4. Abstract!GiveUp(r)
        BY <2>1, <4>2, <4>3 DEF Abstract!GiveUp
      <4> QED BY <2>1, <4>4 DEF Abstract!Next
    <3> QED BY <3>3, <3>4, <3>5
  <2> QED BY <1>9, <2>2, <2>3 DEF FinalizeFailure
<1> QED BY <1>1, <1>2, <1>3, <1>4, <1>5, <1>6, <1>7, <1>8, <1>9, NextCases

\* Workers, leases, clocks, retries and crashes together do what Delivery
\* promises of the outbox.
THEOREM RuntimeImplementsDelivery == Spec => ImplementsDelivery
<1>1. Safe /\ [Next]_vars => [Abstract!Next]_(Abstract!vars)
  BY StepRefines
<1> QED BY InitRefines, AlwaysSafe, <1>1, PTL DEF Spec, ImplementsDelivery, Abstract!Spec

=============================================================================
