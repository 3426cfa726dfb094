----------------------------- MODULE MCLiveness -----------------------------
(***************************************************************************)
(* What must eventually happen, for small instances of the components      *)
(* whose progress depends on others. A behaviour runs one part from its    *)
(* initial states to the end; the slots v1, v2, ... are the variables of   *)
(* that part, and a slot it does not use stays Unused.                     *)
(***************************************************************************)
EXTENDS Integers, Sequences, FiniteSets, TLC

CONSTANTS None, Nobody, NoMarker, NoDigest, NoScope, NoEvent, Unused

VARIABLES part, v1, v2, v3, v4, v5, v6, v7, v8, v9, v10, v11, v12, v13, v14, v15, v16

vars == <<part, v1, v2, v3, v4, v5, v6, v7, v8, v9, v10, v11, v12, v13, v14, v15, v16>>

D(id, key, stream, body) == [id |-> id, key |-> key, stream |-> stream, body |-> body]
\* The second batch repeats the first in another order, one of its drafts under a fresh id.
SharedDrafts == <<<<D(1, 1, 1, 7), D(2, 2, 2, 8)>>, <<D(2, 2, 2, 8), D(3, 1, 1, 7)>>>>

SearchEvents == <<[purges |-> {}, refs |-> 1 :> "x", scope |-> "s"],
                  [purges |-> {}, refs |-> 1 :> "x" @@ 2 :> "y", scope |-> "s"],
                  [purges |-> {1, 2}, refs |-> <<>>, scope |-> NoScope]>>

Rec(k, b) == [origin |-> "client", event |-> "start", time |-> "past", valid |-> TRUE,
              key |-> k, body |-> b, stream |-> k % 2]
SpanOf(records) == [resource |-> "codex", scope |-> "client", origin |-> "client",
                    over |-> FALSE, records |-> records]
\* The second export conflicts with the first under two of its keys.
Exports == <<[refused |-> FALSE, spans |-> <<SpanOf(<<Rec(1, 1), Rec(2, 1)>>), SpanOf(<<Rec(3, 1), Rec(2, 1)>>)>>],
             [refused |-> FALSE, spans |-> <<SpanOf(<<Rec(1, 2)>>), SpanOf(<<Rec(3, 2)>>), SpanOf(<<Rec(2, 1)>>)>>]>>

-----------------------------------------------------------------------------
Content == INSTANCE ContentStore WITH
  now <- v1, objects <- v2, catalog <- v3, committed <- v4, locks <- v5, pc <- v6, at <- v7,
  todo <- v8, stored <- v9, inserted <- v10, begun <- v11, sweep <- v12, listing <- v13,
  alarms <- v14, failures <- v15, lost <- v16, Requests <- 1..2, Sweepers <- {3},
  ObjectDigests <- {1}, InlineDigests <- {3}, Wants <- <<{1, 3}, {1}>>,
  WriteMode <- [q \in 1..2 |-> "content_addressed"], MinAge <- 1, MaxTime <- 3,
  MaxFailures <- 1, MaxLostSessions <- 0
Appending == INSTANCE Ledger WITH
  streams <- v1, events <- v2, stream_lock <- v3, key_lock <- v4, pc <- v5, stream_state <- v6,
  fresh <- v7, results <- v8, answers <- v9, failures <- v10, quarantines <- v11,
  Batches <- 1..2, Streams <- {1, 2}, Drafts <- SharedDrafts, LockKey <- <<2, 1, 2>>,
  MaxFailures <- 1, MaxQuarantines <- 1
Rebuilding == INSTANCE Rebuild WITH
  outbox <- v1, checkpoints <- v2, graph <- v3, marker <- v4, worker <- v5, rebuild <- v6,
  shared <- v7, exclusive <- v8, failures <- v9, lost_locks <- v10, Rows <- 1..2,
  Handled <- 1..2, Versions <- {"v1"}, Workers <- {"w1"}, Rebuilds <- {1},
  Modes <- {"in_place", "standby_wipe"}, PageSize <- 2, WipeLimit <- 1, StopFirst <- FALSE,
  KeepStopped <- FALSE, MaxFailures <- 0, MaxLostLocks <- 0
Search == INSTANCE SearchIndex WITH
  status <- v1, attempts <- v2, crashes <- v3, docs <- v4, tomb <- v5, nodes <- v6,
  standby <- v7, lost <- v8, w <- v9, r <- v10, Events <- SearchEvents, Workers <- 1..2,
  Contents <- 1..2, Blank <- {}, Embeds <- TRUE, MaxAttempts <- 2, MaxCrashes <- 0,
  MaxLost <- 0, Modes <- {}
Gate == INSTANCE DecodeGate WITH
  pc <- v1, admitted <- v2, byProducer <- v3, turns <- v4, lock <- v5, holder <- v6,
  slots <- v7, cancels <- v8, Requests <- 1..3, Producers <- {"p", "q"},
  ProducerOf <- <<"p", "p", "q">>, Workers <- 1, QueueDepth <- 2, PerProducer <- 2,
  MaxCancels <- 1
Export == INSTANCE OtlpExport WITH
  pc <- v1, pending <- v2, rejected <- v3, attempts <- v4, blame <- v5, stored <- v6,
  quarantined <- v7, failures <- v8, quarantines <- v9, Requests <- 1..2, ExportOf <- Exports,
  Keys <- 1..3, Streams <- {0, 1}, MaxAttempts <- 3, MaxDrafts <- 4, MaxFailures <- 1,
  MaxQuarantines <- 0
Access == INSTANCE McpAccess WITH
  now <- v1, revokedAt <- v2, cache <- v3, pc <- v4, row <- v5, readAt <- v6, servedAt <- v7,
  pending <- v8, slots <- v9, threads <- v10, audits <- v11, cancels <- v12, failures <- v13,
  Requests <- 1..3, TokenOf <- <<"a", "a", "a">>, Tokens <- {"a"}, Cached <- FALSE,
  Unknown <- "nobody", Scoped <- {"a"}, ExpiresAt <- [a |-> 9], Never <- 99, Ttl <- 2,
  MaxEntries <- 1, MaxConcurrency <- 1, MaxQueueDepth <- 2, MaxTime <- 0, MaxCancels <- 1,
  MaxFailures <- 0
Migrations == INSTANCE Migrate WITH
  db <- v1, ran <- v2, lock <- v3, pc <- v4, before <- v5, work <- v6, report <- v7,
  faults <- v8, Jobs <- 1..3, HeadOf <- <<2, 3, 3>>, Expected <- {1, 2}, Empty <- 1,
  MaxFaults <- 1
Ready == INSTANCE Readiness WITH
  now <- v1, up <- v2, inFlight <- v3, started <- v4, task <- v5, seen <- v6, orphans <- v7,
  joined <- v8, arrived <- v9, answer <- v10, Requests <- 3..4, Probes <- 1..2,
  Checks <- {"pg"}, Timeout <- 1, Lag <- 0, MaxAbandoned <- 1, MaxTime <- 2
Parse == INSTANCE ParsePlan WITH
  size <- v1, nature <- v2, todo <- v3, solo <- v4, out <- v5, retries <- v6, runs <- v7,
  exhausted <- v8, phase <- v9, Lengths <- {1},
  Natures <- {"good", "kills", "flaky", "heavy", "hopeless"}, NumFiles <- 3,
  MaxSourceBytes <- 3, Budget <- 4, MaxInputFiles <- 3, MaxBisection <- 2
Ingest == INSTANCE IndexIngest WITH
  ledger <- v1, pc <- v2, target <- v3, good <- v4, fresh <- v5, crashes <- v6, whole <- v7,
  Indexers <- 1..2, Targets <- {"s", "t"}, Files <- {"f"}, BatchSize <- 4, MaxCrashes <- 1

\* What the modules assume of their constants.
ASSUME ConstantsLegal == Content!DigestsAssumption /\ Content!ActorsAssumption /\
         Content!WantsAssumption /\ Content!StoreAssumption /\
         Content!ContentBoundsAssumption /\ Appending!StreamsAssumption /\
         Appending!BatchesAssumption /\ Appending!DraftsAssumption /\
         Appending!LockKeyAssumption /\ Appending!LedgerBoundsAssumption /\
         Rebuilding!RowsAssumption /\ Rebuilding!ProcessAssumption /\
         Rebuilding!ModesAssumption /\ Rebuilding!SizesAssumption /\
         Rebuilding!OperatorAssumption /\ Rebuilding!BoundsAssumption /\
         Search!SearchAssumption /\ Gate!GateAssumption /\ Export!ExportAssumption /\
         Access!AccessAssumption /\ Migrations!MigrateAssumption /\ Ready!ReadinessAssumption /\
         Parse!PlanAssumption /\ Ingest!IngestAssumption

Rest13 == <<v14, v15, v16>>
Idle13 == v14 = Unused /\ v15 = Unused /\ v16 = Unused
Rest11 == <<v12, v13, Rest13>>
Idle11 == v12 = Unused /\ v13 = Unused /\ Idle13
Rest10 == <<v11, Rest11>>
Idle10 == v11 = Unused /\ Idle11
Rest9 == <<v10, Rest10>>
Idle9 == v10 = Unused /\ Idle10
Rest8 == <<v9, Rest9>>
Idle8 == v9 = Unused /\ Idle9
Rest7 == <<v8, Rest8>>
Idle7 == v8 = Unused /\ Idle8

Init ==
  \/ part = "content" /\ Content!Init
  \/ part = "ledger" /\ Appending!Init /\ Idle11
  \/ part = "rebuild" /\ Rebuilding!Init /\ Idle10
  \/ part = "search" /\ Search!Init /\ Idle10
  \/ part = "gate" /\ Gate!Init /\ Idle8
  \/ part = "otlp" /\ Export!Init /\ Idle9
  \/ part = "access" /\ Access!Init /\ Idle13
  \/ part = "migrate" /\ Migrations!Init /\ Idle8
  \/ part = "ready" /\ Ready!Init /\ Idle10
  \/ part = "parse" /\ Parse!Init /\ Idle9
  \/ part = "ingest" /\ Ingest!Init /\ Idle7

ContentNext == part = "content" /\ Content!Next /\ UNCHANGED part
AppendingNext == part = "ledger" /\ Appending!Next /\ UNCHANGED <<part, Rest11>>
RebuildingNext == part = "rebuild" /\ Rebuilding!Next /\ UNCHANGED <<part, Rest10>>
SearchNext == part = "search" /\ Search!Next /\ UNCHANGED <<part, Rest10>>
GateNext == part = "gate" /\ Gate!Next /\ UNCHANGED <<part, Rest8>>
ExportNext == part = "otlp" /\ Export!Next /\ UNCHANGED <<part, Rest9>>
AccessNext == part = "access" /\ Access!Next /\ UNCHANGED <<part, Rest13>>
MigrationsNext == part = "migrate" /\ Migrations!Next /\ UNCHANGED <<part, Rest8>>
ReadyNext == part = "ready" /\ Ready!Next /\ UNCHANGED <<part, Rest10>>
ParseNext == part = "parse" /\ Parse!Next /\ UNCHANGED <<part, Rest9>>
IngestNext == part = "ingest" /\ Ingest!Next /\ UNCHANGED <<part, Rest7>>

Next == ContentNext \/ AppendingNext \/ RebuildingNext \/ SearchNext \/ GateNext \/
        ExportNext \/ AccessNext \/ MigrationsNext \/ ReadyNext \/ ParseNext \/ IngestNext

Spec == Init /\ [][Next]_vars

\* The fairness of each part, as its module states and justifies it.  The
\* actors of a part are numbered; an actor that waits for a lock or a slot is
\* at one wait at a time, and gets what comes free again and again.
Keep ==
  /\ UNCHANGED part
  /\ (v5 = Unused => v5' = Unused) /\ (v6 = Unused => v6' = Unused) /\ (v7 = Unused => v7' = Unused)
  /\ (v8 = Unused => v8' = Unused) /\ (v9 = Unused => v9' = Unused) /\ (v10 = Unused => v10' = Unused)
  /\ (v11 = Unused => v11' = Unused) /\ (v12 = Unused => v12' = Unused) /\ (v13 = Unused => v13' = Unused)
  /\ (v14 = Unused => v14' = Unused) /\ (v15 = Unused => v15' = Unused) /\ (v16 = Unused => v16' = Unused)

WeakStep(k) ==
  \/ part = "content" /\ ((k \in 1..2 /\ (Content!PrepareStep(k) \/ Content!AttachStep(k))) \/ (k = 3 /\ Content!SweepStep(k)))
  \/ part = "ledger" /\ k \in 1..2 /\ Appending!BatchStep(k)
  \/ part = "rebuild" /\ k = 1 /\ Rebuilding!RebuildStep(k)
  \/ part = "search" /\ ((k \in 1..2 /\ Search!Working(k)) \/ (k = 3 /\ \E i \in 1..2, e \in 1..3 : Search!Claim(i, e)))
  \/ part = "gate" /\ k \in 1..3 /\ (Gate!StartThread(k) \/ Gate!Disconnected(k) \/ Gate!ThreadDone(k))
  \/ part = "otlp" /\ k \in 1..2 /\ (\/ Export!Refuse(k) \/ Export!Map(k) \/ Export!SendAgain(k)
                                     \/ Export!Accept(k) \/ Export!Blame(k) \/ Export!Resolve(k))
  \/ part = "access" /\ k \in 1..3 /\ (Access!Lookup(k) \/ Access!LookupFails(k) \/ Access!Decide(k))
  \/ part = "migrate" /\ k \in 1..3 /\ Migrations!Step(k)
  \/ part = "ready" /\ \/ k \in 1..2 /\ Ready!TimesOut(k, "pg")
                       \/ k \in 3..4 /\ Ready!Respond(k)
                       \/ k = 5 /\ Ready!Tick
  \/ part = "parse" /\ k = 1 /\ Parse!Progress
  \/ part = "ingest" /\ k \in 1..2 /\ (Ingest!Check(k) \/ Ingest!Submit(k) \/ Ingest!Report(k) \/ Ingest!Restart(k))

StrongStep(k) ==
  \/ part = "content" /\ \/ k \in 1..2 /\ \E d \in {1, 3} : Content!LockDigest(k, d) \/ Content!AttachInline(k, d)
                         \/ k = 3 /\ Content!SweepLock(k, 1)
  \/ part = "ledger" /\ k \in 1..2 /\ \/ \E s \in {1, 2} : Appending!LockStream(k, s) \/ Appending!StreamQuarantined(k, s)
                                       \/ \E l \in Appending!LockKeys : Appending!LockIdempotencyKey(k, l)
  \/ part = "gate" /\ (Gate!TakeTurn(k) \/ Gate!TakeSlot(k))
  \/ part = "access" /\ Access!TakeSlot(k)

Weak(k) == WeakStep(k) /\ Keep
Strong(k) == StrongStep(k) /\ Keep

FairSpec == Spec /\ (\A k \in 1..5 : WF_vars(Weak(k))) /\ (\A k \in 1..3 : SF_vars(Strong(k)))

-----------------------------------------------------------------------------
(***************************************************************************)
(* What the k-th actor of a part has begun, and how that ends.  The parts  *)
(* never mix (Next keeps part), so one formula per actor states the        *)
(* liveness property that each module states of its own actors, under the  *)
(* name given with it.                                                     *)
(***************************************************************************)

Begun(k) ==
  \/ part = "content" /\ k \in 1..2 /\ Content!Begun(k)
  \/ part = "ledger" /\ k \in 1..2 /\ Appending!Sent(k)
  \/ part = "rebuild" /\ k = 1 /\ Rebuilding!Running(k)
  \/ part = "gate" /\ k \in 1..3 /\ Gate!Waits(k)
  \/ part = "otlp" /\ k \in 1..2 /\ Export!Received(k)
  \/ part = "access" /\ k \in 1..3 /\ Access!Waits(k)
  \/ part = "ready" /\ k \in 1..2 /\ Ready!Waits(k + 2)
  \/ part = "ingest" /\ k \in 1..2 /\ Ingest!Started(k)

Ended(k) ==
  \* A request that began to store its contents commits them, although others
  \* and a sweep hold their locks (BatchStored).
  /\ part = "content" /\ k \in 1..2 => Content!Stored(k)
  \* A batch that began is answered or rejected: the ordered row and key locks
  \* never starve it (BatchAnswered).
  /\ part = "ledger" /\ k \in 1..2 => Appending!Replied(k)
  \* Every rebuild ends and gives the lock back, beside a ledger that grows
  \* (RebuildEnds).
  /\ part = "rebuild" /\ k = 1 => ~Rebuilding!Running(k)
  \* A request the decode gate admitted leaves it, although others are
  \* cancelled (AdmittedLeaves).
  /\ part = "gate" /\ k \in 1..3 => Gate!Left(k)
  \* The resubmission of an export without its offenders ends in an answer
  \* (ExportEnds).
  /\ part = "otlp" /\ k \in 1..2 => Export!Replied(k)
  \* A request admitted to the password check leaves it (AdmittedEnds).
  /\ part = "access" /\ k \in 1..3 => Access!Checked(k)
  \* Every readiness request whose client stays is answered, although checks
  \* hang (Answered).
  /\ part = "ready" /\ k \in 1..2 => Ready!Replied(k + 2)
  \* An indexing run that is repeated after failures reports in the end
  \* (EveryRunReports).
  /\ part = "ingest" /\ k \in 1..2 => Ingest!Reported(k)

Settles ==
  \* Index and purge of overlapping contents never wait for each other forever
  \* (EventsSettle).
  /\ part = "search" => Search!Settled
  \* The parse of a corpus ends, whatever its files do to their parser
  \* (ParseEnds).
  /\ part = "parse" => Parse!Over

(***************************************************************************)
(* All of it: what is begun ends, in every component, and every migration  *)
(* job ends with the advisory lock free for good (run_migrations).         *)
(***************************************************************************)
Progress ==
  /\ \A k \in 1..3 : Begun(k) ~> Ended(k)
  /\ <>Settles
  /\ <>[](part = "migrate" => Migrations!AllOver)

=============================================================================
