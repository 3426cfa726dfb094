---------------------------- MODULE ContentStore ----------------------------
(***************************************************************************)
(* The content store: an ingest request uploads its content to object      *)
(* storage (prepare), then records it in the catalog inside the ledger     *)
(* transaction (attach), while orphan sweeps delete old objects nobody     *)
(* references.  The two meet on one advisory lock per digest.              *)
(*                                                                         *)
(* Sources: content/service.py (ContentService), content/blob_store.py     *)
(* (S3BlobStore), content/orphans.py (OrphanSweeper) and the transaction   *)
(* of ledger/service.py (IngestionService.ingest, _commit).                *)
(*                                                                         *)
(* One step is one S3 call or one SQL statement.  Content is its digest: a *)
(* positive number, so that digests sort.  A digest is stored inline or as *)
(* an object by its size, so always the same way.                          *)
(***************************************************************************)
EXTENDS Integers, FiniteSets, FiniteSetTheorems, WellFoundedInduction, TLAPS

CONSTANTS
  Requests,         \* ingest requests; a retried batch is the same request
  Sweepers,         \* orphan sweep jobs; a job sweeps again and again
  Nobody,           \* no holder of a digest lock
  ObjectDigests,    \* digests of content over the inline threshold
  InlineDigests,    \* digests of the content below it
  Wants,            \* Wants[q]: the digests of the batch of q
  WriteMode,        \* S3Settings.write_mode of the process that serves a request
  MinAge,           \* OrphanSweeper min_age
  MaxTime,          \* bound: the last instant the clock reaches
  MaxFailures,      \* bound: transient failures and lost responses, in all
  MaxLostSessions   \* bound: sweeps whose database session dies mid-delete

Digests == ObjectDigests \cup InlineDigests

ASSUME DigestsAssumption == /\ Digests \subseteq Nat \ {0} /\ IsFiniteSet(Digests)
                            /\ ObjectDigests \cap InlineDigests = {}
ASSUME ActorsAssumption == /\ Requests \cap Sweepers = {}
                           /\ Nobody \notin Requests \cup Sweepers
ASSUME WantsAssumption == Wants \in [Requests -> SUBSET Digests]
ASSUME StoreAssumption == /\ WriteMode \in [Requests -> {"content_addressed", "if_none_match"}]
                          /\ MinAge \in Nat \ {0}
ASSUME ContentBoundsAssumption == /\ MaxTime \in Nat \ {0}
                                  /\ MaxFailures \in Nat
                                  /\ MaxLostSessions \in Nat

\* Definitions named Mut_... are the seeded defects the runs must detect; no
\* specification uses them.

VARIABLES
  now,        \* time
  objects,    \* last_modified of each object in the bucket, 0 for no object
  catalog,    \* digests with a committed content_objects or inline_contents row
  committed,  \* requests whose events and event_content_refs are committed
  locks,      \* holder of each object digest's advisory transaction lock
  pc,         \* where each request is
  at,         \* the object digest a request or a sweep works on, 0 for none
  todo,       \* digests a request has still to prepare, then to attach
  stored,     \* StoredBlob.created of each object digest a request prepared
  inserted,   \* catalog rows a request inserted and has not committed
  begun,      \* when a request began
  sweep,      \* where each sweep is
  listing,    \* old objects a sweep listed and has still to examine
  alarms,     \* digests a missing_object integrity alarm was raised for
  failures,   \* how many transient failures and lost responses there were
  lost        \* how many sweeps lost their session mid-delete

requestVars == <<pc, todo, stored, inserted, begun>>
sweepVars == <<sweep, listing, lost>>
vars == <<now, objects, catalog, committed, locks, at, alarms, failures,
          requestVars, sweepVars>>

Time == 1 .. MaxTime

\* A request is between its first upload and the end of its transaction.
Preparing == {"prepare", "probe", "put", "created", "existing", "put_again", "existing_again"}
Attaching == {"attach", "verify", "append"}
Active == Preparing \cup Attaching

TypeOK ==
  /\ now \in Time
  /\ objects \in [ObjectDigests -> Time \cup {0}]
  /\ catalog \subseteq Digests
  /\ committed \subseteq Requests
  /\ locks \in [ObjectDigests -> Requests \cup Sweepers \cup {Nobody}]
  /\ at \in [Requests \cup Sweepers -> ObjectDigests \cup {0}]
  /\ pc \in [Requests -> Active \cup {"new", "rejected", "failed", "done"}]
  /\ todo \in [Requests -> SUBSET Digests]
  /\ stored \in [Requests -> [ObjectDigests -> {"none", "reused", "created"}]]
  /\ inserted \in [Requests -> SUBSET Digests]
  /\ begun \in [Requests -> Time]
  /\ sweep \in [Sweepers -> {"idle", "next", "check", "delete", "detached"}]
  /\ listing \in [Sweepers -> SUBSET ObjectDigests]
  /\ alarms \subseteq ObjectDigests
  /\ failures \in 0 .. MaxFailures
  /\ lost \in 0 .. MaxLostSessions

Init ==
  /\ now = 1
  /\ objects = [d \in ObjectDigests |-> 0]
  /\ catalog = {}
  /\ committed = {}
  /\ locks = [d \in ObjectDigests |-> Nobody]
  /\ at = [a \in Requests \cup Sweepers |-> 0]
  /\ pc = [q \in Requests |-> "new"]
  /\ todo = [q \in Requests |-> {}]
  /\ stored = [q \in Requests |-> [d \in ObjectDigests |-> "none"]]
  /\ inserted = [q \in Requests |-> {}]
  /\ begun = [q \in Requests |-> 1]
  /\ sweep = [s \in Sweepers |-> "idle"]
  /\ listing = [s \in Sweepers |-> {}]
  /\ alarms = {}
  /\ failures = 0
  /\ lost = 0

\* The grace window is longer than any request: time does not pass it while
\* a request runs.  A sweep may take as long as it likes.
Tick ==
  /\ now < MaxTime
  /\ \A q \in Requests : pc[q] \in Active => now - begun[q] < MinAge
  /\ now' = now + 1
  /\ UNCHANGED <<objects, catalog, committed, locks, at, alarms, failures,
                 requestVars, sweepVars>>

----------------------------------------------------------------------------
(* prepare: validate, then upload.                                         *)

\* A batch that fails validation is refused before anything is uploaded.
Refuse(q) ==
  /\ pc[q] = "new"
  /\ pc' = [pc EXCEPT ![q] = "rejected"]
  /\ UNCHANGED <<now, objects, catalog, committed, locks, at, todo, stored,
                 inserted, begun, alarms, failures, sweepVars>>

\* The producer sends the batch, or sends it again after a failure.
Begin(q) ==
  /\ pc[q] \in {"new", "failed"}
  /\ pc' = [pc EXCEPT ![q] = "prepare"]
  /\ begun' = [begun EXCEPT ![q] = now]
  /\ todo' = [todo EXCEPT ![q] = Wants[q] \cap ObjectDigests]
  /\ stored' = [stored EXCEPT ![q] = [d \in ObjectDigests |-> "none"]]
  /\ UNCHANGED <<now, objects, catalog, committed, locks, at, inserted, alarms,
                 failures, sweepVars>>

\* The next item of the batch, in the batch's own order.
NextItem(q, d) ==
  /\ pc[q] = "prepare"
  /\ d \in todo[q]
  /\ at' = [at EXCEPT ![q] = d]
  /\ todo' = [todo EXCEPT ![q] = @ \ {d}]
  /\ pc' = [pc EXCEPT ![q] = IF WriteMode[q] = "content_addressed" THEN "probe" ELSE "put"]
  /\ UNCHANGED <<now, objects, catalog, committed, locks, stored, inserted, begun,
                 alarms, failures, sweepVars>>

\* After the last item the transaction opens.
PrepareDone(q) ==
  /\ pc[q] = "prepare"
  /\ todo[q] = {}
  /\ pc' = [pc EXCEPT ![q] = "attach"]
  /\ todo' = [todo EXCEPT ![q] = Wants[q]]
  /\ UNCHANGED <<now, objects, catalog, committed, locks, at, stored, inserted, begun,
                 alarms, failures, sweepVars>>

\* put_verified returns for the digest at hand.
StoredBlob(q, how) ==
  /\ stored' = [stored EXCEPT ![q] = [@ EXCEPT ![at[q]] = how]]
  /\ at' = [at EXCEPT ![q] = 0]
  /\ pc' = [pc EXCEPT ![q] = "prepare"]

\* _reuse_existing, in content_addressed mode: an object that is there is
\* verified and never written over.
ReuseExisting(q) ==
  /\ pc[q] = "probe"
  /\ objects[at[q]] # 0
  /\ StoredBlob(q, "reused")
  /\ UNCHANGED <<now, objects, catalog, committed, locks, todo, inserted, begun,
                 alarms, failures, sweepVars>>

NothingToReuse(q) ==
  /\ pc[q] = "probe"
  /\ objects[at[q]] = 0
  /\ pc' = [pc EXCEPT ![q] = "put"]
  /\ UNCHANGED <<now, objects, catalog, committed, locks, at, todo, stored, inserted,
                 begun, alarms, failures, sweepVars>>

\* _put writes the object; in if_none_match mode only where there is none.
Put(q) ==
  /\ pc[q] \in {"put", "put_again"}
  /\ WriteMode[q] = "content_addressed" \/ objects[at[q]] = 0
  /\ objects' = [objects EXCEPT ![at[q]] = now]
  /\ pc' = [pc EXCEPT ![q] = "created"]
  /\ UNCHANGED <<now, catalog, committed, locks, at, todo, stored, inserted, begun,
                 alarms, failures, sweepVars>>

\* The conditional PUT is refused: the object exists, or the client's first
\* try wrote it and lost the answer.
PutRefused(q) ==
  /\ pc[q] \in {"put", "put_again"}
  /\ WriteMode[q] = "if_none_match"
  /\ objects' = [objects EXCEPT ![at[q]] = IF @ = 0 THEN now ELSE @]
  /\ pc' = [pc EXCEPT ![q] = IF @ = "put" THEN "existing" ELSE "existing_again"]
  /\ UNCHANGED <<now, catalog, committed, locks, at, todo, stored, inserted, begun,
                 alarms, failures, sweepVars>>

Mut_Released(a) == locks

\* The transaction ends: its locks go, its uncommitted rows with them.
Released(a) == [d \in ObjectDigests |-> IF locks[d] = a THEN Nobody ELSE locks[d]]

EndRequest(q, end) ==
  /\ pc' = [pc EXCEPT ![q] = end]
  /\ at' = [at EXCEPT ![q] = 0]
  /\ todo' = [todo EXCEPT ![q] = {}]
  /\ inserted' = [inserted EXCEPT ![q] = {}]
  /\ locks' = Released(q)

\* _verify_created, _verify_existing: the object is there.
VerifyUpload(q) ==
  /\ pc[q] \in {"created", "existing", "existing_again"}
  /\ objects[at[q]] # 0
  /\ StoredBlob(q, IF pc[q] = "created" THEN "created" ELSE "reused")
  /\ UNCHANGED <<now, objects, catalog, committed, locks, todo, inserted, begun,
                 alarms, failures, sweepVars>>

\* An object that was refused as existing and is gone is uploaded once more.
UploadAgain(q) ==
  /\ pc[q] = "existing"
  /\ objects[at[q]] = 0
  /\ pc' = [pc EXCEPT ![q] = "put_again"]
  /\ UNCHANGED <<now, objects, catalog, committed, locks, at, todo, stored, inserted,
                 begun, alarms, failures, sweepVars>>

\* Any other disappearance is an alarm.
UploadVanished(q) ==
  /\ pc[q] \in {"created", "existing_again"}
  /\ objects[at[q]] = 0
  /\ alarms' = alarms \cup {at[q]}
  /\ EndRequest(q, "failed")
  /\ UNCHANGED <<now, objects, catalog, committed, stored, begun, failures, sweepVars>>

----------------------------------------------------------------------------
(* attach and append, in one transaction.                                  *)

\* The order attach works in: objects before inline content, each sorted.
Precedes(d, e) ==
  \/ d \in ObjectDigests /\ e \in InlineDigests
  \/ (d \in ObjectDigests <=> e \in ObjectDigests) /\ d < e

Mut_NextDigest(q, d) == d \in todo[q]

NextDigest(q, d) == d \in todo[q] /\ \A e \in todo[q] \ {d} : Precedes(d, e)

\* _lock_digest waits until nobody holds the lock.
LockDigest(q, d) ==
  /\ pc[q] = "attach"
  /\ d \in ObjectDigests
  /\ NextDigest(q, d)
  /\ locks[d] = Nobody
  /\ locks' = [locks EXCEPT ![d] = q]
  /\ at' = [at EXCEPT ![q] = d]
  /\ pc' = [pc EXCEPT ![q] = "verify"]
  /\ UNCHANGED <<now, objects, catalog, committed, todo, stored, inserted, begun,
                 alarms, failures, sweepVars>>

Mut_AttachObject(q) ==
  /\ pc[q] = "verify"
  /\ inserted' = [inserted EXCEPT ![q] = @ \cup ({at[q]} \ catalog)]
  /\ todo' = [todo EXCEPT ![q] = @ \ {at[q]}]
  /\ at' = [at EXCEPT ![q] = 0]
  /\ pc' = [pc EXCEPT ![q] = "attach"]
  /\ UNCHANGED <<now, objects, catalog, committed, locks, stored, begun, alarms,
                 failures, sweepVars>>

\* Under the lock the object is verified again and its catalog row inserted,
\* unless the digest has one.
AttachObject(q) ==
  /\ pc[q] = "verify"
  /\ objects[at[q]] # 0
  /\ inserted' = [inserted EXCEPT ![q] = @ \cup ({at[q]} \ catalog)]
  /\ todo' = [todo EXCEPT ![q] = @ \ {at[q]}]
  /\ at' = [at EXCEPT ![q] = 0]
  /\ pc' = [pc EXCEPT ![q] = "attach"]
  /\ UNCHANGED <<now, objects, catalog, committed, locks, stored, begun, alarms,
                 failures, sweepVars>>

\* A missing object fails the batch.  It is an alarm when the digest is in the
\* catalog or this request wrote the object, else an orphan that was swept.
AttachMissing(q) ==
  /\ pc[q] = "verify"
  /\ objects[at[q]] = 0
  /\ alarms' = IF at[q] \in catalog \/ stored[q][at[q]] = "created"
               THEN alarms \cup {at[q]} ELSE alarms
  /\ EndRequest(q, "failed")
  /\ UNCHANGED <<now, objects, catalog, committed, stored, begun, failures, sweepVars>>

\* Whoever keeps a request from going on with digest d: the holder of the
\* digest lock, or the transaction with the same inline row uncommitted.
Blockers(q, d) ==
  IF d \in ObjectDigests THEN {locks[d]} \ {Nobody}
  ELSE {r \in Requests \ {q} : d \in inserted[r]}

\* ON CONFLICT DO NOTHING waits for a transaction that is inserting the row.
AttachInline(q, d) ==
  /\ pc[q] = "attach"
  /\ d \in InlineDigests
  /\ NextDigest(q, d)
  /\ Blockers(q, d) = {}
  /\ inserted' = [inserted EXCEPT ![q] = @ \cup ({d} \ catalog)]
  /\ todo' = [todo EXCEPT ![q] = @ \ {d}]
  /\ UNCHANGED <<now, objects, catalog, committed, locks, at, pc, stored, begun,
                 alarms, failures, sweepVars>>

\* Everything is attached: the events and their refs are appended.
Append(q) ==
  /\ pc[q] = "attach"
  /\ todo[q] = {}
  /\ pc' = [pc EXCEPT ![q] = "append"]
  /\ UNCHANGED <<now, objects, catalog, committed, locks, at, todo, stored, inserted,
                 begun, alarms, failures, sweepVars>>

Commit(q) ==
  /\ pc[q] = "append"
  /\ catalog' = catalog \cup inserted[q]
  /\ committed' = committed \cup {q}
  /\ EndRequest(q, "done")
  /\ UNCHANGED <<now, objects, stored, begun, alarms, failures, sweepVars>>

\* An S3 or database error, a conflict found by append, a crash of the API
\* process, or a response that is lost after the commit: the producer retries.
Fail(q) ==
  /\ pc[q] \in Active \cup {"done"}
  /\ failures < MaxFailures
  /\ failures' = failures + 1
  /\ EndRequest(q, "failed")
  /\ UNCHANGED <<now, objects, catalog, committed, stored, begun, alarms, sweepVars>>

----------------------------------------------------------------------------
(* The orphan sweep.                                                       *)

\* Objects that were last modified before the cutoff.
Old(cutoff) == {d \in ObjectDigests : objects[d] # 0 /\ objects[d] < cutoff}

\* run: list the bucket.  The cutoff is never more recent than min_age ago.
ListCandidates(s) ==
  /\ sweep[s] = "idle"
  /\ Old(now - MinAge) # {}
  /\ listing' = [listing EXCEPT ![s] = Old(now - MinAge)]
  /\ sweep' = [sweep EXCEPT ![s] = "next"]
  /\ UNCHANGED <<now, objects, catalog, committed, locks, at, alarms, failures, lost,
                 requestVars>>

\* _sweep_one opens a transaction and waits for the digest lock.
SweepLock(s, d) ==
  /\ sweep[s] = "next"
  /\ d \in listing[s] /\ \A e \in listing[s] : d <= e
  /\ locks[d] = Nobody
  /\ locks' = [locks EXCEPT ![d] = s]
  /\ at' = [at EXCEPT ![s] = d]
  /\ sweep' = [sweep EXCEPT ![s] = "check"]
  /\ UNCHANGED <<now, objects, catalog, committed, alarms, failures, listing, lost,
                 requestVars>>

\* The transaction of one candidate ends; after the last one the run ends.
SweptOne(s) ==
  /\ locks' = Released(s)
  /\ at' = [at EXCEPT ![s] = 0]
  /\ listing' = [listing EXCEPT ![s] = @ \ {at[s]}]
  /\ sweep' = [sweep EXCEPT ![s] = IF listing[s] = {at[s]} THEN "idle" ELSE "next"]

\* The catalog is checked under the lock: a referenced object stays.  So does
\* every object in a dry run.
Retain(s) ==
  /\ sweep[s] = "check"
  /\ SweptOne(s)
  /\ UNCHANGED <<now, objects, catalog, committed, alarms, failures, lost, requestVars>>

Unreferenced(s) ==
  /\ sweep[s] = "check"
  /\ at[s] \notin catalog
  /\ sweep' = [sweep EXCEPT ![s] = "delete"]
  /\ UNCHANGED <<now, objects, catalog, committed, locks, at, alarms, failures, listing,
                 lost, requestVars>>

\* _run_delete_to_completion: the lock outlives the DELETE, even when the
\* sweep is cancelled.
SweepDelete(s) ==
  /\ sweep[s] = "delete"
  /\ objects' = [objects EXCEPT ![at[s]] = 0]
  /\ SweptOne(s)
  /\ UNCHANGED <<now, catalog, committed, alarms, failures, lost, requestVars>>

\* An S3 or database error ends the whole run; a DELETE that was done and
\* reported as failed is a SweepDelete before it.
AbortSweep(s) ==
  /\ sweep[s] \in {"next", "check", "delete"}
  /\ failures < MaxFailures
  /\ failures' = failures + 1
  /\ locks' = Released(s)
  /\ at' = [at EXCEPT ![s] = 0]
  /\ listing' = [listing EXCEPT ![s] = {}]
  /\ sweep' = [sweep EXCEPT ![s] = "idle"]
  /\ UNCHANGED <<now, objects, catalog, committed, alarms, lost, requestVars>>

\* The database session dies while the DELETE is on its way (PostgreSQL then
\* releases the lock, and nothing stops the DELETE or its retries), or the
\* client gives up on a DELETE that the store still carries out.
LoseSession(s) ==
  /\ sweep[s] = "delete"
  /\ lost < MaxLostSessions
  /\ lost' = lost + 1
  /\ locks' = Released(s)
  /\ sweep' = [sweep EXCEPT ![s] = "detached"]
  /\ UNCHANGED <<now, objects, catalog, committed, at, alarms, failures, listing,
                 requestVars>>

\* The DELETE lands, and the failed transaction ends the run.
LateDelete(s) ==
  /\ sweep[s] = "detached"
  /\ objects' = [objects EXCEPT ![at[s]] = 0]
  /\ at' = [at EXCEPT ![s] = 0]
  /\ listing' = [listing EXCEPT ![s] = {}]
  /\ sweep' = [sweep EXCEPT ![s] = "idle"]
  /\ UNCHANGED <<now, catalog, committed, locks, alarms, failures, lost, requestVars>>

----------------------------------------------------------------------------
PrepareStep(q) ==
  \/ Refuse(q) \/ Begin(q) \/ PrepareDone(q) \/ ReuseExisting(q) \/ NothingToReuse(q)
  \/ Put(q) \/ PutRefused(q) \/ VerifyUpload(q) \/ UploadAgain(q) \/ UploadVanished(q)
  \/ \E d \in ObjectDigests : NextItem(q, d)

AttachStep(q) ==
  \/ AttachObject(q) \/ AttachMissing(q) \/ Append(q) \/ Commit(q)
  \/ \E d \in Digests : LockDigest(q, d) \/ AttachInline(q, d)

SweepStep(s) ==
  \/ Retain(s) \/ Unreferenced(s) \/ SweepDelete(s) \/ LateDelete(s)
  \/ \E d \in ObjectDigests : SweepLock(s, d)

Next ==
  \/ Tick
  \/ \E q \in Requests : PrepareStep(q) \/ AttachStep(q) \/ Fail(q)
  \/ \E s \in Sweepers : ListCandidates(s) \/ SweepStep(s) \/ AbortSweep(s) \/ LoseSession(s)

Spec == Init /\ [][Next]_vars

\* Requests and sweeps go on, and a waiter gets a lock that comes free again
\* and again: PostgreSQL queues waiters.
Fairness ==
  /\ \A q \in Requests : /\ WF_vars(PrepareStep(q) \/ AttachStep(q))
                         /\ SF_vars(\E d \in Digests : LockDigest(q, d))
                         /\ SF_vars(\E d \in Digests : AttachInline(q, d))
  /\ \A s \in Sweepers : /\ WF_vars(SweepStep(s))
                         /\ SF_vars(\E d \in ObjectDigests : SweepLock(s, d))

FairSpec == Spec /\ Fairness

----------------------------------------------------------------------------
(* Properties.                                                             *)

Present == {d \in ObjectDigests : objects[d] # 0}

\* Every object a committed event refers to is in the bucket and every digest
\* of it is in the catalog, whichever way uploads, attaches, sweeps, failures
\* and retries interleave, as long as no sweep lost its session with a DELETE
\* on its way (attach, _sweep_one).
NoDanglingReference ==
  lost = 0 => \A q \in committed : /\ Wants[q] \subseteq catalog
                                   /\ Wants[q] \cap ObjectDigests \subseteq Present

\* The same without the proviso: the docstring of OrphanSweeper.run says that
\* a concurrent attach "rolls back without ever committing a dangling
\* reference".
NeverDangling ==
  \A q \in committed : Wants[q] \cap ObjectDigests \subseteq Present

\* Request q waits for request or sweep b.
WaitsFor(q, b) ==
  /\ pc[q] = "attach"
  /\ \E d \in todo[q] : NextDigest(q, d) /\ b \in Blockers(q, d)

\* No set of requests waits for itself: concurrent batches that share content
\* never deadlock on digest locks and uncommitted inline rows (attach sorts).
NoLockCycle ==
  \A S \in (SUBSET Requests) \ {{}} :
    \E q \in S : \A b \in S : ~WaitsFor(q, b)

\* A missing_object alarm is never raised by a sweep doing its work: without
\* lost sessions and with one sweep at a time, every object that vanishes under
\* a request is an old orphan it reused (put_verified, attach).
NoFalseAlarm == lost = 0 => alarms = {}

\* An object a running request uploaded stays until the request ends: "an object
\* that was just uploaded by a prepare() call that has not yet reached attach()
\* must never be deleted out from under it" (orphans.py).
UploadKept ==
  lost = 0 => \A q \in Requests : \A d \in ObjectDigests :
    pc[q] \in Active /\ stored[q][d] = "created" => objects[d] # 0

\* A valid batch that its producer keeps sending is stored in the end, although
\* sweeps may delete what it reuses between prepare and attach.
Begun(q) == pc[q] = "prepare"
Stored(q) == q \in committed
BatchStored == \A q \in Requests : Begun(q) ~> Stored(q)

\* At most one sweep job runs at a time, as where one timer starts them
\* (cli.py, sweep_orphans_command).
OneSweeper == \A s, t \in Sweepers : s = t

\* What the content store promises together.
ContentSound == NoDanglingReference /\ (OneSweeper => UploadKept /\ NoFalseAlarm)

\* What makes these properties inductive.  A request works on an object digest
\* while it uploads or verifies one.
AtWork ==
  /\ \A q \in Requests :
       pc[q] \in (Preparing \ {"prepare"}) \cup {"verify"} => at[q] \in ObjectDigests
  /\ \A s \in Sweepers : sweep[s] \in {"check", "delete", "detached"} => at[s] \in ObjectDigests

\* A row in the catalog, committed or not, is backed by an object that is
\* there, and an uncommitted one also by the lock on its digest.
RowsBacked ==
  lost = 0 => /\ catalog \cap ObjectDigests \subseteq Present
              /\ \A q \in Requests : inserted[q] \cap ObjectDigests \subseteq Present

RowsLocked ==
  \A q \in Requests :
    /\ pc[q] \notin Attaching => inserted[q] = {}
    /\ pc[q] = "verify" => locks[at[q]] = q
    /\ \A d \in inserted[q] \cap ObjectDigests : locks[d] = q

\* Nothing of a batch is forgotten between attach and commit.
NothingForgotten ==
  \A q \in Requests :
    /\ pc[q] \in Attaching => Wants[q] \subseteq todo[q] \cup inserted[q] \cup catalog
    /\ pc[q] = "append" => todo[q] = {}
    /\ q \in committed => Wants[q] \subseteq catalog

\* A sweep about to delete holds the lock of a digest that has no row.
SweepLocked ==
  \A s \in Sweepers :
    /\ sweep[s] \in {"check", "delete"} => locks[at[s]] = s
    /\ sweep[s] = "delete" => at[s] \notin catalog
    /\ sweep[s] = "detached" => lost > 0

\* What a request holds comes before everything it still waits for.
LockOrder ==
  \A q \in Requests :
    /\ \A d \in ObjectDigests : locks[d] = q =>
         /\ pc[q] \in Attaching
         /\ \A e \in todo[q] : Precedes(d, e) \/ (d = e /\ d = at[q] /\ pc[q] = "verify")
    /\ \A d \in inserted[q] : \A e \in todo[q] : Precedes(d, e)

\* The object of a digest is no older than the request that relies on it.
Recent(q, d) == begun[q] <= objects[d]

\* No sweep has the digest on its list.
Unlisted(d) == \A s \in Sweepers : d \notin listing[s]

\* A request that uploaded an object, or is sure that another has meanwhile.
Relies(q, d) ==
  /\ pc[q] \in Active
  /\ stored[q][d] = "created" \/ (at[q] = d /\ pc[q] \in {"created", "existing_again"})

\* A request that found no object and is about to upload it.
Uploads(q, d) ==
  /\ at[q] = d
  /\ pc[q] = "put_again" \/ (pc[q] = "put" /\ WriteMode[q] = "content_addressed")

\* Requests are shorter than the grace window.
WithinGrace == \A q \in Requests : pc[q] \in Active => begun[q] <= now /\ now <= begun[q] + MinAge

\* A sweep works on a digest of its list, and what it lists is there.
ListedPresent == lost = 0 =>
  \A s \in Sweepers : /\ listing[s] \subseteq Present
                      /\ sweep[s] \in {"check", "delete"} => at[s] \in listing[s]

\* What a running request uploads is too recent for any sweep.
UploadsGuarded == lost = 0 =>
  /\ \A q \in Requests : \A d \in ObjectDigests :
       /\ Relies(q, d) => Recent(q, d) /\ Unlisted(d)
       /\ Uploads(q, d) => (objects[d] = 0 \/ Recent(q, d)) /\ Unlisted(d)
  /\ alarms = {}

\* The inductive invariant of the content store (one invariant; its parts are
\* proved one by one).
Inductive ==
  AtWork /\ RowsBacked /\ RowsLocked /\ NothingForgotten /\ SweepLocked /\ LockOrder

-----------------------------------------------------------------------------
----------------------------------------------------------------------------
(* One lemma per part of the invariant, with one step per action.          *)

\* Every step keeps the types.
LEMMA TypeStep ==
  ASSUME TypeOK, AtWork, [Next]_vars
  PROVE  TypeOK'
<1> USE DEF TypeOK, requestVars, sweepVars, Active, Preparing, Attaching, Digests
<1>1. CASE Tick
  BY <1>1, StoreAssumption, ContentBoundsAssumption, WantsAssumption, ActorsAssumption
     DEF Tick, Time
<1>2. ASSUME NEW q \in Requests, Refuse(q) PROVE TypeOK'
  BY <1>2 DEF Refuse
<1>3. ASSUME NEW q \in Requests, Begin(q) PROVE TypeOK'
  BY <1>3 DEF Begin
<1>4. ASSUME NEW q \in Requests, PrepareDone(q) PROVE TypeOK'
  BY <1>4, StoreAssumption, ContentBoundsAssumption, WantsAssumption, ActorsAssumption
     DEF PrepareDone
<1>5. ASSUME NEW q \in Requests, ReuseExisting(q) PROVE TypeOK'
  BY <1>5 DEF ReuseExisting, StoredBlob
<1>6. ASSUME NEW q \in Requests, NothingToReuse(q) PROVE TypeOK'
  BY <1>6 DEF NothingToReuse
<1>7. ASSUME NEW q \in Requests, Put(q) PROVE TypeOK'
  BY <1>7 DEF Put
<1>8. ASSUME NEW q \in Requests, PutRefused(q) PROVE TypeOK'
  BY <1>8 DEF PutRefused
<1>9. ASSUME NEW q \in Requests, VerifyUpload(q) PROVE TypeOK'
  BY <1>9 DEF VerifyUpload, StoredBlob
<1>10. ASSUME NEW q \in Requests, UploadAgain(q) PROVE TypeOK'
  BY <1>10 DEF UploadAgain
<1>11. ASSUME NEW q \in Requests, UploadVanished(q) PROVE TypeOK'
  BY <1>11 DEF UploadVanished, EndRequest, Released, AtWork
<1>12. ASSUME NEW q \in Requests, AttachObject(q) PROVE TypeOK'
  BY <1>12 DEF AttachObject, AtWork
<1>13. ASSUME NEW q \in Requests, AttachMissing(q) PROVE TypeOK'
  BY <1>13 DEF AttachMissing, EndRequest, Released, AtWork
<1>14. ASSUME NEW q \in Requests, Append(q) PROVE TypeOK'
  BY <1>14 DEF Append
<1>15. ASSUME NEW q \in Requests, Commit(q) PROVE TypeOK'
  BY <1>15 DEF Commit, EndRequest, Released
<1>16. ASSUME NEW q \in Requests, Fail(q) PROVE TypeOK'
  BY <1>16, StoreAssumption, ContentBoundsAssumption, WantsAssumption, ActorsAssumption
     DEF Fail, EndRequest, Released
<1>17. ASSUME NEW q \in Requests, NEW d \in ObjectDigests, NextItem(q, d)
      PROVE  TypeOK'
  BY <1>17 DEF NextItem
<1>18. ASSUME NEW q \in Requests, NEW d \in Digests, LockDigest(q, d)
      PROVE  TypeOK'
  BY <1>18 DEF LockDigest, NextDigest
<1>19. ASSUME NEW q \in Requests, NEW d \in Digests, AttachInline(q, d)
      PROVE  TypeOK'
  BY <1>19 DEF AttachInline, NextDigest, Blockers
<1>20. ASSUME NEW s \in Sweepers, ListCandidates(s) PROVE TypeOK'
  BY <1>20 DEF ListCandidates, Old
<1>21. ASSUME NEW s \in Sweepers, Retain(s) PROVE TypeOK'
  BY <1>21 DEF Retain, SweptOne, Released
<1>22. ASSUME NEW s \in Sweepers, Unreferenced(s) PROVE TypeOK'
  BY <1>22 DEF Unreferenced
<1>23. ASSUME NEW s \in Sweepers, SweepDelete(s) PROVE TypeOK'
  BY <1>23 DEF SweepDelete, SweptOne, Released
<1>24. ASSUME NEW s \in Sweepers, LateDelete(s) PROVE TypeOK'
  BY <1>24 DEF LateDelete
<1>25. ASSUME NEW s \in Sweepers, AbortSweep(s) PROVE TypeOK'
  BY <1>25, StoreAssumption, ContentBoundsAssumption, WantsAssumption, ActorsAssumption
     DEF AbortSweep, Released
<1>26. ASSUME NEW s \in Sweepers, LoseSession(s) PROVE TypeOK'
  BY <1>26, StoreAssumption, ContentBoundsAssumption, WantsAssumption, ActorsAssumption
     DEF LoseSession, Released
<1>27. ASSUME NEW s \in Sweepers, NEW d \in ObjectDigests, SweepLock(s, d)
      PROVE  TypeOK'
  BY <1>27 DEF SweepLock
<1>28. CASE UNCHANGED vars
  BY <1>28 DEF vars
<1> QED
  BY <1>1, <1>2, <1>3, <1>4, <1>5, <1>6, <1>7, <1>8, <1>9, <1>10,
     <1>11, <1>12, <1>13, <1>14, <1>15, <1>16, <1>17, <1>18, <1>19, <1>20, <1>21, <1>22,
     <1>23, <1>24, <1>25, <1>26, <1>27, <1>28 DEF Next, PrepareStep, AttachStep,
     SweepStep

\* A request or a sweep at work has an object digest at hand.
LEMMA AtWorkStep ==
  ASSUME TypeOK, AtWork, [Next]_vars
  PROVE  AtWork'
<1> USE DEF TypeOK, AtWork, requestVars, sweepVars, Preparing, Attaching, Active, Digests
<1>1. CASE Tick
  BY <1>1 DEF Tick
<1>2. ASSUME NEW q \in Requests, Refuse(q) PROVE AtWork'
  BY <1>2 DEF Refuse
<1>3. ASSUME NEW q \in Requests, Begin(q) PROVE AtWork'
  BY <1>3 DEF Begin
<1>4. ASSUME NEW q \in Requests, PrepareDone(q) PROVE AtWork'
  BY <1>4 DEF PrepareDone
<1>5. ASSUME NEW q \in Requests, ReuseExisting(q) PROVE AtWork'
  BY <1>5, ActorsAssumption DEF ReuseExisting, StoredBlob
<1>6. ASSUME NEW q \in Requests, NothingToReuse(q) PROVE AtWork'
  BY <1>6 DEF NothingToReuse
<1>7. ASSUME NEW q \in Requests, Put(q) PROVE AtWork'
  BY <1>7 DEF Put
<1>8. ASSUME NEW q \in Requests, PutRefused(q) PROVE AtWork'
  BY <1>8 DEF PutRefused
<1>9. ASSUME NEW q \in Requests, VerifyUpload(q) PROVE AtWork'
  BY <1>9, ActorsAssumption DEF VerifyUpload, StoredBlob
<1>10. ASSUME NEW q \in Requests, UploadAgain(q) PROVE AtWork'
  BY <1>10 DEF UploadAgain
<1>11. ASSUME NEW q \in Requests, UploadVanished(q) PROVE AtWork'
  BY <1>11, ActorsAssumption DEF UploadVanished, EndRequest, Released
<1>12. ASSUME NEW q \in Requests, AttachObject(q) PROVE AtWork'
  BY <1>12, ActorsAssumption DEF AttachObject
<1>13. ASSUME NEW q \in Requests, AttachMissing(q) PROVE AtWork'
  BY <1>13, ActorsAssumption DEF AttachMissing, EndRequest, Released
<1>14. ASSUME NEW q \in Requests, Append(q) PROVE AtWork'
  BY <1>14 DEF Append
<1>15. ASSUME NEW q \in Requests, Commit(q) PROVE AtWork'
  BY <1>15, ActorsAssumption DEF Commit, EndRequest, Released
<1>16. ASSUME NEW q \in Requests, Fail(q) PROVE AtWork'
  BY <1>16, ActorsAssumption DEF Fail, EndRequest, Released
<1>17. ASSUME NEW q \in Requests, NEW d \in ObjectDigests, NextItem(q, d)
      PROVE  AtWork'
  BY <1>17 DEF NextItem
<1>18. ASSUME NEW q \in Requests, NEW d \in Digests, LockDigest(q, d)
      PROVE  AtWork'
  BY <1>18 DEF LockDigest, NextDigest
<1>19. ASSUME NEW q \in Requests, NEW d \in Digests, AttachInline(q, d)
      PROVE  AtWork'
  BY <1>19 DEF AttachInline, NextDigest, Blockers
<1>20. ASSUME NEW s \in Sweepers, ListCandidates(s) PROVE AtWork'
  BY <1>20 DEF ListCandidates, Old
<1>21. ASSUME NEW s \in Sweepers, Retain(s) PROVE AtWork'
  BY <1>21, ActorsAssumption DEF Retain, SweptOne, Released
<1>22. ASSUME NEW s \in Sweepers, Unreferenced(s) PROVE AtWork'
  BY <1>22 DEF Unreferenced
<1>23. ASSUME NEW s \in Sweepers, SweepDelete(s) PROVE AtWork'
  BY <1>23, ActorsAssumption DEF SweepDelete, SweptOne, Released
<1>24. ASSUME NEW s \in Sweepers, LateDelete(s) PROVE AtWork'
  BY <1>24, ActorsAssumption DEF LateDelete
<1>25. ASSUME NEW s \in Sweepers, AbortSweep(s) PROVE AtWork'
  BY <1>25, ActorsAssumption DEF AbortSweep, Released
<1>26. ASSUME NEW s \in Sweepers, LoseSession(s) PROVE AtWork'
  BY <1>26 DEF LoseSession, Released
<1>27. ASSUME NEW s \in Sweepers, NEW d \in ObjectDigests, SweepLock(s, d)
      PROVE  AtWork'
  BY <1>27 DEF SweepLock
<1>28. CASE UNCHANGED vars
  BY <1>28 DEF vars
<1> QED
  BY <1>1, <1>2, <1>3, <1>4, <1>5, <1>6, <1>7, <1>8, <1>9, <1>10,
     <1>11, <1>12, <1>13, <1>14, <1>15, <1>16, <1>17, <1>18, <1>19, <1>20, <1>21, <1>22,
     <1>23, <1>24, <1>25, <1>26, <1>27, <1>28 DEF Next, PrepareStep, AttachStep,
     SweepStep

\* No step takes away an object that has a catalog row: whoever deletes holds
\* the lock of a digest without one.
LEMMA RowsBackedStep ==
  ASSUME TypeOK, AtWork, RowsBacked, RowsLocked, SweepLocked, [Next]_vars
  PROVE  RowsBacked'
<1> USE DEF TypeOK, AtWork, RowsBacked, RowsLocked, SweepLocked, Present, Time, Digests,
           Preparing, requestVars, sweepVars
<1>1. CASE Tick
  BY <1>1 DEF Tick
<1>2. ASSUME NEW q \in Requests, Refuse(q) PROVE RowsBacked'
  BY <1>2 DEF Refuse
<1>3. ASSUME NEW q \in Requests, Begin(q) PROVE RowsBacked'
  BY <1>3 DEF Begin
<1>4. ASSUME NEW q \in Requests, PrepareDone(q) PROVE RowsBacked'
  BY <1>4 DEF PrepareDone
<1>5. ASSUME NEW q \in Requests, ReuseExisting(q) PROVE RowsBacked'
  BY <1>5 DEF ReuseExisting, StoredBlob
<1>6. ASSUME NEW q \in Requests, NothingToReuse(q) PROVE RowsBacked'
  BY <1>6 DEF NothingToReuse
<1>7. ASSUME NEW q \in Requests, Put(q) PROVE RowsBacked'
  BY <1>7 DEF Put
<1>8. ASSUME NEW q \in Requests, PutRefused(q) PROVE RowsBacked'
  BY <1>8 DEF PutRefused
<1>9. ASSUME NEW q \in Requests, VerifyUpload(q) PROVE RowsBacked'
  BY <1>9 DEF VerifyUpload, StoredBlob
<1>10. ASSUME NEW q \in Requests, UploadAgain(q) PROVE RowsBacked'
  BY <1>10 DEF UploadAgain
<1>11. ASSUME NEW q \in Requests, UploadVanished(q) PROVE RowsBacked'
  BY <1>11 DEF UploadVanished, EndRequest, Released
<1>12. ASSUME NEW q \in Requests, AttachObject(q) PROVE RowsBacked'
  BY <1>12 DEF AttachObject
<1>13. ASSUME NEW q \in Requests, AttachMissing(q) PROVE RowsBacked'
  BY <1>13 DEF AttachMissing, EndRequest, Released
<1>14. ASSUME NEW q \in Requests, Append(q) PROVE RowsBacked'
  BY <1>14 DEF Append
<1>15. ASSUME NEW q \in Requests, Commit(q) PROVE RowsBacked'
  BY <1>15 DEF Commit, EndRequest, Released
<1>16. ASSUME NEW q \in Requests, Fail(q) PROVE RowsBacked'
  BY <1>16 DEF Fail, EndRequest, Released
<1>17. ASSUME NEW q \in Requests, NEW d \in ObjectDigests, NextItem(q, d)
      PROVE  RowsBacked'
  BY <1>17 DEF NextItem
<1>18. ASSUME NEW q \in Requests, NEW d \in Digests, LockDigest(q, d)
      PROVE  RowsBacked'
  BY <1>18 DEF LockDigest, NextDigest
<1>19. ASSUME NEW q \in Requests, NEW d \in Digests, AttachInline(q, d)
      PROVE  RowsBacked'
  BY <1>19, ActorsAssumption, DigestsAssumption, ContentBoundsAssumption
     DEF AttachInline, NextDigest, Blockers
<1>20. ASSUME NEW s \in Sweepers, ListCandidates(s) PROVE RowsBacked'
  BY <1>20 DEF ListCandidates, Old
<1>21. ASSUME NEW s \in Sweepers, Retain(s) PROVE RowsBacked'
  BY <1>21 DEF Retain, SweptOne, Released
<1>22. ASSUME NEW s \in Sweepers, Unreferenced(s) PROVE RowsBacked'
  BY <1>22 DEF Unreferenced
<1>23. ASSUME NEW s \in Sweepers, SweepDelete(s) PROVE RowsBacked'
  BY <1>23, ActorsAssumption, DigestsAssumption, ContentBoundsAssumption
     DEF SweepDelete, SweptOne, Released
<1>24. ASSUME NEW s \in Sweepers, LateDelete(s) PROVE RowsBacked'
  BY <1>24 DEF LateDelete
<1>25. ASSUME NEW s \in Sweepers, AbortSweep(s) PROVE RowsBacked'
  BY <1>25 DEF AbortSweep, Released
<1>26. ASSUME NEW s \in Sweepers, LoseSession(s) PROVE RowsBacked'
  BY <1>26 DEF LoseSession, Released
<1>27. ASSUME NEW s \in Sweepers, NEW d \in ObjectDigests, SweepLock(s, d)
      PROVE  RowsBacked'
  BY <1>27 DEF SweepLock
<1>28. CASE UNCHANGED vars
  BY <1>28 DEF vars
<1> QED
  BY <1>1, <1>2, <1>3, <1>4, <1>5, <1>6, <1>7, <1>8, <1>9, <1>10,
     <1>11, <1>12, <1>13, <1>14, <1>15, <1>16, <1>17, <1>18, <1>19, <1>20, <1>21, <1>22,
     <1>23, <1>24, <1>25, <1>26, <1>27, <1>28 DEF Next, PrepareStep, AttachStep,
     SweepStep

\* An uncommitted object row keeps the lock on its digest.
LEMMA RowsLockedStep ==
  ASSUME TypeOK, AtWork, RowsLocked, [Next]_vars
  PROVE  RowsLocked'
<1> USE DEF TypeOK, AtWork, RowsLocked, Attaching, Preparing, Active, Digests,
           requestVars, sweepVars
<1>1. CASE Tick
  BY <1>1 DEF Tick
<1>2. ASSUME NEW q \in Requests, Refuse(q) PROVE RowsLocked'
  BY <1>2 DEF Refuse
<1>3. ASSUME NEW q \in Requests, Begin(q) PROVE RowsLocked'
  BY <1>3 DEF Begin
<1>4. ASSUME NEW q \in Requests, PrepareDone(q) PROVE RowsLocked'
  BY <1>4 DEF PrepareDone
<1>5. ASSUME NEW q \in Requests, ReuseExisting(q) PROVE RowsLocked'
  BY <1>5 DEF ReuseExisting, StoredBlob
<1>6. ASSUME NEW q \in Requests, NothingToReuse(q) PROVE RowsLocked'
  BY <1>6 DEF NothingToReuse
<1>7. ASSUME NEW q \in Requests, Put(q) PROVE RowsLocked'
  BY <1>7 DEF Put
<1>8. ASSUME NEW q \in Requests, PutRefused(q) PROVE RowsLocked'
  BY <1>8 DEF PutRefused
<1>9. ASSUME NEW q \in Requests, VerifyUpload(q) PROVE RowsLocked'
  BY <1>9 DEF VerifyUpload, StoredBlob
<1>10. ASSUME NEW q \in Requests, UploadAgain(q) PROVE RowsLocked'
  BY <1>10 DEF UploadAgain
<1>11. ASSUME NEW q \in Requests, UploadVanished(q) PROVE RowsLocked'
  BY <1>11 DEF UploadVanished, EndRequest, Released
<1>12. ASSUME NEW q \in Requests, AttachObject(q) PROVE RowsLocked'
  BY <1>12 DEF AttachObject
<1>13. ASSUME NEW q \in Requests, AttachMissing(q) PROVE RowsLocked'
  BY <1>13 DEF AttachMissing, EndRequest, Released
<1>14. ASSUME NEW q \in Requests, Append(q) PROVE RowsLocked'
  BY <1>14 DEF Append
<1>15. ASSUME NEW q \in Requests, Commit(q) PROVE RowsLocked'
  BY <1>15 DEF Commit, EndRequest, Released
<1>16. ASSUME NEW q \in Requests, Fail(q) PROVE RowsLocked'
  BY <1>16 DEF Fail, EndRequest, Released
<1>17. ASSUME NEW q \in Requests, NEW d \in ObjectDigests, NextItem(q, d)
      PROVE  RowsLocked'
  BY <1>17 DEF NextItem
<1>18. ASSUME NEW q \in Requests, NEW d \in Digests, LockDigest(q, d)
      PROVE  RowsLocked'
  BY <1>18, ActorsAssumption, DigestsAssumption DEF LockDigest, NextDigest
<1>19. ASSUME NEW q \in Requests, NEW d \in Digests, AttachInline(q, d)
      PROVE  RowsLocked'
  BY <1>19, ActorsAssumption, DigestsAssumption DEF AttachInline, NextDigest, Blockers
<1>20. ASSUME NEW s \in Sweepers, ListCandidates(s) PROVE RowsLocked'
  BY <1>20 DEF ListCandidates, Old
<1>21. ASSUME NEW s \in Sweepers, Retain(s) PROVE RowsLocked'
  BY <1>21, ActorsAssumption, DigestsAssumption DEF Retain, SweptOne, Released
<1>22. ASSUME NEW s \in Sweepers, Unreferenced(s) PROVE RowsLocked'
  BY <1>22 DEF Unreferenced
<1>23. ASSUME NEW s \in Sweepers, SweepDelete(s) PROVE RowsLocked'
  BY <1>23, ActorsAssumption, DigestsAssumption DEF SweepDelete, SweptOne, Released
<1>24. ASSUME NEW s \in Sweepers, LateDelete(s) PROVE RowsLocked'
  BY <1>24, ActorsAssumption, DigestsAssumption DEF LateDelete
<1>25. ASSUME NEW s \in Sweepers, AbortSweep(s) PROVE RowsLocked'
  BY <1>25, ActorsAssumption, DigestsAssumption DEF AbortSweep, Released
<1>26. ASSUME NEW s \in Sweepers, LoseSession(s) PROVE RowsLocked'
  BY <1>26, ActorsAssumption, DigestsAssumption DEF LoseSession, Released
<1>27. ASSUME NEW s \in Sweepers, NEW d \in ObjectDigests, SweepLock(s, d)
      PROVE  RowsLocked'
  BY <1>27, ActorsAssumption, DigestsAssumption DEF SweepLock
<1>28. CASE UNCHANGED vars
  BY <1>28 DEF vars
<1> QED
  BY <1>1, <1>2, <1>3, <1>4, <1>5, <1>6, <1>7, <1>8, <1>9, <1>10,
     <1>11, <1>12, <1>13, <1>14, <1>15, <1>16, <1>17, <1>18, <1>19, <1>20, <1>21, <1>22,
     <1>23, <1>24, <1>25, <1>26, <1>27, <1>28 DEF Next, PrepareStep, AttachStep,
     SweepStep

\* Every digest of a batch is attached before the batch commits.
LEMMA NothingForgottenStep ==
  ASSUME TypeOK, NothingForgotten, [Next]_vars
  PROVE  NothingForgotten'
<1> USE DEF TypeOK, NothingForgotten, Attaching, Preparing, Active, Digests,
           requestVars, sweepVars
<1>1. CASE Tick
  BY <1>1 DEF Tick
<1>2. ASSUME NEW q \in Requests, Refuse(q) PROVE NothingForgotten'
  BY <1>2 DEF Refuse
<1>3. ASSUME NEW q \in Requests, Begin(q) PROVE NothingForgotten'
  BY <1>3 DEF Begin
<1>4. ASSUME NEW q \in Requests, PrepareDone(q) PROVE NothingForgotten'
  BY <1>4 DEF PrepareDone
<1>5. ASSUME NEW q \in Requests, ReuseExisting(q) PROVE NothingForgotten'
  BY <1>5 DEF ReuseExisting, StoredBlob
<1>6. ASSUME NEW q \in Requests, NothingToReuse(q) PROVE NothingForgotten'
  BY <1>6 DEF NothingToReuse
<1>7. ASSUME NEW q \in Requests, Put(q) PROVE NothingForgotten'
  BY <1>7 DEF Put
<1>8. ASSUME NEW q \in Requests, PutRefused(q) PROVE NothingForgotten'
  BY <1>8 DEF PutRefused
<1>9. ASSUME NEW q \in Requests, VerifyUpload(q) PROVE NothingForgotten'
  BY <1>9 DEF VerifyUpload, StoredBlob
<1>10. ASSUME NEW q \in Requests, UploadAgain(q) PROVE NothingForgotten'
  BY <1>10 DEF UploadAgain
<1>11. ASSUME NEW q \in Requests, UploadVanished(q) PROVE NothingForgotten'
  BY <1>11 DEF UploadVanished, EndRequest, Released
<1>12. ASSUME NEW q \in Requests, AttachObject(q) PROVE NothingForgotten'
  BY <1>12 DEF AttachObject
<1>13. ASSUME NEW q \in Requests, AttachMissing(q) PROVE NothingForgotten'
  BY <1>13 DEF AttachMissing, EndRequest, Released
<1>14. ASSUME NEW q \in Requests, Append(q) PROVE NothingForgotten'
  BY <1>14 DEF Append
<1>15. ASSUME NEW q \in Requests, Commit(q) PROVE NothingForgotten'
  BY <1>15 DEF Commit, EndRequest, Released
<1>16. ASSUME NEW q \in Requests, Fail(q) PROVE NothingForgotten'
  BY <1>16 DEF Fail, EndRequest, Released
<1>17. ASSUME NEW q \in Requests, NEW d \in ObjectDigests, NextItem(q, d)
      PROVE  NothingForgotten'
  BY <1>17 DEF NextItem
<1>18. ASSUME NEW q \in Requests, NEW d \in Digests, LockDigest(q, d)
      PROVE  NothingForgotten'
  BY <1>18 DEF LockDigest, NextDigest
<1>19. ASSUME NEW q \in Requests, NEW d \in Digests, AttachInline(q, d)
      PROVE  NothingForgotten'
  BY <1>19 DEF AttachInline, NextDigest, Blockers
<1>20. ASSUME NEW s \in Sweepers, ListCandidates(s) PROVE NothingForgotten'
  BY <1>20 DEF ListCandidates, Old
<1>21. ASSUME NEW s \in Sweepers, Retain(s) PROVE NothingForgotten'
  BY <1>21 DEF Retain, SweptOne, Released
<1>22. ASSUME NEW s \in Sweepers, Unreferenced(s) PROVE NothingForgotten'
  BY <1>22 DEF Unreferenced
<1>23. ASSUME NEW s \in Sweepers, SweepDelete(s) PROVE NothingForgotten'
  BY <1>23 DEF SweepDelete, SweptOne, Released
<1>24. ASSUME NEW s \in Sweepers, LateDelete(s) PROVE NothingForgotten'
  BY <1>24 DEF LateDelete
<1>25. ASSUME NEW s \in Sweepers, AbortSweep(s) PROVE NothingForgotten'
  BY <1>25 DEF AbortSweep, Released
<1>26. ASSUME NEW s \in Sweepers, LoseSession(s) PROVE NothingForgotten'
  BY <1>26 DEF LoseSession, Released
<1>27. ASSUME NEW s \in Sweepers, NEW d \in ObjectDigests, SweepLock(s, d)
      PROVE  NothingForgotten'
  BY <1>27 DEF SweepLock
<1>28. CASE UNCHANGED vars
  BY <1>28 DEF vars
<1> QED
  BY <1>1, <1>2, <1>3, <1>4, <1>5, <1>6, <1>7, <1>8, <1>9, <1>10,
     <1>11, <1>12, <1>13, <1>14, <1>15, <1>16, <1>17, <1>18, <1>19, <1>20, <1>21, <1>22,
     <1>23, <1>24, <1>25, <1>26, <1>27, <1>28 DEF Next, PrepareStep, AttachStep,
     SweepStep

\* No catalog row appears for a digest that a sweep is about to delete.
LEMMA SweepLockedStep ==
  ASSUME TypeOK, AtWork, SweepLocked, RowsLocked, [Next]_vars
  PROVE  SweepLocked'
<1> USE DEF TypeOK, AtWork, SweepLocked, RowsLocked, Attaching, Preparing, Digests,
           requestVars, sweepVars
<1>1. CASE Tick
  BY <1>1 DEF Tick
<1>2. ASSUME NEW q \in Requests, Refuse(q) PROVE SweepLocked'
  BY <1>2 DEF Refuse
<1>3. ASSUME NEW q \in Requests, Begin(q) PROVE SweepLocked'
  BY <1>3 DEF Begin
<1>4. ASSUME NEW q \in Requests, PrepareDone(q) PROVE SweepLocked'
  BY <1>4 DEF PrepareDone
<1>5. ASSUME NEW q \in Requests, ReuseExisting(q) PROVE SweepLocked'
  BY <1>5, ActorsAssumption, DigestsAssumption DEF ReuseExisting, StoredBlob
<1>6. ASSUME NEW q \in Requests, NothingToReuse(q) PROVE SweepLocked'
  BY <1>6 DEF NothingToReuse
<1>7. ASSUME NEW q \in Requests, Put(q) PROVE SweepLocked'
  BY <1>7 DEF Put
<1>8. ASSUME NEW q \in Requests, PutRefused(q) PROVE SweepLocked'
  BY <1>8 DEF PutRefused
<1>9. ASSUME NEW q \in Requests, VerifyUpload(q) PROVE SweepLocked'
  BY <1>9, ActorsAssumption, DigestsAssumption DEF VerifyUpload, StoredBlob
<1>10. ASSUME NEW q \in Requests, UploadAgain(q) PROVE SweepLocked'
  BY <1>10 DEF UploadAgain
<1>11. ASSUME NEW q \in Requests, UploadVanished(q) PROVE SweepLocked'
  BY <1>11, ActorsAssumption, DigestsAssumption DEF UploadVanished, EndRequest, Released
<1>12. ASSUME NEW q \in Requests, AttachObject(q) PROVE SweepLocked'
  BY <1>12, ActorsAssumption, DigestsAssumption DEF AttachObject
<1>13. ASSUME NEW q \in Requests, AttachMissing(q) PROVE SweepLocked'
  BY <1>13, ActorsAssumption, DigestsAssumption DEF AttachMissing, EndRequest, Released
<1>14. ASSUME NEW q \in Requests, Append(q) PROVE SweepLocked'
  BY <1>14 DEF Append
<1>15. ASSUME NEW q \in Requests, Commit(q) PROVE SweepLocked'
  BY <1>15, ActorsAssumption, DigestsAssumption DEF Commit, EndRequest, Released
<1>16. ASSUME NEW q \in Requests, Fail(q) PROVE SweepLocked'
  BY <1>16, ActorsAssumption, DigestsAssumption DEF Fail, EndRequest, Released
<1>17. ASSUME NEW q \in Requests, NEW d \in ObjectDigests, NextItem(q, d)
      PROVE  SweepLocked'
  BY <1>17, ActorsAssumption, DigestsAssumption DEF NextItem
<1>18. ASSUME NEW q \in Requests, NEW d \in Digests, LockDigest(q, d)
      PROVE  SweepLocked'
  BY <1>18, ActorsAssumption, DigestsAssumption DEF LockDigest, NextDigest
<1>19. ASSUME NEW q \in Requests, NEW d \in Digests, AttachInline(q, d)
      PROVE  SweepLocked'
  BY <1>19 DEF AttachInline, NextDigest, Blockers
<1>20. ASSUME NEW s \in Sweepers, ListCandidates(s) PROVE SweepLocked'
  BY <1>20 DEF ListCandidates, Old
<1>21. ASSUME NEW s \in Sweepers, Retain(s) PROVE SweepLocked'
  BY <1>21 DEF Retain, SweptOne, Released
<1>22. ASSUME NEW s \in Sweepers, Unreferenced(s) PROVE SweepLocked'
  BY <1>22 DEF Unreferenced
<1>23. ASSUME NEW s \in Sweepers, SweepDelete(s) PROVE SweepLocked'
  BY <1>23 DEF SweepDelete, SweptOne, Released
<1>24. ASSUME NEW s \in Sweepers, LateDelete(s) PROVE SweepLocked'
  BY <1>24 DEF LateDelete
<1>25. ASSUME NEW s \in Sweepers, AbortSweep(s) PROVE SweepLocked'
  BY <1>25 DEF AbortSweep, Released
<1>26. ASSUME NEW s \in Sweepers, LoseSession(s) PROVE SweepLocked'
  BY <1>26 DEF LoseSession, Released
<1>27. ASSUME NEW s \in Sweepers, NEW d \in ObjectDigests, SweepLock(s, d)
      PROVE  SweepLocked'
  BY <1>27, ActorsAssumption, DigestsAssumption DEF SweepLock
<1>28. CASE UNCHANGED vars
  BY <1>28 DEF vars
<1> QED
  BY <1>1, <1>2, <1>3, <1>4, <1>5, <1>6, <1>7, <1>8, <1>9, <1>10,
     <1>11, <1>12, <1>13, <1>14, <1>15, <1>16, <1>17, <1>18, <1>19, <1>20, <1>21, <1>22,
     <1>23, <1>24, <1>25, <1>26, <1>27, <1>28 DEF Next, PrepareStep, AttachStep,
     SweepStep

\* Locks and inline rows are taken in order.
LEMMA LockOrderStep ==
  ASSUME TypeOK, AtWork, RowsLocked, LockOrder, [Next]_vars
  PROVE  LockOrder'
<1> USE DEF TypeOK, AtWork, RowsLocked, LockOrder, Attaching, Preparing, Active,
           Digests, requestVars, sweepVars
<1>1. CASE Tick
  BY <1>1 DEF Tick
<1>2. ASSUME NEW q \in Requests, Refuse(q) PROVE LockOrder'
  BY <1>2 DEF Refuse
<1>3. ASSUME NEW q \in Requests, Begin(q) PROVE LockOrder'
  BY <1>3 DEF Begin
<1>4. ASSUME NEW q \in Requests, PrepareDone(q) PROVE LockOrder'
  BY <1>4 DEF PrepareDone
<1>5. ASSUME NEW q \in Requests, ReuseExisting(q) PROVE LockOrder'
  BY <1>5 DEF ReuseExisting, StoredBlob
<1>6. ASSUME NEW q \in Requests, NothingToReuse(q) PROVE LockOrder'
  BY <1>6 DEF NothingToReuse
<1>7. ASSUME NEW q \in Requests, Put(q) PROVE LockOrder'
  BY <1>7 DEF Put
<1>8. ASSUME NEW q \in Requests, PutRefused(q) PROVE LockOrder'
  BY <1>8 DEF PutRefused
<1>9. ASSUME NEW q \in Requests, VerifyUpload(q) PROVE LockOrder'
  BY <1>9 DEF VerifyUpload, StoredBlob
<1>10. ASSUME NEW q \in Requests, UploadAgain(q) PROVE LockOrder'
  BY <1>10 DEF UploadAgain
<1>11. ASSUME NEW q \in Requests, UploadVanished(q) PROVE LockOrder'
  BY <1>11, ActorsAssumption, DigestsAssumption DEF UploadVanished, EndRequest, Released
<1>12. ASSUME NEW q \in Requests, AttachObject(q) PROVE LockOrder'
  BY <1>12 DEF AttachObject
<1>13. ASSUME NEW q \in Requests, AttachMissing(q) PROVE LockOrder'
  BY <1>13, ActorsAssumption, DigestsAssumption DEF AttachMissing, EndRequest, Released
<1>14. ASSUME NEW q \in Requests, Append(q) PROVE LockOrder'
  BY <1>14 DEF Append
<1>15. ASSUME NEW q \in Requests, Commit(q) PROVE LockOrder'
  BY <1>15, ActorsAssumption, DigestsAssumption DEF Commit, EndRequest, Released
<1>16. ASSUME NEW q \in Requests, Fail(q) PROVE LockOrder'
  BY <1>16, ActorsAssumption, DigestsAssumption DEF Fail, EndRequest, Released
<1>17. ASSUME NEW q \in Requests, NEW d \in ObjectDigests, NextItem(q, d)
      PROVE  LockOrder'
  BY <1>17 DEF NextItem
<1>18. ASSUME NEW q \in Requests, NEW d \in Digests, LockDigest(q, d)
      PROVE  LockOrder'
  BY <1>18 DEF LockDigest, NextDigest
<1>19. ASSUME NEW q \in Requests, NEW d \in Digests, AttachInline(q, d)
      PROVE  LockOrder'
  BY <1>19 DEF AttachInline, NextDigest, Blockers
<1>20. ASSUME NEW s \in Sweepers, ListCandidates(s) PROVE LockOrder'
  BY <1>20 DEF ListCandidates, Old
<1>21. ASSUME NEW s \in Sweepers, Retain(s) PROVE LockOrder'
  BY <1>21, ActorsAssumption, DigestsAssumption DEF Retain, SweptOne, Released
<1>22. ASSUME NEW s \in Sweepers, Unreferenced(s) PROVE LockOrder'
  BY <1>22 DEF Unreferenced
<1>23. ASSUME NEW s \in Sweepers, SweepDelete(s) PROVE LockOrder'
  BY <1>23, ActorsAssumption, DigestsAssumption DEF SweepDelete, SweptOne, Released
<1>24. ASSUME NEW s \in Sweepers, LateDelete(s) PROVE LockOrder'
  BY <1>24, ActorsAssumption, DigestsAssumption DEF LateDelete
<1>25. ASSUME NEW s \in Sweepers, AbortSweep(s) PROVE LockOrder'
  BY <1>25, ActorsAssumption, DigestsAssumption DEF AbortSweep, Released
<1>26. ASSUME NEW s \in Sweepers, LoseSession(s) PROVE LockOrder'
  BY <1>26, ActorsAssumption, DigestsAssumption DEF LoseSession, Released
<1>27. ASSUME NEW s \in Sweepers, NEW d \in ObjectDigests, SweepLock(s, d)
      PROVE  LockOrder'
  BY <1>27, ActorsAssumption, DigestsAssumption DEF SweepLock
<1>28. CASE UNCHANGED vars
  BY <1>28 DEF vars
<1> QED
  BY <1>1, <1>2, <1>3, <1>4, <1>5, <1>6, <1>7, <1>8, <1>9, <1>10,
     <1>11, <1>12, <1>13, <1>14, <1>15, <1>16, <1>17, <1>18, <1>19, <1>20, <1>21, <1>22,
     <1>23, <1>24, <1>25, <1>26, <1>27, <1>28 DEF Next, PrepareStep, AttachStep,
     SweepStep

----------------------------------------------------------------------------
(* The invariant and what follows from it.                                 *)

\* The types and the inductive invariant together.
Safe == TypeOK /\ Inductive

\* The initial states satisfy the invariant.
LEMMA InitSafe == Init => Safe
  BY StoreAssumption, ContentBoundsAssumption, WantsAssumption, ActorsAssumption
     DEF Init, Safe, TypeOK, Inductive, AtWork, RowsBacked, RowsLocked, NothingForgotten,
         SweepLocked, LockOrder, Present, Time, Preparing, Attaching, Active

\* Every step preserves it.
LEMMA NextSafe == Safe /\ [Next]_vars => Safe'
  BY TypeStep, AtWorkStep, RowsBackedStep, RowsLockedStep, NothingForgottenStep,
     SweepLockedStep, LockOrderStep DEF Safe, Inductive

\* It holds throughout.
LEMMA AlwaysSafe == Spec => []Safe
  BY InitSafe, NextSafe, PTL DEF Spec

\* Every behaviour of the content store is well typed.
THEOREM ContentTypeCorrect == Spec => []TypeOK
<1>1. Safe => TypeOK
  BY DEF Safe
<1> QED BY <1>1, AlwaysSafe, PTL

\* No committed event refers to an object that a sweep deleted or to a digest
\* without a catalog row, however attach and the orphan sweep interleave
\* (ContentService.attach, OrphanSweeper._sweep_one).
THEOREM ReferencesBacked == Spec => []NoDanglingReference
<1>1. Safe => NoDanglingReference
  <2> SUFFICES ASSUME Safe, lost = 0, NEW q \in committed
               PROVE  /\ Wants[q] \subseteq catalog
                      /\ Wants[q] \cap ObjectDigests \subseteq Present
    BY DEF NoDanglingReference
  <2>1. Wants[q] \subseteq catalog
    BY DEF Safe, TypeOK, Inductive, NothingForgotten
  <2>2. catalog \cap ObjectDigests \subseteq Present
    BY DEF Safe, Inductive, RowsBacked
  <2> QED BY <2>1, <2>2
<1> QED BY <1>1, AlwaysSafe, PTL

----------------------------------------------------------------------------
(* No deadlock between transactions that share content.                    *)

\* The order of attach is a strict linear order of the digests.
LEMMA PrecedesOrder ==
  ASSUME NEW c \in Digests, NEW d \in Digests, NEW e \in Digests
  PROVE  /\ ~Precedes(d, d)
         /\ Precedes(c, d) /\ Precedes(d, e) => Precedes(c, e)
         /\ ~(Precedes(c, d) /\ Precedes(d, c))
  BY DigestsAssumption DEF Precedes, Digests

\* Digests that come after d, within D.
After(d, D) == {e \in D : Precedes(d, e)}

\* Every nonempty set of digests has a last one: the one with the fewest after
\* it.
LEMMA LastDigest ==
  ASSUME NEW D \in SUBSET Digests, D # {}
  PROVE  \E d \in D : \A e \in D : ~Precedes(d, e)
<1> DEFINE Count(d) == Cardinality(After(d, D))
           Counts == {Count(d) : d \in D}
<1>1. \A d \in D : IsFiniteSet(After(d, D)) /\ Count(d) \in Nat
  <2>1. IsFiniteSet(D)
    BY FS_Subset, DigestsAssumption
  <2> QED BY <2>1, FS_Subset, FS_CardinalityType DEF After
<1>2. PICK n \in Counts : \A m \in Counts : ~(m < n)
  <2>1. Counts \subseteq Nat /\ Counts # {}
    BY <1>1
  <2>2. IsWellFoundedOn(OpToRel(<, Nat), Nat)
    BY NatLessThanWellFounded
  <2>3. PICK n \in Counts : \A m \in Counts : <<m, n>> \notin OpToRel(<, Nat)
    BY <2>1, <2>2, WFMin
  <2>4. \A m \in Counts : m < n => <<m, n>> \in OpToRel(<, Nat)
    BY <2>1 DEF OpToRel
  <2> QED BY <2>3, <2>4
<1>3. PICK d \in D : n = Count(d)
  OBVIOUS
<1>4. ASSUME NEW e \in D, Precedes(d, e) PROVE FALSE
  <2>1. After(e, D) \subseteq After(d, D)
    BY <1>4, PrecedesOrder DEF After
  <2>2. e \in After(d, D) /\ e \notin After(e, D)
    BY <1>4, PrecedesOrder DEF After
  <2>3. Count(e) < Count(d)
    BY <1>1, <2>1, <2>2, FS_Subset
  <2> QED BY <1>2, <1>3, <2>3
<1> QED BY <1>4

\* Whatever blocks a request at digest d has everything it still wants after d.
LEMMA BlockerIsAhead ==
  ASSUME Safe, NEW q \in Requests, NEW b \in Requests, NEW d \in Digests,
         b \in Blockers(q, d), pc[b] = "attach", NEW e \in todo[b]
  PROVE  Precedes(d, e)
<1>1. CASE d \in ObjectDigests
  <2>1. locks[d] = b
    BY <1>1 DEF Blockers
  <2> QED BY <1>1, <2>1 DEF Safe, Inductive, LockOrder
<1>2. CASE d \notin ObjectDigests
  <2>1. d \in inserted[b]
    BY <1>2 DEF Blockers
  <2> QED BY <2>1 DEF Safe, Inductive, LockOrder
<1> QED BY <1>1, <1>2

\* Batches that share content never deadlock on digest locks and uncommitted
\* inline rows: no set of requests waits for itself (ContentService.attach
\* works in sorted order).
THEOREM AttachNeverDeadlocks == Spec => []NoLockCycle
<1>1. Safe => NoLockCycle
  <2> SUFFICES ASSUME Safe, NEW S \in SUBSET Requests, S # {},
                      \A q \in S : \E b \in S : WaitsFor(q, b)
               PROVE  FALSE
    BY DEF NoLockCycle
  <2> DEFINE D == {d \in Digests : \E q \in S : d \in todo[q] /\ NextDigest(q, d)}
  <2>1. \A q \in S : \E d \in D : \E b \in S :
          d \in todo[q] /\ NextDigest(q, d) /\ b \in Blockers(q, d) /\ pc[q] = "attach"
    BY DEF WaitsFor, Safe, TypeOK
  <2>2. PICK m \in D : \A e \in D : ~Precedes(m, e)
    BY <2>1, LastDigest
  <2>3. PICK q \in S : m \in todo[q] /\ NextDigest(q, m)
    OBVIOUS
  <2>4. PICK b \in S : b \in Blockers(q, m)
    <3>1. PICK d \in D, c \in S : d \in todo[q] /\ NextDigest(q, d) /\ c \in Blockers(q, d)
      BY <2>1
    <3>2. d = m
      BY <2>3, <3>1, PrecedesOrder DEF NextDigest
    <3> QED BY <3>1, <3>2
  <2>5. PICK e \in D : e \in todo[b] /\ pc[b] = "attach"
    BY <2>1
  <2>6. Precedes(m, e)
    BY <2>4, <2>5, BlockerIsAhead
  <2> QED BY <2>2, <2>6
<1> QED BY <1>1, AlwaysSafe, PTL

-----------------------------------------------------------------------------
(* Uploads, where sweeps do not overlap.                                   *)

\* A request is served within the grace window.
LEMMA WithinGraceStep ==
  ASSUME TypeOK, WithinGrace, [Next]_vars
  PROVE  WithinGrace'
<1> USE DEF TypeOK, requestVars, sweepVars, Active, Preparing, Attaching, Digests, WithinGrace, Time
<1>1. CASE Tick
  BY <1>1, StoreAssumption DEF Tick
<1>2. ASSUME NEW q \in Requests, Refuse(q) PROVE WithinGrace'
  BY <1>2 DEF Refuse
<1>3. ASSUME NEW q \in Requests, Begin(q) PROVE WithinGrace'
  BY <1>3, StoreAssumption DEF Begin
<1>4. ASSUME NEW q \in Requests, PrepareDone(q) PROVE WithinGrace'
  BY <1>4 DEF PrepareDone
<1>5. ASSUME NEW q \in Requests, ReuseExisting(q) PROVE WithinGrace'
  BY <1>5 DEF ReuseExisting, StoredBlob
<1>6. ASSUME NEW q \in Requests, NothingToReuse(q) PROVE WithinGrace'
  BY <1>6 DEF NothingToReuse
<1>7. ASSUME NEW q \in Requests, Put(q) PROVE WithinGrace'
  BY <1>7 DEF Put
<1>8. ASSUME NEW q \in Requests, PutRefused(q) PROVE WithinGrace'
  BY <1>8 DEF PutRefused
<1>9. ASSUME NEW q \in Requests, VerifyUpload(q) PROVE WithinGrace'
  BY <1>9 DEF VerifyUpload, StoredBlob
<1>10. ASSUME NEW q \in Requests, UploadAgain(q) PROVE WithinGrace'
  BY <1>10 DEF UploadAgain
<1>11. ASSUME NEW q \in Requests, UploadVanished(q) PROVE WithinGrace'
  BY <1>11 DEF UploadVanished, EndRequest
<1>12. ASSUME NEW q \in Requests, AttachObject(q) PROVE WithinGrace'
  BY <1>12 DEF AttachObject
<1>13. ASSUME NEW q \in Requests, AttachMissing(q) PROVE WithinGrace'
  BY <1>13 DEF AttachMissing, EndRequest
<1>14. ASSUME NEW q \in Requests, Append(q) PROVE WithinGrace'
  BY <1>14 DEF Append
<1>15. ASSUME NEW q \in Requests, Commit(q) PROVE WithinGrace'
  BY <1>15 DEF Commit, EndRequest
<1>16. ASSUME NEW q \in Requests, Fail(q) PROVE WithinGrace'
  BY <1>16, StoreAssumption DEF Fail, EndRequest
<1>17. ASSUME NEW q \in Requests, NEW d \in ObjectDigests, NextItem(q, d) PROVE WithinGrace'
  BY <1>17 DEF NextItem
<1>18. ASSUME NEW q \in Requests, NEW d \in Digests, LockDigest(q, d) PROVE WithinGrace'
  BY <1>18 DEF LockDigest
<1>19. ASSUME NEW q \in Requests, NEW d \in Digests, AttachInline(q, d) PROVE WithinGrace'
  BY <1>19 DEF AttachInline
<1>20. ASSUME NEW s \in Sweepers, ListCandidates(s) PROVE WithinGrace'
  BY <1>20 DEF ListCandidates, Old
<1>21. ASSUME NEW s \in Sweepers, Retain(s) PROVE WithinGrace'
  BY <1>21 DEF Retain, SweptOne
<1>22. ASSUME NEW s \in Sweepers, Unreferenced(s) PROVE WithinGrace'
  BY <1>22 DEF Unreferenced
<1>23. ASSUME NEW s \in Sweepers, SweepDelete(s) PROVE WithinGrace'
  BY <1>23 DEF SweepDelete, SweptOne
<1>24. ASSUME NEW s \in Sweepers, LateDelete(s) PROVE WithinGrace'
  BY <1>24 DEF LateDelete
<1>25. ASSUME NEW s \in Sweepers, AbortSweep(s) PROVE WithinGrace'
  BY <1>25 DEF AbortSweep
<1>26. ASSUME NEW s \in Sweepers, LoseSession(s) PROVE WithinGrace'
  BY <1>26 DEF LoseSession
<1>27. ASSUME NEW s \in Sweepers, NEW d \in ObjectDigests, SweepLock(s, d) PROVE WithinGrace'
  BY <1>27 DEF SweepLock
<1>28. CASE UNCHANGED vars
  BY <1>28 DEF vars
<1> QED
  BY <1>1, <1>2, <1>3, <1>4, <1>5, <1>6, <1>7, <1>8, <1>9, <1>10, <1>11, <1>12, <1>13, <1>14, <1>15, <1>16, <1>17, <1>18, <1>19, <1>20, <1>21, <1>22, <1>23, <1>24, <1>25, <1>26, <1>27, <1>28
     DEF Next, PrepareStep, AttachStep, SweepStep

\* What a sweep lists stays there until the sweep removes it.
LEMMA ListedStep ==
  ASSUME OneSweeper, TypeOK, AtWork, SweepLocked, ListedPresent, [Next]_vars
  PROVE  ListedPresent'
<1> USE DEF TypeOK, requestVars, sweepVars, Active, Preparing, Attaching, Digests, AtWork, SweepLocked, OneSweeper, ListedPresent, Present
<1>1. CASE Tick
  BY <1>1 DEF Tick
<1>2. ASSUME NEW q \in Requests, Refuse(q) PROVE ListedPresent'
  BY <1>2, ActorsAssumption, DigestsAssumption DEF Refuse
<1>3. ASSUME NEW q \in Requests, Begin(q) PROVE ListedPresent'
  BY <1>3, ActorsAssumption, DigestsAssumption DEF Begin
<1>4. ASSUME NEW q \in Requests, PrepareDone(q) PROVE ListedPresent'
  BY <1>4, ActorsAssumption, DigestsAssumption DEF PrepareDone
<1>5. ASSUME NEW q \in Requests, ReuseExisting(q) PROVE ListedPresent'
  BY <1>5, ActorsAssumption, DigestsAssumption DEF ReuseExisting, StoredBlob
<1>6. ASSUME NEW q \in Requests, NothingToReuse(q) PROVE ListedPresent'
  BY <1>6, ActorsAssumption, DigestsAssumption DEF NothingToReuse
<1>7. ASSUME NEW q \in Requests, Put(q) PROVE ListedPresent'
  BY <1>7, ActorsAssumption, DigestsAssumption DEF Put, Time
<1>8. ASSUME NEW q \in Requests, PutRefused(q) PROVE ListedPresent'
  BY <1>8, ActorsAssumption, DigestsAssumption DEF PutRefused, Time
<1>9. ASSUME NEW q \in Requests, VerifyUpload(q) PROVE ListedPresent'
  BY <1>9, ActorsAssumption, DigestsAssumption DEF VerifyUpload, StoredBlob
<1>10. ASSUME NEW q \in Requests, UploadAgain(q) PROVE ListedPresent'
  BY <1>10, ActorsAssumption, DigestsAssumption DEF UploadAgain
<1>11. ASSUME NEW q \in Requests, UploadVanished(q) PROVE ListedPresent'
  BY <1>11, ActorsAssumption, DigestsAssumption DEF UploadVanished, EndRequest
<1>12. ASSUME NEW q \in Requests, AttachObject(q) PROVE ListedPresent'
  BY <1>12, ActorsAssumption, DigestsAssumption DEF AttachObject
<1>13. ASSUME NEW q \in Requests, AttachMissing(q) PROVE ListedPresent'
  BY <1>13, ActorsAssumption, DigestsAssumption DEF AttachMissing, EndRequest
<1>14. ASSUME NEW q \in Requests, Append(q) PROVE ListedPresent'
  BY <1>14, ActorsAssumption, DigestsAssumption DEF Append
<1>15. ASSUME NEW q \in Requests, Commit(q) PROVE ListedPresent'
  BY <1>15, ActorsAssumption, DigestsAssumption DEF Commit, EndRequest
<1>16. ASSUME NEW q \in Requests, Fail(q) PROVE ListedPresent'
  BY <1>16, ActorsAssumption, DigestsAssumption DEF Fail, EndRequest
<1>17. ASSUME NEW q \in Requests, NEW d \in ObjectDigests, NextItem(q, d) PROVE ListedPresent'
  BY <1>17, ActorsAssumption, DigestsAssumption DEF NextItem
<1>18. ASSUME NEW q \in Requests, NEW d \in Digests, LockDigest(q, d) PROVE ListedPresent'
  BY <1>18, ActorsAssumption, DigestsAssumption DEF LockDigest
<1>19. ASSUME NEW q \in Requests, NEW d \in Digests, AttachInline(q, d) PROVE ListedPresent'
  BY <1>19, ActorsAssumption, DigestsAssumption DEF AttachInline
<1>20. ASSUME NEW s \in Sweepers, ListCandidates(s) PROVE ListedPresent'
  BY <1>20 DEF ListCandidates, Old
<1>21. ASSUME NEW s \in Sweepers, Retain(s) PROVE ListedPresent'
  BY <1>21, ActorsAssumption, DigestsAssumption DEF Retain, SweptOne
<1>22. ASSUME NEW s \in Sweepers, Unreferenced(s) PROVE ListedPresent'
  BY <1>22 DEF Unreferenced
<1>23. ASSUME NEW s \in Sweepers, SweepDelete(s) PROVE ListedPresent'
  BY <1>23, ActorsAssumption, DigestsAssumption DEF SweepDelete, SweptOne
<1>24. ASSUME NEW s \in Sweepers, LateDelete(s) PROVE ListedPresent'
  BY <1>24, ActorsAssumption, DigestsAssumption DEF LateDelete
<1>25. ASSUME NEW s \in Sweepers, AbortSweep(s) PROVE ListedPresent'
  BY <1>25, ActorsAssumption, DigestsAssumption DEF AbortSweep
<1>26. ASSUME NEW s \in Sweepers, LoseSession(s) PROVE ListedPresent'
  BY <1>26, ActorsAssumption, DigestsAssumption DEF LoseSession
<1>27. ASSUME NEW s \in Sweepers, NEW d \in ObjectDigests, SweepLock(s, d) PROVE ListedPresent'
  BY <1>27, ActorsAssumption, DigestsAssumption DEF SweepLock
<1>28. CASE UNCHANGED vars
  BY <1>28 DEF vars
<1> QED
  BY <1>1, <1>2, <1>3, <1>4, <1>5, <1>6, <1>7, <1>8, <1>9, <1>10, <1>11, <1>12, <1>13, <1>14, <1>15, <1>16, <1>17, <1>18, <1>19, <1>20, <1>21, <1>22, <1>23, <1>24, <1>25, <1>26, <1>27, <1>28
     DEF Next, PrepareStep, AttachStep, SweepStep

\* An upload is never deleted under the request that made it.
LEMMA GuardedStep ==
  ASSUME OneSweeper, TypeOK, AtWork, SweepLocked, RowsBacked, WithinGrace, ListedPresent, UploadsGuarded, [Next]_vars
  PROVE  UploadsGuarded'
<1> USE DEF TypeOK, requestVars, sweepVars, Active, Preparing, Attaching, Digests, AtWork, OneSweeper, UploadsGuarded, Relies, Uploads, Recent, Unlisted
<1>1. CASE Tick
  BY <1>1 DEF Tick
<1>2. ASSUME NEW q \in Requests, Refuse(q) PROVE UploadsGuarded'
  BY <1>2 DEF Refuse
<1>3. ASSUME NEW q \in Requests, Begin(q) PROVE UploadsGuarded'
  BY <1>3 DEF Begin
<1>4. ASSUME NEW q \in Requests, PrepareDone(q) PROVE UploadsGuarded'
  BY <1>4 DEF PrepareDone
<1>5. ASSUME NEW q \in Requests, ReuseExisting(q) PROVE UploadsGuarded'
  BY <1>5 DEF ReuseExisting, StoredBlob
<1>6. ASSUME NEW q \in Requests, NothingToReuse(q) PROVE UploadsGuarded'
  BY <1>6 DEF NothingToReuse, ListedPresent, Present
<1>7. ASSUME NEW q \in Requests, Put(q) PROVE UploadsGuarded'
  BY <1>7 DEF Put, ListedPresent, WithinGrace, Present
<1>8. ASSUME NEW q \in Requests, PutRefused(q) PROVE UploadsGuarded'
  BY <1>8 DEF PutRefused, ListedPresent, WithinGrace, Present
<1>9. ASSUME NEW q \in Requests, VerifyUpload(q) PROVE UploadsGuarded'
  BY <1>9 DEF VerifyUpload, StoredBlob
<1>10. ASSUME NEW q \in Requests, UploadAgain(q) PROVE UploadsGuarded'
  BY <1>10 DEF UploadAgain, ListedPresent, Present
<1>11. ASSUME NEW q \in Requests, UploadVanished(q) PROVE UploadsGuarded'
  BY <1>11, StoreAssumption DEF UploadVanished, EndRequest, Time
<1>12. ASSUME NEW q \in Requests, AttachObject(q) PROVE UploadsGuarded'
  BY <1>12 DEF AttachObject
<1>13. ASSUME NEW q \in Requests, AttachMissing(q) PROVE UploadsGuarded'
  BY <1>13, StoreAssumption DEF AttachMissing, EndRequest, RowsBacked, Present, Time
<1>14. ASSUME NEW q \in Requests, Append(q) PROVE UploadsGuarded'
  BY <1>14 DEF Append
<1>15. ASSUME NEW q \in Requests, Commit(q) PROVE UploadsGuarded'
  BY <1>15 DEF Commit, EndRequest
<1>16. ASSUME NEW q \in Requests, Fail(q) PROVE UploadsGuarded'
  BY <1>16 DEF Fail, EndRequest
<1>17. ASSUME NEW q \in Requests, NEW d \in ObjectDigests, NextItem(q, d) PROVE UploadsGuarded'
  BY <1>17, ActorsAssumption, DigestsAssumption DEF NextItem
<1>18. ASSUME NEW q \in Requests, NEW d \in Digests, LockDigest(q, d) PROVE UploadsGuarded'
  BY <1>18, ActorsAssumption, DigestsAssumption DEF LockDigest
<1>19. ASSUME NEW q \in Requests, NEW d \in Digests, AttachInline(q, d) PROVE UploadsGuarded'
  BY <1>19 DEF AttachInline
<1>20. ASSUME NEW s \in Sweepers, ListCandidates(s) PROVE UploadsGuarded'
  BY <1>20, StoreAssumption DEF ListCandidates, Old, WithinGrace, Time
<1>21. ASSUME NEW s \in Sweepers, Retain(s) PROVE UploadsGuarded'
  BY <1>21, ActorsAssumption, DigestsAssumption DEF Retain, SweptOne
<1>22. ASSUME NEW s \in Sweepers, Unreferenced(s) PROVE UploadsGuarded'
  BY <1>22 DEF Unreferenced
<1>23. ASSUME NEW s \in Sweepers, SweepDelete(s) PROVE UploadsGuarded'
  BY <1>23, ActorsAssumption, DigestsAssumption DEF SweepDelete, SweptOne, ListedPresent
<1>24. ASSUME NEW s \in Sweepers, LateDelete(s) PROVE UploadsGuarded'
  BY <1>24, ActorsAssumption, DigestsAssumption DEF LateDelete, SweepLocked
<1>25. ASSUME NEW s \in Sweepers, AbortSweep(s) PROVE UploadsGuarded'
  BY <1>25, ActorsAssumption, DigestsAssumption DEF AbortSweep
<1>26. ASSUME NEW s \in Sweepers, LoseSession(s) PROVE UploadsGuarded'
  BY <1>26, ActorsAssumption, DigestsAssumption DEF LoseSession
<1>27. ASSUME NEW s \in Sweepers, NEW d \in ObjectDigests, SweepLock(s, d) PROVE UploadsGuarded'
  BY <1>27, ActorsAssumption, DigestsAssumption DEF SweepLock
<1>28. CASE UNCHANGED vars
  BY <1>28 DEF vars
<1> QED
  BY <1>1, <1>2, <1>3, <1>4, <1>5, <1>6, <1>7, <1>8, <1>9, <1>10, <1>11, <1>12, <1>13, <1>14, <1>15, <1>16, <1>17, <1>18, <1>19, <1>20, <1>21, <1>22, <1>23, <1>24, <1>25, <1>26, <1>27, <1>28
     DEF Next, PrepareStep, AttachStep, SweepStep

\* The parts of the invariant that speak of uploads.
UploadsSafe == WithinGrace /\ ListedPresent /\ UploadsGuarded

LEMMA InitUploads == Init => UploadsSafe
  BY StoreAssumption, ContentBoundsAssumption
     DEF Init, UploadsSafe, WithinGrace, ListedPresent, UploadsGuarded, Relies, Uploads, Active, Preparing,
         Attaching, Present

LEMMA NextUploads == OneSweeper /\ Safe /\ UploadsSafe /\ [Next]_vars => UploadsSafe'
  BY WithinGraceStep, ListedStep, GuardedStep DEF UploadsSafe, Safe, Inductive

\* With sweeps one at a time, an object that a running request uploaded stays
\* until the request ends, and no missing_object alarm is raised, unless a
\* session was lost (put_verified, attach, _sweep_one).
THEOREM UploadsAreKept == ASSUME OneSweeper PROVE Spec => [](UploadKept /\ NoFalseAlarm)
<1>1. Safe /\ UploadsSafe => UploadKept /\ NoFalseAlarm
  BY DEF Safe, UploadsSafe, UploadsGuarded, Relies, Recent, TypeOK, Time, UploadKept, NoFalseAlarm
<1>2. Init => UploadsSafe
  BY InitUploads
<1>3. Safe /\ UploadsSafe /\ [Next]_vars => UploadsSafe'
  BY NextUploads
<1> QED BY <1>1, <1>2, <1>3, AlwaysSafe, PTL DEF Spec

\* What the content store promises together, for any requests, digests, modes
\* and sweeps.
THEOREM ContentIsSound == Spec => []ContentSound
<1>1. CASE OneSweeper
  <2>1. NoDanglingReference /\ UploadKept /\ NoFalseAlarm => ContentSound
    BY DEF ContentSound
  <2>2. Spec => [](UploadKept /\ NoFalseAlarm)
    BY <1>1, UploadsAreKept
  <2> QED BY <2>1, <2>2, ReferencesBacked, PTL
<1>2. CASE ~OneSweeper
  <2>1. NoDanglingReference => ContentSound
    BY <1>2 DEF ContentSound
  <2> QED BY <2>1, ReferencesBacked, PTL
<1> QED BY <1>1, <1>2
=============================================================================
