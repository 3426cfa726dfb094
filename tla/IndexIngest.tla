----------------------------- MODULE IndexIngest -----------------------------
(***************************************************************************)
(* Submitting the drafts of an indexing run to the ledger (the emitter's   *)
(* claim_key and IndexingService.ingest, and pipeline._index_checkout).    *)
(* Several indexers work at once on targets that share files; each reads   *)
(* which keys are stored, then submits the others in batches, may crash    *)
(* between two of them and is run again.  An event is what it claims plus  *)
(* the observation (which target was indexed) it was made with.            *)
(***************************************************************************)
EXTENDS Integers, Sequences, FiniteSets, SequencesExt

CONSTANTS
  Indexers,   \* concurrent runs of the index command
  Targets,    \* commits or snapshots that are indexed
  Files,      \* file revisions; every target has all of them
  BatchSize,  \* MAX_BATCH_EVENTS
  MaxCrashes, \* bound: crashes and rejected batches
  None

IngestAssumption == IsFiniteSet(Files) /\ BatchSize \in Nat \ {0} /\ MaxCrashes \in Nat

VARIABLES
  ledger,   \* set of stored events: [key, event]
  pc,       \* per indexer: "idle", "check", "submit", "done", "failed" or "conflict"
  target,   \* per indexer: the target of its run
  good,     \* per indexer: whether every file of the run was complete
  fresh,    \* per indexer: which of its drafts, by place, are still to submit
  crashes,
  whole     \* targets some run reported complete after ingesting (history)

vars == <<ledger, pc, target, good, fresh, crashes, whole>>

-----------------------------------------------------------------------------
\* An event: its type, the target it was observed with, what it is about, and
\* the outcome it states.
Event(type, t, f, says) == [type |-> type, target |-> t, about |-> f, says |-> says]

\* OBSERVATION_FIELDS: the types whose target is an observation, not a claim.
OBSERVATION_FIELDS ==
  [type \in {"file", "symbol", "observed", "coverage", "started", "completed"} |-> type \in {"symbol", "observed"}]

claim_view(e) == IF OBSERVATION_FIELDS[e.type] THEN [e EXCEPT !.target = None] ELSE e

\* claim_key: the digest of the claim.
claim_key(e) == claim_view(e)

\* _same_claim compares the very view the key digests.
same_claim(d, e) == claim_view(d) = claim_view(e)

FileSeq == SetToSeq(Files)
PerFile(type, t, says) == [i \in 1..Len(FileSeq) |-> Event(type, t, FileSeq[i], says)]

\* _Run.build: started, the body in a fixed order, completed.
drafts(t, ok) ==
  <<Event("started", t, None, None)>>
  \o PerFile("file", t, None) \o PerFile("symbol", t, None) \o PerFile("observed", t, None) \o PerFile("coverage", t, ok)
  \o <<Event("completed", t, None, ok)>>

Stored(e) == {l \in ledger : l.key = claim_key(e)}

Places(t, ok) == 1..Len(drafts(t, ok))
mine(i) == drafts(target[i], good[i])

\* The next MAX_BATCH_EVENTS drafts in order.
batch(i) == {k \in fresh[i] : Cardinality({j \in fresh[i] : j < k}) < BatchSize}

-----------------------------------------------------------------------------
Init ==
  /\ ledger = {} /\ crashes = 0 /\ whole = {}
  /\ pc = [i \in Indexers |-> "idle"] /\ target = [i \in Indexers |-> None]
  /\ good = [i \in Indexers |-> TRUE] /\ fresh = [i \in Indexers |-> {}]

\* The run was scanned and parsed; its drafts are built.
Start(i, t, ok) ==
  /\ pc[i] \in {"idle", "failed"}
  /\ pc[i] = "failed" => t = target[i]
  /\ pc' = [pc EXCEPT ![i] = "check"]
  /\ target' = [target EXCEPT ![i] = t] /\ good' = [good EXCEPT ![i] = ok]
  /\ fresh' = [fresh EXCEPT ![i] = Places(t, ok)]
  /\ UNCHANGED <<ledger, crashes, whole>>

\* Which drafts are stored; a key that now says something else stops the run
\* before anything is written.
Check(i) ==
  /\ pc[i] = "check"
  /\ IF \E k \in fresh[i] : \E l \in Stored(mine(i)[k]) : ~same_claim(mine(i)[k], l.event)
     THEN pc' = [pc EXCEPT ![i] = "conflict"] /\ UNCHANGED fresh
     ELSE /\ pc' = [pc EXCEPT ![i] = "submit"]
          /\ fresh' = [fresh EXCEPT ![i] = {k \in @ : Stored(mine(i)[k]) = {}}]
  /\ UNCHANGED <<ledger, target, good, crashes, whole>>

\* One batch: the ledger takes all of it, an event whose key is already there
\* as a duplicate.
Submit(i) ==
  /\ pc[i] = "submit" /\ fresh[i] # {}
  /\ LET new == {e \in {mine(i)[k] : k \in batch(i)} : Stored(e) = {}}
     IN  ledger' = ledger \cup {[key |-> claim_key(e), event |-> e] : e \in new}
  /\ fresh' = [fresh EXCEPT ![i] = @ \ batch(i)]
  /\ UNCHANGED <<pc, target, good, crashes, whole>>

\* The report of a run: nothing is left to submit.
Report(i) ==
  /\ pc[i] = "submit" /\ fresh[i] = {}
  /\ pc' = [pc EXCEPT ![i] = "done"]
  /\ whole' = whole \cup {<<target[i], good[i]>>}
  /\ UNCHANGED <<ledger, target, good, fresh, crashes>>

\* A rejected batch or a crash: the rest is not submitted.
Fail(i) ==
  /\ pc[i] \in {"check", "submit"} /\ crashes < MaxCrashes
  /\ pc' = [pc EXCEPT ![i] = "failed"] /\ crashes' = crashes + 1
  /\ fresh' = [fresh EXCEPT ![i] = {}]
  /\ UNCHANGED <<ledger, target, good, whole>>

Next ==
  \E i \in Indexers :
    \/ \E t \in Targets, ok \in BOOLEAN : Start(i, t, ok)
    \/ Check(i) \/ Submit(i) \/ Report(i) \/ Fail(i)

Spec == Init /\ [][Next]_vars

Restart(i) == pc[i] = "failed" /\ \E ok \in BOOLEAN : Start(i, target[i], ok)

\* The operator runs a failed command again; a run that started goes on.
Fairness ==
  \A i \in Indexers : WF_vars(Check(i) \/ Submit(i) \/ Report(i)) /\ WF_vars(Restart(i))

FairSpec == Spec /\ Fairness

-----------------------------------------------------------------------------
\* What an event says, whatever its key: a symbol or an observation belongs
\* to its file revision, every other event to its target.
Says(d, e) ==
  /\ d.type = e.type /\ d.about = e.about /\ d.says = e.says
  /\ d.type \in {"symbol", "observed"} \/ d.target = e.target

Has(e) == \E l \in ledger : Says(e, l.event)

(***************************************************************************)
(* Once the completion of an index is in the ledger, every event that run  *)
(* claims is there too, whatever crashed, was retried or ran beside it:    *)
(* readers take "completed" as the end of the target's evidence.           *)
(***************************************************************************)
CompletedMeansAll ==
  \A t \in Targets, ok \in BOOLEAN :
    Has(Event("completed", t, None, ok)) => \A k \in Places(t, ok) : Has(drafts(t, ok)[k])

(***************************************************************************)
(* A run that reports its outcome has stored all its claims: an event that *)
(* was skipped because its key exists was really claimed before.           *)
(***************************************************************************)
ReportedIsStored ==
  \A w \in whole : \A k \in Places(w[1], w[2]) : Has(drafts(w[1], w[2])[k])

(***************************************************************************)
(* A run that started reports its outcome, however often it crashed.       *)
(***************************************************************************)
Started(i) == pc[i] = "check"
Reported(i) == pc[i] = "done"
EveryRunReports == \A i \in Indexers : Started(i) ~> Reported(i)
=============================================================================
