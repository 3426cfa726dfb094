------------------------------ MODULE RunReport ------------------------------
(***************************************************************************)
(* How a verification is put on record (projection/verify.py): verifiers   *)
(* collect each projector's ledger range, scan the graph, and append one   *)
(* projection.rebuilt event per projector through the ingestion service,   *)
(* skipping the findings the ledger already holds.  Two verifiers may run  *)
(* at once while events are appended.  An event is the finding it states   *)
(* and the run that wrote it: times differ between runs and are not part   *)
(* of the idempotency key, so two runs never write identical events.       *)
(***************************************************************************)
EXTENDS Naturals

CONSTANTS Verifiers, Projectors,
          Problems,            \* what the checks of a verification may find
          Strict,              \* require_caught_up
          MaxAppends, MaxRuns, \* bounds on appended events and on runs
          None

ReportAssumption == MaxAppends \in Nat

VARIABLES counts,   \* handled events per projector in the ledger
          log,      \* the projection.rebuilt events stored
          v         \* the verifiers

vars == <<counts, log, v>>

Outcomes == {"matched", "mismatched", "failed"}

Findings == [projector : Projectors, outcome : Outcomes, count : 0..MaxAppends]

Idle == [pc |-> "idle", ranges |-> <<>>, outcome |-> None, stored |-> {},
         result |-> None, runs |-> 0]

Init == /\ counts = [p \in Projectors |-> 0] /\ log = {}
        /\ v = [i \in Verifiers |-> Idle]

-----------------------------------------------------------------------------
(* A producer appends an event that projector p handles.                   *)
Append(p) == /\ counts[p] < MaxAppends
             /\ counts' = [counts EXCEPT ![p] = @ + 1]
             /\ UNCHANGED <<log, v>>

(* _collect_ledger_state reads the projectors' ranges one by one in a      *)
(* READ COMMITTED session: a later one may see more of the ledger.         *)
Collect(i, p) ==
  /\ v[i].pc \in {"idle", "collect"} /\ v[i].runs < MaxRuns
  /\ p \notin DOMAIN v[i].ranges
  /\ LET ranges == [q \in DOMAIN v[i].ranges \cup {p} |->
                      IF q = p THEN counts[p] ELSE v[i].ranges[q]]
     IN v' = [v EXCEPT ![i].ranges = ranges, ![i].result = None,
                ![i].pc = IF DOMAIN ranges = Projectors THEN "scan" ELSE "collect"]
  /\ UNCHANGED <<counts, log>>

(* VerificationReport.problems: lag counts only when the caller requires a *)
(* caught-up projection; a report is ok when no problem is left.           *)
Verdict(found) == IF found \ (IF Strict THEN {} ELSE {"behind"}) = {}
                  THEN "matched" ELSE "mismatched"

(* check_stream_heads, the graph scan and the replay conclude, or fail:    *)
(* a failure is reported too, and raised whatever becomes of the report.   *)
Scan(i) == /\ v[i].pc = "scan"
           /\ \/ \E found \in SUBSET Problems :
                   v' = [v EXCEPT ![i].outcome = Verdict(found), ![i].pc = "read"]
              \/ v' = [v EXCEPT ![i].outcome = "failed", ![i].pc = "read"]
           /\ UNCHANGED <<counts, log>>

(* _runs: one finding per projector, about its range and the outcome.      *)
Runs(i) == {[projector |-> p, outcome |-> v[i].outcome, count |-> v[i].ranges[p]] :
              p \in Projectors}

(* system_event_key: the same finding about the same range is one fact.    *)
Key(f) == <<f.projector, f.count, f.outcome>>
StoredKeys == {Key(e.finding) : e \in log}

(* record: one read of the keys already stored.                            *)
ReadStored(i) ==
  /\ v[i].pc = "read"
  /\ v' = [v EXCEPT ![i].stored = {Key(f) : f \in Runs(i)} \cap StoredKeys,
                    ![i].pc = "ingest"]
  /\ UNCHANGED <<counts, log>>

Finish(i, result) ==
  v' = [v EXCEPT ![i].pc = "idle", ![i].ranges = <<>>, ![i].stored = {},
                 ![i].result = [of |-> Runs(i), is |-> result], ![i].runs = @ + 1]

(* record: the fresh drafts are ingested in one atomic batch.  A key that  *)
(* was stored meanwhile rejects the batch with a 409, which counts as      *)
(* recorded; a 503 is a record_error, or suppressed after a failed scan.   *)
Ingest(i) ==
  /\ v[i].pc = "ingest"
  /\ LET fresh == {f \in Runs(i) : Key(f) \notin v[i].stored}
     IN \/ /\ {Key(f) : f \in fresh} \cap StoredKeys = {}
           /\ log' = log \cup {[finding |-> f, by |-> <<i, v[i].runs>>] : f \in fresh}
           /\ Finish(i, "recorded")
        \/ /\ {Key(f) : f \in fresh} \cap StoredKeys # {}
           /\ Finish(i, "recorded")
           /\ UNCHANGED log
        \/ /\ fresh # {}
           /\ Finish(i, "record_failed")
           /\ UNCHANGED log
  /\ UNCHANGED counts

Next == \/ \E p \in Projectors : Append(p)
        \/ \E i \in Verifiers : \/ \E p \in Projectors : Collect(i, p)
                                \/ Scan(i) \/ ReadStored(i) \/ Ingest(i)

Spec == Init /\ [][Next]_vars

-----------------------------------------------------------------------------
(* A verifier whose report counts as recorded (RecordResult, no            *)
(* record_error) has every one of its findings, outcome and range          *)
(* included, in the ledger: its own event or an earlier identical one.     *)
ReportedIsRecorded ==
  \A i \in Verifiers :
    (v[i].result # None /\ v[i].result.is = "recorded") =>
      v[i].result.of \subseteq {e.finding : e \in log}

(* One verification at a time, or verifiers that all saw the same ranges:  *)
(* others may share some findings only, and a conflict is no proof of all. *)
OneVerifier == \A i, j \in Verifiers : i = j
SameRanges == MaxAppends = 0

RecordsSound == OneVerifier \/ SameRanges => ReportedIsRecorded
=============================================================================
