------------------------------ MODULE OtlpExport ------------------------------
(***************************************************************************)
(* One OTLP trace export from its request to the ledger (ledger/otlp_api.py *)
(* and ledger/codex_otel.py): the checks in order, the mapping of spans to  *)
(* drafts, and the loop that resubmits a refused batch without the events   *)
(* the ledger blames.  A collector sends an export again after a 503 or a   *)
(* lost answer, so several requests carry the same export and may overlap.  *)
(*                                                                         *)
(* An export is a sequence of spans, a span a sequence of records (its own  *)
(* and its events'); a record names its idempotency key and its body, which *)
(* stands for everything the ledger compares.  Why a record is refused is   *)
(* abstracted to that it is.                                               *)
(***************************************************************************)
EXTENDS Naturals, Sequences, FiniteSets

CONSTANTS Requests, ExportOf, Keys, Streams, NoEvent,
          MaxAttempts,    \* MAX_INGEST_ATTEMPTS
          MaxDrafts,      \* MAX_DRAFTS
          MaxFailures, MaxQuarantines

VARIABLES pc,          \* where each request is
          pending,     \* the drafts not yet accepted
          rejected,    \* rejected_spans
          attempts,
          blame,       \* the drafts the refusal of the current batch names
          stored,      \* the ledger: key -> its event, or NoEvent
          quarantined, \* streams
          failures, quarantines

vars == <<pc, pending, rejected, attempts, blame, stored, quarantined, failures, quarantines>>

Spans(r) == ExportOf[r].spans

Init == /\ pc = [r \in Requests |-> "new"]
        /\ pending = [r \in Requests |-> {}] /\ rejected = [r \in Requests |-> {}]
        /\ attempts = [r \in Requests |-> 0] /\ blame = [r \in Requests |-> {}]
        /\ stored = [k \in Keys |-> NoEvent]
        /\ quarantined = {} /\ failures = 0 /\ quarantines = 0

-----------------------------------------------------------------------------
(* Mapping: decode_and_map, map_export.                                    *)

(* _resource_reason: an over-long value, then check_resource.              *)
ResourceRefused(s) == s.resource \in {"too_long", "unknown", "platform"}

(* _span_reason: more events or attributes than a span may have.           *)
OverLimits(s) == s.over

(* A refused resource or scope, or a limit of the span, refuses the span   *)
(* with all its records.                                                   *)
SpanRefused(s) == ResourceRefused(s) \/ s.scope = "platform" \/ OverLimits(s)

(* _map_record and map_record: a record that names no event is none, one   *)
(* of another event is unmapped, and a refusal comes before either.        *)
RecordOutcome(d) == CASE d.origin = "platform" -> "refused"
                      [] d.event = "none" -> "ignored"
                      [] d.time \in {"missing", "future"} -> "refused"
                      [] ~d.valid -> "refused"
                      [] d.event = "other" -> "unmapped"
                      [] OTHER -> "draft"

(* Where the records are, <<span, record>>; a refused span and one that    *)
(* carries the marker itself are not read (_records).                      *)
ReadAt(spans) ==
  UNION {{<<i, j>> : j \in DOMAIN spans[i].records} :
           i \in {i \in DOMAIN spans : ~SpanRefused(spans[i]) /\ spans[i].origin = "client"}}

Record(spans, p) == spans[p[1]].records[p[2]]
Earlier(p, q) == p[1] < q[1] \/ (p[1] = q[1] /\ p[2] < q[2])

(* The drafts: the first record with a given idempotency key wins.         *)
MappedDrafts(spans) ==
  LET at == {p \in ReadAt(spans) : RecordOutcome(Record(spans, p)) = "draft"}
      SameKey(p, q) == Record(spans, p).key = Record(spans, q).key
  IN  {[at |-> p, key |-> Record(spans, p).key, body |-> Record(spans, p).body,
        stream |-> Record(spans, p).stream] :
         p \in {p \in at : ~\E q \in at : SameKey(p, q) /\ Earlier(q, p)}}

(* The spans the mapping rejects: refused, marked, or with a refused record. *)
MappedRejects(spans) ==
  {i \in DOMAIN spans : \/ SpanRefused(spans[i]) \/ spans[i].origin = "platform"
                        \/ \E p \in ReadAt(spans) :
                              p[1] = i /\ RecordOutcome(Record(spans, p)) = "refused"}

-----------------------------------------------------------------------------
(* _handle and export_traces.                                              *)

Finish(r, place) == /\ pc' = [pc EXCEPT ![r] = place]
                    /\ UNCHANGED <<attempts, blame, stored, quarantined, quarantines>>

(* Credentials, media type, size, wire scan and draft count: final 4xx     *)
(* answers that depend on the request alone.                               *)
Refuse(r) == /\ pc[r] = "new"
             /\ \/ ExportOf[r].refused
                \/ Cardinality(MappedDrafts(Spans(r))) > MaxDrafts
             /\ Finish(r, "refused")
             /\ UNCHANGED <<pending, rejected, failures>>

(* The rate limit, the decode gate or authentication is saturated, or the  *)
(* database is away: 429 or 503, and the collector sends the export again. *)
Unavailable(r) == /\ pc[r] \in {"new", "ingest"} /\ failures < MaxFailures
                  /\ failures' = failures + 1
                  /\ Finish(r, "retry")
                  /\ UNCHANGED <<pending, rejected>>

Map(r) == /\ pc[r] = "new" /\ ~ExportOf[r].refused
          /\ Cardinality(MappedDrafts(Spans(r))) <= MaxDrafts
          /\ pending' = [pending EXCEPT ![r] = MappedDrafts(Spans(r))]
          /\ rejected' = [rejected EXCEPT ![r] = MappedRejects(Spans(r))]
          /\ Finish(r, IF MappedDrafts(Spans(r)) = {} THEN "done" ELSE "ingest")
          /\ UNCHANGED failures

(* The collector's retry is a request of its own: nothing is remembered.   *)
SendAgain(r) == /\ pc[r] = "retry"
                /\ pc' = [pc EXCEPT ![r] = "new"]
                /\ pending' = [pending EXCEPT ![r] = {}]
                /\ rejected' = [rejected EXCEPT ![r] = {}]
                /\ attempts' = [attempts EXCEPT ![r] = 0]
                /\ blame' = [blame EXCEPT ![r] = {}]
                /\ UNCHANGED <<stored, quarantined, failures, quarantines>>

-----------------------------------------------------------------------------
(* _ingest: one batch, its refusal, and the next batch.                    *)

Event(d) == [body |-> d.body, stream |-> d.stream]
Holds(d) == stored[d.key] = Event(d)
Conflicts(d) == stored[d.key] # NoEvent /\ ~Holds(d)

(* IngestionService.ingest: the append locks the streams first, lowest     *)
(* first, then meets the first conflicting event.                          *)
BlameOf(batch) ==
  LET bad == {d.stream : d \in batch} \cap quarantined
      clash == {d \in batch : Conflicts(d)}
  IN  IF bad # {}
      THEN LET s == CHOOSE s \in bad : \A t \in bad : s <= t
           IN  {d \in batch : d.stream = s}
      ELSE {d \in clash : ~\E e \in clash : Earlier(e.at, d.at)}

Committed(batch) ==
  [k \in Keys |-> IF \E d \in batch : d.key = k
                  THEN Event(CHOOSE d \in batch : d.key = k) ELSE stored[k]]

Accept(r) == /\ pc[r] = "ingest" /\ BlameOf(pending[r]) = {}
             /\ stored' = Committed(pending[r])
             /\ pc' = [pc EXCEPT ![r] = "done"]
             /\ UNCHANGED <<pending, rejected, attempts, blame, quarantined, failures, quarantines>>

(* The batch commits and its acknowledgement is lost: a 503.               *)
AcceptUnanswered(r) == /\ pc[r] = "ingest" /\ BlameOf(pending[r]) = {}
                       /\ failures < MaxFailures /\ failures' = failures + 1
                       /\ stored' = Committed(pending[r])
                       /\ pc' = [pc EXCEPT ![r] = "retry"]
                       /\ UNCHANGED <<pending, rejected, attempts, blame, quarantined, quarantines>>

Blame(r) == /\ pc[r] = "ingest" /\ BlameOf(pending[r]) # {}
            /\ blame' = [blame EXCEPT ![r] = BlameOf(pending[r])]
            /\ pc' = [pc EXCEPT ![r] = "blamed"]
            /\ UNCHANGED <<pending, rejected, attempts, stored, quarantined, failures, quarantines>>

Mut_Last(r, offenders) == TRUE

(* attempt == MAX_INGEST_ATTEMPTS or not offenders                         *)
Last(r, offenders) == attempts[r] + 1 >= MaxAttempts \/ offenders = {}

(* The offenders are rejected; so is everything refused with the last batch. *)
Rejections(refused, offenders, last) == IF last THEN refused ELSE offenders

(* What is resubmitted: refused and not blamed.                            *)
Resubmit(refused, offenders) == refused \ offenders

(* _reject answers what is stored by now as existing (a read that may fail *)
(* and then finds nothing), and the loop draws its conclusions.            *)
Conclude(r, existing) ==
  LET refused == pending[r] \ existing
      offenders == blame[r] \cap refused
      last == Last(r, offenders)
      next == Resubmit(refused, offenders)
  IN  /\ rejected' = [rejected EXCEPT ![r] = @ \cup {d.at[1] : d \in Rejections(refused, offenders, last)}]
      /\ pending' = [pending EXCEPT ![r] = next]
      /\ pc' = [pc EXCEPT ![r] = IF last \/ next = {} THEN "done" ELSE "ingest"]
      /\ attempts' = [attempts EXCEPT ![r] = @ + 1]

Resolve(r) == /\ pc[r] = "blamed"
              /\ Conclude(r, {d \in pending[r] : Holds(d)})
              /\ UNCHANGED <<blame, stored, quarantined, failures, quarantines>>

ResolveUnread(r) == /\ pc[r] = "blamed" /\ failures < MaxFailures
                    /\ failures' = failures + 1
                    /\ Conclude(r, {})
                    /\ UNCHANGED <<blame, stored, quarantined, quarantines>>

(* An operator quarantines a stream whose verification failed.             *)
Quarantine(s) == /\ quarantines < MaxQuarantines /\ s \notin quarantined
                 /\ quarantines' = quarantines + 1
                 /\ quarantined' = quarantined \cup {s}
                 /\ UNCHANGED <<pc, pending, rejected, attempts, blame, stored, failures>>

Next == \/ \E r \in Requests : \/ Refuse(r) \/ Unavailable(r) \/ Map(r) \/ SendAgain(r)
                               \/ Accept(r) \/ AcceptUnanswered(r) \/ Blame(r)
                               \/ Resolve(r) \/ ResolveUnread(r)
        \/ \E s \in Streams : Quarantine(s)

Spec == Init /\ [][Next]_vars

(* A handler runs to its answer, and the collector retries what it may.    *)
FairSpec == /\ Spec
            /\ \A r \in Requests :
                 WF_vars(Refuse(r) \/ Map(r) \/ SendAgain(r) \/ Accept(r) \/ Blame(r) \/ Resolve(r))

-----------------------------------------------------------------------------
Ended(r) == pc[r] = "done"

(* A 200 hides no loss: every draft of the export is in the ledger as it   *)
(* was sent, or its span is counted as rejected, however requests overlap, *)
(* fail and are retried.                                                   *)
NoSilentLoss ==
  \A r \in Requests : Ended(r) =>
    \A d \in MappedDrafts(Spans(r)) : Holds(d) \/ d.at[1] \in rejected[r]

(* One conflicting record never discards the rest of its export: a draft   *)
(* that conflicts with nothing is kept, unless there were as many          *)
(* conflicts as attempts.                                                  *)
InnocentKept ==
  \A r \in Requests : Ended(r) =>
    LET drafts == MappedDrafts(Spans(r)) IN
    \/ Cardinality({d \in drafts : Conflicts(d)}) >= MaxAttempts
    \/ \A d \in drafts : Conflicts(d) \/ d.stream \in quarantined \/ Holds(d)

(* The platform never ingests its own telemetry: every stored event comes  *)
(* from a record with no platform origin on itself, its span, its scope or *)
(* its resource.                                                           *)
NoLoop ==
  \A k \in Keys : stored[k] # NoEvent =>
    \E r \in Requests : \E i \in DOMAIN Spans(r) :
      LET s == Spans(r)[i] IN
      /\ "platform" \notin {s.resource, s.scope, s.origin}
      /\ \E j \in DOMAIN s.records :
           /\ s.records[j].key = k /\ s.records[j].body = stored[k].body
           /\ s.records[j].origin = "client"

(* An export is answered by what became of its records: nothing is lost    *)
(* silently, nothing of the platform comes back to it, and, where nothing  *)
(* is quarantined, no record falls with another (_ingest).                 *)
ExportSound == /\ NoSilentLoss
               /\ NoLoop
               /\ MaxQuarantines = 0 => InnocentKept

(* Every export is answered: the resubmission loop ends.                   *)
Received(r) == pc[r] = "new"
Replied(r) == pc[r] \in {"done", "refused"}
ExportEnds == \A r \in Requests : Received(r) ~> Replied(r)

(* A stream-level failure stays within one session: a quarantined stream   *)
(* costs no event of another stream.                                       *)
QuarantineStaysInSession ==
  \A r \in Requests : Ended(r) =>
    \A d \in MappedDrafts(Spans(r)) : Conflicts(d) \/ d.stream \in quarantined \/ Holds(d)

-----------------------------------------------------------------------------
(* The proofs: what is stored stays, a batch is refused only with somebody  *)
(* to blame, and each attempt takes at least one conflict out of the batch. *)
Drafts(r) == MappedDrafts(Spans(r))

\* Every record names a key and a stream of the ledger, and its event can be
\* told from no event.
ExportAssumption ==
  /\ IsFiniteSet(Keys) /\ Streams \subseteq Nat /\ MaxAttempts \in Nat \ {0}
  /\ \A r \in Requests :
       /\ DOMAIN Spans(r) \subseteq Nat
       /\ \A i \in DOMAIN Spans(r) :
            LET records == Spans(r)[i].records IN
            /\ DOMAIN records \subseteq Nat
            /\ \A j \in DOMAIN records :
                 /\ records[j].key \in Keys /\ records[j].stream \in Streams
                 /\ records[j].origin \in {"client", "platform"}
                 /\ [body |-> records[j].body, stream |-> records[j].stream] # NoEvent

TypeOK ==
  /\ pc \in [Requests -> {"new", "refused", "retry", "ingest", "blamed", "done"}]
  /\ DOMAIN pending = Requests /\ \A r \in Requests : pending[r] \subseteq Drafts(r)
  /\ DOMAIN rejected = Requests /\ \A r \in Requests : rejected[r] \subseteq DOMAIN Spans(r)
  /\ DOMAIN blame = Requests /\ \A r \in Requests : blame[r] \subseteq Drafts(r)
  /\ attempts \in [Requests -> Nat]
  /\ DOMAIN stored = Keys
  /\ quarantined \subseteq Streams /\ failures \in Nat /\ quarantines \in Nat

\* What a key holds was a draft of some request.
StoredWasSent ==
  \A k \in Keys : stored[k] # NoEvent =>
    \E r \in Requests : \E d \in Drafts(r) : d.key = k /\ stored[k] = Event(d)

InLoop(r) == pc[r] \in {"ingest", "blamed"}

\* A refused batch has somebody to blame, and the blame is still true.
BlameTrue(r) ==
  pc[r] = "blamed" => /\ blame[r] \subseteq pending[r] /\ blame[r] # {}
                      /\ \A d \in blame[r] : Conflicts(d) \/ d.stream \in quarantined

\* Until the answer, every draft is pending, stored or counted.
NothingLost(r) ==
  InLoop(r) \/ Ended(r) =>
    \A d \in Drafts(r) : \/ InLoop(r) /\ d \in pending[r]
                         \/ Holds(d) \/ d.at[1] \in rejected[r]

\* Without quarantines each attempt so far has found a conflict of its own.
Conflicting(r) == {d \in Drafts(r) : Conflicts(d)}
AttemptsFoundConflicts(r) ==
  /\ pc[r] = "new" => attempts[r] = 0
  /\ InLoop(r) => /\ \A d \in Drafts(r) \ pending[r] : Holds(d) \/ Conflicts(d)
                  /\ attempts[r] <= Cardinality(Conflicting(r) \ pending[r])
EndedWell(r) ==
  Ended(r) => \/ Cardinality(Conflicting(r)) >= MaxAttempts
              \/ \A d \in Drafts(r) : Conflicts(d) \/ Holds(d)

ExportOK(r) == BlameTrue(r) /\ NothingLost(r)
ExportsOK == TypeOK /\ StoredWasSent /\ \A r \in Requests : ExportOK(r)

NoQuarantines == MaxQuarantines = 0
ConflictsCounted ==
  /\ quarantines = 0 /\ quarantined = {}
  /\ \A r \in Requests : AttemptsFoundConflicts(r) /\ EndedWell(r)

\* What is stored stays, and a step of r leaves the other requests alone.
Grows == \A k \in Keys : stored[k] # NoEvent => stored'[k] = stored[k]
OthersKept(r) ==
  \A q \in Requests \ {r} : /\ pc'[q] = pc[q] /\ pending'[q] = pending[q] /\ rejected'[q] = rejected[q]
                            /\ attempts'[q] = attempts[q] /\ blame'[q] = blame[q]
Apart(r) == Grows /\ OthersKept(r) /\ UNCHANGED <<quarantined, quarantines>>

=============================================================================
