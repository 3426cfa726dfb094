--------------------------- MODULE ServiceProofs ----------------------------
(***************************************************************************)
(* What is proved of the services around the ledger: the answers of the    *)
(* OTLP receiver, its decode gate, the checks of MCP tokens, credentials   *)
(* and their files, migration jobs and readiness probes.  The receiver's   *)
(* export is extended, the other components are instances over variables   *)
(* of their own; a theorem about one is for any values of its constants.   *)
(***************************************************************************)
EXTENDS OtlpExport, FiniteSetTheorems, SequenceTheorems, WellFoundedInduction, TLAPS

CONSTANTS GateRequests, Producers, ProducerOf, None, Workers, QueueDepth, PerProducer, MaxCancels,
          Commands, Kind, Granted, KeyOf, PathOf, Life, TokenKeys, Paths, Stdout, Never, TokenTime,
          TokenFaults, MaxSwaps, TokenOf, Tokens, Cached, Unknown, Scoped, ExpiresAt, Ttl,
          MaxEntries, MaxConcurrency, MaxQueueDepth, MaxTime, AccessCancels, AccessFailures, Jobs,
          HeadOf, Expected, Empty, MaxFaults, ProbeRequests, Probes, Checks, Timeout, Lag,
          MaxAbandoned, ProbeTime, Principals, One, Rate, Burst, MaxBuckets

VARIABLES part,  \* the component that a behaviour of the suite runs
          gate_pc, gate_admitted, gate_byProducer, gate_turns, gate_lock, gate_holder,
          gate_slots, gate_cancels, token_now, token_row, token_lock, token_pc, token_moment,
          token_file, token_printed, token_handed, token_committed, token_faults, token_swaps,
          access_now, access_revokedAt, access_cache, access_pc, access_row, access_readAt,
          access_servedAt, access_pending, access_slots, access_threads, access_audits,
          access_cancels, access_failures, job_db, job_ran, job_lock, job_pc, job_before,
          job_work, job_report, job_faults, probe_now, probe_up, probe_inFlight, probe_started,
          probe_task, probe_seen, probe_orphans, probe_joined, probe_arrived, probe_answer,
          rate_now, rate_buckets, rate_older, rate_lastSweep, rate_exact, rate_dropped,
          rate_hint


-----------------------------------------------------------------------------
\* The receiver's export: what is stored, blamed and counted, and what every
\* attempt found.
\* A nonempty set of numbers has a least one.
LEMMA Least ==
  ASSUME NEW T, T \subseteq Nat, T # {}
  PROVE  \E m \in T : \A n \in T : m <= n
<1>1. \E m \in T : \A n \in T : ~(<<n, m>> \in OpToRel(<, Nat))
  BY NatLessThanWellFounded, WFMin
<1>2. PICK m \in T : \A n \in T : ~(<<n, m>> \in OpToRel(<, Nat))
  BY <1>1
<1>3. ASSUME NEW n \in T PROVE m <= n
  <2>1. m \in Nat /\ n \in Nat
    OBVIOUS
  <2>2. ~(n < m)
    BY <1>2, <2>1 DEF OpToRel
  <2>3. QED
    BY <2>1, <2>2
<1>4. QED
  BY <1>3

\* What a draft is, and that two drafts of an export have different keys.
LEMMA DraftFacts ==
  ASSUME ExportAssumption, NEW r \in Requests, NEW d \in Drafts(r)
  PROVE  /\ d.at[1] \in Nat /\ d.at[2] \in Nat /\ d.at[1] \in DOMAIN Spans(r)
         /\ d.key \in Keys /\ d.stream \in Streams /\ d.stream \in Nat
         /\ Event(d) # NoEvent
         /\ d.at \in ReadAt(Spans(r)) /\ RecordOutcome(Record(Spans(r), d.at)) = "draft"
         /\ d.key = Record(Spans(r), d.at).key /\ d.body = Record(Spans(r), d.at).body
         /\ d.at = <<d.at[1], d.at[2]>>
<1> DEFINE spans == Spans(r)
           at == {p \in ReadAt(spans) : RecordOutcome(Record(spans, p)) = "draft"}
<1>1. PICK p \in at : d = [at |-> p, key |-> Record(spans, p).key, body |-> Record(spans, p).body,
                           stream |-> Record(spans, p).stream]
  BY DEF Drafts, MappedDrafts
<1>2. PICK i \in DOMAIN spans : \E j \in DOMAIN spans[i].records : p = <<i, j>>
  BY <1>1 DEF ReadAt
<1>3. PICK j \in DOMAIN spans[i].records : p = <<i, j>>
  BY <1>2
<1>4. p[1] = i /\ p[2] = j /\ Record(spans, p) = spans[i].records[j]
  BY <1>3 DEF Record
<1>5. /\ i \in Nat /\ j \in Nat /\ spans[i].records[j].key \in Keys
      /\ spans[i].records[j].stream \in Streams /\ spans[i].records[j].stream \in Nat
      /\ [body |-> spans[i].records[j].body, stream |-> spans[i].records[j].stream] # NoEvent
  BY <1>2, <1>3 DEF ExportAssumption
<1>6. /\ d.at = p /\ d.key = Record(spans, p).key /\ d.body = Record(spans, p).body
      /\ d.stream = Record(spans, p).stream
  BY <1>1
<1>7. p \in ReadAt(spans) /\ RecordOutcome(Record(spans, p)) = "draft"
  BY <1>1
<1> HIDE DEF spans, at
<1>8. QED
  BY <1>2, <1>3, <1>4, <1>5, <1>6, <1>7 DEF Event, spans

LEMMA OneDraftPerKey ==
  ASSUME ExportAssumption, NEW r \in Requests, NEW d \in Drafts(r), NEW e \in Drafts(r), d.key = e.key
  PROVE  d = e
<1> DEFINE spans == Spans(r)
           at == {p \in ReadAt(spans) : RecordOutcome(Record(spans, p)) = "draft"}
           SameKey(p, q) == Record(spans, p).key = Record(spans, q).key
           Draft(p) == [at |-> p, key |-> Record(spans, p).key, body |-> Record(spans, p).body,
                        stream |-> Record(spans, p).stream]
<1>1. PICK p \in at : d = Draft(p) /\ ~\E q \in at : SameKey(p, q) /\ Earlier(q, p)
  BY DEF Drafts, MappedDrafts
<1>2. PICK q \in at : e = Draft(q) /\ ~\E x \in at : SameKey(q, x) /\ Earlier(x, q)
  BY DEF Drafts, MappedDrafts
<1>3. SameKey(p, q) /\ SameKey(q, p) /\ d.at = p /\ e.at = q
  BY <1>1, <1>2
<1>4. ~Earlier(q, p) /\ ~Earlier(p, q)
  BY <1>1, <1>2, <1>3
<1>5. /\ p = <<p[1], p[2]>> /\ q = <<q[1], q[2]>>
      /\ p[1] \in Nat /\ p[2] \in Nat /\ q[1] \in Nat /\ q[2] \in Nat
  BY <1>3, DraftFacts
<1>6. p[1] = q[1] /\ p[2] = q[2]
  BY <1>4, <1>5 DEF Earlier
<1>7. QED
  BY <1>1, <1>2, <1>5, <1>6

LEMMA DraftsFinite ==
  ASSUME ExportAssumption, NEW r \in Requests
  PROVE  IsFiniteSet(Drafts(r))
<1> DEFINE key == [d \in Drafts(r) |-> d.key]
<1>1. key \in Injection(Drafts(r), Keys)
  <2>1. key \in [Drafts(r) -> Keys]
    BY DraftFacts
  <2>2. \A d, e \in Drafts(r) : key[d] = key[e] => d = e
    BY OneDraftPerKey
  <2>3. QED
    BY <2>1, <2>2 DEF Injection, IsInjective
<1>2. QED
  BY <1>1, FS_Injection DEF ExportAssumption

\* Of some drafts of an export one comes first.
LEMMA FirstDraft ==
  ASSUME ExportAssumption, NEW r \in Requests, NEW T, T \subseteq Drafts(r), T # {}
  PROVE  \E d \in T : \A e \in T : ~Earlier(e.at, d.at)
<1> DEFINE I == {d.at[1] : d \in T}
<1>1. \A d \in T : d.at[1] \in Nat /\ d.at[2] \in Nat
  BY DraftFacts
<1>2. PICK i \in I : \A n \in I : i <= n
  <2>1. I \subseteq Nat /\ I # {}
    BY <1>1
  <2> HIDE DEF I
  <2>2. QED
    BY <2>1, Least
<1> DEFINE J == {d.at[2] : d \in {e \in T : e.at[1] = i}}
<1>3. PICK j \in J : \A n \in J : j <= n
  <2>1. J \subseteq Nat /\ J # {}
    BY <1>1, <1>2
  <2> HIDE DEF J
  <2>2. QED
    BY <2>1, Least
<1>4. PICK d \in T : d.at[1] = i /\ d.at[2] = j
  BY <1>3
<1>5. ASSUME NEW e \in T, Earlier(e.at, d.at) PROVE FALSE
  <2>1. i <= e.at[1]
    BY <1>2
  <2>2. e.at[1] = i => j <= e.at[2]
    BY <1>3
  <2>3. i \in Nat /\ j \in Nat /\ e.at[1] \in Nat /\ e.at[2] \in Nat
    BY <1>1, <1>4
  <2>4. QED
    BY <1>4, <1>5, <2>1, <2>2, <2>3 DEF Earlier
<1>6. QED
  BY <1>5

\* A batch is refused exactly if a draft conflicts or its stream is
\* quarantined, and such drafts are to blame.
LEMMA BlameFacts ==
  ASSUME ExportAssumption, TypeOK, NEW r \in Requests, NEW batch, batch \subseteq Drafts(r)
  PROVE  /\ BlameOf(batch) \subseteq batch
         /\ \A d \in BlameOf(batch) : Conflicts(d) \/ d.stream \in quarantined
         /\ BlameOf(batch) = {} => \A d \in batch : ~Conflicts(d) /\ d.stream \notin quarantined
<1> DEFINE bad == {d.stream : d \in batch} \cap quarantined
           clash == {d \in batch : Conflicts(d)}
           first == CHOOSE s \in bad : \A t \in bad : s <= t
<1>1. CASE bad # {}
  <2>1. BlameOf(batch) = {d \in batch : d.stream = first}
    BY <1>1 DEF BlameOf
  <2>2. bad \subseteq Nat
    BY DEF TypeOK, ExportAssumption
  <2>3. \E s \in bad : \A t \in bad : s <= t
    <3> HIDE DEF bad
    <3> QED BY <1>1, <2>2, Least
  <2>4. first \in bad
    <3> HIDE DEF bad
    <3> QED BY <2>3
  <2>5. first \in quarantined /\ \E d \in batch : d.stream = first
    BY <2>4
  <2> HIDE DEF first, bad, clash
  <2>6. QED
    BY <2>1, <2>5
<1>2. CASE bad = {}
  <2>1. BlameOf(batch) = {d \in clash : ~\E e \in clash : Earlier(e.at, d.at)}
    BY <1>2 DEF BlameOf
  <2>2. clash # {} => \E d \in clash : \A e \in clash : ~Earlier(e.at, d.at)
    <3>1. clash \subseteq Drafts(r)
      OBVIOUS
    <3> HIDE DEF clash
    <3> QED BY <3>1, FirstDraft
  <2>3. \A d \in batch : d.stream \notin quarantined
    BY <1>2
  <2>4. clash \subseteq batch /\ (\A d \in clash : Conflicts(d)) /\ \A d \in batch : Conflicts(d) => d \in clash
    OBVIOUS
  <2> HIDE DEF clash, bad, first
  <2>5. BlameOf(batch) = {} => clash = {}
    BY <2>1, <2>2
  <2>6. BlameOf(batch) \subseteq clash
    BY <2>1
  <2>7. QED
    BY <2>3, <2>4, <2>5, <2>6
<1>3. QED
  BY <1>1, <1>2

\* An acceptance stores the batch and touches no other key.
LEMMA CommitFacts ==
  ASSUME ExportAssumption, TypeOK, NEW r \in Requests, NEW batch, batch \subseteq Drafts(r),
         BlameOf(batch) = {}, stored' = Committed(batch)
  PROVE  /\ DOMAIN stored' = Keys /\ Grows
         /\ \A d \in batch : stored'[d.key] = Event(d)
         /\ \A k \in Keys : \/ stored'[k] = stored[k]
                            \/ \E d \in batch : d.key = k /\ stored'[k] = Event(d)
<1>1. DOMAIN stored' = Keys
  BY DEF Committed
<1>2. \A d \in batch : d.key \in Keys /\ stored'[d.key] = Event(d)
  <2> SUFFICES ASSUME NEW d \in batch PROVE d.key \in Keys /\ stored'[d.key] = Event(d)
    OBVIOUS
  <2>1. d.key \in Keys
    BY DraftFacts
  <2>2. (CHOOSE e \in batch : e.key = d.key) = d
    <3>1. \A e \in batch : e.key = d.key => e = d
      BY OneDraftPerKey
    <3> QED BY <3>1
  <2>3. stored'[d.key] = Event(CHOOSE e \in batch : e.key = d.key)
    BY <2>1 DEF Committed
  <2>4. QED
    BY <2>1, <2>2, <2>3
<1>3. \A k \in Keys : (~\E d \in batch : d.key = k) => stored'[k] = stored[k]
  BY DEF Committed
<1>4. \A d \in batch : ~Conflicts(d)
  BY BlameFacts
<1>5. Grows
  <2> SUFFICES ASSUME NEW k \in Keys, stored[k] # NoEvent PROVE stored'[k] = stored[k]
    BY DEF Grows
  <2>1. CASE \E d \in batch : d.key = k
    BY <1>2, <1>4, <2>1 DEF Conflicts, Holds
  <2>2. QED
    BY <1>3, <2>1
<1>6. QED
  BY <1>1, <1>2, <1>3, <1>5

\* What a draft has found in the ledger it will find again.
LEMMA FoundAgain ==
  ASSUME ExportAssumption, NEW r \in Requests, NEW d \in Drafts(r), Grows
  PROVE  /\ Holds(d) => Holds(d)'
         /\ Conflicts(d) => Conflicts(d)'
BY DraftFacts DEF Grows, Holds, Conflicts, Event

\* A request whose own state does not change keeps its part of the invariant.
LEMMA RequestKept ==
  ASSUME ExportAssumption, TypeOK, NEW q \in Requests, ExportOK(q), Grows, quarantined \subseteq quarantined',
         pc'[q] = pc[q], pending'[q] = pending[q], rejected'[q] = rejected[q], blame'[q] = blame[q]
  PROVE  ExportOK(q)'
<1>1. \A d \in Drafts(q) : (Holds(d) => Holds(d)') /\ (Conflicts(d) => Conflicts(d)')
  BY FoundAgain
<1>2. BlameTrue(q)'
  <2>1. blame[q] \subseteq Drafts(q)
    BY DEF TypeOK
  <2> QED BY <1>1, <2>1 DEF ExportOK, BlameTrue
<1>3. NothingLost(q)'
  BY <1>1 DEF ExportOK, NothingLost, InLoop, Ended
<1> QED BY <1>2, <1>3 DEF ExportOK

LEMMA CountKept ==
  ASSUME ExportAssumption, TypeOK, NEW q \in Requests, AttemptsFoundConflicts(q), EndedWell(q), Grows,
         pc'[q] = pc[q], pending'[q] = pending[q], attempts'[q] = attempts[q]
  PROVE  AttemptsFoundConflicts(q)' /\ EndedWell(q)'
<1>1. \A d \in Drafts(q) : (Holds(d) => Holds(d)') /\ (Conflicts(d) => Conflicts(d)')
  BY FoundAgain
<1>2. Conflicting(q) \subseteq Conflicting(q)' /\ Conflicting(q)' \subseteq Drafts(q)
  BY <1>1 DEF Conflicting
<1>3. /\ Cardinality(Conflicting(q)) <= Cardinality(Conflicting(q)')
      /\ Cardinality(Conflicting(q) \ pending[q]) <= Cardinality(Conflicting(q)' \ pending[q])
      /\ Cardinality(Conflicting(q)) \in Nat /\ Cardinality(Conflicting(q)') \in Nat
      /\ Cardinality(Conflicting(q) \ pending[q]) \in Nat /\ Cardinality(Conflicting(q)' \ pending[q]) \in Nat
  <2>1. IsFiniteSet(Conflicting(q)') /\ IsFiniteSet(Conflicting(q)' \ pending[q])
    BY <1>2, DraftsFinite, FS_Subset
  <2>2. Conflicting(q) \in SUBSET Conflicting(q)' /\ Conflicting(q) \ pending[q] \in SUBSET (Conflicting(q)' \ pending[q])
    BY <1>2
  <2>3. IsFiniteSet(Conflicting(q)) /\ IsFiniteSet(Conflicting(q) \ pending[q])
    BY <2>1, <2>2, FS_Subset
  <2> QED BY <2>1, <2>2, <2>3, FS_Subset, FS_CardinalityType
<1>4. AttemptsFoundConflicts(q)'
  <2>1. attempts[q] \in Nat
    BY DEF TypeOK
  <2> QED BY <1>1, <1>3, <2>1 DEF AttemptsFoundConflicts, InLoop
<1>5. EndedWell(q)'
  <2>1. MaxAttempts \in Nat
    BY DEF ExportAssumption
  <2> QED BY <1>1, <1>3, <2>1 DEF EndedWell, Ended
<1> QED BY <1>4, <1>5

\* So a step of r has to be checked for r only.
LEMMA StepSafe ==
  ASSUME ExportAssumption, ExportsOK, NEW r \in Requests, Apart(r), TypeOK', StoredWasSent', ExportOK(r)'
  PROVE  ExportsOK'
<1>1. \A q \in Requests \ {r} : ExportOK(q)'
  BY RequestKept DEF ExportsOK, Apart, OthersKept
<1> QED BY <1>1 DEF ExportsOK

LEMMA CountSafe ==
  ASSUME ExportAssumption, TypeOK, ConflictsCounted, NEW r \in Requests, Apart(r),
         AttemptsFoundConflicts(r)', EndedWell(r)'
  PROVE  ConflictsCounted'
<1>1. \A q \in Requests \ {r} : AttemptsFoundConflicts(q)' /\ EndedWell(q)'
  BY CountKept DEF ConflictsCounted, Apart, OthersKept
<1> QED BY <1>1 DEF ConflictsCounted, Apart

-----------------------------------------------------------------------------
\* Steps that take r out of the loop, or back to its start, change no draft.
LEMMA RefuseSafe ==
  ASSUME ExportAssumption, ExportsOK, NEW r \in Requests, Refuse(r)
  PROVE  /\ ExportsOK' /\ Apart(r)
         /\ ConflictsCounted => ConflictsCounted'
<1>1. /\ pc' = [pc EXCEPT ![r] = "refused"] /\ pc \in [Requests -> {"new", "refused", "retry", "ingest", "blamed", "done"}]
      /\ UNCHANGED <<pending, rejected, attempts, blame, stored, quarantined, failures, quarantines>>
  BY DEF Refuse, Finish, ExportsOK, TypeOK
<1>2. pc'[r] = "refused" /\ Apart(r) /\ TypeOK' /\ StoredWasSent'
  BY <1>1 DEF ExportsOK, TypeOK, StoredWasSent, Apart, Grows, OthersKept
<1>3. ExportOK(r)' /\ AttemptsFoundConflicts(r)' /\ EndedWell(r)'
  BY <1>2 DEF ExportOK, BlameTrue, NothingLost, AttemptsFoundConflicts, EndedWell, InLoop, Ended
<1> QED BY <1>2, <1>3, StepSafe, CountSafe DEF ExportsOK

LEMMA UnavailableSafe ==
  ASSUME ExportAssumption, ExportsOK, NEW r \in Requests, Unavailable(r)
  PROVE  /\ ExportsOK' /\ Apart(r)
         /\ ConflictsCounted => ConflictsCounted'
<1>1. /\ pc' = [pc EXCEPT ![r] = "retry"] /\ pc \in [Requests -> {"new", "refused", "retry", "ingest", "blamed", "done"}]
      /\ failures' \in Nat /\ UNCHANGED <<pending, rejected, attempts, blame, stored, quarantined, quarantines>>
  BY DEF Unavailable, Finish, ExportsOK, TypeOK
<1>2. pc'[r] = "retry" /\ Apart(r) /\ TypeOK' /\ StoredWasSent'
  BY <1>1 DEF ExportsOK, TypeOK, StoredWasSent, Apart, Grows, OthersKept
<1>3. ExportOK(r)' /\ AttemptsFoundConflicts(r)' /\ EndedWell(r)'
  BY <1>2 DEF ExportOK, BlameTrue, NothingLost, AttemptsFoundConflicts, EndedWell, InLoop, Ended
<1> QED BY <1>2, <1>3, StepSafe, CountSafe DEF ExportsOK

LEMMA SendAgainSafe ==
  ASSUME ExportAssumption, ExportsOK, NEW r \in Requests, SendAgain(r)
  PROVE  /\ ExportsOK' /\ Apart(r)
         /\ ConflictsCounted => ConflictsCounted'
<1>0. TypeOK /\ StoredWasSent
  BY DEF ExportsOK
<1>1. pc'[r] = "new" /\ pending'[r] = {} /\ rejected'[r] = {} /\ blame'[r] = {} /\ attempts'[r] = 0
  BY <1>0 DEF SendAgain, TypeOK
<1>2. OthersKept(r) /\ UNCHANGED <<stored, quarantined, failures, quarantines>>
  BY <1>0 DEF SendAgain, OthersKept, TypeOK
<1>3. TypeOK'
  <2>1. /\ pc' \in [Requests -> {"new", "refused", "retry", "ingest", "blamed", "done"}]
        /\ attempts' \in [Requests -> Nat]
        /\ DOMAIN pending' = Requests /\ DOMAIN rejected' = Requests /\ DOMAIN blame' = Requests
    BY <1>0 DEF SendAgain, TypeOK
  <2> QED BY <1>0, <1>1, <1>2, <2>1 DEF TypeOK, OthersKept
<1>4. Apart(r) /\ StoredWasSent'
  BY <1>0, <1>2 DEF Apart, Grows, StoredWasSent
<1>5. ExportOK(r)' /\ AttemptsFoundConflicts(r)' /\ EndedWell(r)'
  BY <1>1 DEF ExportOK, BlameTrue, NothingLost, AttemptsFoundConflicts, EndedWell, InLoop, Ended
<1> QED BY <1>0, <1>3, <1>4, <1>5, StepSafe, CountSafe

LEMMA MapSafe ==
  ASSUME ExportAssumption, ExportsOK, NEW r \in Requests, Map(r)
  PROVE  /\ ExportsOK' /\ Apart(r)
         /\ ConflictsCounted => ConflictsCounted'
<1>0. TypeOK /\ StoredWasSent
  BY DEF ExportsOK
<1>1. /\ pc[r] = "new" /\ pending'[r] = Drafts(r) /\ rejected'[r] = MappedRejects(Spans(r))
      /\ pc'[r] = IF Drafts(r) = {} THEN "done" ELSE "ingest"
      /\ UNCHANGED <<attempts, blame, stored, quarantined, failures, quarantines>>
  BY <1>0 DEF Map, Finish, TypeOK, Drafts
<1>2. OthersKept(r)
  BY <1>0 DEF Map, Finish, OthersKept, TypeOK
<1>3. TypeOK'
  <2>1. MappedRejects(Spans(r)) \subseteq DOMAIN Spans(r)
    BY DEF MappedRejects
  <2>2. /\ pc' \in [Requests -> {"new", "refused", "retry", "ingest", "blamed", "done"}]
        /\ DOMAIN pending' = Requests /\ DOMAIN rejected' = Requests
    BY <1>0 DEF Map, Finish, TypeOK
  <2> QED BY <1>0, <1>1, <1>2, <2>1, <2>2 DEF TypeOK, OthersKept
<1>4. Apart(r) /\ StoredWasSent'
  BY <1>0, <1>1, <1>2 DEF Apart, Grows, StoredWasSent
<1>5. ExportOK(r)'
  BY <1>1 DEF ExportOK, BlameTrue, NothingLost, InLoop, Ended
<1>6. ConflictsCounted => AttemptsFoundConflicts(r)' /\ EndedWell(r)'
  <2> SUFFICES ASSUME ConflictsCounted PROVE AttemptsFoundConflicts(r)' /\ EndedWell(r)'
    OBVIOUS
  <2>1. attempts'[r] = 0
    BY <1>1 DEF ConflictsCounted, AttemptsFoundConflicts
  <2>2. Conflicting(r)' \ pending'[r] = {} /\ Cardinality({}) = 0
    BY <1>1, FS_EmptySet DEF Conflicting
  <2>3. AttemptsFoundConflicts(r)'
    BY <1>1, <2>1, <2>2 DEF AttemptsFoundConflicts, InLoop
  <2>4. EndedWell(r)'
    BY <1>1 DEF EndedWell, Ended
  <2> QED BY <2>3, <2>4
<1> QED BY <1>0, <1>3, <1>4, <1>5, <1>6, StepSafe, CountSafe

\* The batch is stored: the request is answered, or the answer is lost.
LEMMA CommitSafe ==
  ASSUME ExportAssumption, ExportsOK, NEW r \in Requests, NEW place \in {"done", "retry"},
         pc[r] = "ingest", BlameOf(pending[r]) = {}, stored' = Committed(pending[r]),
         pc' = [pc EXCEPT ![r] = place], failures' \in Nat,
         UNCHANGED <<pending, rejected, attempts, blame, quarantined, quarantines>>
  PROVE  /\ ExportsOK' /\ Apart(r)
         /\ ConflictsCounted => ConflictsCounted'
<1>0. TypeOK /\ StoredWasSent /\ ExportOK(r) /\ pending[r] \subseteq Drafts(r)
  BY DEF ExportsOK, TypeOK
<1>1. /\ DOMAIN stored' = Keys /\ Grows
      /\ \A d \in pending[r] : stored'[d.key] = Event(d)
      /\ \A k \in Keys : stored'[k] = stored[k] \/ \E d \in pending[r] : d.key = k /\ stored'[k] = Event(d)
  BY <1>0, CommitFacts
<1>2. pc'[r] = place /\ OthersKept(r) /\ Apart(r)
  BY <1>0, <1>1 DEF OthersKept, TypeOK, Apart
<1>3. TypeOK'
  BY <1>0, <1>1 DEF TypeOK
<1>4. StoredWasSent'
  BY <1>0, <1>1 DEF StoredWasSent, Event
<1>5. \A d \in Drafts(r) : (Holds(d) => Holds(d)') /\ (Conflicts(d) => Conflicts(d)')
  BY <1>1, FoundAgain
<1>6. \A d \in pending[r] : Holds(d)'
  BY <1>1 DEF Holds, Event
<1>7. ExportOK(r)'
  BY <1>0, <1>2, <1>5, <1>6 DEF ExportOK, BlameTrue, NothingLost, InLoop, Ended
<1>8. ConflictsCounted => AttemptsFoundConflicts(r)' /\ EndedWell(r)'
  <2> SUFFICES ASSUME ConflictsCounted PROVE AttemptsFoundConflicts(r)' /\ EndedWell(r)'
    OBVIOUS
  <2>1. \A d \in Drafts(r) \ pending[r] : Holds(d) \/ Conflicts(d)
    BY DEF ConflictsCounted, AttemptsFoundConflicts, InLoop
  <2>2. \A d \in Drafts(r) : Holds(d)' \/ Conflicts(d)'
    BY <1>5, <1>6, <2>1
  <2> QED BY <1>2, <2>2 DEF AttemptsFoundConflicts, EndedWell, InLoop, Ended
<1> QED BY <1>0, <1>2, <1>3, <1>4, <1>7, <1>8, StepSafe, CountSafe

LEMMA BlameSafe ==
  ASSUME ExportAssumption, ExportsOK, NEW r \in Requests, Blame(r)
  PROVE  /\ ExportsOK' /\ Apart(r)
         /\ ConflictsCounted => ConflictsCounted'
<1>0. TypeOK /\ StoredWasSent /\ ExportOK(r) /\ pending[r] \subseteq Drafts(r)
  BY DEF ExportsOK, TypeOK
<1>1. /\ pc[r] = "ingest" /\ pc'[r] = "blamed" /\ blame'[r] = BlameOf(pending[r]) /\ blame'[r] # {}
      /\ UNCHANGED <<pending, rejected, attempts, stored, quarantined, failures, quarantines>>
  BY <1>0 DEF Blame, TypeOK
<1>2. /\ BlameOf(pending[r]) \subseteq pending[r]
      /\ \A d \in BlameOf(pending[r]) : Conflicts(d) \/ d.stream \in quarantined
  BY <1>0, BlameFacts
<1>3. OthersKept(r) /\ Apart(r)
  BY <1>0, <1>1 DEF Blame, OthersKept, TypeOK, Apart, Grows
<1>4. TypeOK' /\ StoredWasSent'
  <2>1. /\ pc' \in [Requests -> {"new", "refused", "retry", "ingest", "blamed", "done"}]
        /\ DOMAIN blame' = Requests
    BY <1>0 DEF Blame, TypeOK
  <2> QED BY <1>0, <1>1, <1>2, <1>3, <2>1 DEF TypeOK, OthersKept, StoredWasSent
<1>5. \A d \in Drafts(r) : (Holds(d)' <=> Holds(d)) /\ (Conflicts(d)' <=> Conflicts(d))
  BY <1>1 DEF Conflicts, Holds
<1>6. BlameTrue(r)' /\ NothingLost(r)'
  BY <1>0, <1>1, <1>2, <1>5 DEF ExportOK, BlameTrue, NothingLost, InLoop, Ended
<1>7. Conflicting(r)' = Conflicting(r)
  BY <1>5 DEF Conflicting
<1>8. ConflictsCounted => AttemptsFoundConflicts(r)' /\ EndedWell(r)'
  BY <1>1, <1>5, <1>7 DEF ConflictsCounted, AttemptsFoundConflicts, EndedWell, InLoop, Ended
<1> QED BY <1>0, <1>3, <1>4, <1>6, <1>8, StepSafe, CountSafe DEF ExportOK

\* What a refusal leaves: drafts found in the ledger, offenders, and the rest.
LEMMA ConcludeSafe ==
  ASSUME ExportAssumption, ExportsOK, NEW r \in Requests, NEW existing, existing \subseteq pending[r],
         \A d \in existing : Holds(d), pc[r] = "blamed", Conclude(r, existing), failures' \in Nat,
         UNCHANGED <<blame, stored, quarantined, quarantines>>
  PROVE  /\ ExportsOK' /\ Apart(r)
         /\ ConflictsCounted => ConflictsCounted'
<1> DEFINE refused == pending[r] \ existing
           offenders == blame[r] \cap refused
           last == Last(r, offenders)
           next == refused \ offenders
           counted == IF last THEN refused ELSE offenders
<1>0. TypeOK /\ StoredWasSent /\ ExportOK(r) /\ pending[r] \subseteq Drafts(r) /\ attempts[r] \in Nat
  BY DEF ExportsOK, TypeOK
<1>1. /\ pending'[r] = next
      /\ rejected'[r] = rejected[r] \cup {d.at[1] : d \in counted}
      /\ pc'[r] = IF last \/ next = {} THEN "done" ELSE "ingest"
      /\ attempts'[r] = attempts[r] + 1
  BY <1>0 DEF Conclude, Rejections, Resubmit, TypeOK
<1>2. OthersKept(r) /\ Apart(r)
  BY <1>0 DEF Conclude, OthersKept, TypeOK, Apart, Grows
<1>3. TypeOK' /\ StoredWasSent'
  <2>1. /\ pc' \in [Requests -> {"new", "refused", "retry", "ingest", "blamed", "done"}]
        /\ attempts' \in [Requests -> Nat]
        /\ DOMAIN pending' = Requests /\ DOMAIN rejected' = Requests
    BY <1>0 DEF Conclude, TypeOK
  <2>2. {d.at[1] : d \in counted} \subseteq DOMAIN Spans(r)
    BY <1>0, DraftFacts
  <2>3. rejected'[r] \subseteq DOMAIN Spans(r) /\ pending'[r] \subseteq Drafts(r)
    BY <1>0, <1>1, <2>2 DEF TypeOK
  <2> HIDE DEF next, counted
  <2> QED BY <1>0, <1>2, <2>1, <2>3 DEF TypeOK, OthersKept, StoredWasSent
<1>4. \A d \in Drafts(r) : (Holds(d)' <=> Holds(d)) /\ (Conflicts(d)' <=> Conflicts(d))
  BY DEF Conflicts, Holds
<1>5. \A d \in pending[r] : \/ Holds(d) /\ d \notin next
                            \/ d \in next
                            \/ d \in offenders
  OBVIOUS
<1>6. offenders \subseteq counted /\ (last => next \subseteq counted)
  OBVIOUS
<1>7. \A d \in counted : d.at[1] \in rejected'[r]
  BY <1>1
<1>8. ExportOK(r)'
  <2>1. rejected[r] \subseteq rejected'[r]
    BY <1>1
  <2>2. \A d \in Drafts(r) : d \in pending[r] \/ Holds(d) \/ d.at[1] \in rejected[r]
    BY <1>0 DEF ExportOK, NothingLost, InLoop
  <2>3. \A d \in Drafts(r) : d \in next \/ Holds(d) \/ d.at[1] \in rejected'[r]
    BY <1>5, <1>6, <1>7, <2>1, <2>2
  <2>4. pc'[r] = "done" => \A d \in next : d.at[1] \in rejected'[r]
    BY <1>1, <1>6, <1>7
  <2> HIDE DEF next, counted, offenders, last
  <2> QED BY <1>1, <1>4, <2>3, <2>4 DEF ExportOK, BlameTrue, NothingLost, InLoop, Ended
<1>9. ASSUME ConflictsCounted PROVE AttemptsFoundConflicts(r)' /\ EndedWell(r)'
  <2>1. /\ \A d \in Drafts(r) \ pending[r] : Holds(d) \/ Conflicts(d)
        /\ attempts[r] <= Cardinality(Conflicting(r) \ pending[r])
    BY <1>9 DEF ConflictsCounted, AttemptsFoundConflicts, InLoop
  <2>2. /\ blame[r] \subseteq pending[r] /\ blame[r] # {}
        /\ \A d \in blame[r] : Conflicts(d)
    BY <1>0, <1>9 DEF ConflictsCounted, ExportOK, BlameTrue
  <2>3. blame[r] = offenders
    BY <2>2 DEF Conflicts
  <2>4. PICK o \in offenders : o \in Drafts(r) /\ o \in pending[r] /\ Conflicts(o) /\ o \notin next
    BY <1>0, <2>2, <2>3
  <2>5. \A d \in Drafts(r) \ next : Holds(d) \/ Conflicts(d)
    BY <1>5, <2>1, <2>2, <2>3
  <2>6. next \subseteq pending[r]
    OBVIOUS
  <2>7. attempts[r] + 1 <= Cardinality(Conflicting(r) \ next)
    <3> DEFINE before == Conflicting(r) \ pending[r]
               after == Conflicting(r) \ next
    <3>1. before \cup {o} \in SUBSET after /\ o \notin before
      BY <2>4, <2>6 DEF Conflicting
    <3>2. IsFiniteSet(Conflicting(r))
      <4>1. Conflicting(r) \in SUBSET Drafts(r)
        BY DEF Conflicting
      <4> QED BY <4>1, DraftsFinite, FS_Subset
    <3>3. IsFiniteSet(after) /\ IsFiniteSet(before)
      BY <3>2, FS_Subset
    <3> HIDE DEF before, after
    <3>4. Cardinality(before \cup {o}) = Cardinality(before) + 1
      BY <3>1, <3>3, FS_AddElement
    <3>5. Cardinality(before \cup {o}) <= Cardinality(after)
      BY <3>1, <3>3, FS_Subset
    <3>6. Cardinality(before) \in Nat /\ Cardinality(after) \in Nat
      BY <3>3, FS_CardinalityType
    <3>7. attempts[r] <= Cardinality(before)
      BY <2>1 DEF before
    <3>8. attempts[r] + 1 <= Cardinality(after)
      BY <1>0, <3>4, <3>5, <3>6, <3>7
    <3> QED BY <3>8 DEF after
  <2>8. Conflicting(r)' = Conflicting(r)
    BY <1>4 DEF Conflicting
  <2>9. last => Cardinality(Conflicting(r)) >= MaxAttempts
    <3>1. last => attempts[r] + 1 >= MaxAttempts
      BY <2>2, <2>3 DEF Last
    <3>2. IsFiniteSet(Conflicting(r))
      <4>1. Conflicting(r) \in SUBSET Drafts(r)
        BY DEF Conflicting
      <4> QED BY <4>1, DraftsFinite, FS_Subset
    <3>3. Conflicting(r) \ next \in SUBSET Conflicting(r)
      OBVIOUS
    <3> HIDE DEF next, last
    <3>4. /\ Cardinality(Conflicting(r) \ next) <= Cardinality(Conflicting(r))
          /\ Cardinality(Conflicting(r) \ next) \in Nat /\ Cardinality(Conflicting(r)) \in Nat
      BY <3>2, <3>3, FS_Subset, FS_CardinalityType
    <3> QED BY <1>0, <2>7, <3>1, <3>4 DEF ExportAssumption
  <2> HIDE DEF next, counted, offenders, last, refused
  <2>10. AttemptsFoundConflicts(r)'
    BY <1>1, <1>4, <2>5, <2>7, <2>8 DEF AttemptsFoundConflicts, InLoop
  <2>11. EndedWell(r)'
    BY <1>1, <1>4, <2>5, <2>8, <2>9 DEF EndedWell, Ended
  <2> QED BY <2>10, <2>11
<1> QED BY <1>0, <1>2, <1>3, <1>8, <1>9, StepSafe, CountSafe

LEMMA QuarantineSafe ==
  ASSUME ExportAssumption, ExportsOK, NEW s \in Streams, Quarantine(s)
  PROVE  /\ ExportsOK' /\ Grows
         /\ (NoQuarantines /\ ConflictsCounted) => ConflictsCounted'
<1>1. /\ TypeOK /\ StoredWasSent /\ quarantined' = quarantined \cup {s} /\ quarantines' = quarantines + 1
      /\ UNCHANGED <<pc, pending, rejected, attempts, blame, stored, failures>>
  BY DEF Quarantine, ExportsOK
<1>2. TypeOK' /\ StoredWasSent' /\ Grows
  BY <1>1 DEF TypeOK, StoredWasSent, Grows
<1>3. \A r \in Requests : ExportOK(r)'
  BY <1>1, <1>2, RequestKept DEF ExportsOK
<1>4. ~(NoQuarantines /\ ConflictsCounted)
  BY DEF Quarantine, NoQuarantines, ConflictsCounted
<1> QED BY <1>2, <1>3, <1>4 DEF ExportsOK

LEMMA ExportsStart ==
  ASSUME ExportAssumption, Init
  PROVE  ExportsOK /\ ConflictsCounted
<1>1. TypeOK /\ StoredWasSent
  BY DEF Init, TypeOK, StoredWasSent
<1>2. \A r \in Requests : pc[r] = "new" /\ attempts[r] = 0
  BY DEF Init
<1>3. \A r \in Requests : ExportOK(r) /\ AttemptsFoundConflicts(r) /\ EndedWell(r)
  BY <1>2 DEF ExportOK, BlameTrue, NothingLost, AttemptsFoundConflicts, EndedWell, InLoop, Ended
<1>4. quarantines = 0 /\ quarantined = {}
  BY DEF Init
<1> QED BY <1>1, <1>3, <1>4 DEF ExportsOK, ConflictsCounted

LEMMA NextSafe ==
  ASSUME ExportAssumption, ExportsOK, [Next]_vars
  PROVE  /\ ExportsOK'
         /\ NoQuarantines /\ ConflictsCounted => ConflictsCounted'
<1>1. CASE UNCHANGED vars
  <2>1. TypeOK' /\ StoredWasSent' /\ Grows
    BY <1>1 DEF vars, ExportsOK, TypeOK, StoredWasSent, Grows
  <2>2. \A r \in Requests : ExportOK(r)'
    BY <1>1, <2>1, RequestKept DEF vars, ExportsOK
  <2>3. ConflictsCounted => ConflictsCounted'
    BY <1>1, <2>1, CountKept DEF vars, ConflictsCounted, ExportsOK
  <2> QED BY <2>1, <2>2, <2>3 DEF ExportsOK
<1>2. ASSUME NEW s \in Streams, Quarantine(s)
      PROVE  /\ ExportsOK'
             /\ NoQuarantines /\ ConflictsCounted => ConflictsCounted'
  BY <1>2, QuarantineSafe
<1>3. ASSUME NEW r \in Requests,
             Refuse(r) \/ Unavailable(r) \/ Map(r) \/ SendAgain(r) \/ Accept(r) \/ AcceptUnanswered(r)
             \/ Blame(r) \/ Resolve(r) \/ ResolveUnread(r)
      PROVE  /\ ExportsOK'
             /\ ConflictsCounted => ConflictsCounted'
  <2>0. failures \in Nat /\ pending[r] \subseteq Drafts(r)
    BY DEF ExportsOK, TypeOK
  <2>1. CASE Refuse(r)
    BY <2>1, RefuseSafe
  <2>2. CASE Unavailable(r)
    BY <2>2, UnavailableSafe
  <2>3. CASE Map(r)
    BY <2>3, MapSafe
  <2>4. CASE SendAgain(r)
    BY <2>4, SendAgainSafe
  <2>5. CASE Accept(r)
    <3>1. /\ pc[r] = "ingest" /\ BlameOf(pending[r]) = {} /\ stored' = Committed(pending[r])
          /\ pc' = [pc EXCEPT ![r] = "done"] /\ failures' \in Nat
          /\ UNCHANGED <<pending, rejected, attempts, blame, quarantined, quarantines>>
      BY <2>0, <2>5 DEF Accept
    <3> QED BY <3>1, CommitSafe
  <2>6. CASE AcceptUnanswered(r)
    <3>1. /\ pc[r] = "ingest" /\ BlameOf(pending[r]) = {} /\ stored' = Committed(pending[r])
          /\ pc' = [pc EXCEPT ![r] = "retry"] /\ failures' \in Nat
          /\ UNCHANGED <<pending, rejected, attempts, blame, quarantined, quarantines>>
      BY <2>0, <2>6 DEF AcceptUnanswered
    <3> QED BY <3>1, CommitSafe
  <2>7. CASE Blame(r)
    BY <2>7, BlameSafe
  <2>8. CASE Resolve(r)
    <3> DEFINE existing == {d \in pending[r] : Holds(d)}
    <3>1. /\ pc[r] = "blamed" /\ Conclude(r, existing) /\ failures' \in Nat
          /\ UNCHANGED <<blame, stored, quarantined, quarantines>>
      BY <2>0, <2>8 DEF Resolve
    <3>2. existing \subseteq pending[r] /\ \A d \in existing : Holds(d)
      OBVIOUS
    <3> HIDE DEF existing
    <3> QED BY <3>1, <3>2, ConcludeSafe
  <2>9. CASE ResolveUnread(r)
    <3>1. /\ pc[r] = "blamed" /\ Conclude(r, {}) /\ failures' \in Nat
          /\ UNCHANGED <<blame, stored, quarantined, quarantines>>
      BY <2>0, <2>9 DEF ResolveUnread
    <3>2. {} \subseteq pending[r] /\ \A d \in {} : Holds(d)
      OBVIOUS
    <3> QED BY <3>1, <3>2, ConcludeSafe
  <2> QED BY <1>3, <2>1, <2>2, <2>3, <2>4, <2>5, <2>6, <2>7, <2>8, <2>9
<1> QED BY <1>1, <1>2, <1>3 DEF Next

LEMMA ExportsInvariant ==
  ASSUME ExportAssumption
  PROVE  Spec => []ExportsOK
<1>1. Init => ExportsOK
  BY ExportsStart
<1>2. ExportsOK /\ [Next]_vars => ExportsOK'
  BY NextSafe
<1> QED BY <1>1, <1>2, PTL DEF Spec

(* Requests, drafts, blame and the ledger of a receiver keep their types,  *)
(* for all exports, streams and bounds.                                     *)
THEOREM ExportTyped ==
  ASSUME ExportAssumption
  PROVE  Spec => []TypeOK
<1>1. ExportsOK => TypeOK
  BY DEF ExportsOK
<1> QED BY <1>1, ExportsInvariant, PTL

(* _ingest loses nothing silently: whatever overlaps, fails, is retried or  *)
(* quarantined, an answered export is stored or counted, draft by draft.    *)
THEOREM NothingIsLost ==
  ASSUME ExportAssumption
  PROVE  Spec => []NoSilentLoss
<1>1. ExportsOK => NoSilentLoss
  BY DEF ExportsOK, ExportOK, NothingLost, NoSilentLoss, Drafts, InLoop, Ended
<1> QED BY <1>1, ExportsInvariant, PTL

(* map_record and _span_reason keep the platform's own telemetry out of the *)
(* ledger, whatever an export mixes.                                        *)
THEOREM NoTelemetryLoop ==
  ASSUME ExportAssumption
  PROVE  Spec => []NoLoop
<1>1. ExportsOK => NoLoop
  <2> SUFFICES ASSUME ExportsOK, NEW k \in Keys, stored[k] # NoEvent
               PROVE  \E r \in Requests : \E i \in DOMAIN Spans(r) :
                        LET s == Spans(r)[i] IN
                        /\ "platform" \notin {s.resource, s.scope, s.origin}
                        /\ \E j \in DOMAIN s.records :
                             /\ s.records[j].key = k /\ s.records[j].body = stored[k].body
                             /\ s.records[j].origin = "client"
    BY DEF NoLoop
  <2>0. PICK r \in Requests : \E d \in Drafts(r) : d.key = k /\ stored[k] = Event(d)
    BY DEF ExportsOK, StoredWasSent
  <2>1. PICK d \in Drafts(r) : d.key = k /\ stored[k] = Event(d)
    BY <2>0
  <2>2. /\ d.at \in ReadAt(Spans(r)) /\ RecordOutcome(Record(Spans(r), d.at)) = "draft"
        /\ d.key = Record(Spans(r), d.at).key /\ d.body = Record(Spans(r), d.at).body
    BY <2>1, DraftFacts
  <2>3. PICK i \in DOMAIN Spans(r) :
               /\ ~SpanRefused(Spans(r)[i]) /\ Spans(r)[i].origin = "client"
               /\ \E j \in DOMAIN Spans(r)[i].records : d.at = <<i, j>>
    BY <2>2 DEF ReadAt
  <2>4. PICK j \in DOMAIN Spans(r)[i].records : d.at = <<i, j>>
    BY <2>3
  <2> DEFINE s == Spans(r)[i]
             record == s.records[j]
  <2>5. Record(Spans(r), d.at) = record
    BY <2>4 DEF Record
  <2>6. "platform" \notin {s.resource, s.scope, s.origin}
    BY <2>3 DEF SpanRefused, ResourceRefused
  <2>7. record.origin = "client"
    <3>1. record.origin # "platform"
      BY <2>2, <2>5 DEF RecordOutcome
    <3> QED BY <3>1, <2>3, <2>4 DEF ExportAssumption
  <2>8. record.key = k /\ record.body = stored[k].body
    BY <2>1, <2>2, <2>5 DEF Event
  <2> QED BY <2>6, <2>7, <2>8
<1> QED BY <1>1, ExportsInvariant, PTL

(* The resubmission of a refused batch costs nothing but its conflicts: in  *)
(* a ledger without quarantines, a record of an answered export is lost     *)
(* only if it conflicts, or if every attempt met another conflict.          *)
THEOREM InnocentsAreKept ==
  ASSUME ExportAssumption, NoQuarantines
  PROVE  Spec => []InnocentKept
<1>1. Init => ExportsOK /\ ConflictsCounted
  BY ExportsStart
<1>2. ExportsOK /\ ConflictsCounted /\ [Next]_vars => (ExportsOK /\ ConflictsCounted)'
  BY NextSafe
<1>3. ConflictsCounted => InnocentKept
  BY DEF ConflictsCounted, EndedWell, InnocentKept, Ended, Conflicting, Drafts
<1> QED BY <1>1, <1>2, <1>3, PTL DEF Spec

-----------------------------------------------------------------------------
\* The decode gate: places, slots, turn locks and their holders agree.
Gate == INSTANCE DecodeGate WITH
  pc <- gate_pc, admitted <- gate_admitted, byProducer <- gate_byProducer, turns <- gate_turns,
  lock <- gate_lock, holder <- gate_holder, slots <- gate_slots, cancels <- gate_cancels,
  Requests <- GateRequests

\* Finite sets are the same in the instance.
LEMMA GateSets == \A S : (Gate!IsFiniteSet(S) <=> IsFiniteSet(S)) /\ Gate!Cardinality(S) = Cardinality(S)
<1>1. \A S : Gate!IsFiniteSet(S) <=> IsFiniteSet(S)
  BY DEF Gate!IsFiniteSet, IsFiniteSet
<1>2. \A S : Gate!Cardinality(S) = Cardinality(S)
  BY DEF Gate!Cardinality, Cardinality
<1> QED BY <1>1, <1>2

USE GateSets

LEMMA Counting ==
  ASSUME NEW S, IsFiniteSet(S), NEW r
  PROVE  /\ Cardinality(S) \in Nat
         /\ IsFiniteSet(S \cup {r}) /\ IsFiniteSet(S \ {r})
         /\ r \notin S => Cardinality(S \cup {r}) = Cardinality(S) + 1
         /\ r \in S => Cardinality(S \ {r}) = Cardinality(S) - 1 /\ Cardinality(S) > 0
<1>1. Cardinality(S) \in Nat
  BY FS_CardinalityType
<1>2. IsFiniteSet(S \cup {r}) /\ (r \notin S => Cardinality(S \cup {r}) = Cardinality(S) + 1)
  BY FS_AddElement
<1>3. IsFiniteSet(S \ {r}) /\ (r \in S => Cardinality(S \ {r}) = Cardinality(S) - 1)
  BY FS_RemoveElement
<1>4. r \in S => Cardinality(S) > 0
  <2>1. r \in S => Cardinality(S \ {r}) \in Nat
    BY <1>3, FS_CardinalityType
  <2> QED BY <1>1, <1>3, <2>1
<1> QED BY <1>1, <1>2, <1>3, <1>4

\* Where a request is decides what it holds.
LEMMA PlaceMoves ==
  ASSUME Gate!TypeOK, NEW r \in GateRequests, NEW place, Gate!Goto(r, place)
  PROVE  /\ gate_pc'[r] = place /\ \A s \in GateRequests : s # r => gate_pc'[s] = gate_pc[s]
         /\ Gate!Placed' = IF place \in Gate!HasPlace THEN Gate!Placed \cup {r} ELSE Gate!Placed \ {r}
         /\ Gate!Threads' = IF place \in Gate!HasSlot THEN Gate!Threads \cup {r} ELSE Gate!Threads \ {r}
         /\ \A p : Gate!Of(p)' = IF place \in Gate!HasPlace /\ Gate!P(r) = p THEN Gate!Of(p) \cup {r} ELSE Gate!Of(p) \ {r}
<1>1. gate_pc'[r] = place /\ \A s \in GateRequests : s # r => gate_pc'[s] = gate_pc[s]
  BY DEF Gate!Goto, Gate!TypeOK
<1>2. Gate!Placed' = {s \in GateRequests : gate_pc'[s] \in Gate!HasPlace} /\ Gate!Placed = {s \in GateRequests : gate_pc[s] \in Gate!HasPlace}
  BY DEF Gate!Placed, Gate!HasPlace, Gate!HasTurn
<1>3. Gate!Placed' = IF place \in Gate!HasPlace THEN Gate!Placed \cup {r} ELSE Gate!Placed \ {r}
  BY <1>1, <1>2
<1>4. Gate!Threads' = IF place \in Gate!HasSlot THEN Gate!Threads \cup {r} ELSE Gate!Threads \ {r}
  BY <1>1 DEF Gate!Threads
<1>5. \A p : Gate!Of(p)' = IF place \in Gate!HasPlace /\ Gate!P(r) = p THEN Gate!Of(p) \cup {r} ELSE Gate!Of(p) \ {r}
  BY <1>3 DEF Gate!Of, Gate!P
<1> QED BY <1>1, <1>3, <1>4, <1>5

\* A step that changes neither the place nor the slot of a request.
LEMMA StaysPut ==
  ASSUME Gate!TypeOK, Gate!SlotsBalance, IsFiniteSet(Gate!Placed), Gate!PlacesBalance, NEW r \in GateRequests, NEW place, Gate!Goto(r, place),
         place \in Gate!HasPlace <=> r \in Gate!Placed, place \in Gate!HasSlot <=> r \in Gate!Threads,
         UNCHANGED <<gate_admitted, gate_byProducer, gate_slots>>
  PROVE  Gate!SlotsBalance' /\ IsFiniteSet(Gate!Placed') /\ Gate!PlacesBalance' /\ Gate!Placed' = Gate!Placed /\ \A p : Gate!Of(p)' = Gate!Of(p)
<1>1. Gate!Placed' = Gate!Placed /\ Gate!Threads' = Gate!Threads
  BY PlaceMoves
<1>2. \A p : Gate!Of(p)' = Gate!Of(p)
  BY <1>1 DEF Gate!Of, Gate!P
<1> QED BY <1>1, <1>2 DEF Gate!SlotsBalance, Gate!PlacesBalance, Gate!Of

LEMMA GateTurns ==
  ASSUME Gate!GateAssumption, Gate!GateInv, NEW r \in GateRequests, NEW place, Gate!Goto(r, place), place # "new",
         place \in Gate!HasPlace <=> r \in Gate!Placed, place \in Gate!HasTurn <=> gate_pc[r] \in Gate!HasTurn,
         UNCHANGED <<gate_turns, gate_lock, gate_holder>>
  PROVE  Gate!TurnsShared' /\ Gate!TurnsHeld'
<1>1. Gate!TypeOK /\ Gate!TurnsShared /\ Gate!TurnsHeld
  BY DEF Gate!GateInv
<1>2. Gate!Placed' = Gate!Placed
  BY <1>1, PlaceMoves
<1>3. \A s \in GateRequests : /\ gate_pc'[s] \in Gate!HasTurn <=> gate_pc[s] \in Gate!HasTurn
                              /\ gate_pc[s] # "new" => gate_pc'[s] # "new"
  BY <1>1, PlaceMoves
<1>4. Gate!TurnsShared'
  BY <1>1, <1>2, <1>3 DEF Gate!TurnsShared, Gate!P, Gate!GateAssumption, Gate!TypeOK
<1>5. Gate!TurnsHeld'
  BY <1>1, <1>3 DEF Gate!TurnsHeld, Gate!GateAssumption, Gate!TypeOK
<1> QED BY <1>4, <1>5

LEMMA GateRefuseSafe ==
  ASSUME Gate!GateAssumption, Gate!GateInv, NEW r \in GateRequests, Gate!Refuse(r)
  PROVE  Gate!GateInv'
<1>1. Gate!TypeOK /\ Gate!Goto(r, "busy") /\ gate_pc[r] = "new" /\ UNCHANGED <<gate_admitted, gate_byProducer, gate_turns, gate_lock, gate_holder, gate_slots, gate_cancels>>
  BY DEF Gate!GateInv, Gate!Refuse
<1>2. r \notin Gate!Placed /\ r \notin Gate!Threads /\ gate_pc[r] \notin Gate!HasTurn
  BY <1>1 DEF Gate!Placed, Gate!Threads, Gate!HasSlot, Gate!HasTurn
<1>3. "busy" \notin Gate!HasPlace /\ "busy" \notin Gate!HasSlot /\ "busy" \notin Gate!HasTurn
  BY DEF Gate!HasPlace, Gate!HasSlot, Gate!HasTurn
<1>4. Gate!TypeOK'
  BY <1>1 DEF Gate!TypeOK, Gate!Goto
<1>5. Gate!SlotsBalance' /\ IsFiniteSet(Gate!Placed') /\ Gate!PlacesBalance'
  BY <1>1, <1>2, <1>3, StaysPut DEF Gate!GateInv
<1> QED BY <1>1, <1>2, <1>3, <1>4, <1>5, GateTurns DEF Gate!GateInv

\* The thread starts, or its caller goes and leaves it the place.
LEMMA ThreadSafe ==
  ASSUME Gate!GateAssumption, Gate!GateInv, NEW r \in GateRequests, NEW place \in {"running", "detached"}, Gate!Goto(r, place),
         gate_pc[r] \in {"check", "running"}, UNCHANGED <<gate_admitted, gate_byProducer, gate_turns, gate_lock, gate_holder, gate_slots>>,
         gate_cancels' \in 0 .. MaxCancels
  PROVE  Gate!GateInv'
<1>1. Gate!TypeOK /\ r \in Gate!Placed /\ r \in Gate!Threads /\ gate_pc[r] \in Gate!HasTurn
  BY DEF Gate!GateInv, Gate!Placed, Gate!Threads, Gate!HasSlot, Gate!HasTurn
<1>2. place \in Gate!HasPlace /\ place \in Gate!HasSlot /\ place \in Gate!HasTurn
  BY DEF Gate!HasPlace, Gate!HasSlot, Gate!HasTurn
<1>3. Gate!TypeOK'
  BY <1>1, <1>2 DEF Gate!TypeOK, Gate!Goto
<1>4. Gate!SlotsBalance' /\ IsFiniteSet(Gate!Placed') /\ Gate!PlacesBalance'
  BY <1>1, <1>2, StaysPut DEF Gate!GateInv
<1> QED BY <1>1, <1>2, <1>3, <1>4, GateTurns DEF Gate!GateInv

LEMMA TakeSlotSafe ==
  ASSUME Gate!GateAssumption, Gate!GateInv, NEW r \in GateRequests, Gate!TakeSlot(r)
  PROVE  Gate!GateInv'
<1>1. /\ Gate!TypeOK /\ Gate!Goto(r, "check") /\ gate_pc[r] = "slot" /\ gate_slots > 0 /\ gate_slots' = gate_slots - 1
      /\ UNCHANGED <<gate_admitted, gate_byProducer, gate_turns, gate_lock, gate_holder, gate_cancels>>
  BY DEF Gate!GateInv, Gate!TakeSlot
<1>2. r \in Gate!Placed /\ r \notin Gate!Threads /\ gate_pc[r] \in Gate!HasTurn
  BY <1>1 DEF Gate!Placed, Gate!Threads, Gate!HasSlot, Gate!HasTurn
<1>3. "check" \in Gate!HasPlace /\ "check" \in Gate!HasSlot /\ "check" \in Gate!HasTurn
  BY DEF Gate!HasPlace, Gate!HasSlot, Gate!HasTurn
<1>4. Gate!TypeOK'
  BY <1>1, <1>3 DEF Gate!TypeOK, Gate!Goto
<1>5. Gate!Placed' = Gate!Placed /\ Gate!Threads' = Gate!Threads \cup {r}
  <2>1. Gate!Placed' = Gate!Placed \cup {r} /\ Gate!Threads' = Gate!Threads \cup {r}
    BY <1>1, <1>3, PlaceMoves
  <2> QED BY <1>2, <2>1
<1>6. Gate!SlotsBalance'
  <2>1. IsFiniteSet(Gate!Threads) /\ gate_slots + Cardinality(Gate!Threads) = Workers /\ gate_slots \in Nat
    BY <1>1 DEF Gate!GateInv, Gate!SlotsBalance, Gate!TypeOK
  <2>2. /\ Cardinality(Gate!Threads) \in Nat /\ IsFiniteSet(Gate!Threads \cup {r})
        /\ r \notin Gate!Threads => Cardinality(Gate!Threads \cup {r}) = Cardinality(Gate!Threads) + 1
    BY <2>1, Counting
  <2> QED BY <1>1, <1>2, <1>5, <2>1, <2>2 DEF Gate!SlotsBalance
<1>7. IsFiniteSet(Gate!Placed') /\ Gate!PlacesBalance'
  BY <1>1, <1>5 DEF Gate!GateInv, Gate!PlacesBalance, Gate!P
<1> QED BY <1>1, <1>2, <1>3, <1>4, <1>6, <1>7, GateTurns DEF Gate!GateInv

LEMMA TakeTurnSafe ==
  ASSUME Gate!GateAssumption, Gate!GateInv, NEW r \in GateRequests, Gate!TakeTurn(r)
  PROVE  Gate!GateInv'
<1>1. /\ Gate!TypeOK /\ Gate!TurnsShared /\ Gate!TurnsHeld /\ Gate!Goto(r, "slot") /\ gate_pc[r] = "turn" /\ gate_holder[gate_lock[r]] = None
      /\ gate_holder' = [gate_holder EXCEPT ![gate_lock[r]] = r]
      /\ UNCHANGED <<gate_admitted, gate_byProducer, gate_turns, gate_lock, gate_slots, gate_cancels>>
  BY DEF Gate!GateInv, Gate!TakeTurn
<1>2. r \in Gate!Placed /\ r \notin Gate!Threads /\ gate_pc[r] \notin Gate!HasTurn
  BY <1>1 DEF Gate!Placed, Gate!Threads, Gate!HasSlot, Gate!HasTurn
<1>3. "slot" \in Gate!HasPlace /\ "slot" \notin Gate!HasSlot /\ "slot" \in Gate!HasTurn /\ "slot" # "new"
  BY DEF Gate!HasPlace, Gate!HasSlot, Gate!HasTurn
<1>4. gate_lock[r] \in GateRequests
  BY <1>1, <1>2 DEF Gate!TypeOK, Gate!TurnsShared
<1>5. Gate!TypeOK'
  BY <1>1, <1>3, <1>4 DEF Gate!TypeOK, Gate!Goto
<1>6. Gate!SlotsBalance' /\ IsFiniteSet(Gate!Placed') /\ Gate!PlacesBalance' /\ Gate!Placed' = Gate!Placed
  BY <1>1, <1>2, <1>3, StaysPut DEF Gate!GateInv
<1>7. gate_pc'[r] = "slot" /\ \A s \in GateRequests : s # r => gate_pc'[s] = gate_pc[s]
  BY <1>1, PlaceMoves
<1>8. Gate!TurnsShared'
  BY <1>1, <1>3, <1>6, <1>7 DEF Gate!TurnsShared, Gate!P, Gate!GateAssumption, Gate!TypeOK
<1>9. gate_holder'[gate_lock[r]] = r /\ \A l \in GateRequests : l # gate_lock[r] => gate_holder'[l] = gate_holder[l]
  BY <1>1, <1>4 DEF Gate!TypeOK
<1>10. \A s \in GateRequests : s # r /\ gate_pc[s] \in Gate!HasTurn => gate_lock[s] # gate_lock[r]
  BY <1>1 DEF Gate!TurnsHeld, Gate!GateAssumption
<1>11. \A s \in GateRequests : gate_pc[s] \in Gate!HasTurn => s \in Gate!Placed /\ gate_lock[s] \in GateRequests
  BY <1>1 DEF Gate!Placed, Gate!HasTurn, Gate!TurnsShared, Gate!TypeOK
<1>12. \A s \in GateRequests : gate_pc'[s] \in Gate!HasTurn => gate_holder'[gate_lock[s]] = s
  BY <1>1, <1>7, <1>9, <1>10, <1>11 DEF Gate!TurnsHeld
<1>13. \A l \in GateRequests : gate_holder'[l] # None => gate_pc'[gate_holder'[l]] \in Gate!HasTurn /\ gate_lock[gate_holder'[l]] = l
  <2> SUFFICES ASSUME NEW l \in GateRequests, gate_holder'[l] # None
               PROVE  gate_pc'[gate_holder'[l]] \in Gate!HasTurn /\ gate_lock[gate_holder'[l]] = l
    OBVIOUS
  <2>1. CASE l = gate_lock[r]
    BY <1>3, <1>7, <1>9, <2>1
  <2>2. CASE l # gate_lock[r]
    <3>1. gate_holder'[l] = gate_holder[l] /\ gate_holder[l] \in GateRequests
      BY <1>1, <1>9, <2>2 DEF Gate!TypeOK
    <3> QED BY <1>1, <1>2, <1>7, <3>1 DEF Gate!TurnsHeld
  <2> QED BY <2>1, <2>2
<1>14. Gate!TurnsHeld'
  BY <1>1, <1>12, <1>13 DEF Gate!TurnsHeld
<1> QED BY <1>5, <1>6, <1>8, <1>14 DEF Gate!GateInv

LEMMA AdmitSafe ==
  ASSUME Gate!GateAssumption, Gate!GateInv, NEW r \in GateRequests, Gate!Admit(r)
  PROVE  Gate!GateInv'
<1> DEFINE l == IF gate_turns[Gate!P(r)] = None THEN r ELSE gate_turns[Gate!P(r)]
<1>1. /\ Gate!TypeOK /\ Gate!TurnsShared /\ Gate!TurnsHeld /\ Gate!Goto(r, "turn") /\ gate_pc[r] = "new" /\ Gate!P(r) \in Producers
      /\ gate_admitted' = gate_admitted + 1 /\ gate_byProducer' = [gate_byProducer EXCEPT ![Gate!P(r)] = @ + 1]
      /\ UNCHANGED <<gate_holder, gate_slots, gate_cancels>>
  BY DEF Gate!GateInv, Gate!Admit, Gate!GateAssumption, Gate!P
<1>2. gate_turns' = [gate_turns EXCEPT ![Gate!P(r)] = l] /\ gate_turns'[Gate!P(r)] = l /\ gate_lock' = [gate_lock EXCEPT ![r] = l]
  BY <1>1 DEF Gate!Admit, Gate!TypeOK
<1>3. l \in GateRequests /\ Gate!P(l) = Gate!P(r) /\ l # None
  BY <1>1 DEF Gate!TypeOK, Gate!TurnsShared, Gate!GateAssumption
<1>4. r \notin Gate!Placed /\ r \notin Gate!Threads /\ gate_pc[r] \notin Gate!HasTurn
  BY <1>1 DEF Gate!Placed, Gate!Threads, Gate!HasSlot, Gate!HasTurn
<1>5. "turn" \in Gate!HasPlace /\ "turn" \notin Gate!HasSlot /\ "turn" \notin Gate!HasTurn
  BY DEF Gate!HasPlace, Gate!HasSlot, Gate!HasTurn
<1>6. gate_turns[Gate!P(r)] = None => \A s \in Gate!Placed : Gate!P(s) # Gate!P(r)
  BY <1>1 DEF Gate!TurnsShared
<1>22. l # r => gate_turns[Gate!P(r)] # None
  OBVIOUS
<1>8. gate_turns[Gate!P(r)] # None => l = gate_turns[Gate!P(r)]
  OBVIOUS
<1> HIDE DEF l
<1>9. Gate!TypeOK'
  BY <1>1, <1>2, <1>3, <1>5 DEF Gate!TypeOK, Gate!Goto
<1>10. gate_pc'[r] = "turn" /\ \A s \in GateRequests : s # r => gate_pc'[s] = gate_pc[s]
  BY <1>1, PlaceMoves
<1>11. Gate!Placed' = Gate!Placed \cup {r} /\ \A p : Gate!Of(p)' = (IF Gate!P(r) = p THEN Gate!Of(p) \cup {r} ELSE Gate!Of(p) \ {r})
  BY <1>1, <1>5, PlaceMoves
<1>12. Gate!Threads' = Gate!Threads
  <2>1. Gate!Threads' = Gate!Threads \ {r}
    BY <1>1, <1>5, PlaceMoves
  <2> QED BY <1>4, <2>1
<1>13. Gate!SlotsBalance'
  BY <1>1, <1>12 DEF Gate!GateInv, Gate!SlotsBalance
<1>14. IsFiniteSet(Gate!Placed) /\ gate_admitted = Cardinality(Gate!Placed)
  BY DEF Gate!GateInv, Gate!PlacesBalance
<1>15. IsFiniteSet(Gate!Placed') /\ gate_admitted' = Cardinality(Gate!Placed')
  BY <1>1, <1>4, <1>11, <1>14, Counting
<1>16. ASSUME NEW p \in Producers PROVE gate_byProducer'[p] = Cardinality(Gate!Of(p)')
  <2>1. gate_byProducer[p] = Cardinality(Gate!Of(p)) /\ IsFiniteSet(Gate!Of(p)) /\ r \notin Gate!Of(p)
    BY <1>4, <1>14, FS_Subset DEF Gate!GateInv, Gate!PlacesBalance, Gate!Of
  <2>2. CASE p = Gate!P(r)
    <3>1. Gate!Of(p)' = Gate!Of(p) \cup {r}
      BY <1>11, <2>2
    <3> QED BY <1>1, <2>1, <2>2, <3>1, Counting DEF Gate!TypeOK
  <2>3. CASE p # Gate!P(r)
    <3>1. Gate!Of(p)' = Gate!Of(p)
      BY <1>11, <2>1, <2>3
    <3> QED BY <1>1, <2>1, <2>3, <3>1 DEF Gate!TypeOK
  <2> QED BY <2>2, <2>3
<1>17. Gate!PlacesBalance'
  BY <1>15, <1>16 DEF Gate!PlacesBalance, Gate!Of
<1>18. \A p \in Producers : p # Gate!P(r) => gate_turns'[p] = gate_turns[p]
  BY <1>1, <1>2 DEF Gate!TypeOK
<1>19. gate_lock'[r] = l /\ \A s \in GateRequests : s # r => gate_lock'[s] = gate_lock[s]
  BY <1>2 DEF Gate!TypeOK, Gate!GateInv
<1>20. Gate!TurnsShared'
  <2>1. ASSUME NEW s \in Gate!Placed' PROVE gate_lock'[s] # None /\ gate_lock'[s] = gate_turns'[Gate!P(s)]
    <3>1. CASE s = r
      BY <1>2, <1>3, <1>19, <3>1
    <3>2. CASE s # r
      <4>1. s \in Gate!Placed /\ s \in GateRequests /\ gate_lock'[s] = gate_lock[s] /\ Gate!P(s) \in Producers
        BY <1>11, <1>19, <3>2 DEF Gate!Placed, Gate!P, Gate!GateAssumption
      <4>2. gate_turns'[Gate!P(s)] = gate_turns[Gate!P(s)]
        BY <1>2, <1>6, <1>8, <1>18, <4>1
      <4> QED BY <1>1, <4>1, <4>2 DEF Gate!TurnsShared
    <3> QED BY <3>1, <3>2
  <2>2. ASSUME NEW p \in Producers, gate_turns'[p] # None PROVE Gate!P(gate_turns'[p]) = p /\ gate_pc'[gate_turns'[p]] # "new"
    <3>1. CASE p = Gate!P(r)
      <4>1. gate_pc'[l] # "new"
        <5>1. CASE l = r
          BY <1>10, <5>1
        <5>2. CASE l # r
          <6>1. gate_turns[Gate!P(r)] # None
            BY <1>22, <5>2
          <6>2. gate_pc[l] # "new"
            BY <1>1, <1>8, <6>1 DEF Gate!TurnsShared
          <6> QED BY <1>3, <1>10, <5>2, <6>2
        <5> QED BY <5>1, <5>2
      <4> QED BY <1>2, <1>3, <3>1, <4>1
    <3>2. CASE p # Gate!P(r)
      <4>1. gate_turns'[p] = gate_turns[p] /\ gate_turns[p] \in GateRequests
        BY <1>1, <1>18, <2>2, <3>2 DEF Gate!TypeOK
      <4> QED BY <1>1, <1>10, <2>2, <4>1 DEF Gate!TurnsShared
    <3> QED BY <3>1, <3>2
  <2>3. ASSUME NEW s \in GateRequests, s \notin Gate!Placed' PROVE gate_lock'[s] = None
    BY <1>1, <1>11, <1>19, <2>3 DEF Gate!TurnsShared
  <2> QED BY <2>1, <2>2, <2>3 DEF Gate!TurnsShared, Gate!P
<1>21. Gate!TurnsHeld'
  <2>1. ASSUME NEW s \in GateRequests, gate_pc'[s] \in Gate!HasTurn PROVE gate_holder[gate_lock'[s]] = s
    BY <1>1, <1>5, <1>10, <1>19, <2>1 DEF Gate!TurnsHeld
  <2>2. ASSUME NEW k \in GateRequests, gate_holder[k] # None PROVE gate_pc'[gate_holder[k]] \in Gate!HasTurn /\ gate_lock'[gate_holder[k]] = k
    <3>1. gate_holder[k] \in GateRequests /\ gate_pc[gate_holder[k]] \in Gate!HasTurn /\ gate_lock[gate_holder[k]] = k
      BY <1>1, <2>2 DEF Gate!TurnsHeld, Gate!TypeOK
    <3>2. gate_holder[k] # r
      BY <1>4, <3>1
    <3> QED BY <1>10, <1>19, <3>1, <3>2
  <2> QED BY <1>1, <2>1, <2>2 DEF Gate!TurnsHeld
<1> QED BY <1>9, <1>13, <1>15, <1>17, <1>20, <1>21 DEF Gate!GateInv

\* A request gives back its place, with the turn and the slot it may hold.
LEMMA ReleaseSafe ==
  ASSUME Gate!GateAssumption, Gate!GateInv, NEW r \in GateRequests, NEW place \in {"gone", "done"}, NEW holdsSlot,
         gate_pc[r] \in Gate!HasPlace, holdsSlot <=> gate_pc[r] \in Gate!HasSlot,
         Gate!Release(r, holdsSlot), Gate!Goto(r, place), gate_cancels' \in 0 .. MaxCancels
  PROVE  Gate!GateInv'
<1>1. /\ Gate!TypeOK /\ Gate!TurnsShared /\ Gate!TurnsHeld /\ Gate!P(r) \in Producers /\ r \in Gate!Placed
      /\ IsFiniteSet(Gate!Placed) /\ gate_admitted = Cardinality(Gate!Placed)
  BY DEF Gate!GateInv, Gate!GateAssumption, Gate!P, Gate!Placed, Gate!HasPlace, Gate!HasTurn, Gate!PlacesBalance
<1>2. gate_lock[r] \in GateRequests /\ gate_lock[r] = gate_turns[Gate!P(r)]
  BY <1>1 DEF Gate!TypeOK, Gate!TurnsShared
<1>3. /\ gate_admitted' = gate_admitted - 1 /\ gate_byProducer' = [gate_byProducer EXCEPT ![Gate!P(r)] = @ - 1]
      /\ gate_lock' = [gate_lock EXCEPT ![r] = None] /\ gate_turns' = Gate!DropTurns(Gate!P(r))
      /\ gate_holder' = [gate_holder EXCEPT ![gate_lock[r]] = IF @ = r THEN None ELSE @]
  BY DEF Gate!Release
<1>4. place \notin Gate!HasPlace /\ place \notin Gate!HasSlot /\ place \notin Gate!HasTurn /\ place # "new"
  BY DEF Gate!HasPlace, Gate!HasSlot, Gate!HasTurn
<1>5. gate_pc'[r] = place /\ \A s \in GateRequests : s # r => gate_pc'[s] = gate_pc[s]
  BY <1>1, PlaceMoves
<1>6. Gate!Placed' = Gate!Placed \ {r} /\ Gate!Threads' = Gate!Threads \ {r} /\ \A p : Gate!Of(p)' = Gate!Of(p) \ {r}
  BY <1>1, <1>4, PlaceMoves
<1>7. IsFiniteSet(Gate!Placed') /\ gate_admitted' = Cardinality(Gate!Placed') /\ gate_admitted' \in Nat
  BY <1>1, <1>3, <1>6, Counting, FS_CardinalityType
<1>8. Gate!SlotsBalance' /\ gate_slots' \in Nat
  <2>1. IsFiniteSet(Gate!Threads) /\ gate_slots + Cardinality(Gate!Threads) = Workers /\ gate_slots \in Nat /\ Workers \in Nat
    BY <1>1 DEF Gate!GateInv, Gate!SlotsBalance, Gate!TypeOK, Gate!GateAssumption, Gate!GateIsUsable
  <2>2. CASE holdsSlot
    <3>1. r \in Gate!Threads /\ gate_slots' = gate_slots + 1
      BY <2>2 DEF Gate!Threads, Gate!Release
    <3>2. /\ Cardinality(Gate!Threads) \in Nat /\ IsFiniteSet(Gate!Threads \ {r})
          /\ Cardinality(Gate!Threads \ {r}) = Cardinality(Gate!Threads) - 1
      BY <2>1, <3>1, Counting
    <3> QED BY <1>6, <2>1, <3>1, <3>2 DEF Gate!SlotsBalance
  <2>3. CASE ~ holdsSlot
    <3>1. gate_slots' = gate_slots
      BY <2>3 DEF Gate!Release
    <3>2. Gate!Threads' = Gate!Threads
      BY <1>6, <2>3 DEF Gate!Threads
    <3> QED BY <2>1, <3>1, <3>2 DEF Gate!SlotsBalance
  <2> QED BY <2>2, <2>3
<1>9. \A p \in Producers : gate_byProducer[p] = Cardinality(Gate!Of(p)) /\ IsFiniteSet(Gate!Of(p)) /\ gate_byProducer[p] \in Nat
  BY <1>1, FS_Subset DEF Gate!GateInv, Gate!PlacesBalance, Gate!Of, Gate!TypeOK
<1>10. ASSUME NEW p \in Producers PROVE gate_byProducer'[p] = Cardinality(Gate!Of(p)') /\ gate_byProducer'[p] \in Nat
  <2>1. CASE p = Gate!P(r)
    <3>1. r \in Gate!Of(p)
      BY <1>1, <2>1 DEF Gate!Of
    <3>2. gate_byProducer'[p] = gate_byProducer[p] - 1
      BY <1>1, <1>3, <2>1 DEF Gate!TypeOK
    <3>3. IsFiniteSet(Gate!Of(p)) /\ gate_byProducer[p] = Cardinality(Gate!Of(p))
      BY <1>9
    <3>4. Cardinality(Gate!Of(p) \ {r}) = Cardinality(Gate!Of(p)) - 1 /\ Cardinality(Gate!Of(p) \ {r}) \in Nat
      BY <3>1, <3>3, Counting, FS_CardinalityType
    <3> QED BY <1>6, <3>2, <3>3, <3>4
  <2>2. CASE p # Gate!P(r)
    <3>1. Gate!Of(p)' = Gate!Of(p)
      BY <1>6, <2>2 DEF Gate!Of
    <3>2. gate_byProducer'[p] = gate_byProducer[p]
      BY <1>1, <1>3, <2>2 DEF Gate!TypeOK
    <3> QED BY <1>9, <3>1, <3>2
  <2> QED BY <2>1, <2>2
<1>11. Gate!PlacesBalance'
  BY <1>7, <1>10 DEF Gate!PlacesBalance, Gate!Of
\* The lock goes with the producer's last place.
<1>12. \A p \in Producers : gate_turns'[p] = gate_turns[p] \/ (p = Gate!P(r) /\ gate_byProducer[p] = 1 /\ gate_turns'[p] = None)
  BY <1>1, <1>3 DEF Gate!DropTurns, Gate!TypeOK
<1>13. gate_byProducer[Gate!P(r)] = 1 => \A s \in Gate!Placed : Gate!P(s) = Gate!P(r) => s = r
  <2> SUFFICES ASSUME gate_byProducer[Gate!P(r)] = 1, NEW s \in Gate!Placed, Gate!P(s) = Gate!P(r), s # r
               PROVE  FALSE
    OBVIOUS
  <2>1. r \in Gate!Of(Gate!P(r)) /\ s \in Gate!Of(Gate!P(r)) \ {r} /\ IsFiniteSet(Gate!Of(Gate!P(r))) /\ Cardinality(Gate!Of(Gate!P(r))) = 1
    BY <1>1, <1>9 DEF Gate!Of
  <2> DEFINE Others == Gate!Of(Gate!P(r)) \ {r}
  <2>2. IsFiniteSet(Others) /\ Cardinality(Others) = 0
    BY <2>1, Counting
  <2>3. s \in Others
    BY <2>1
  <2> HIDE DEF Others
  <2>4. Cardinality(Others) > 0
    BY <2>2, <2>3, Counting
  <2> QED BY <2>2, <2>4
<1>14. gate_lock'[r] = None /\ \A s \in GateRequests : s # r => gate_lock'[s] = gate_lock[s]
  BY <1>1, <1>3 DEF Gate!TypeOK
<1>15. Gate!TurnsShared'
  <2>1. ASSUME NEW s \in Gate!Placed' PROVE gate_lock'[s] # None /\ gate_lock'[s] = gate_turns'[Gate!P(s)]
    <3>1. s \in Gate!Placed /\ s # r /\ s \in GateRequests /\ Gate!P(s) \in Producers
      BY <1>6 DEF Gate!Placed, Gate!P, Gate!GateAssumption
    <3>2. gate_turns'[Gate!P(s)] = gate_turns[Gate!P(s)]
      BY <1>12, <1>13, <3>1
    <3> QED BY <1>1, <1>14, <3>1, <3>2 DEF Gate!TurnsShared
  <2>2. ASSUME NEW p \in Producers, gate_turns'[p] # None PROVE Gate!P(gate_turns'[p]) = p /\ gate_pc'[gate_turns'[p]] # "new"
    <3>1. gate_turns'[p] = gate_turns[p] /\ gate_turns[p] \in GateRequests
      BY <1>1, <1>12, <2>2 DEF Gate!TypeOK
    <3> QED BY <1>1, <1>4, <1>5, <2>2, <3>1 DEF Gate!TurnsShared
  <2>3. ASSUME NEW s \in GateRequests, s \notin Gate!Placed' PROVE gate_lock'[s] = None
    BY <1>1, <1>6, <1>14, <2>3 DEF Gate!TurnsShared
  <2> QED BY <2>1, <2>2, <2>3 DEF Gate!TurnsShared, Gate!P
<1>16. \A k \in GateRequests : gate_holder'[k] = gate_holder[k] \/ (k = gate_lock[r] /\ gate_holder[k] = r /\ gate_holder'[k] = None)
  BY <1>1, <1>2, <1>3 DEF Gate!TypeOK
<1>17. Gate!TurnsHeld'
  <2>1. ASSUME NEW s \in GateRequests, gate_pc'[s] \in Gate!HasTurn PROVE gate_holder'[gate_lock'[s]] = s
    <3>1. s # r /\ gate_pc[s] \in Gate!HasTurn
      BY <1>4, <1>5, <2>1
    <3>2. gate_lock'[s] = gate_lock[s] /\ gate_holder[gate_lock[s]] = s /\ gate_lock[s] \in GateRequests
      BY <1>1, <1>14, <3>1 DEF Gate!TurnsHeld, Gate!TurnsShared, Gate!TypeOK, Gate!Placed, Gate!HasTurn
    <3> QED BY <1>16, <3>1, <3>2
  <2>2. ASSUME NEW k \in GateRequests, gate_holder'[k] # None PROVE gate_pc'[gate_holder'[k]] \in Gate!HasTurn /\ gate_lock'[gate_holder'[k]] = k
    <3>1. gate_holder'[k] = gate_holder[k]
      BY <1>16, <2>2
    <3>2. gate_holder[k] \in GateRequests /\ gate_pc[gate_holder[k]] \in Gate!HasTurn /\ gate_lock[gate_holder[k]] = k
      BY <1>1, <2>2, <3>1 DEF Gate!TurnsHeld, Gate!TypeOK
    <3>3. gate_holder[k] # r
      <4> SUFFICES ASSUME gate_holder[k] = r PROVE FALSE
        OBVIOUS
      <4>1. k = gate_lock[r]
        BY <3>2
      <4>2. gate_holder'[k] = None
        BY <1>1, <1>2, <1>3, <4>1 DEF Gate!TypeOK
      <4> QED BY <2>2, <4>2
    <3> QED BY <1>5, <1>14, <3>1, <3>2, <3>3
  <2> QED BY <1>1, <2>1, <2>2 DEF Gate!TurnsHeld
<1>18. Gate!TypeOK'
  <2>1. gate_pc' \in [GateRequests -> {"new", "busy", "gone", "done"} \cup Gate!HasPlace]
    BY <1>1 DEF Gate!TypeOK, Gate!Goto
  <2>2. gate_byProducer' \in [Producers -> Nat]
    BY <1>1, <1>3, <1>10 DEF Gate!TypeOK
  <2>3. gate_turns' \in [Producers -> GateRequests \cup {None}]
    BY <1>1, <1>3 DEF Gate!TypeOK, Gate!DropTurns
  <2>4. gate_lock' \in [GateRequests -> GateRequests \cup {None}] /\ gate_holder' \in [GateRequests -> GateRequests \cup {None}]
    BY <1>1, <1>3 DEF Gate!TypeOK
  <2> QED BY <1>7, <1>8, <2>1, <2>2, <2>3, <2>4 DEF Gate!TypeOK
<1> QED BY <1>7, <1>8, <1>11, <1>15, <1>17, <1>18 DEF Gate!GateInv

LEMMA CancelSafe ==
  ASSUME Gate!GateAssumption, Gate!GateInv, NEW r \in GateRequests, Gate!Cancel(r)
  PROVE  Gate!GateInv'
<1>1. gate_cancels' \in 0 .. MaxCancels
  BY DEF Gate!Cancel, Gate!GateInv, Gate!TypeOK, Gate!GateAssumption
<1>2. CASE gate_pc[r] = "running"
  <2>1. Gate!Goto(r, "detached") /\ UNCHANGED <<gate_admitted, gate_byProducer, gate_turns, gate_lock, gate_holder, gate_slots>>
    BY <1>2 DEF Gate!Cancel, Gate!Cancelled
  <2> QED BY <1>1, <1>2, <2>1, ThreadSafe
<1>3. CASE gate_pc[r] # "running"
  <2>1. Gate!Release(r, gate_pc[r] = "check") /\ Gate!Goto(r, "gone") /\ gate_pc[r] \in {"turn", "slot", "check"}
    BY <1>3 DEF Gate!Cancel, Gate!Cancelled
  <2>2. gate_pc[r] \in Gate!HasPlace /\ ((gate_pc[r] = "check") <=> gate_pc[r] \in Gate!HasSlot)
    BY <2>1 DEF Gate!HasPlace, Gate!HasTurn, Gate!HasSlot
  <2> QED BY <1>1, <2>1, <2>2, ReleaseSafe
<1> QED BY <1>2, <1>3

LEMMA DoneSafe ==
  ASSUME Gate!GateAssumption, Gate!GateInv, NEW r \in GateRequests, Gate!Disconnected(r) \/ Gate!ThreadDone(r)
  PROVE  Gate!GateInv'
<1>1. gate_cancels' \in 0 .. MaxCancels
  BY DEF Gate!Disconnected, Gate!ThreadDone, Gate!GateInv, Gate!TypeOK
<1>2. PICK place \in {"gone", "done"} : Gate!Goto(r, place)
  BY DEF Gate!Disconnected, Gate!ThreadDone
<1>3. Gate!Release(r, TRUE) /\ gate_pc[r] \in {"check", "running", "detached"}
  BY DEF Gate!Disconnected, Gate!ThreadDone
<1>4. gate_pc[r] \in Gate!HasPlace /\ (TRUE <=> gate_pc[r] \in Gate!HasSlot)
  BY <1>3 DEF Gate!HasPlace, Gate!HasTurn, Gate!HasSlot
<1> QED BY <1>1, <1>2, <1>3, <1>4, ReleaseSafe

LEMMA GateStep ==
  ASSUME Gate!GateAssumption, Gate!GateInv, [Gate!Next]_(Gate!vars)
  PROVE  Gate!GateInv'
<1>1. CASE UNCHANGED Gate!vars
  <2>1. Gate!Placed' = Gate!Placed /\ Gate!Threads' = Gate!Threads
    BY <1>1 DEF Gate!vars, Gate!Placed, Gate!Threads
  <2> QED BY <1>1, <2>1 DEF Gate!vars, Gate!GateInv, Gate!TypeOK, Gate!SlotsBalance, Gate!PlacesBalance, Gate!P, Gate!TurnsShared, Gate!TurnsHeld
<1>2. ASSUME NEW r \in GateRequests, Gate!StartThread(r) PROVE Gate!GateInv'
  <2>1. gate_cancels' \in 0 .. MaxCancels
    BY <1>2 DEF Gate!StartThread, Gate!GateInv, Gate!TypeOK
  <2> QED BY <1>2, <2>1, ThreadSafe DEF Gate!StartThread
<1> QED BY <1>1, <1>2, GateRefuseSafe, AdmitSafe, TakeTurnSafe, TakeSlotSafe, DoneSafe, CancelSafe DEF Gate!Next

LEMMA GateStarts ==
  ASSUME Gate!GateAssumption, Gate!Init
  PROVE  Gate!GateInv
<1>1. Gate!Placed = {} /\ Gate!Threads = {} /\ \A p : Gate!Of(p) = {}
  BY DEF Gate!Init, Gate!Placed, Gate!Threads, Gate!HasSlot, Gate!Of
<1>2. IsFiniteSet({}) /\ Cardinality({}) = 0
  BY FS_EmptySet
<1>3. Gate!TypeOK
  BY DEF Gate!Init, Gate!TypeOK, Gate!GateAssumption, Gate!GateIsUsable, Gate!HasPlace, Gate!HasTurn
<1>4. Gate!SlotsBalance /\ Gate!PlacesBalance
  BY <1>1, <1>2 DEF Gate!Init, Gate!SlotsBalance, Gate!PlacesBalance, Gate!Of, Gate!GateAssumption, Gate!GateIsUsable
<1>5. Gate!TurnsShared /\ Gate!TurnsHeld
  BY <1>1 DEF Gate!Init, Gate!TurnsShared, Gate!TurnsHeld, Gate!HasTurn
<1> QED BY <1>1, <1>2, <1>3, <1>4, <1>5 DEF Gate!GateInv

LEMMA GateHolds == ASSUME Gate!GateAssumption PROVE Gate!Spec => []Gate!GateInv
<1>1. Gate!Init => Gate!GateInv
  BY GateStarts
<1>2. Gate!GateInv /\ [Gate!Next]_(Gate!vars) => Gate!GateInv'
  BY GateStep
<1> QED BY <1>1, <1>2, PTL DEF Gate!Spec

\* Places, turns, locks and slots keep their types, and no slot is taken twice:
\* the semaphore never goes below zero, whoever is cancelled at whatever await.
THEOREM GateTyped == ASSUME Gate!GateAssumption PROVE Gate!Spec => []Gate!TypeOK
<1>1. Gate!GateInv => Gate!TypeOK
  BY DEF Gate!GateInv
<1> QED BY <1>1, GateHolds, PTL

\* No more than `workers` decodes run, those of cancelled requests included:
\* _release hands the slot to the thread's completion callback.
THEOREM ThreadsAreBounded == ASSUME Gate!GateAssumption PROVE Gate!Spec => []Gate!ThreadsBounded
<1>1. Gate!GateInv => Gate!ThreadsBounded
  <2> SUFFICES ASSUME Gate!GateInv PROVE Gate!ThreadsBounded
    OBVIOUS
  <2>1. IsFiniteSet(Gate!Threads) /\ gate_slots + Cardinality(Gate!Threads) = Workers /\ gate_slots \in Nat /\ Workers \in Nat
    BY DEF Gate!GateInv, Gate!SlotsBalance, Gate!TypeOK, Gate!GateAssumption, Gate!GateIsUsable
  <2>2. Gate!Decoding \subseteq Gate!Threads
    BY DEF Gate!Decoding, Gate!Threads, Gate!HasSlot
  <2>3. Cardinality(Gate!Decoding) <= Cardinality(Gate!Threads) /\ Cardinality(Gate!Threads) \in Nat /\ Cardinality(Gate!Decoding) \in Nat
    BY <2>1, <2>2, FS_Subset, FS_CardinalityType
  <2> QED BY <2>1, <2>3 DEF Gate!ThreadsBounded
<1> QED BY <1>1, GateHolds, PTL

\* One decode per producer, although its turn lock is dropped with its last
\* place and made anew: the lock outlives every request that waits for it.
THEOREM ProducersTakeTurns == ASSUME Gate!GateAssumption PROVE Gate!Spec => []Gate!OneDecodePerProducer
<1>1. Gate!GateInv => Gate!OneDecodePerProducer
  <2> SUFFICES ASSUME Gate!GateInv, NEW r \in Gate!Decoding, NEW s \in Gate!Decoding, Gate!P(r) = Gate!P(s)
               PROVE  r = s
    BY DEF Gate!OneDecodePerProducer
  <2>1. r \in Gate!Placed /\ s \in Gate!Placed /\ gate_pc[r] \in Gate!HasTurn /\ gate_pc[s] \in Gate!HasTurn /\ r \in GateRequests /\ s \in GateRequests
    BY DEF Gate!Decoding, Gate!Placed, Gate!HasTurn
  <2>2. gate_lock[r] = gate_lock[s]
    BY <2>1 DEF Gate!GateInv, Gate!TurnsShared
  <2> QED BY <2>1, <2>2 DEF Gate!GateInv, Gate!TurnsHeld
<1> QED BY <1>1, GateHolds, PTL

\* _admitted and _by_producer are the numbers of requests that hold a place, so
\* no cancellation leaks a place or returns one twice.
THEOREM NoPlaceLeaks == ASSUME Gate!GateAssumption PROVE Gate!Spec => []Gate!PlacesBalance
<1>1. Gate!GateInv => Gate!PlacesBalance
  BY DEF Gate!GateInv
<1> QED BY <1>1, GateHolds, PTL

HIDE GateSets

-----------------------------------------------------------------------------
\* Credentials: rows, their locks, output files and delivered tokens.
Creds == INSTANCE Provisioning WITH
  now <- token_now, row <- token_row, lock <- token_lock, pc <- token_pc,
  moment <- token_moment, file <- token_file, printed <- token_printed, handed <- token_handed,
  committed <- token_committed, faults <- token_faults, swaps <- token_swaps,
  Keys <- TokenKeys, MaxTime <- TokenTime, MaxFaults <- TokenFaults

\* Finite sets are the same in the instance.
LEMMA CredsSets == \A S : (Creds!IsFiniteSet(S) <=> IsFiniteSet(S)) /\ Creds!Cardinality(S) = Cardinality(S)
<1>1. \A S : Creds!IsFiniteSet(S) <=> IsFiniteSet(S)
  BY DEF Creds!IsFiniteSet, IsFiniteSet
<1>2. \A S : Creds!Cardinality(S) = Cardinality(S)
  BY DEF Creds!Cardinality, Cardinality
<1> QED BY <1>1, <1>2

USE CredsSets

(* The proofs: a command changes only its own file, the row it has locked   *)
(* and its own place (OwnStep), so an invariant about each command by       *)
(* itself carries every property above but the last.                        *)
Places == {"new", "opened", "granted", "hashed", "add", "deliver", "commit", "closing"} \cup Creds!Ended

CredsTypeOK ==
       /\ token_now \in Nat /\ token_faults \in Nat /\ token_swaps \in Nat
       /\ token_row \in [TokenKeys -> Creds!Row \cup {None}] /\ token_lock \in [TokenKeys -> Commands \cup {None}]
       /\ token_pc \in [Commands -> Places]
       /\ token_moment \in [Commands -> Nat] /\ \A c \in Commands : token_moment[c] <= token_now
       /\ token_file \in [Paths -> Creds!File \cup {None}]
       /\ token_printed \cup token_handed \cup token_committed \subseteq Commands

\* The row of c is its own from the lock to the commit, and whatever it will
\* displace has expired unless c rotates.
Locking(c) == token_pc[c] \in {"deliver", "commit"}
MayDisplace(c) ==
  token_row[Creds!K(c)] # None => \/ Kind[c] = "rotate"
                                  \/ token_row[Creds!K(c)].revoked = Never /\ token_row[Creds!K(c)].expires <= token_moment[c]

\* What one command has done by the place it is at.
CommandOK(c) ==
  /\ Locking(c) <=> token_lock[Creds!K(c)] = c
  /\ Locking(c) => MayDisplace(c)
  /\ token_pc[c] \in {"opened", "add", "deliver", "commit", "closing"} => Creds!Issues(c)
  /\ token_pc[c] \in {"commit", "closing"} => c \in token_handed
  /\ token_pc[c] = "closing" \/ (token_pc[c] = "ok" /\ Creds!Issues(c)) => c \in token_committed
  /\ token_pc[c] \in {"new"} \cup (Creds!Ended \ {"ok", "killed"}) \/ ~Creds!Issues(c) => ~Creds!Ours(c)
  /\ token_pc[c] \in {"commit", "closing", "ok"} /\ Creds!Ours(c) => token_file[PathOf[c]].token = c

LocksOfKeys == \A k \in TokenKeys : token_lock[k] # None => Creds!K(token_lock[k]) = k
OthersUnwritten == \A p \in Paths : token_file[p] # None /\ token_file[p].owner = "other" => token_file[p].token = None

CommandsOK ==
  /\ CredsTypeOK /\ LocksOfKeys /\ OthersUnwritten /\ Creds!NoUndelivered
  /\ \A c \in Commands : CommandOK(c)

\* What a step of c leaves alone: the other commands, the locks and rows they
\* hold, and the files that are not its own.
OwnStep(c) ==
  /\ token_now' = token_now /\ token_handed \subseteq token_handed' /\ token_committed \subseteq token_committed'
  /\ \A d \in Commands \ {c} : token_pc'[d] = token_pc[d] /\ token_moment'[d] = token_moment[d]
  /\ \A k \in TokenKeys : \/ token_lock'[k] = token_lock[k]
                          \/ token_lock[k] = c /\ token_lock'[k] = None
                          \/ token_lock[k] = None /\ token_lock'[k] = c /\ k = Creds!K(c)
  /\ \A k \in TokenKeys : token_row'[k] = token_row[k] \/ (token_lock[k] \in {None, c} /\ token_row'[k].cred \in token_handed)
  /\ \A p \in Paths : \/ token_file'[p] = token_file[p]
                      \/ /\ token_file[p] = None \/ token_file[p].owner = c
                         /\ token_file'[p] = None \/ token_file'[p].owner = c

LEMMA OwnStepSafe ==
  ASSUME Creds!CommandsAssumption, CommandsOK, NEW c \in Commands, OwnStep(c), CredsTypeOK', CommandOK(c)'
  PROVE  CommandsOK'
<1>1. CredsTypeOK /\ LocksOfKeys /\ OthersUnwritten /\ Creds!NoUndelivered /\ \A d \in Commands : CommandOK(d)
  BY DEF CommandsOK
<1>2. LocksOfKeys'
  BY <1>1 DEF OwnStep, LocksOfKeys, Creds!K
<1>3. OthersUnwritten'
  BY <1>1 DEF OwnStep, OthersUnwritten, Creds!CommandsAssumption
<1>4. Creds!NoUndelivered'
  BY <1>1 DEF OwnStep, Creds!NoUndelivered
<1>5. ASSUME NEW d \in Commands, d # c PROVE CommandOK(d)'
  <2>1. CommandOK(d) /\ token_pc'[d] = token_pc[d] /\ token_moment'[d] = token_moment[d] /\ Creds!K(d) \in TokenKeys /\ d # None
    BY <1>1, <1>5 DEF OwnStep, Creds!CommandsAssumption, Creds!K
  <2>2. (token_lock'[Creds!K(d)] = d) <=> (token_lock[Creds!K(d)] = d)
    BY <1>5, <2>1 DEF OwnStep
  <2>3. token_lock[Creds!K(d)] = d => token_row'[Creds!K(d)] = token_row[Creds!K(d)]
    BY <1>5, <2>1 DEF OwnStep
  <2>4. Locking(d)' <=> Locking(d)
    BY <2>1 DEF Locking
  <2>5. Locking(d)' => MayDisplace(d)'
    <3>1. Locking(d) => token_lock[Creds!K(d)] = d /\ MayDisplace(d)
      BY <2>1 DEF CommandOK
    <3> QED BY <2>1, <2>3, <2>4, <3>1 DEF MayDisplace, Creds!K
  <2>6. Creds!Ours(d)' => Creds!Ours(d) /\ token_file'[PathOf[d]] = token_file[PathOf[d]]
    BY <1>5 DEF OwnStep, Creds!Ours
  <2>7. Locking(d)' <=> token_lock'[Creds!K(d)] = d
    BY <2>1, <2>2, <2>4 DEF CommandOK
  <2>8. token_handed \subseteq token_handed' /\ token_committed \subseteq token_committed'
    BY DEF OwnStep
  <2>9. /\ token_pc'[d] \in {"opened", "add", "deliver", "commit", "closing"} => Creds!Issues(d)
        /\ token_pc'[d] \in {"commit", "closing"} => d \in token_handed'
        /\ token_pc'[d] = "closing" \/ (token_pc'[d] = "ok" /\ Creds!Issues(d)) => d \in token_committed'
        /\ token_pc'[d] \in {"new"} \cup (Creds!Ended \ {"ok", "killed"}) \/ ~Creds!Issues(d) => ~Creds!Ours(d)'
        /\ token_pc'[d] \in {"commit", "closing", "ok"} /\ Creds!Ours(d)' => token_file'[PathOf[d]].token = d
    BY <2>1, <2>6, <2>8 DEF CommandOK
  <2> QED BY <2>5, <2>7, <2>9 DEF CommandOK, Creds!Issues, Creds!K
<1> QED BY <1>1, <1>2, <1>3, <1>4, <1>5 DEF CommandsOK

\* A step that only moves the command on.
LEMMA MoveSafe ==
  ASSUME Creds!CommandsAssumption, CommandsOK, NEW c \in Commands, NEW place \in Places, Creds!Goto(c, place),
         UNCHANGED <<token_now, token_row, token_lock, token_file, token_printed, token_handed, token_committed, token_swaps, token_faults>>,
         token_moment' \in [Commands -> Nat], \A d \in Commands : token_moment'[d] <= token_now /\ (d # c => token_moment'[d] = token_moment[d]),
         ~Locking(c), place \notin {"deliver", "commit", "closing"},
         place \in {"opened", "add"} => Creds!Issues(c),
         place = "ok" => Creds!Issues(c) /\ token_pc[c] = "closing",
         place \in {"new"} \cup (Creds!Ended \ {"ok", "killed"}) => ~Creds!Ours(c)
  PROVE  OwnStep(c) /\ CommandsOK'
<1>1. CredsTypeOK /\ CommandOK(c) /\ Creds!NoUndelivered
  BY DEF CommandsOK
<1>2. token_pc'[c] = place /\ \A d \in Commands \ {c} : token_pc'[d] = token_pc[d]
  BY <1>1 DEF Creds!Goto, CredsTypeOK
<1>3. OwnStep(c)
  BY <1>2 DEF OwnStep
<1>4. CredsTypeOK'
  BY <1>1 DEF CredsTypeOK, Creds!Goto
<1>5. Creds!Ours(c)' <=> Creds!Ours(c)
  BY DEF Creds!Ours
<1>6. CommandOK(c)'
  BY <1>1, <1>2, <1>5 DEF CommandOK, Locking, Creds!Issues, Creds!K
<1> QED BY <1>3, <1>4, <1>6, OwnStepSafe

\* A command that fails, if need be after its commit took effect.
LEMMA FailSafe ==
  ASSUME Creds!CommandsAssumption, CommandsOK, NEW c \in Commands,
         NEW exit \in {"ungranted", "refused", "conflict", "undelivered", "ambiguous", "interrupted"},
         Creds!Fail(c, exit), UNCHANGED <<token_row, token_committed>> \/ (token_pc[c] = "commit" /\ Creds!Apply(c)), token_faults' \in Nat
  PROVE  OwnStep(c) /\ CommandsOK'
<1>1. CredsTypeOK /\ CommandOK(c) /\ Creds!NoUndelivered /\ LocksOfKeys
  BY DEF CommandsOK
<1>2. token_pc'[c] = exit /\ (\A d \in Commands \ {c} : token_pc'[d] = token_pc[d]) /\ token_pc' \in [Commands -> Places]
  BY <1>1 DEF Creds!Fail, Creds!Goto, CredsTypeOK, Places, Creds!Ended
<1>3. /\ token_lock' \in [TokenKeys -> Commands \cup {None}] /\ token_lock'[Creds!K(c)] # c
      /\ \A k \in TokenKeys : token_lock'[k] = token_lock[k] \/ (token_lock[k] = c /\ token_lock'[k] = None)
  BY <1>1 DEF Creds!Fail, Creds!Unlock, CredsTypeOK, Creds!CommandsAssumption, Creds!K
<1>4. /\ token_file' \in [Paths -> Creds!File \cup {None}] /\ ~Creds!Ours(c)'
      /\ \A p \in Paths : token_file'[p] = token_file[p] \/ (token_file[p].owner = c /\ token_file'[p] = None)
  BY <1>1 DEF Creds!Fail, Creds!Abandon, Creds!Ours, CredsTypeOK
<1>5. /\ token_row' \in [TokenKeys -> Creds!Row \cup {None}] /\ token_committed \subseteq token_committed' /\ token_committed' \subseteq Commands
      /\ \A k \in TokenKeys : token_row'[k] = token_row[k] \/ (token_lock[k] = c /\ token_row'[k].cred \in token_handed)
  <2>1. CASE UNCHANGED <<token_row, token_committed>>
    BY <1>1, <2>1 DEF CredsTypeOK
  <2>2. CASE token_pc[c] = "commit" /\ Creds!Apply(c)
    <3> DEFINE new == [cred |-> c, created |-> Creds!Created(c), expires |-> token_moment[c] + Life[c], revoked |-> Never]
    <3>1. Creds!Created(c) \in Nat
      BY <1>1 DEF Creds!Created, CredsTypeOK, Creds!Row, Creds!CommandsAssumption, Creds!K
    <3>2. new \in Creds!Row /\ new.cred = c
      BY <1>1, <3>1 DEF Creds!Row, CredsTypeOK, Creds!CommandsAssumption
    <3>3. token_row' = [token_row EXCEPT ![Creds!K(c)] = new] /\ token_committed' = token_committed \cup {c}
      BY <2>2 DEF Creds!Apply
    <3>4. token_lock[Creds!K(c)] = c /\ c \in token_handed
      BY <1>1, <2>2 DEF CommandOK, Locking
    <3> HIDE DEF new
    <3> QED BY <1>1, <3>2, <3>3, <3>4 DEF CredsTypeOK
  <2> QED BY <2>1, <2>2
<1>6. UNCHANGED <<token_now, token_moment, token_printed, token_handed, token_swaps>>
  BY DEF Creds!Fail
<1>7. OwnStep(c)
  BY <1>2, <1>3, <1>4, <1>5, <1>6 DEF OwnStep
<1>8. CredsTypeOK'
  BY <1>1, <1>2, <1>3, <1>4, <1>5, <1>6 DEF CredsTypeOK
<1>9. CommandOK(c)'
  BY <1>2, <1>3, <1>4 DEF CommandOK, Locking, Creds!K
<1> QED BY <1>7, <1>8, <1>9, OwnStepSafe

LEMMA CreateFileSafe ==
  ASSUME Creds!CommandsAssumption, CommandsOK, NEW c \in Commands, Creds!CreateFile(c)
  PROVE  OwnStep(c) /\ CommandsOK'
<1>1. /\ CredsTypeOK /\ CommandOK(c) /\ Creds!NoUndelivered /\ token_pc[c] = "new" /\ Creds!Issues(c) /\ ~Creds!Ours(c) /\ ~Locking(c)
      /\ UNCHANGED <<token_now, token_row, token_lock, token_committed, token_moment, token_printed, token_handed, token_faults, token_swaps>>
  BY DEF CommandsOK, Creds!CreateFile, CommandOK, Locking, Creds!database
<1>2. "opened" \in Places /\ "usage" \in Places
  BY DEF Places, Creds!Ended
<1>3. CASE token_file' = token_file
  <2>1. PICK place \in {"opened", "usage"} : Creds!Goto(c, place)
    BY DEF Creds!CreateFile
  <2>2. place \in Places /\ \A d \in Commands : token_moment'[d] <= token_now /\ token_moment'[d] = token_moment[d]
    BY <1>1, <1>2 DEF CredsTypeOK
  <2>3. token_moment' \in [Commands -> Nat]
    BY <1>1 DEF CredsTypeOK
  <2> QED BY <1>1, <1>3, <2>1, <2>2, <2>3, MoveSafe
<1>4. CASE token_file' # token_file
  <2> DEFINE new == [owner |-> c, token |-> None]
  <2>1. /\ PathOf[c] \in Paths /\ token_file[PathOf[c]] = None /\ Creds!Goto(c, "opened")
        /\ token_file' = [token_file EXCEPT ![PathOf[c]] = new]
    BY <1>4 DEF Creds!CreateFile, Creds!CommandsAssumption
  <2>2. new \in Creds!File /\ new.owner = c
    BY DEF Creds!File
  <2> HIDE DEF new
  <2>3. token_pc'[c] = "opened" /\ (\A d \in Commands \ {c} : token_pc'[d] = token_pc[d]) /\ token_pc' \in [Commands -> Places]
    BY <1>1, <1>2, <2>1 DEF Creds!Goto, CredsTypeOK
  <2>4. token_file' \in [Paths -> Creds!File \cup {None}] /\ token_file'[PathOf[c]].owner = c /\ \A p \in Paths : p # PathOf[c] => token_file'[p] = token_file[p]
    BY <1>1, <2>1, <2>2 DEF CredsTypeOK
  <2>5. OwnStep(c)
    BY <1>1, <2>1, <2>3, <2>4 DEF OwnStep
  <2>6. CredsTypeOK'
    BY <1>1, <2>3, <2>4 DEF CredsTypeOK
  <2>7. CommandOK(c)'
    BY <1>1, <2>3 DEF CommandOK, Locking, Creds!Ended, Creds!Issues, Creds!K
  <2> QED BY <2>5, <2>6, <2>7, OwnStepSafe
<1> QED BY <1>3, <1>4

LEMMA ChecksSafe ==
  ASSUME Creds!CommandsAssumption, CommandsOK, NEW c \in Commands,
         Creds!CheckGrants(c) \/ Creds!Hash(c) \/ Creds!ReadAbsent(c) \/ Creds!AddToken(c) \/ Creds!Report(c)
  PROVE  OwnStep(c) /\ CommandsOK'
<1>1. CredsTypeOK /\ CommandOK(c)
  BY DEF CommandsOK
<1>2. CASE Creds!CheckGrants(c) /\ c \notin Granted
  BY <1>1, <1>2, FailSafe DEF Creds!CheckGrants, CredsTypeOK
<1>3. CASE ~(Creds!CheckGrants(c) /\ c \notin Granted)
  <2>1. /\ UNCHANGED <<token_now, token_row, token_lock, token_file, token_printed, token_handed, token_committed, token_swaps, token_faults>>
        /\ ~Locking(c) /\ token_moment' \in [Commands -> Nat]
        /\ \A d \in Commands : token_moment'[d] <= token_now /\ (d # c => token_moment'[d] = token_moment[d])
    BY <1>1, <1>3 DEF Creds!CheckGrants, Creds!Hash, Creds!ReadAbsent, Creds!AddToken, Creds!Report, CredsTypeOK, Locking, Creds!database, Creds!outside, Creds!Issues
  <2>2. PICK place \in {"granted", "hashed", "add", "ok"} :
          /\ Creds!Goto(c, place)
          /\ place = "add" => Kind[c] \in {"register", "rotate", "create"}
          /\ place = "ok" => token_pc[c] = "closing"
    BY <1>3 DEF Creds!CheckGrants, Creds!Hash, Creds!ReadAbsent, Creds!AddToken, Creds!Report
  <2>3. place \in Places /\ place \notin {"deliver", "commit", "closing", "opened", "new"} \cup (Creds!Ended \ {"ok", "killed"})
    BY DEF Places, Creds!Ended
  <2>4. (place = "add" => Creds!Issues(c)) /\ (place = "ok" => Creds!Issues(c) /\ token_pc[c] = "closing")
    BY <1>1, <2>2 DEF Creds!Issues, CommandOK
  <2> QED BY <2>1, <2>2, <2>3, <2>4, MoveSafe
<1> QED BY <1>2, <1>3

\* The row is locked: nobody else's step changes it until the commit.
LEMMA LockSafe ==
  ASSUME Creds!CommandsAssumption, CommandsOK, NEW c \in Commands, Creds!Issues(c), token_pc[c] \in {"hashed", "add"},
         token_lock[Creds!K(c)] = None, token_lock' = [token_lock EXCEPT ![Creds!K(c)] = c], Creds!Goto(c, "deliver"), MayDisplace(c),
         UNCHANGED <<token_now, token_row, token_committed, token_moment, token_file, token_printed, token_handed, token_faults, token_swaps>>
  PROVE  OwnStep(c) /\ CommandsOK'
<1>1. CredsTypeOK /\ CommandOK(c) /\ Creds!K(c) \in TokenKeys
  BY DEF CommandsOK, Creds!CommandsAssumption, Creds!K
<1>2. token_pc'[c] = "deliver" /\ (\A d \in Commands \ {c} : token_pc'[d] = token_pc[d]) /\ token_pc' \in [Commands -> Places]
  BY <1>1 DEF Creds!Goto, CredsTypeOK, Places
<1>3. OwnStep(c)
  BY <1>1, <1>2 DEF OwnStep, CredsTypeOK
<1>4. CredsTypeOK'
  BY <1>1, <1>2 DEF CredsTypeOK
<1>5. CommandOK(c)'
  <2>1. token_lock'[Creds!K(c)] = c /\ MayDisplace(c)'
    BY <1>1 DEF CredsTypeOK, MayDisplace, Creds!K
  <2> QED BY <1>2, <2>1 DEF CommandOK, Locking, Creds!Ended, Creds!Issues, Creds!K
<1> QED BY <1>3, <1>4, <1>5, OwnStepSafe

LEMMA TakeRowSafe ==
  ASSUME Creds!CommandsAssumption, CommandsOK, NEW c \in Commands, Creds!ReadRow(c) \/ Creds!FlushInsert(c)
  PROVE  OwnStep(c) /\ CommandsOK'
<1>1. CredsTypeOK /\ CommandOK(c) /\ UNCHANGED <<token_row, token_committed, token_faults>> /\ token_lock[Creds!K(c)] = None /\ token_pc[c] \in {"hashed", "add"}
  BY DEF CommandsOK, Creds!ReadRow, Creds!FlushInsert, Creds!Lockable
<1>2. Creds!Issues(c)
  BY <1>1 DEF Creds!ReadRow, Creds!FlushInsert, CommandOK, Creds!Issues
<1>3. CASE Creds!Fail(c, "refused") \/ Creds!Fail(c, "conflict")
  BY <1>1, <1>3, FailSafe DEF CredsTypeOK
<1>4. CASE ~(Creds!Fail(c, "refused") \/ Creds!Fail(c, "conflict"))
  <2>1. /\ token_lock' = [token_lock EXCEPT ![Creds!K(c)] = c] /\ Creds!Goto(c, "deliver") /\ MayDisplace(c)
        /\ UNCHANGED <<token_now, token_moment, token_file, token_printed, token_handed, token_swaps>>
    BY <1>4 DEF Creds!ReadRow, Creds!FlushInsert, Creds!outside, MayDisplace, Creds!Displaceable
  <2> QED BY <1>1, <1>2, <2>1, LockSafe
<1> QED BY <1>3, <1>4

LEMMA DeliverSafe ==
  ASSUME Creds!CommandsAssumption, CommandsOK, NEW c \in Commands, Creds!Deliver(c)
  PROVE  OwnStep(c) /\ CommandsOK'
<1>1. /\ CredsTypeOK /\ CommandOK(c) /\ token_pc[c] = "deliver" /\ token_lock[Creds!K(c)] = c /\ MayDisplace(c) /\ Creds!Issues(c) /\ c # None
      /\ UNCHANGED <<token_now, token_row, token_lock, token_committed, token_moment, token_faults, token_swaps>>
      /\ token_handed' = token_handed \cup {c} /\ token_printed' \in {token_printed, token_printed \cup {c}}
  BY DEF CommandsOK, CommandOK, Locking, Creds!Deliver, Creds!database, Creds!CommandsAssumption
<1>2. token_pc'[c] = "commit" /\ (\A d \in Commands \ {c} : token_pc'[d] = token_pc[d]) /\ token_pc' \in [Commands -> Places]
  BY <1>1 DEF Creds!Deliver, Creds!Goto, CredsTypeOK, Places
<1>3. /\ token_file' \in [Paths -> Creds!File \cup {None}]
      /\ Creds!Ours(c)' => token_file'[PathOf[c]].token = c
      /\ \A p \in Paths : token_file'[p] = token_file[p] \/ (token_file[p].owner = c /\ token_file'[p].owner = c)
  <2>1. CASE PathOf[c] = Stdout \/ ~Creds!Ours(c)
    <3>1. token_file' = token_file /\ ~Creds!Ours(c)'
      BY <2>1 DEF Creds!Deliver, Creds!Ours, Creds!CommandsAssumption
    <3> QED BY <1>1, <3>1 DEF CredsTypeOK
  <2>2. CASE PathOf[c] # Stdout /\ Creds!Ours(c)
    <3>1. PathOf[c] \in Paths /\ token_file[PathOf[c]] \in Creds!File /\ token_file[PathOf[c]].owner = c
      BY <1>1, <2>2 DEF Creds!Ours, CredsTypeOK
    <3>2. token_file' = [token_file EXCEPT ![PathOf[c]] = [token_file[PathOf[c]] EXCEPT !.token = c]]
      BY <2>2 DEF Creds!Deliver
    <3> DEFINE new == [token_file[PathOf[c]] EXCEPT !.token = c]
    <3>3. new \in Creds!File /\ new.owner = c /\ new.token = c
      BY <3>1 DEF Creds!File
    <3>4. token_file' = [token_file EXCEPT ![PathOf[c]] = new]
      BY <3>2
    <3> HIDE DEF new
    <3> QED BY <1>1, <3>1, <3>3, <3>4 DEF CredsTypeOK
  <2> QED BY <2>1, <2>2
<1>4. OwnStep(c)
  BY <1>1, <1>2, <1>3 DEF OwnStep
<1>5. CredsTypeOK'
  BY <1>1, <1>2, <1>3 DEF CredsTypeOK
<1>6. CommandOK(c)'
  <2>1. MayDisplace(c)'
    BY <1>1 DEF MayDisplace, Creds!K
  <2>2. Creds!Issues(c)' /\ Locking(c)' /\ token_lock'[Creds!K(c)] = c /\ c \in token_handed'
    BY <1>1, <1>2 DEF Creds!Issues, Locking
  <2> QED BY <1>2, <1>3, <2>1, <2>2 DEF CommandOK, Creds!Ended, Creds!K
<1> QED BY <1>4, <1>5, <1>6, OwnStepSafe

LEMMA CredsCommitSafe ==
  ASSUME Creds!CommandsAssumption, CommandsOK, NEW c \in Commands, Creds!Commit(c)
  PROVE  OwnStep(c) /\ CommandsOK'
<1> DEFINE new == [cred |-> c, created |-> Creds!Created(c), expires |-> token_moment[c] + Life[c], revoked |-> Never]
<1>1. /\ CredsTypeOK /\ CommandOK(c) /\ token_pc[c] = "commit" /\ token_lock[Creds!K(c)] = c /\ c \in token_handed /\ Creds!Issues(c) /\ Creds!K(c) \in TokenKeys
      /\ UNCHANGED <<token_now, token_moment, token_file, token_printed, token_handed, token_faults, token_swaps>>
      /\ token_row' = [token_row EXCEPT ![Creds!K(c)] = new] /\ token_committed' = token_committed \cup {c} /\ LocksOfKeys
  BY DEF CommandsOK, CommandOK, Locking, Creds!Commit, Creds!Apply, Creds!outside, Creds!CommandsAssumption, Creds!K
<1>2. Creds!Created(c) \in Nat
  BY <1>1 DEF Creds!Created, CredsTypeOK, Creds!Row
<1>3. new \in Creds!Row /\ new.cred = c
  BY <1>1, <1>2 DEF Creds!Row, CredsTypeOK, Creds!CommandsAssumption
<1> HIDE DEF new
<1>4. token_pc'[c] = "closing" /\ (\A d \in Commands \ {c} : token_pc'[d] = token_pc[d]) /\ token_pc' \in [Commands -> Places]
  BY <1>1 DEF Creds!Commit, Creds!Goto, CredsTypeOK, Places
<1>5. /\ token_lock' \in [TokenKeys -> Commands \cup {None}] /\ token_lock'[Creds!K(c)] # c
      /\ \A k \in TokenKeys : token_lock'[k] = token_lock[k] \/ (token_lock[k] = c /\ token_lock'[k] = None)
  BY <1>1 DEF Creds!Commit, Creds!Unlock, CredsTypeOK, Creds!CommandsAssumption
<1>6. token_row' \in [TokenKeys -> Creds!Row \cup {None}] /\ \A k \in TokenKeys : token_row'[k] = token_row[k] \/ (token_lock[k] = c /\ token_row'[k].cred \in token_handed)
  BY <1>1, <1>3 DEF CredsTypeOK
<1>7. OwnStep(c)
  BY <1>1, <1>4, <1>5, <1>6 DEF OwnStep
<1>8. CredsTypeOK'
  BY <1>1, <1>4, <1>5, <1>6 DEF CredsTypeOK
<1>9. CommandOK(c)'
  BY <1>1, <1>4, <1>5 DEF CommandOK, Locking, Creds!Ended, Creds!Issues, Creds!K, Creds!Ours
<1> QED BY <1>7, <1>8, <1>9, OwnStepSafe

LEMMA RevokeSafe ==
  ASSUME Creds!CommandsAssumption, CommandsOK, NEW c \in Commands, Creds!RevokeCommand(c)
  PROVE  OwnStep(c) /\ CommandsOK'
<1>1. /\ CredsTypeOK /\ CommandOK(c) /\ Creds!NoUndelivered /\ token_pc[c] = "hashed" /\ ~Creds!Issues(c) /\ token_lock[Creds!K(c)] = None /\ Creds!K(c) \in TokenKeys
      /\ UNCHANGED <<token_now, token_lock, token_committed, token_moment, token_file, token_printed, token_handed, token_faults, token_swaps>> /\ Creds!Revocation(c)
  BY DEF CommandsOK, Creds!RevokeCommand, Creds!RevokeProducer, Creds!RevokeMcpToken, Creds!Revocation, Creds!Issues, Creds!outside, Creds!CommandsAssumption, Creds!K
<1>2. ~Creds!Ours(c) /\ ~Locking(c)
  BY <1>1 DEF CommandOK, Locking
<1>3. PICK place \in {"refused", "unchanged", "ok"} : Creds!Goto(c, place) /\ (place = "ok" \/ token_row' = token_row)
  BY <1>1 DEF Creds!Revocation
<1>4. token_pc'[c] = place /\ (\A d \in Commands \ {c} : token_pc'[d] = token_pc[d]) /\ token_pc' \in [Commands -> Places]
  BY <1>1, <1>3 DEF Creds!Goto, CredsTypeOK, Places, Creds!Ended
<1>5. /\ token_row' \in [TokenKeys -> Creds!Row \cup {None}]
      /\ \A k \in TokenKeys : token_row'[k] = token_row[k] \/ (k = Creds!K(c) /\ token_row'[k].cred \in token_handed)
  <2>1. CASE token_row' = token_row
    BY <1>1, <2>1 DEF CredsTypeOK
  <2>2. CASE token_row' # token_row
    <3> DEFINE at == Creds!Later(token_moment[c], token_row[Creds!K(c)].created)
               new == [token_row[Creds!K(c)] EXCEPT !.revoked = at]
    <3>1. token_row[Creds!K(c)] # None /\ token_row' = [token_row EXCEPT ![Creds!K(c)] = new]
      BY <1>1, <2>2 DEF Creds!Revocation
    <3>2. token_row[Creds!K(c)] \in Creds!Row /\ at \in Nat /\ token_row[Creds!K(c)].cred \in token_handed
      BY <1>1, <3>1 DEF CredsTypeOK, Creds!Later, Creds!Row, Creds!NoUndelivered
    <3> HIDE DEF at
    <3>3. new \in Creds!Row /\ new.cred = token_row[Creds!K(c)].cred
      BY <3>2 DEF Creds!Row
    <3> HIDE DEF new
    <3> QED BY <1>1, <3>1, <3>2, <3>3 DEF CredsTypeOK
  <2> QED BY <2>1, <2>2
<1>6. OwnStep(c)
  BY <1>1, <1>4, <1>5 DEF OwnStep
<1>7. CredsTypeOK'
  BY <1>1, <1>4, <1>5 DEF CredsTypeOK
<1>8. CommandOK(c)'
  <2>1. ~Creds!Issues(c)' /\ ~Creds!Ours(c)' /\ ~Locking(c)' /\ token_lock'[Creds!K(c)] # c
    BY <1>1, <1>2, <1>4 DEF Creds!Issues, Creds!Ours, Locking, Creds!CommandsAssumption
  <2> QED BY <1>4, <2>1 DEF CommandOK, Creds!K
<1> QED BY <1>6, <1>7, <1>8, OwnStepSafe

LEMMA KillSafe ==
  ASSUME Creds!CommandsAssumption, CommandsOK, NEW c \in Commands, Creds!Kill(c)
  PROVE  OwnStep(c) /\ CommandsOK'
<1>1. /\ CredsTypeOK /\ CommandOK(c) /\ Creds!Goto(c, "killed") /\ Creds!Unlock(c) /\ token_faults' \in Nat /\ token_pc[c] \notin Creds!Ended \cup {"new"}
      /\ UNCHANGED <<token_now, token_row, token_committed, token_moment, token_file, token_printed, token_handed, token_swaps>>
  BY DEF CommandsOK, Creds!Kill, Creds!outside, CredsTypeOK
<1>2. token_pc'[c] = "killed" /\ (\A d \in Commands \ {c} : token_pc'[d] = token_pc[d]) /\ token_pc' \in [Commands -> Places]
  BY <1>1 DEF Creds!Goto, CredsTypeOK, Places, Creds!Ended
<1>3. /\ token_lock' \in [TokenKeys -> Commands \cup {None}] /\ token_lock'[Creds!K(c)] # c
      /\ \A k \in TokenKeys : token_lock'[k] = token_lock[k] \/ (token_lock[k] = c /\ token_lock'[k] = None)
  BY <1>1 DEF Creds!Unlock, CredsTypeOK, Creds!CommandsAssumption, Creds!K
<1>4. OwnStep(c)
  BY <1>1, <1>2, <1>3 DEF OwnStep
<1>5. CredsTypeOK'
  BY <1>1, <1>2, <1>3 DEF CredsTypeOK
<1>6. CommandOK(c)'
  <2>1. Creds!Ours(c)' = Creds!Ours(c) /\ Creds!Issues(c)' = Creds!Issues(c)
    BY <1>1 DEF Creds!Ours, Creds!Issues
  <2> QED BY <1>1, <1>2, <1>3, <2>1 DEF CommandOK, Locking, Creds!K
<1> QED BY <1>4, <1>5, <1>6, OwnStepSafe

LEMMA CommandSafe ==
  ASSUME Creds!CommandsAssumption, CommandsOK, NEW c \in Commands, Creds!IssueCommand(c) \/ Creds!RevokeCommand(c) \/ Creds!Kill(c)
  PROVE  OwnStep(c) /\ CommandsOK'
<1>1. CredsTypeOK /\ token_faults + 1 \in Nat
  BY DEF CommandsOK, CredsTypeOK
<1>2. CASE Creds!DeliveryFails(c) \/ Creds!CommitFails(c) \/ Creds!Interrupt(c)
  BY <1>1, <1>2, FailSafe DEF Creds!DeliveryFails, Creds!CommitFails, Creds!Interrupt
<1> QED
  BY <1>2, CreateFileSafe, ChecksSafe, TakeRowSafe, DeliverSafe, CredsCommitSafe, RevokeSafe, KillSafe DEF Creds!IssueCommand

LEMMA WorldSafe ==
  ASSUME Creds!CommandsAssumption, CommandsOK, Creds!Tick \/ (\E p \in Paths : Creds!Swap(p))
  PROVE  CommandsOK'
<1>1. /\ CredsTypeOK /\ LocksOfKeys /\ OthersUnwritten /\ Creds!NoUndelivered /\ \A c \in Commands : CommandOK(c)
      /\ UNCHANGED <<token_row, token_lock, token_committed, token_pc, token_moment, token_printed, token_handed, token_faults>>
  BY DEF CommandsOK, Creds!Tick, Creds!Swap, Creds!database, Creds!outside
<1>2. token_now' \in Nat /\ token_now' >= token_now /\ token_swaps' \in Nat
  BY <1>1 DEF CredsTypeOK, Creds!Tick, Creds!Swap
<1>3. /\ token_file' \in [Paths -> Creds!File \cup {None}]
      /\ \A p \in Paths : token_file'[p] = token_file[p] \/ (token_file'[p].owner = "other" /\ token_file'[p].token = None)
  <2> DEFINE other == [owner |-> "other", token |-> None]
  <2>1. other \in Creds!File /\ other.owner = "other" /\ other.token = None
    BY DEF Creds!File
  <2>2. token_file' = token_file \/ \E p \in Paths : token_file' = [token_file EXCEPT ![p] = other]
    BY DEF Creds!Tick, Creds!Swap, Creds!outside
  <2> HIDE DEF other
  <2> QED BY <1>1, <2>1, <2>2 DEF CredsTypeOK
<1>4. CredsTypeOK'
  BY <1>1, <1>2, <1>3 DEF CredsTypeOK
<1>5. OthersUnwritten' /\ LocksOfKeys' /\ Creds!NoUndelivered'
  BY <1>1, <1>3 DEF OthersUnwritten, LocksOfKeys, Creds!NoUndelivered, Creds!K
<1>6. ASSUME NEW c \in Commands PROVE CommandOK(c)'
  <2>1. Creds!Ours(c)' => Creds!Ours(c) /\ token_file'[PathOf[c]] = token_file[PathOf[c]]
    BY <1>3 DEF Creds!Ours, Creds!CommandsAssumption
  <2>2. MayDisplace(c)' = MayDisplace(c) /\ Creds!Issues(c)' = Creds!Issues(c) /\ CommandOK(c)
    BY <1>1 DEF MayDisplace, Creds!Issues, Creds!K
  <2> QED BY <1>1, <2>1, <2>2 DEF CommandOK, Locking, Creds!K
<1> QED BY <1>4, <1>5, <1>6 DEF CommandsOK

LEMMA CommandsHold == ASSUME Creds!CommandsAssumption PROVE Creds!Spec => []CommandsOK
<1>1. Creds!Init => CommandsOK
  <2> SUFFICES ASSUME Creds!Init PROVE CommandsOK
    OBVIOUS
  <2>1. CredsTypeOK
    BY DEF Creds!Init, CredsTypeOK, Places
  <2>2. LocksOfKeys /\ OthersUnwritten /\ Creds!NoUndelivered
    BY DEF Creds!Init, LocksOfKeys, OthersUnwritten, Creds!NoUndelivered
  <2>3. \A c \in Commands : CommandOK(c)
    BY DEF Creds!Init, CommandOK, Locking, Creds!Ours, Creds!Ended, Creds!CommandsAssumption, Creds!K
  <2> QED BY <2>1, <2>2, <2>3 DEF CommandsOK
<1>2. CommandsOK /\ [Creds!Next]_(Creds!vars) => CommandsOK'
  <2>1. ASSUME CommandsOK, UNCHANGED Creds!vars PROVE CommandsOK'
    BY <2>1 DEF Creds!vars, Creds!database, Creds!outside, CommandsOK, CredsTypeOK, LocksOfKeys, OthersUnwritten, Creds!NoUndelivered,
                CommandOK, Locking, MayDisplace, Creds!Ours, Creds!Issues, Creds!K
  <2> QED BY <2>1, CommandSafe, WorldSafe DEF Creds!Next
<1> QED BY <1>1, <1>2, PTL DEF Creds!Spec

\* Rows, locks, files and what was handed over keep their types, and a row is
\* locked by a command that issues for it.
THEOREM ProvisioningTyped == ASSUME Creds!CommandsAssumption PROVE Creds!Spec => []CredsTypeOK
<1>1. CommandsOK => CredsTypeOK
  BY DEF CommandsOK
<1> QED BY <1>1, CommandsHold, PTL

\* No row holds a credential nobody was given: _issue hands it over before the
\* commit, so a rotation that fails leaves the old credential in its row.
THEOREM RowsAreDelivered == ASSUME Creds!CommandsAssumption PROVE Creds!Spec => []Creds!NoUndelivered
<1>1. CommandsOK => Creds!NoUndelivered
  BY DEF CommandsOK
<1> QED BY <1>1, CommandsHold, PTL

\* "Created" is reported of committed credentials only, and the file of the
\* command, unless somebody replaced it, then holds the token.
THEOREM ReportsAreTrue == ASSUME Creds!CommandsAssumption PROVE Creds!Spec => []Creds!SuccessIsTrue
<1>1. CommandsOK => Creds!SuccessIsTrue
  BY DEF CommandsOK, CommandOK, Creds!SuccessIsTrue
<1> QED BY <1>1, CommandsHold, PTL

\* Whatever step fails or is interrupted, abandon leaves no file of the
\* command behind.
THEOREM NothingLeftOver == ASSUME Creds!CommandsAssumption PROVE Creds!Spec => []Creds!NoLeftover
<1>1. CommandsOK => Creds!NoLeftover
  BY DEF CommandsOK, CommandOK, Creds!NoLeftover
<1> QED BY <1>1, CommandsHold, PTL

\* A live or revoked credential is displaced by a rotation only: what the row
\* lock protects from the check of register_producer to its commit includes the
\* expiry, and no insert replaces a row.
THEOREM RotationsDisplace == ASSUME Creds!CommandsAssumption PROVE Creds!Spec => Creds!OnlyRotateDisplaces
<1>1. ASSUME CommandsOK, [Creds!Next]_(Creds!vars) PROVE Creds!Displaced
  <2> SUFFICES ASSUME NEW k \in TokenKeys, token_row[k] # None, token_row'[k].cred # token_row[k].cred,
                      token_row[k].revoked # Never \/ token_row[k].expires > token_now
               PROVE  Kind[token_row'[k].cred] = "rotate"
    BY DEF Creds!Displaced
  <2>1. CredsTypeOK
    BY <1>1 DEF CommandsOK
  <2>2. PICK c \in Commands : token_pc[c] = "commit" /\ Creds!Apply(c)
    <3>1. ASSUME NEW c \in Commands, Creds!RevokeCommand(c) PROVE FALSE
      <4>1. Creds!Revocation(c) /\ token_row[k] \in Creds!Row
        BY <2>1, <3>1 DEF Creds!RevokeCommand, Creds!RevokeProducer, Creds!RevokeMcpToken, CredsTypeOK
      <4> DEFINE at == Creds!Later(token_moment[c], token_row[Creds!K(c)].created)
      <4>2. token_row' = token_row \/ token_row' = [token_row EXCEPT ![Creds!K(c)].revoked = at]
        BY <4>1 DEF Creds!Revocation
      <4> HIDE DEF at
      <4>3. token_row'[k].cred = token_row[k].cred
        BY <2>1, <4>1, <4>2 DEF CredsTypeOK, Creds!Row
      <4> QED BY <4>3
    <3>2. token_row' # token_row
      OBVIOUS
    <3> QED
      BY <1>1, <3>1, <3>2 DEF Creds!Next, Creds!vars, Creds!database, Creds!outside, Creds!IssueCommand, Creds!Kill, Creds!Tick, Creds!Swap, Creds!Fail,
         Creds!CreateFile, Creds!CheckGrants, Creds!Hash, Creds!ReadAbsent, Creds!AddToken, Creds!ReadRow, Creds!FlushInsert, Creds!Deliver, Creds!DeliveryFails,
         Creds!Commit, Creds!CommitFails, Creds!Report, Creds!Interrupt
  <2>3. k = Creds!K(c) /\ token_row'[k].cred = c
    BY <2>1, <2>2 DEF Creds!Apply, CredsTypeOK, Creds!CommandsAssumption, Creds!K
  <2>4. MayDisplace(c) /\ token_moment[c] <= token_now /\ token_moment[c] \in Nat /\ token_now \in Nat /\ token_row[k] \in Creds!Row
    BY <1>1, <2>1, <2>2 DEF CommandsOK, CommandOK, Locking, CredsTypeOK
  <2> QED BY <2>3, <2>4 DEF MayDisplace, Creds!Row
<1> QED BY <1>1, CommandsHold, PTL DEF Creds!Spec, Creds!OnlyRotateDisplaces

\* abandon and the hand-over touch only the file the command created: one that
\* another program put at the path is left as it is.
THEOREM ForeignFilesKept == ASSUME Creds!CommandsAssumption PROVE Creds!Spec => Creds!ForeignFileKept
<1>1. ASSUME CommandsOK, [Creds!Next]_(Creds!vars) PROVE Creds!ForeignKept
  <2> SUFFICES ASSUME NEW p \in Paths, token_file[p] # None, token_file[p].owner = "other"
               PROVE  token_file'[p] = token_file[p]
    BY DEF Creds!ForeignKept
  <2>1. ASSUME NEW c \in Commands, OwnStep(c) PROVE token_file'[p] = token_file[p]
    BY <2>1 DEF OwnStep, Creds!CommandsAssumption
  <2>2. ASSUME NEW q \in Paths, Creds!Swap(q) PROVE token_file'[p] = token_file[p]
    <3>1. token_file[p] \in Creds!File /\ token_file[p].token = None
      BY <1>1 DEF CommandsOK, CredsTypeOK, OthersUnwritten
    <3>2. token_file[p] = [owner |-> "other", token |-> None]
      BY <3>1 DEF Creds!File
    <3> QED BY <1>1, <2>2, <3>2 DEF Creds!Swap, CommandsOK, CredsTypeOK
  <2>3. CASE Creds!Tick \/ UNCHANGED Creds!vars
    BY <2>3 DEF Creds!Tick, Creds!vars, Creds!outside
  <2> QED BY <1>1, <2>1, <2>2, <2>3, CommandSafe DEF Creds!Next
<1> QED BY <1>1, CommandsHold, PTL DEF Creds!Spec, Creds!ForeignFileKept

HIDE CredsSets

-----------------------------------------------------------------------------
\* MCP access: the token cache, revocation, and the slots of the password
\* check.
Access == INSTANCE McpAccess WITH
  now <- access_now, revokedAt <- access_revokedAt, cache <- access_cache, pc <- access_pc,
  row <- access_row, readAt <- access_readAt, servedAt <- access_servedAt,
  pending <- access_pending, slots <- access_slots, threads <- access_threads,
  audits <- access_audits, cancels <- access_cancels, failures <- access_failures,
  MaxCancels <- AccessCancels, MaxFailures <- AccessFailures

\* Finite sets are the same in the instance.
LEMMA AccessSets == \A S : (Access!IsFiniteSet(S) <=> IsFiniteSet(S)) /\ Access!Cardinality(S) = Cardinality(S)
<1>1. \A S : Access!IsFiniteSet(S) <=> IsFiniteSet(S)
  BY DEF Access!IsFiniteSet, IsFiniteSet
<1>2. \A S : Access!Cardinality(S) = Cardinality(S)
  BY DEF Access!Cardinality, Cardinality
<1> QED BY <1>1, <1>2

USE AccessSets

Known == Tokens \cup {Unknown}
Waiting == {"waiting", "lookup", "hashing"}
Admitted == {"served", "responding", "finished"}
Stages == {"new", "rejected", "gone"} \cup Waiting \cup Admitted
Entry == [deadline : Nat, order : Nat]

AccessTyped ==
  /\ access_now \in 0..MaxTime /\ access_revokedAt \in [Tokens -> Nat]
  /\ Access!Entries \subseteq Tokens /\ access_cache \in [Access!Entries -> Entry]
  /\ access_pc \in [Requests -> Stages] /\ access_row \in [Requests -> Nat] /\ access_readAt \in [Requests -> Nat]
  /\ access_servedAt \in [Requests -> Nat] /\ access_pending \in Nat /\ access_slots \in Nat
  /\ access_threads \in SUBSET Requests /\ access_audits \in [Requests -> Nat]
  /\ access_cancels \in Nat /\ access_failures \in Nat

\* A request past the door has a token the plane can look up.
Credentialed == \A r \in Requests : access_pc[r] \notin {"new", "rejected"} => Access!T(r) \in Known

Counted ==
  /\ Cardinality(Access!Inside) = access_pending /\ Cardinality(Access!Holding) + access_slots = MaxConcurrency

AuditLines ==
  \A r \in Requests : access_audits[r] = IF access_pc[r] \in {"rejected", "responding", "finished"} THEN 1 ELSE 0

\* Who was let through, and with what.
Served == {r \in Requests : access_servedAt[r] # Never}
Unexpired == \A r \in Served : access_pc[r] \in Admitted /\ Access!T(r) \in Tokens /\ access_servedAt[r] <= access_now /\ access_servedAt[r] < ExpiresAt[Access!T(r)]

Revoked(t) == access_revokedAt[t] # Never
Past == \A t \in Tokens : Revoked(t) => access_revokedAt[t] <= access_now

\* A row that was read shows every revocation before the read.
RowTrue(r) ==
  /\ access_readAt[r] # Never /\ access_readAt[r] <= access_now
  /\ access_row[r] # Never => access_row[r] <= access_now
  /\ Access!T(r) \in Tokens /\ access_row[r] = Never /\ Revoked(Access!T(r)) => access_readAt[r] <= access_revokedAt[Access!T(r)]
RowsTrue == \A r \in Requests : access_pc[r] = "hashing" => RowTrue(r)

\* q is a full authentication with token t whose lookup saw no revocation.
Backs(q, t) == /\ q \in Served /\ Access!T(q) = t /\ access_readAt[q] # Never /\ access_readAt[q] <= access_now
               /\ Revoked(t) => access_readAt[q] <= access_revokedAt[t]

CacheBacked == \A t \in Access!Entries \cap Scoped : \E q \in Requests : Backs(q, t) /\ access_cache[t].deadline <= access_servedAt[q] + Ttl
ServedBacked == \A r \in Served : \E q \in Requests : Backs(q, Access!T(r)) /\ access_servedAt[r] <= access_servedAt[q] + Ttl

CacheFits == Cardinality(Access!Entries) <= MaxEntries

AccessInv == /\ AccessTyped /\ Credentialed /\ Counted /\ AuditLines /\ Unexpired /\ Past /\ RowsTrue
             /\ CacheBacked /\ ServedBacked /\ CacheFits

-----------------------------------------------------------------------------
(* How a move of one request changes who is inside and who holds a slot.   *)

LEMMA Moves ==
  ASSUME AccessInv, NEW r \in Requests, NEW place, Access!Goto(r, place)
  PROVE  /\ \A q \in Requests : access_pc'[q] = IF q = r THEN place ELSE access_pc[q]
         /\ Access!Inside' = IF place \in Waiting THEN Access!Inside \cup {r} ELSE Access!Inside \ {r}
         /\ Access!Holding' = IF place \in {"lookup", "hashing"} THEN Access!Holding \cup {r} ELSE Access!Holding \ {r}
<1>1. \A q \in Requests : access_pc'[q] = IF q = r THEN place ELSE access_pc[q]
  BY DEF Access!Goto, AccessInv, AccessTyped
<1>2. Access!Inside' = IF place \in Waiting THEN Access!Inside \cup {r} ELSE Access!Inside \ {r}
  BY <1>1 DEF Access!Inside, Waiting
<1>3. Access!Holding' = IF place \in {"lookup", "hashing"} THEN Access!Holding \cup {r} ELSE Access!Holding \ {r}
  BY <1>1 DEF Access!Holding
<1> QED BY <1>1, <1>2, <1>3

LEMMA Sizes ==
  ASSUME Access!AccessAssumption, AccessInv
  PROVE  /\ IsFiniteSet(Access!Inside) /\ IsFiniteSet(Access!Holding)
         /\ Cardinality(Access!Inside) = access_pending /\ Cardinality(Access!Holding) + access_slots = MaxConcurrency
         /\ Cardinality(Access!Inside) \in Nat /\ Cardinality(Access!Holding) \in Nat /\ access_pending \in Nat /\ access_slots \in Nat
         /\ \A r \in Access!Inside : Cardinality(Access!Inside \ {r}) = access_pending - 1 /\ access_pending - 1 \in Nat
         /\ \A r \in Access!Holding : Cardinality(Access!Holding \ {r}) = Cardinality(Access!Holding) - 1
         /\ \A r \in Requests \ Access!Inside : Cardinality(Access!Inside \cup {r}) = access_pending + 1
         /\ \A r \in Requests \ Access!Holding : Cardinality(Access!Holding \cup {r}) = Cardinality(Access!Holding) + 1
<1>1. IsFiniteSet(Access!Inside) /\ IsFiniteSet(Access!Holding)
  BY FS_Subset DEF Access!Inside, Access!Holding, Access!AccessAssumption
<1>2. /\ Cardinality(Access!Inside) = access_pending /\ Cardinality(Access!Holding) + access_slots = MaxConcurrency
      /\ access_pending \in Nat /\ access_slots \in Nat
  BY DEF AccessInv, AccessTyped, Counted
<1>3. Cardinality(Access!Inside) \in Nat /\ Cardinality(Access!Holding) \in Nat
  BY <1>1, FS_CardinalityType
<1>4. \A r \in Access!Inside : Cardinality(Access!Inside \ {r}) = access_pending - 1 /\ access_pending - 1 \in Nat
  <2> TAKE r \in Access!Inside
  <2>1. IsFiniteSet(Access!Inside \ {r}) /\ Cardinality(Access!Inside \ {r}) = Cardinality(Access!Inside) - 1
    BY <1>1, FS_RemoveElement
  <2>2. Cardinality(Access!Inside \ {r}) \in Nat
    BY <2>1, FS_CardinalityType
  <2> QED BY <1>2, <2>1, <2>2
<1>5. \A r \in Access!Holding : Cardinality(Access!Holding \ {r}) = Cardinality(Access!Holding) - 1
  BY <1>1, FS_RemoveElement
<1>6. \A r \in Requests \ Access!Inside : Cardinality(Access!Inside \cup {r}) = access_pending + 1
  BY <1>1, <1>2, FS_AddElement
<1>7. \A r \in Requests \ Access!Holding : Cardinality(Access!Holding \cup {r}) = Cardinality(Access!Holding) + 1
  BY <1>1, FS_AddElement
<1> QED BY <1>1, <1>2, <1>3, <1>4, <1>5, <1>6, <1>7

\* The admission, each way in and out.
LEMMA EnterCounts ==
  ASSUME Access!AccessAssumption, AccessInv, NEW r \in Requests, access_pc[r] \notin Waiting, Access!Goto(r, "waiting"),
         access_pending' = access_pending + 1, access_slots' = access_slots
  PROVE  Counted' /\ access_pending' \in Nat /\ access_slots' \in Nat
<1>1. r \notin Access!Inside /\ r \notin Access!Holding
  BY DEF Access!Inside, Access!Holding, Waiting
<1>2. Access!Inside' = Access!Inside \cup {r} /\ Access!Holding' = Access!Holding
  BY <1>1, Moves DEF Waiting
<1> QED BY <1>1, <1>2, Sizes DEF Counted

LEMMA SlotCounts ==
  ASSUME Access!AccessAssumption, AccessInv, NEW r \in Requests, access_pc[r] = "waiting", Access!Goto(r, "lookup"),
         access_pending' = access_pending, access_slots > 0, access_slots' = access_slots - 1
  PROVE  Counted' /\ access_pending' \in Nat /\ access_slots' \in Nat
<1>1. r \in Access!Inside /\ r \notin Access!Holding
  BY DEF Access!Inside, Access!Holding
<1>2. Access!Inside' = Access!Inside /\ Access!Holding' = Access!Holding \cup {r}
  BY <1>1, Moves DEF Waiting
<1>3. MaxConcurrency \in Nat
  BY DEF Access!AccessAssumption
<1> QED BY <1>1, <1>2, <1>3, Sizes DEF Counted

LEMMA LeaveCounts ==
  ASSUME Access!AccessAssumption, AccessInv, NEW r \in Requests, access_pc[r] \in Waiting,
         NEW place, place \notin Waiting, Access!Goto(r, place), Access!Leave(access_pc[r] # "waiting")
  PROVE  Counted' /\ access_pending' \in Nat /\ access_slots' \in Nat
<1>1. r \in Access!Inside /\ (r \in Access!Holding <=> access_pc[r] # "waiting")
  BY DEF Access!Inside, Access!Holding, Waiting
<1>2. Access!Inside' = Access!Inside \ {r} /\ Access!Holding' = Access!Holding \ {r}
  BY Moves DEF Waiting
<1>3. access_pending' = access_pending - 1 /\ access_slots' = IF r \in Access!Holding THEN access_slots + 1 ELSE access_slots
  BY <1>1 DEF Access!Leave
<1>4. MaxConcurrency \in Nat
  BY DEF Access!AccessAssumption
<1>5. CASE r \in Access!Holding
  BY <1>1, <1>2, <1>3, <1>4, <1>5, Sizes DEF Counted
<1>6. CASE r \notin Access!Holding
  <2>1. Access!Holding' = Access!Holding
    BY <1>2, <1>6
  <2> QED BY <1>1, <1>2, <1>3, <1>6, <2>1, Sizes DEF Counted
<1> QED BY <1>5, <1>6

LEMMA StayCounts ==
  ASSUME Access!AccessAssumption, AccessInv, NEW r \in Requests, NEW place, Access!Goto(r, place), UNCHANGED <<access_pending, access_slots>>,
         access_pc[r] \in Waiting <=> place \in Waiting,
         access_pc[r] \in {"lookup", "hashing"} <=> place \in {"lookup", "hashing"}
  PROVE  Counted' /\ access_pending' \in Nat /\ access_slots' \in Nat
<1>1. Access!Inside' = Access!Inside /\ Access!Holding' = Access!Holding
  BY Moves DEF Access!Inside, Access!Holding, Waiting
<1> QED BY <1>1, Sizes DEF Counted

-----------------------------------------------------------------------------
(* Steps that serve nobody and read no row keep every earlier admission.   *)

LEMMA BacksStays ==
  ASSUME AccessInv, NEW q \in Requests, NEW t, Backs(q, t),
         access_now \in Nat, access_now' \in Nat, access_now <= access_now', access_servedAt'[q] = access_servedAt[q], access_readAt'[q] = access_readAt[q], access_revokedAt'[t] = access_revokedAt[t]
  PROVE  Backs(q, t)'
<1>1. access_readAt[q] \in Nat
  BY DEF AccessInv, AccessTyped
<1> QED BY <1>1 DEF Backs, Served, Revoked

LEMMA QuietHistory ==
  ASSUME Access!AccessAssumption, AccessInv, NEW r \in Requests, NEW place, Access!Goto(r, place),
         UNCHANGED <<access_now, access_revokedAt, access_row, access_readAt, access_servedAt>>, place # "hashing",
         access_pc[r] \in Admitted => place \in Admitted
  PROVE  /\ Unexpired' /\ Past' /\ RowsTrue' /\ ServedBacked'
         /\ \A q \in Requests : \A t : Backs(q, t) => Backs(q, t)'
<1>1. \A q \in Requests : access_pc'[q] = IF q = r THEN place ELSE access_pc[q]
  BY Moves
<1>2. Served' = Served /\ \A t : Revoked(t)' <=> Revoked(t)
  BY DEF Served, Revoked
<1>3. \A q \in Requests : \A t : Backs(q, t)' <=> Backs(q, t)
  BY <1>2 DEF Backs
<1>4. Unexpired'
  BY <1>1, <1>2 DEF AccessInv, Unexpired, Served
<1>5. Past' /\ RowsTrue'
  BY <1>1, <1>2 DEF AccessInv, Past, RowsTrue, RowTrue
<1>6. ServedBacked'
  BY <1>2, <1>3 DEF AccessInv, ServedBacked
<1> QED BY <1>3, <1>4, <1>5, <1>6

\* A cache that only loses entries.
LEMMA ShrunkCache ==
  ASSUME Access!AccessAssumption, AccessInv, Access!Entries' \subseteq Access!Entries, access_cache' \in [Access!Entries' -> Entry],
         \A t \in Access!Entries' : access_cache'[t] = access_cache[t],
         \A q \in Requests : \A t \in Tokens : Backs(q, t) => Backs(q, t)' /\ access_servedAt'[q] = access_servedAt[q]
  PROVE  CacheBacked' /\ CacheFits'
<1>1. CacheBacked'
  <2> SUFFICES ASSUME NEW t \in Access!Entries' \cap Scoped
               PROVE  \E q \in Requests : Backs(q, t)' /\ access_cache'[t].deadline <= access_servedAt'[q] + Ttl
    BY DEF CacheBacked
  <2>1. t \in Access!Entries \cap Scoped /\ t \in Tokens /\ access_cache'[t] = access_cache[t]
    BY DEF AccessInv, AccessTyped
  <2>2. PICK q \in Requests : Backs(q, t) /\ access_cache[t].deadline <= access_servedAt[q] + Ttl
    BY <2>1 DEF AccessInv, CacheBacked
  <2> QED BY <2>1, <2>2
<1>2. CacheFits'
  <2>1. IsFiniteSet(Access!Entries)
    BY FS_Subset DEF AccessInv, AccessTyped, Access!AccessAssumption
  <2>2. Cardinality(Access!Entries') <= Cardinality(Access!Entries) /\ Cardinality(Access!Entries') \in Nat /\ Cardinality(Access!Entries) \in Nat
    BY <2>1, FS_Subset, FS_CardinalityType
  <2> QED BY <2>2 DEF CacheFits, AccessInv, Access!AccessAssumption
<1> QED BY <1>1, <1>2

LEMMA Dropped ==
  ASSUME AccessInv, NEW t, access_cache' = Access!Drop(t)
  PROVE  /\ Access!Entries' \subseteq Access!Entries /\ access_cache' \in [Access!Entries' -> Entry] /\ Access!Entries' \subseteq Tokens
         /\ \A u \in Access!Entries' : access_cache'[u] = access_cache[u]
BY DEF AccessInv, AccessTyped, Access!Drop, Access!Entries

-----------------------------------------------------------------------------
(* The actions.                                                            *)

LEMMA AccessRefuseSafe == ASSUME Access!AccessAssumption, AccessInv, NEW r \in Requests, Access!Refuse(r) PROVE AccessInv'
<1>1. /\ access_pc[r] = "new" /\ Access!Goto(r, "rejected") /\ Access!Record(r)
      /\ UNCHANGED <<access_now, access_revokedAt, access_cache, access_row, access_readAt, access_servedAt, access_pending, access_slots, access_threads, access_cancels, access_failures>>
  BY DEF Access!Refuse, Access!Reject, Access!tokens, Access!gate, Access!budget
<1>2. \A q \in Requests : access_pc'[q] = IF q = r THEN "rejected" ELSE access_pc[q]
  BY <1>1, Moves
<1>3. Counted'
  BY <1>1, StayCounts DEF Waiting
<1>4. Unexpired' /\ Past' /\ RowsTrue' /\ ServedBacked' /\ \A q \in Requests : \A t : Backs(q, t) => Backs(q, t)'
  BY <1>1, QuietHistory DEF Admitted
<1>5. CacheBacked' /\ CacheFits'
  BY <1>1, <1>4, ShrunkCache DEF AccessInv, AccessTyped, Access!Entries
<1>6. AccessTyped' /\ Credentialed' /\ AuditLines'
  BY <1>1, <1>2 DEF AccessInv, AccessTyped, Access!Goto, Access!Record, Stages, Credentialed, AuditLines, Access!Entries
<1> QED BY <1>3, <1>4, <1>5, <1>6 DEF AccessInv

\* The cache is read or the admission is refused: the read drops a stale entry.
LEMMA OverloadedSafe == ASSUME Access!AccessAssumption, AccessInv, NEW r \in Requests, Access!Overloaded(r) PROVE AccessInv'
<1>1. /\ access_pc[r] = "new" /\ Access!Goto(r, "rejected") /\ Access!Record(r) /\ access_cache' = Access!Drop(Access!T(r))
      /\ UNCHANGED <<access_now, access_revokedAt, access_row, access_readAt, access_servedAt, access_pending, access_slots, access_threads, access_cancels, access_failures>>
  BY DEF Access!Overloaded, Access!Reject, Access!tokens, Access!gate, Access!budget
<1>2. \A q \in Requests : access_pc'[q] = IF q = r THEN "rejected" ELSE access_pc[q]
  BY <1>1, Moves
<1>3. Counted'
  BY <1>1, StayCounts DEF Waiting
<1>4. Unexpired' /\ Past' /\ RowsTrue' /\ ServedBacked' /\ \A q \in Requests : \A t : Backs(q, t) => Backs(q, t)'
  BY <1>1, QuietHistory DEF Admitted
<1>5. CacheBacked' /\ CacheFits' /\ Access!Entries' \subseteq Tokens /\ access_cache' \in [Access!Entries' -> Entry]
  BY <1>1, <1>4, ShrunkCache, Dropped
<1>6. AccessTyped' /\ Credentialed' /\ AuditLines'
  BY <1>1, <1>2, <1>5 DEF AccessInv, AccessTyped, Access!Goto, Access!Record, Stages, Credentialed, AuditLines
<1> QED BY <1>3, <1>4, <1>5, <1>6 DEF AccessInv

LEMMA EnterSafe == ASSUME Access!AccessAssumption, AccessInv, NEW r \in Requests, Access!Enter(r) PROVE AccessInv'
<1>1. /\ access_pc[r] = "new" /\ Access!Goto(r, "waiting") /\ access_cache' = Access!Drop(Access!T(r)) /\ Access!T(r) \in Known
      /\ access_pending' = access_pending + 1
      /\ UNCHANGED <<access_now, access_revokedAt, access_row, access_readAt, access_servedAt, access_slots, access_threads, access_audits, access_cancels, access_failures>>
  BY DEF Access!Enter, Access!tokens, Access!budget, Known
<1>2. \A q \in Requests : access_pc'[q] = IF q = r THEN "waiting" ELSE access_pc[q]
  BY <1>1, Moves
<1>3. Counted' /\ access_pending' \in Nat /\ access_slots' \in Nat
  BY <1>1, EnterCounts DEF Waiting
<1>4. Unexpired' /\ Past' /\ RowsTrue' /\ ServedBacked' /\ \A q \in Requests : \A t : Backs(q, t) => Backs(q, t)'
  BY <1>1, QuietHistory DEF Admitted
<1>5. CacheBacked' /\ CacheFits' /\ Access!Entries' \subseteq Tokens /\ access_cache' \in [Access!Entries' -> Entry]
  BY <1>1, <1>4, ShrunkCache, Dropped
<1>6. AccessTyped' /\ Credentialed' /\ AuditLines'
  BY <1>1, <1>2, <1>3, <1>5 DEF AccessInv, AccessTyped, Access!Goto, Stages, Waiting, Credentialed, AuditLines
<1> QED BY <1>3, <1>4, <1>5, <1>6 DEF AccessInv

\* A slot is taken, a lookup fails or a request is cancelled: nobody is let in.
LEMMA AccessTakeSlotSafe == ASSUME Access!AccessAssumption, AccessInv, NEW r \in Requests, Access!TakeSlot(r) PROVE AccessInv'
<1>1. /\ access_pc[r] = "waiting" /\ Access!Goto(r, "lookup") /\ access_slots > 0 /\ access_slots' = access_slots - 1
      /\ UNCHANGED <<access_now, access_revokedAt, access_cache, access_row, access_readAt, access_servedAt, access_pending, access_threads, access_audits, access_cancels, access_failures>>
  BY DEF Access!TakeSlot, Access!tokens, Access!budget
<1>2. \A q \in Requests : access_pc'[q] = IF q = r THEN "lookup" ELSE access_pc[q]
  BY <1>1, Moves
<1>3. Counted' /\ access_pending' \in Nat /\ access_slots' \in Nat
  BY <1>1, SlotCounts
<1>4. Unexpired' /\ Past' /\ RowsTrue' /\ ServedBacked' /\ \A q \in Requests : \A t : Backs(q, t) => Backs(q, t)'
  BY <1>1, QuietHistory DEF Admitted
<1>5. CacheBacked' /\ CacheFits'
  BY <1>1, <1>4, ShrunkCache DEF AccessInv, AccessTyped, Access!Entries
<1>6. AccessTyped' /\ Credentialed' /\ AuditLines'
  BY <1>1, <1>2, <1>3 DEF AccessInv, AccessTyped, Access!Goto, Stages, Waiting, Credentialed, AuditLines, Access!Entries
<1> QED BY <1>3, <1>4, <1>5, <1>6 DEF AccessInv

LEMMA LookupFailsSafe == ASSUME Access!AccessAssumption, AccessInv, NEW r \in Requests, Access!LookupFails(r) PROVE AccessInv'
<1>1. /\ access_pc[r] = "lookup" /\ Access!Goto(r, "rejected") /\ Access!Record(r) /\ Access!Leave(access_pc[r] # "waiting") /\ access_failures' = access_failures + 1
      /\ UNCHANGED <<access_now, access_revokedAt, access_cache, access_row, access_readAt, access_servedAt, access_threads, access_cancels>>
  BY DEF Access!LookupFails, Access!Reject, Access!Leave, Access!tokens
<1>2. \A q \in Requests : access_pc'[q] = IF q = r THEN "rejected" ELSE access_pc[q]
  BY <1>1, Moves
<1>3. Counted' /\ access_pending' \in Nat /\ access_slots' \in Nat
  BY <1>1, LeaveCounts DEF Waiting
<1>4. Unexpired' /\ Past' /\ RowsTrue' /\ ServedBacked' /\ \A q \in Requests : \A t : Backs(q, t) => Backs(q, t)'
  BY <1>1, QuietHistory DEF Admitted
<1>5. CacheBacked' /\ CacheFits'
  BY <1>1, <1>4, ShrunkCache DEF AccessInv, AccessTyped, Access!Entries
<1>6. AccessTyped' /\ Credentialed' /\ AuditLines'
  BY <1>1, <1>2, <1>3 DEF AccessInv, AccessTyped, Access!Goto, Access!Record, Stages, Credentialed, AuditLines, Access!Entries
<1> QED BY <1>3, <1>4, <1>5, <1>6 DEF AccessInv

LEMMA AccessCancelSafe == ASSUME Access!AccessAssumption, AccessInv, NEW r \in Requests, Access!Cancel(r) PROVE AccessInv'
<1>1. /\ access_pc[r] \in Waiting /\ Access!Goto(r, "gone") /\ Access!Leave(access_pc[r] # "waiting") /\ access_cancels' = access_cancels + 1
      /\ UNCHANGED <<access_now, access_revokedAt, access_cache, access_row, access_readAt, access_servedAt, access_threads, access_audits, access_failures>>
  BY DEF Access!Cancel, Access!tokens, Waiting
<1>2. \A q \in Requests : access_pc'[q] = IF q = r THEN "gone" ELSE access_pc[q]
  BY <1>1, Moves
<1>3. Counted' /\ access_pending' \in Nat /\ access_slots' \in Nat
  BY <1>1, LeaveCounts DEF Waiting
<1>4. Unexpired' /\ Past' /\ RowsTrue' /\ ServedBacked' /\ \A q \in Requests : \A t : Backs(q, t) => Backs(q, t)'
  BY <1>1, QuietHistory DEF Admitted, Waiting
<1>5. CacheBacked' /\ CacheFits'
  BY <1>1, <1>4, ShrunkCache DEF AccessInv, AccessTyped, Access!Entries
<1>6. AccessTyped' /\ Credentialed' /\ AuditLines'
  BY <1>1, <1>2, <1>3 DEF AccessInv, AccessTyped, Access!Goto, Waiting, Stages, Credentialed, AuditLines, Access!Entries
<1> QED BY <1>3, <1>4, <1>5, <1>6 DEF AccessInv

\* The response of an admitted request, and its one audit line.
LEMMA RespondSafe == ASSUME Access!AccessAssumption, AccessInv, NEW r \in Requests, Access!Respond(r) \/ Access!Finish(r) PROVE AccessInv'
<1>1. PICK place \in {"responding", "finished"} :
        /\ access_pc[r] \in {"served", "responding"} /\ Access!Goto(r, place) /\ Access!RecordOnce(r)
        /\ UNCHANGED <<access_now, access_revokedAt, access_cache, access_row, access_readAt, access_servedAt, access_pending, access_slots, access_threads, access_cancels, access_failures>>
  BY DEF Access!Respond, Access!Finish, Access!tokens, Access!gate, Access!budget
<1>2. \A q \in Requests : access_pc'[q] = IF q = r THEN place ELSE access_pc[q]
  BY <1>1, Moves
<1>3. Counted'
  BY <1>1, StayCounts DEF Waiting
<1>4. Unexpired' /\ Past' /\ RowsTrue' /\ ServedBacked' /\ \A q \in Requests : \A t : Backs(q, t) => Backs(q, t)'
  BY <1>1, QuietHistory DEF Admitted
<1>5. CacheBacked' /\ CacheFits'
  BY <1>1, <1>4, ShrunkCache DEF AccessInv, AccessTyped, Access!Entries
<1>6. AuditLines' /\ access_audits' \in [Requests -> Nat]
  BY <1>1, <1>2 DEF AccessInv, AccessTyped, Access!RecordOnce, Access!Record, AuditLines
<1>7. AccessTyped' /\ Credentialed'
  BY <1>1, <1>2, <1>6 DEF AccessInv, AccessTyped, Access!Goto, Stages, Admitted, Credentialed, Access!Entries
<1> QED BY <1>3, <1>4, <1>5, <1>6, <1>7 DEF AccessInv

\* What only moves time, threads or the rows of tokens.
LEMMA LookupSafe == ASSUME Access!AccessAssumption, AccessInv, NEW r \in Requests, Access!Lookup(r) PROVE AccessInv'
<1>1. /\ access_pc[r] = "lookup" /\ Access!Goto(r, "hashing") /\ access_readAt' = [access_readAt EXCEPT ![r] = access_now]
      /\ access_row' = [access_row EXCEPT ![r] = IF Access!T(r) = Unknown THEN Never ELSE access_revokedAt[Access!T(r)]]
      /\ access_threads' = access_threads \cup {r}
      /\ UNCHANGED <<access_now, access_revokedAt, access_cache, access_servedAt, access_pending, access_slots, access_audits, access_cancels, access_failures>>
  BY DEF Access!Lookup, Access!tokens, Access!gate, Access!budget
<1>2. \A q \in Requests : access_pc'[q] = IF q = r THEN "hashing" ELSE access_pc[q]
  BY <1>1, Moves
<1>3. Counted'
  BY <1>1, StayCounts DEF Waiting
<1>4. Access!T(r) \in Known /\ r \notin Served /\ access_now \in Nat /\ access_now # Never
  BY <1>1 DEF AccessInv, Credentialed, Unexpired, Admitted, AccessTyped, Access!AccessAssumption
<1>5. /\ access_readAt' \in [Requests -> Nat] /\ access_row' \in [Requests -> Nat] /\ access_readAt'[r] = access_now
      /\ access_row'[r] = IF Access!T(r) = Unknown THEN Never ELSE access_revokedAt[Access!T(r)]
      /\ \A q \in Requests \ {r} : access_readAt'[q] = access_readAt[q] /\ access_row'[q] = access_row[q]
  BY <1>1, <1>4 DEF AccessInv, AccessTyped, Access!AccessAssumption, Known
<1>6. \A q \in Requests : \A t \in Tokens : Backs(q, t) => Backs(q, t)'
  BY <1>1, <1>4, <1>5, BacksStays DEF Backs
<1>7. CacheBacked' /\ CacheFits'
  BY <1>1, <1>6, ShrunkCache DEF AccessInv, AccessTyped, Access!Entries
<1>8. Served' = Served /\ Unexpired' /\ Past'
  BY <1>1, <1>2, <1>4 DEF AccessInv, Unexpired, Served, Past, Revoked
<1>9. ServedBacked'
  <2> SUFFICES ASSUME NEW s \in Served PROVE \E q \in Requests : Backs(q, Access!T(s))' /\ access_servedAt'[s] <= access_servedAt'[q] + Ttl
    BY <1>8 DEF ServedBacked
  <2>1. Access!T(s) \in Tokens /\ \E q \in Requests : Backs(q, Access!T(s)) /\ access_servedAt[s] <= access_servedAt[q] + Ttl
    BY DEF AccessInv, ServedBacked, Unexpired
  <2> QED BY <1>1, <1>6, <2>1
<1>10. RowsTrue'
  <2> SUFFICES ASSUME NEW q \in Requests, access_pc'[q] = "hashing" PROVE RowTrue(q)'
    BY DEF RowsTrue
  <2>1. CASE q = r
    <3>1. access_readAt'[r] # Never /\ access_readAt'[r] <= access_now
      BY <1>4, <1>5
    <3>2. Access!T(r) = Unknown => Access!T(r) \notin Tokens /\ access_row'[r] = Never
      BY <1>5 DEF Access!AccessAssumption
    <3>3. Access!T(r) # Unknown => Access!T(r) \in Tokens /\ access_row'[r] = access_revokedAt[Access!T(r)]
      BY <1>4, <1>5 DEF Known
    <3>4. \A t \in Tokens : access_revokedAt[t] # Never => access_revokedAt[t] <= access_now
      BY DEF AccessInv, Past, Revoked
    <3> QED BY <1>1, <2>1, <3>1, <3>2, <3>3, <3>4 DEF RowTrue, Revoked
  <2>2. CASE q # r
    BY <1>1, <1>2, <1>5, <2>2 DEF AccessInv, RowsTrue, RowTrue, Revoked
  <2> QED BY <2>1, <2>2
<1>11. AccessTyped' /\ Credentialed' /\ AuditLines'
  BY <1>1, <1>2, <1>5 DEF AccessInv, AccessTyped, Access!Goto, Stages, Waiting, Credentialed, AuditLines, Access!Entries
<1> QED BY <1>3, <1>7, <1>8, <1>9, <1>10, <1>11 DEF AccessInv

LEMMA AccessRevokeSafe == ASSUME Access!AccessAssumption, AccessInv, NEW t \in Tokens, Access!Revoke(t) PROVE AccessInv'
<1>1. /\ access_revokedAt[t] = Never /\ access_revokedAt' = [access_revokedAt EXCEPT ![t] = access_now]
      /\ UNCHANGED <<access_now, access_cache, access_pc, access_row, access_readAt, access_servedAt, access_pending, access_slots, access_threads, access_audits, access_cancels, access_failures>>
  BY DEF Access!Revoke, Access!gate, Access!budget
<1>2. /\ access_now \in Nat /\ access_revokedAt'[t] = access_now /\ access_revokedAt' \in [Tokens -> Nat]
      /\ \A u \in Tokens \ {t} : access_revokedAt'[u] = access_revokedAt[u]
  BY <1>1 DEF AccessInv, AccessTyped, Access!AccessAssumption
<1>3. \A q \in Requests : \A u \in Tokens : Backs(q, u) => Backs(q, u)'
  BY <1>1, <1>2 DEF Backs, Served, Revoked
<1>4. CacheBacked' /\ CacheFits'
  BY <1>1, <1>3, ShrunkCache DEF AccessInv, AccessTyped, Access!Entries
<1>5. ServedBacked'
  <2> SUFFICES ASSUME NEW s \in Served PROVE \E q \in Requests : Backs(q, Access!T(s))' /\ access_servedAt[s] <= access_servedAt[q] + Ttl
    BY <1>1 DEF ServedBacked, Served
  <2>1. Access!T(s) \in Tokens /\ \E q \in Requests : Backs(q, Access!T(s)) /\ access_servedAt[s] <= access_servedAt[q] + Ttl
    BY DEF AccessInv, ServedBacked, Unexpired
  <2> QED BY <1>3, <2>1
<1>6. Past' /\ Unexpired'
  BY <1>1, <1>2 DEF AccessInv, Past, Revoked, Unexpired, Served
<1>7. RowsTrue'
  <2> SUFFICES ASSUME NEW q \in Requests, access_pc[q] = "hashing" PROVE RowTrue(q)'
    BY <1>1 DEF RowsTrue
  <2>1. RowTrue(q)
    BY DEF AccessInv, RowsTrue
  <2> QED BY <1>1, <1>2, <2>1 DEF RowTrue, Revoked
<1>8. AccessTyped' /\ Credentialed' /\ Counted' /\ AuditLines'
  BY <1>1, <1>2 DEF AccessInv, AccessTyped, Credentialed, Counted, Access!Inside, Access!Holding, AuditLines, Access!Entries
<1> QED BY <1>4, <1>5, <1>6, <1>7, <1>8 DEF AccessInv

LEMMA TimePasses ==
  ASSUME Access!AccessAssumption, AccessInv,
         access_now' \in 0..MaxTime, access_now <= access_now', access_threads' \in SUBSET Requests,
         UNCHANGED <<access_revokedAt, access_cache, access_pc, access_row, access_readAt, access_servedAt, access_pending, access_slots, access_audits, access_cancels, access_failures>>
  PROVE  AccessInv'
<1>1. access_now \in Nat /\ access_now' \in Nat
  BY DEF AccessInv, AccessTyped, Access!AccessAssumption
<1>2. \A q \in Requests : \A u \in Tokens : Backs(q, u) => Backs(q, u)'
  BY <1>1, BacksStays
<1>3. CacheBacked' /\ CacheFits'
  BY <1>1, <1>2, ShrunkCache DEF AccessInv, AccessTyped, Access!Entries
<1>4. ServedBacked'
  <2> SUFFICES ASSUME NEW s \in Served PROVE \E q \in Requests : Backs(q, Access!T(s))' /\ access_servedAt[s] <= access_servedAt[q] + Ttl
    BY <1>1 DEF ServedBacked, Served
  <2>1. Access!T(s) \in Tokens /\ \E q \in Requests : Backs(q, Access!T(s)) /\ access_servedAt[s] <= access_servedAt[q] + Ttl
    BY DEF AccessInv, ServedBacked, Unexpired
  <2> QED BY <1>2, <2>1
<1>5. Past' /\ Unexpired'
  <2>1. \A t \in Tokens : access_revokedAt[t] \in Nat
    BY DEF AccessInv, AccessTyped
  <2>2. \A q \in Requests : access_servedAt[q] \in Nat
    BY DEF AccessInv, AccessTyped
  <2>3. Past'
    BY <1>1, <2>1 DEF AccessInv, Past, Revoked
  <2>4. Unexpired'
    BY <1>1, <2>2 DEF AccessInv, Unexpired, Served
  <2> QED BY <2>3, <2>4
<1>6. RowsTrue'
  <2> SUFFICES ASSUME NEW q \in Requests, access_pc[q] = "hashing" PROVE RowTrue(q)'
    BY <1>1 DEF RowsTrue
  <2>1. RowTrue(q) /\ access_readAt[q] \in Nat /\ access_row[q] \in Nat
    BY DEF AccessInv, RowsTrue, AccessTyped
  <2> QED BY <1>1, <2>1 DEF RowTrue, Revoked
<1>7. AccessTyped' /\ Credentialed' /\ Counted' /\ AuditLines'
  BY <1>1 DEF AccessInv, AccessTyped, Credentialed, Counted, Access!Inside, Access!Holding, AuditLines, Access!Entries
<1> QED BY <1>3, <1>4, <1>5, <1>6, <1>7 DEF AccessInv

LEMMA TickSafe ==
  ASSUME Access!AccessAssumption, AccessInv, Access!Tick \/ (\E r \in Requests : Access!AbandonedHashEnds(r)) \/ UNCHANGED Access!vars
  PROVE  AccessInv'
<1>1. access_now \in 0..MaxTime /\ MaxTime \in Nat /\ access_threads \in SUBSET Requests
  BY DEF AccessInv, AccessTyped, Access!AccessAssumption
<1>2. CASE Access!Tick
  BY <1>1, <1>2, TimePasses DEF Access!Tick, Access!gate, Access!budget
<1>3. CASE \E r \in Requests : Access!AbandonedHashEnds(r)
  BY <1>1, <1>3, TimePasses DEF Access!AbandonedHashEnds, Access!gate, Access!budget, Access!tokens
<1>4. CASE UNCHANGED Access!vars
  BY <1>1, <1>4, TimePasses DEF Access!vars
<1> QED BY <1>2, <1>3, <1>4

-----------------------------------------------------------------------------
(* Room in the cache: the oldest entry and the newest order exist.         *)

LEMMA Greatest ==
  ASSUME NEW S \in SUBSET Nat, IsFiniteSet(S), S # {}
  PROVE  \E x \in S : \A y \in S : x >= y
<1> DEFINE Open(U) == IsFiniteSet(U) /\ U # {} /\ ~(\E x \in U : \A y \in U : x >= y)
           Bad == {n \in Nat : \E U \in SUBSET Nat : Open(U) /\ Cardinality(U) = n}
<1>1. SUFFICES ASSUME Open(S) PROVE FALSE
  OBVIOUS
<1>2. Cardinality(S) \in Bad
  BY <1>1, FS_CardinalityType
<1>3. PICK n \in Bad : \A m \in Bad : ~(m < n)
  <2>1. PICK n \in Bad : \A m \in Bad : <<m, n>> \notin OpToRel(<, Nat)
    <3> HIDE DEF Bad
    <3>1. IsWellFoundedOn(OpToRel(<, Nat), Nat) /\ Bad \subseteq Nat
      BY NatLessThanWellFounded DEF Bad
    <3> QED BY <1>2, <3>1, WFMin
  <2> QED BY <2>1 DEF OpToRel
<1>4. PICK U \in SUBSET Nat : Open(U) /\ Cardinality(U) = n
  OBVIOUS
<1>5. PICK x \in U : TRUE
  BY <1>4
<1>6. IsFiniteSet(U \ {x}) /\ Cardinality(U \ {x}) = n - 1 /\ n \in Nat
  BY <1>4, FS_RemoveElement
<1>7. Cardinality(U \ {x}) \in Nat
  BY <1>6, FS_CardinalityType
<1>8. n - 1 < n /\ n - 1 \in Nat
  BY <1>6, <1>7
<1>9. ~Open(U \ {x})
  BY <1>3, <1>6, <1>8
<1>10. CASE U \ {x} = {}
  BY <1>4, <1>10
<1>11. CASE U \ {x} # {}
  <2>1. PICK z \in U \ {x} : \A y \in U \ {x} : z >= y
    BY <1>6, <1>9, <1>11
  <2>2. CASE z >= x
    BY <1>4, <2>1, <2>2
  <2>3. CASE ~(z >= x)
    <3>1. \A y \in U : x >= y
      BY <2>1, <2>3
    <3> QED BY <1>4, <3>1
  <2> QED BY <2>2, <2>3
<1> QED BY <1>10, <1>11

LEMMA NewestTyped ==
  ASSUME Access!AccessAssumption, AccessInv, NEW S \in SUBSET Access!Entries
  PROVE  Access!Newest(S) \in Nat
<1> DEFINE O == {0} \cup {access_cache[t].order : t \in S}
<1>1. IsFiniteSet(S)
  BY FS_Subset DEF AccessInv, AccessTyped, Access!AccessAssumption
<1>2. IsFiniteSet({access_cache[t].order : t \in S})
  <2> DEFINE f == [t \in S |-> access_cache[t].order]
             R == {access_cache[t].order : t \in S}
  <2>1. f \in Surjection(S, R)
    BY DEF Surjection
  <2> QED BY <1>1, <2>1, FS_Surjection
<1>3. IsFiniteSet(O)
  BY <1>2, FS_Union, FS_Singleton
<1>4. O \in SUBSET Nat /\ O # {}
  BY DEF AccessInv, AccessTyped, Entry
<1>5. \E x \in O : \A y \in O : x >= y
  BY <1>3, <1>4, Greatest
<1>6. Access!Max(O) \in Nat
  BY <1>4, <1>5 DEF Access!Max
<1> QED BY <1>6 DEF Access!Newest

LEMMA OldestIsThere ==
  ASSUME Access!AccessAssumption, AccessInv, NEW S \in SUBSET Access!Entries, S # {}
  PROVE  Access!Oldest(S) \in S
<1> DEFINE O == {access_cache[t].order : t \in S}
<1>1. O \subseteq Nat /\ O # {}
  BY DEF AccessInv, AccessTyped, Entry
<1>2. PICK n \in O : \A m \in O : <<m, n>> \notin OpToRel(<, Nat)
  <2> HIDE DEF O
  <2>1. IsWellFoundedOn(OpToRel(<, Nat), Nat)
    BY NatLessThanWellFounded
  <2> QED BY <1>1, <2>1, WFMin
<1>3. \A m \in O : n <= m
  <2> HIDE DEF O
  <2>1. n \in Nat /\ \A m \in O : m \in Nat
    BY <1>1
  <2>2. \A m \in O : <<m, n>> \notin OpToRel(<, Nat)
    BY <1>2
  <2>3. \A m \in O : ~(m < n)
    BY <2>1, <2>2 DEF OpToRel
  <2> QED BY <2>1, <2>3
<1>4. PICK t \in S : access_cache[t].order = n
  OBVIOUS
<1>5. \A u \in S : access_cache[t].order <= access_cache[u].order
  BY <1>3, <1>4
<1> QED BY <1>5 DEF Access!Oldest

\* Without the token it is put for, the cache is left a place below its bound.
LEMMA RoomLeft ==
  ASSUME Access!AccessAssumption, AccessInv
  PROVE  Access!Room \subseteq Access!Entries /\ IsFiniteSet(Access!Room) /\ Cardinality(Access!Room) + 1 <= MaxEntries
<1>1. IsFiniteSet(Access!Entries) /\ MaxEntries \in Nat \ {0} /\ Cardinality(Access!Entries) \in Nat /\ Cardinality(Access!Entries) <= MaxEntries
  BY FS_Subset, FS_CardinalityType DEF AccessInv, AccessTyped, Access!AccessAssumption, CacheFits
<1>2. CASE Cardinality(Access!Entries) < MaxEntries
  BY <1>1, <1>2 DEF Access!Room
<1>3. CASE ~(Cardinality(Access!Entries) < MaxEntries)
  <2> DEFINE alive == {t \in Access!Entries : Access!Live(t)}
  <2>1. Access!Room = IF Cardinality(alive) >= MaxEntries THEN alive \ {Access!Oldest(alive)} ELSE alive
    BY <1>3 DEF Access!Room
  <2>2. IsFiniteSet(alive) /\ Cardinality(alive) \in Nat /\ Cardinality(alive) <= Cardinality(Access!Entries)
    BY <1>1, FS_Subset, FS_CardinalityType
  <2>3. CASE Cardinality(alive) >= MaxEntries
    <3>1. alive # {}
      BY <1>1, <2>3, FS_EmptySet
    <3>2. Access!Oldest(alive) \in alive
      <4> HIDE DEF alive
      <4>1. alive \in SUBSET Access!Entries
        BY DEF alive
      <4> QED BY <3>1, <4>1, OldestIsThere
    <3>3. IsFiniteSet(alive \ {Access!Oldest(alive)}) /\ Cardinality(alive \ {Access!Oldest(alive)}) = Cardinality(alive) - 1
      BY <2>2, <3>2, FS_RemoveElement
    <3> HIDE DEF alive
    <3>4. Access!Room = alive \ {Access!Oldest(alive)}
      BY <2>1, <2>3
    <3>5. alive \subseteq Access!Entries
      BY DEF alive
    <3> QED BY <1>1, <2>2, <3>3, <3>4, <3>5
  <2>4. CASE ~(Cardinality(alive) >= MaxEntries)
    <3> HIDE DEF alive
    <3>1. Access!Room = alive /\ alive \subseteq Access!Entries
      BY <2>1, <2>4 DEF alive
    <3> QED BY <1>1, <2>2, <2>4, <3>1
  <2> QED BY <2>3, <2>4
<1> QED BY <1>2, <1>3

\* A put keeps the other entries it leaves as they are, and the bound.
LEMMA PutKeeps ==
  ASSUME Access!AccessAssumption, AccessInv, NEW t \in Tokens, access_now < ExpiresAt[t], access_cache' = Access!Put(t)
  PROVE  /\ Access!Entries' \subseteq Access!Entries \cup {t} /\ Access!Entries' \subseteq Tokens /\ access_cache' \in [Access!Entries' -> Entry]
         /\ \A u \in Access!Entries' \ {t} : access_cache'[u] = access_cache[u]
         /\ t \in Access!Entries' /\ access_cache'[t].deadline = access_now + Ttl
         /\ CacheFits'
<1>1. access_now \in Nat /\ ExpiresAt[t] \in Nat /\ Ttl \in Nat /\ access_now + Ttl \in Nat
  BY DEF AccessInv, AccessTyped, Access!AccessAssumption
<1>2. /\ Access!Entries \subseteq Tokens /\ \A u \in Access!Entries : access_cache[u] \in Entry
      /\ access_cache \in [Access!Entries -> Entry] /\ CacheFits
  BY DEF AccessInv, AccessTyped
<1>3. CASE t \in Access!Entries
  <2>1. access_cache' = [access_cache EXCEPT ![t].deadline = access_now + Ttl]
    BY <1>1, <1>3 DEF Access!Put
  <2>2. Access!Entries' = Access!Entries
    BY <2>1 DEF Access!Entries
  <2>3. \A u \in Access!Entries : access_cache'[u] = IF u = t THEN [access_cache[t] EXCEPT !.deadline = access_now + Ttl] ELSE access_cache[u]
    BY <2>1, <1>2
  <2>4. access_cache'[t].deadline = access_now + Ttl /\ access_cache'[t] \in Entry
    BY <1>1, <1>2, <1>3, <2>3 DEF Entry
  <2>5. access_cache' \in [Access!Entries -> Entry]
    BY <1>2, <2>1, <2>3, <2>4 DEF Access!Entries
  <2> QED BY <1>2, <1>3, <2>2, <2>3, <2>4, <2>5 DEF CacheFits
<1>4. CASE t \notin Access!Entries
  <2>1. /\ Access!Room \subseteq Access!Entries /\ IsFiniteSet(Access!Room) /\ Cardinality(Access!Room) + 1 <= MaxEntries /\ Access!Newest(Access!Room) \in Nat
    BY RoomLeft, NewestTyped
  <2>2. access_cache' = [u \in Access!Room \cup {t} |-> IF u = t THEN [deadline |-> access_now + Ttl, order |-> Access!Newest(Access!Room)] ELSE access_cache[u]]
    BY <1>1, <1>4 DEF Access!Put
  <2>3. Access!Entries' = Access!Room \cup {t}
    BY <2>2 DEF Access!Entries
  <2>4. \A u \in Access!Room \cup {t} : access_cache'[u] = IF u = t THEN [deadline |-> access_now + Ttl, order |-> Access!Newest(Access!Room)] ELSE access_cache[u]
    BY <2>2
  <2>5. access_cache'[t].deadline = access_now + Ttl /\ \A u \in Access!Room \cup {t} : access_cache'[u] \in Entry
    BY <1>1, <1>2, <2>1, <2>4 DEF Entry
  <2>6. access_cache' \in [Access!Entries' -> Entry]
    BY <2>2, <2>3, <2>5
  <2>7. Cardinality(Access!Entries') = Cardinality(Access!Room) + 1
    BY <1>4, <2>1, <2>3, FS_AddElement
  <2> QED BY <1>2, <2>1, <2>3, <2>4, <2>5, <2>6, <2>7 DEF CacheFits
<1> QED BY <1>3, <1>4

-----------------------------------------------------------------------------
(* A request let through: from the cache, or by a full authentication.     *)

LEMMA UseCacheSafe == ASSUME Access!AccessAssumption, AccessInv, NEW r \in Requests, Access!UseCache(r) PROVE AccessInv'
<1>1. /\ access_pc[r] = "new" /\ Access!T(r) \in Access!Entries /\ Access!T(r) \in Tokens /\ access_now < access_cache[Access!T(r)].deadline /\ access_now < ExpiresAt[Access!T(r)]
      /\ Access!Authorised(r)
      /\ UNCHANGED <<access_now, access_revokedAt, access_cache, access_row, access_readAt, access_pending, access_slots, access_threads, access_cancels, access_failures>>
  BY DEF Access!UseCache, Access!Hit, Access!Live, AccessInv, AccessTyped, Access!tokens, Access!gate, Access!budget
<1>2. access_now \in Nat /\ access_now # Never /\ \A q \in Requests : access_servedAt[q] \in Nat /\ access_readAt[q] \in Nat
  BY DEF AccessInv, AccessTyped, Access!AccessAssumption
<1>3. r \notin Served
  BY <1>1 DEF AccessInv, Unexpired, Admitted
<1>4. CASE Access!T(r) \in Scoped
  <2>1. Access!Goto(r, "served") /\ access_servedAt' = [access_servedAt EXCEPT ![r] = access_now] /\ access_audits' = access_audits
    BY <1>1, <1>4 DEF Access!Authorised
  <2>2. \A q \in Requests : access_pc'[q] = IF q = r THEN "served" ELSE access_pc[q]
    BY <2>1, Moves
  <2>3. Counted'
    BY <1>1, <2>1, StayCounts DEF Waiting
  <2>4. access_servedAt' \in [Requests -> Nat] /\ access_servedAt'[r] = access_now /\ (\A q \in Requests \ {r} : access_servedAt'[q] = access_servedAt[q])
    BY <1>2, <2>1 DEF AccessInv, AccessTyped
  <2>5. Served' = Served \cup {r}
    BY <1>2, <1>3, <2>4 DEF Served
  <2>6. \A q \in Requests : \A t \in Tokens : Backs(q, t) => Backs(q, t)' /\ access_servedAt'[q] = access_servedAt[q]
    BY <1>1, <1>3, <2>4, <2>5 DEF Backs, Revoked
  <2>7. CacheBacked' /\ CacheFits'
    BY <1>1, <2>6, ShrunkCache DEF AccessInv, AccessTyped, Access!Entries
  <2>8. ServedBacked'
    <3> SUFFICES ASSUME NEW s \in Served \cup {r}
                 PROVE  \E q \in Requests : Backs(q, Access!T(s))' /\ access_servedAt'[s] <= access_servedAt'[q] + Ttl
      BY <2>5 DEF ServedBacked
    <3>1. CASE s = r
      <4>1. PICK q \in Requests : Backs(q, Access!T(r)) /\ access_cache[Access!T(r)].deadline <= access_servedAt[q] + Ttl
        BY <1>1, <1>4 DEF AccessInv, CacheBacked
      <4>2. access_cache[Access!T(r)].deadline \in Nat /\ Ttl \in Nat /\ access_servedAt[q] \in Nat
        BY <1>1, <1>2 DEF AccessInv, AccessTyped, Entry, Access!AccessAssumption
      <4>3. access_now <= access_servedAt[q] + Ttl
        BY <1>1, <1>2, <4>1, <4>2
      <4> QED BY <1>1, <2>4, <2>6, <3>1, <4>1, <4>3
    <3>2. CASE s # r
      <4>1. s \in Served /\ Access!T(s) \in Tokens /\ \E q \in Requests : Backs(q, Access!T(s)) /\ access_servedAt[s] <= access_servedAt[q] + Ttl
        BY <3>2 DEF AccessInv, ServedBacked, Unexpired
      <4> QED BY <2>4, <2>6, <3>2, <4>1 DEF Served
    <3> QED BY <3>1, <3>2
  <2>9. Unexpired' /\ Past' /\ RowsTrue'
    <3>1. Unexpired'
      <4> SUFFICES ASSUME NEW s \in Served \cup {r}
                   PROVE  /\ access_pc'[s] \in Admitted /\ Access!T(s) \in Tokens /\ access_servedAt'[s] <= access_now /\ access_servedAt'[s] < ExpiresAt[Access!T(s)]
        BY <1>1, <2>5 DEF Unexpired
      <4> QED BY <1>1, <1>2, <2>2, <2>4 DEF AccessInv, Unexpired, Admitted, Served
    <3>2. Past' /\ RowsTrue'
      BY <1>1, <2>2 DEF AccessInv, Past, Revoked, RowsTrue, RowTrue
    <3> QED BY <3>1, <3>2
  <2>10. AccessTyped' /\ Credentialed' /\ AuditLines'
    BY <1>1, <2>1, <2>2, <2>4 DEF AccessInv, AccessTyped, Access!Goto, Stages, Admitted, Credentialed, Known, AuditLines, Access!Entries
  <2> QED BY <2>3, <2>7, <2>8, <2>9, <2>10 DEF AccessInv
<1>5. CASE Access!T(r) \notin Scoped
  <2>1. Access!Goto(r, "rejected") /\ Access!Record(r) /\ access_servedAt' = access_servedAt
    BY <1>1, <1>5 DEF Access!Authorised, Access!Reject
  <2>2. \A q \in Requests : access_pc'[q] = IF q = r THEN "rejected" ELSE access_pc[q]
    BY <2>1, Moves
  <2>3. Counted'
    BY <1>1, <2>1, StayCounts DEF Waiting
  <2>4. Unexpired' /\ Past' /\ RowsTrue' /\ ServedBacked' /\ \A q \in Requests : \A t : Backs(q, t) => Backs(q, t)'
    BY <1>1, <2>1, QuietHistory DEF Admitted
  <2>5. CacheBacked' /\ CacheFits'
    BY <1>1, <2>1, <2>4, ShrunkCache DEF AccessInv, AccessTyped, Access!Entries
  <2>6. AccessTyped' /\ Credentialed' /\ AuditLines'
    BY <1>1, <2>1, <2>2 DEF AccessInv, AccessTyped, Access!Goto, Access!Record, Stages, Credentialed, AuditLines, Access!Entries
  <2> QED BY <2>3, <2>4, <2>5, <2>6 DEF AccessInv
<1> QED BY <1>4, <1>5

\* A rejected decision, or a valid one without the scope.
LEMMA DecideRejects ==
  ASSUME Access!AccessAssumption, AccessInv, NEW r \in Requests, Access!Decide(r), ~(Access!Valid(r) /\ Access!T(r) \in Scoped)
  PROVE  AccessInv'
<1>1. /\ access_pc[r] = "hashing" /\ access_threads' = access_threads \ {r} /\ Access!Leave(access_pc[r] # "waiting")
      /\ Access!Goto(r, "rejected") /\ Access!Record(r) /\ access_servedAt' = access_servedAt
      /\ UNCHANGED <<access_now, access_revokedAt, access_row, access_readAt, access_cancels, access_failures>>
  BY DEF Access!Decide, Access!Authorised, Access!Reject, Access!Leave, Access!tokens, Access!budget
<1>2. \A q \in Requests : access_pc'[q] = IF q = r THEN "rejected" ELSE access_pc[q]
  BY <1>1, Moves
<1>3. Counted' /\ access_pending' \in Nat /\ access_slots' \in Nat
  BY <1>1, LeaveCounts DEF Waiting
<1>4. Unexpired' /\ Past' /\ RowsTrue' /\ ServedBacked' /\ \A q \in Requests : \A t : Backs(q, t) => Backs(q, t)'
  BY <1>1, QuietHistory DEF Admitted
<1>5. CacheBacked' /\ CacheFits' /\ Access!Entries' \subseteq Tokens /\ access_cache' \in [Access!Entries' -> Entry]
  <2>1. CASE access_cache' = access_cache
    BY <1>1, <1>4, <2>1, ShrunkCache DEF AccessInv, AccessTyped, Access!Entries
  <2>2. CASE access_cache' # access_cache
    <3>1. Access!Valid(r) /\ access_cache' = Access!Put(Access!T(r)) /\ Access!T(r) \notin Scoped
      BY <2>2 DEF Access!Decide
    <3>2. Access!T(r) \in Tokens /\ access_now < ExpiresAt[Access!T(r)]
      BY <1>1, <3>1 DEF Access!Valid, AccessInv, Credentialed, Known
    <3>3. /\ Access!Entries' \subseteq Access!Entries \cup {Access!T(r)} /\ Access!Entries' \subseteq Tokens /\ access_cache' \in [Access!Entries' -> Entry]
          /\ \A u \in Access!Entries' \ {Access!T(r)} : access_cache'[u] = access_cache[u]
          /\ CacheFits'
      BY <3>1, <3>2, PutKeeps
    <3>4. CacheBacked'
      <4> SUFFICES ASSUME NEW t \in Access!Entries' \cap Scoped
                   PROVE  \E q \in Requests : Backs(q, t)' /\ access_cache'[t].deadline <= access_servedAt'[q] + Ttl
        BY DEF CacheBacked
      <4>1. t \in Access!Entries \cap Scoped /\ access_cache'[t] = access_cache[t]
        BY <3>1, <3>3
      <4> QED BY <1>1, <1>4, <4>1 DEF AccessInv, CacheBacked
    <3> QED BY <3>3, <3>4
  <2> QED BY <2>1, <2>2
<1>6. AccessTyped' /\ Credentialed' /\ AuditLines'
  BY <1>1, <1>2, <1>3, <1>5 DEF AccessInv, AccessTyped, Access!Goto, Access!Record, Stages, Credentialed, AuditLines
<1> QED BY <1>3, <1>4, <1>5, <1>6 DEF AccessInv

\* A full authentication backs itself: its lookup saw no revocation.
LEMMA DecideServes ==
  ASSUME Access!AccessAssumption, AccessInv, NEW r \in Requests, Access!Decide(r), Access!Valid(r), Access!T(r) \in Scoped
  PROVE  AccessInv'
<1>1. /\ access_pc[r] = "hashing" /\ access_threads' = access_threads \ {r} /\ Access!Leave(access_pc[r] # "waiting")
      /\ Access!Goto(r, "served") /\ access_servedAt' = [access_servedAt EXCEPT ![r] = access_now] /\ access_audits' = access_audits
      /\ access_cache' = (IF Cached THEN Access!Put(Access!T(r)) ELSE access_cache)
      /\ UNCHANGED <<access_now, access_revokedAt, access_row, access_readAt, access_cancels, access_failures>>
  BY DEF Access!Decide, Access!Authorised, Access!Leave, Access!tokens, Access!budget
<1>2. /\ access_now \in Nat /\ access_now # Never /\ Ttl \in Nat
      /\ \A q \in Requests : access_servedAt[q] \in Nat /\ access_readAt[q] \in Nat /\ access_row[q] \in Nat
  BY DEF AccessInv, AccessTyped, Access!AccessAssumption
<1>3. r \notin Served /\ Access!T(r) \in Tokens /\ access_now < ExpiresAt[Access!T(r)]
  BY <1>1 DEF AccessInv, Unexpired, Admitted, Access!Valid, Credentialed, Known
<1>4. \A q \in Requests : access_pc'[q] = IF q = r THEN "served" ELSE access_pc[q]
  BY <1>1, Moves
<1>5. Counted' /\ access_pending' \in Nat /\ access_slots' \in Nat
  BY <1>1, LeaveCounts DEF Waiting
<1>6. access_servedAt' \in [Requests -> Nat] /\ access_servedAt'[r] = access_now /\ (\A q \in Requests \ {r} : access_servedAt'[q] = access_servedAt[q])
  BY <1>1, <1>2 DEF AccessInv, AccessTyped
<1>7. Served' = Served \cup {r}
  BY <1>2, <1>3, <1>6 DEF Served
<1>8. \A q \in Requests : \A t \in Tokens : Backs(q, t) => Backs(q, t)' /\ access_servedAt'[q] = access_servedAt[q]
  BY <1>1, <1>3, <1>6, <1>7 DEF Backs, Revoked
<1>9. Backs(r, Access!T(r))'
  <2>1. RowTrue(r)
    BY <1>1 DEF AccessInv, RowsTrue
  <2>2. access_row[r] = Never
    BY <1>2, <2>1 DEF RowTrue, Access!Valid
  <2> QED BY <1>1, <1>3, <1>7, <2>1, <2>2 DEF RowTrue, Backs, Revoked
<1>10. CacheBacked' /\ CacheFits' /\ Access!Entries' \subseteq Tokens /\ access_cache' \in [Access!Entries' -> Entry]
  <2>1. CASE ~Cached
    BY <1>1, <1>8, <2>1, ShrunkCache DEF AccessInv, AccessTyped, Access!Entries
  <2>2. CASE Cached
    <3>1. /\ Access!Entries' \subseteq Access!Entries \cup {Access!T(r)} /\ Access!Entries' \subseteq Tokens /\ access_cache' \in [Access!Entries' -> Entry]
          /\ \A u \in Access!Entries' \ {Access!T(r)} : access_cache'[u] = access_cache[u]
          /\ access_cache'[Access!T(r)].deadline = access_now + Ttl
          /\ CacheFits'
      BY <1>1, <1>3, <2>2, PutKeeps
    <3>2. CacheBacked'
      <4> SUFFICES ASSUME NEW t \in Access!Entries' \cap Scoped
                   PROVE  \E q \in Requests : Backs(q, t)' /\ access_cache'[t].deadline <= access_servedAt'[q] + Ttl
        BY DEF CacheBacked
      <4>1. CASE t = Access!T(r)
        <5>1. access_cache'[t].deadline <= access_servedAt'[r] + Ttl
          BY <1>2, <1>6, <3>1, <4>1
        <5> QED BY <1>9, <4>1, <5>1
      <4>2. CASE t # Access!T(r)
        <5>1. t \in Access!Entries \cap Scoped /\ t \in Tokens /\ access_cache'[t] = access_cache[t]
          BY <3>1, <4>2
        <5> QED BY <1>8, <5>1 DEF AccessInv, CacheBacked
      <4> QED BY <4>1, <4>2
    <3> QED BY <3>1, <3>2
  <2> QED BY <2>1, <2>2
<1>11. ServedBacked'
  <2> SUFFICES ASSUME NEW s \in Served \cup {r}
               PROVE  \E q \in Requests : Backs(q, Access!T(s))' /\ access_servedAt'[s] <= access_servedAt'[q] + Ttl
    BY <1>7 DEF ServedBacked
  <2>1. CASE s = r
    BY <1>2, <1>6, <1>9, <2>1
  <2>2. CASE s # r
    <3>1. s \in Served /\ Access!T(s) \in Tokens /\ \E q \in Requests : Backs(q, Access!T(s)) /\ access_servedAt[s] <= access_servedAt[q] + Ttl
      BY <2>2 DEF AccessInv, ServedBacked, Unexpired
    <3> QED BY <1>6, <1>8, <2>2, <3>1 DEF Served
  <2> QED BY <2>1, <2>2
<1>12. Unexpired'
  <2> SUFFICES ASSUME NEW s \in Served \cup {r}
               PROVE  /\ access_pc'[s] \in Admitted /\ Access!T(s) \in Tokens /\ access_servedAt'[s] <= access_now /\ access_servedAt'[s] < ExpiresAt[Access!T(s)]
    BY <1>1, <1>7 DEF Unexpired
  <2> QED BY <1>2, <1>3, <1>4, <1>6 DEF AccessInv, Unexpired, Admitted, Served
<1>13. Past' /\ RowsTrue'
  BY <1>1, <1>4 DEF AccessInv, Past, Revoked, RowsTrue, RowTrue
<1>14. AccessTyped' /\ Credentialed' /\ AuditLines'
  BY <1>1, <1>3, <1>4, <1>5, <1>6, <1>10 DEF AccessInv, AccessTyped, Access!Goto, Stages, Admitted, Credentialed, Known, AuditLines
<1> QED BY <1>5, <1>10, <1>11, <1>12, <1>13, <1>14 DEF AccessInv

-----------------------------------------------------------------------------
LEMMA AccessStarts == ASSUME Access!AccessAssumption, Access!Init PROVE AccessInv
<1>1. Access!Inside = {} /\ Access!Holding = {} /\ Access!Entries = {} /\ Served = {}
  BY DEF Access!Init, Access!Inside, Access!Holding, Access!Entries, Served
<1>2. Counted /\ CacheFits
  BY <1>1, FS_EmptySet DEF Counted, CacheFits, Access!Init, Access!AccessAssumption
<1>3. AccessTyped
  BY <1>1 DEF Access!Init, AccessTyped, Access!AccessAssumption, Stages, Access!Entries
<1> QED BY <1>1, <1>2, <1>3 DEF AccessInv, Access!Init, Credentialed, AuditLines, Unexpired, Past, Revoked, RowsTrue,
                                CacheBacked, ServedBacked

LEMMA AccessKeeps == ASSUME Access!AccessAssumption, AccessInv, [Access!Next]_(Access!vars) PROVE AccessInv'
<1>1. CASE \E r \in Requests : Access!Refuse(r) \/ Access!UseCache(r) \/ Access!Overloaded(r) \/ Access!Enter(r)
  BY <1>1, AccessRefuseSafe, UseCacheSafe, OverloadedSafe, EnterSafe
<1>2. CASE \E r \in Requests : Access!TakeSlot(r) \/ Access!Lookup(r) \/ Access!LookupFails(r) \/ Access!Cancel(r)
  BY <1>2, AccessTakeSlotSafe, LookupSafe, LookupFailsSafe, AccessCancelSafe
<1>3. CASE \E r \in Requests : Access!Decide(r)
  BY <1>3, DecideServes, DecideRejects
<1>4. CASE \E r \in Requests : Access!Respond(r) \/ Access!Finish(r)
  BY <1>4, RespondSafe
<1>5. CASE \E t \in Tokens : Access!Revoke(t)
  BY <1>5, AccessRevokeSafe
<1>6. CASE Access!Tick \/ (\E r \in Requests : Access!AbandonedHashEnds(r)) \/ UNCHANGED Access!vars
  BY <1>6, TickSafe
<1> QED BY <1>1, <1>2, <1>3, <1>4, <1>5, <1>6 DEF Access!Next

(* The inductive invariant of authentication, in every behaviour.          *)
THEOREM AccessIsSafe == ASSUME Access!AccessAssumption PROVE Access!Spec => []AccessInv
<1>1. Access!Init => AccessInv
  BY AccessStarts
<1>2. AccessInv /\ [Access!Next]_(Access!vars) => AccessInv'
  BY AccessKeeps
<1> QED BY <1>1, <1>2, PTL DEF Access!Spec

(* auth.py and protocol_guard.py: no request is let through at or after the *)
(* expiry of its token, however long its hash took or its entry was cached. *)
THEOREM ExpiryIsNeverOutlived == ASSUME Access!AccessAssumption PROVE Access!Spec => []Access!NeverExpired
<1>1. AccessInv => Access!NeverExpired
  BY DEF AccessInv, Unexpired, Served, Access!NeverExpired
<1> QED BY <1>1, AccessIsSafe, PTL

(* auth.py: a token let through after its revocation is within the cache's *)
(* TTL of a full authentication that looked it up before the revocation.   *)
THEOREM RevocationIsBounded == ASSUME Access!AccessAssumption PROVE Access!Spec => []Access!RevocationBound
<1>1. AccessInv => Access!RevocationBound
  <2> SUFFICES ASSUME AccessInv, NEW r \in Requests, access_servedAt[r] # Never, access_revokedAt[Access!T(r)] # Never
               PROVE  \E q \in Requests : /\ Access!T(q) = Access!T(r) /\ access_readAt[q] # Never /\ access_servedAt[q] # Never
                                          /\ access_readAt[q] <= access_revokedAt[Access!T(r)] /\ access_servedAt[r] <= access_servedAt[q] + Ttl
    BY DEF Access!RevocationBound
  <2>1. PICK q \in Requests : Backs(q, Access!T(r)) /\ access_servedAt[r] <= access_servedAt[q] + Ttl
    BY DEF AccessInv, ServedBacked, Served
  <2> QED BY <2>1 DEF Backs, Served, Revoked
<1> QED BY <1>1, AccessIsSafe, PTL

(* principal_cache.py: the cache never exceeds its bound, whichever entries *)
(* expire and whichever is the oldest when one more is put.                *)
THEOREM CacheStaysBounded == ASSUME Access!AccessAssumption PROVE Access!Spec => []Access!CacheBounded
<1>1. AccessInv => Access!CacheBounded
  BY DEF AccessInv, CacheFits, Access!CacheBounded
<1> QED BY <1>1, AccessIsSafe, PTL

(* bearer.py: the admission's counters are those of the requests inside,   *)
(* after every cancellation, failed lookup and refusal.                    *)
THEOREM AdmissionIsBalanced == ASSUME Access!AccessAssumption PROVE Access!Spec => []Access!AdmissionBalanced
<1>1. Access!AccessAssumption /\ AccessInv => Access!AdmissionBalanced
  <2> SUFFICES ASSUME Access!AccessAssumption, AccessInv PROVE Access!AdmissionBalanced
    OBVIOUS
  <2>1. MaxConcurrency \in Nat
    BY DEF Access!AccessAssumption
  <2> QED BY <2>1, Sizes DEF Access!AdmissionBalanced
<1> QED BY <1>1, AccessIsSafe, PTL

(* protocol_guard.py: whatever ends a request, it is audited once.         *)
THEOREM RequestsAreAuditedOnce == ASSUME Access!AccessAssumption PROVE Access!Spec => []Access!AuditedOnce
<1>1. AccessInv => Access!AuditedOnce
  BY DEF AccessInv, AuditLines, Access!AuditedOnce
<1> QED BY <1>1, AccessIsSafe, PTL

HIDE AccessSets

-----------------------------------------------------------------------------
\* Migration jobs that race for the advisory lock, and may be killed.
Migrations == INSTANCE Migrate WITH
  db <- job_db, ran <- job_ran, lock <- job_lock, pc <- job_pc, before <- job_before,
  work <- job_work, report <- job_report, faults <- job_faults

(***************************************************************************)
(* Migration jobs.  A job works on the database only while it holds the    *)
(* lock, so what it read when it took the lock still holds.                *)
(***************************************************************************)
Working == {"locked", "upgrade", "check"}
MigrationsPlaces == Migrations!Ended \cup Working \cup {"new", "wait"}

JobsTyped ==
  /\ job_db \in Nat /\ job_ran \in Seq(Nat \X Jobs) /\ job_lock \in Jobs \cup {None}
  /\ job_pc \in [Jobs -> MigrationsPlaces] /\ job_before \in [Jobs -> Nat] /\ job_work \in [Jobs -> Nat]
  /\ job_report \in [Jobs -> BOOLEAN \cup {None}] /\ job_faults \in Nat

LockIsHeld == \A j \in Jobs : job_pc[j] \in Working <=> job_lock = j

\* The chain as it ran: one entry per revision, in order.
ChainRan == /\ Empty <= job_db /\ Len(job_ran) = job_db - Empty
            /\ \A i \in 1..Len(job_ran) : job_ran[i][1] = Empty + i

\* What a job that holds the lock knows of the database.
Upgrading == \A j \in Jobs : job_pc[j] = "upgrade" =>
               job_before[j] = job_db /\ job_before[j] < HeadOf[j] /\ job_before[j] <= job_work[j] /\ job_work[j] <= HeadOf[j]

\* A job ran nothing until it committed.
Uncommitted == {"new", "wait", "locked", "upgrade", "mismatch", "lock_timeout", "unknown"}
NothingYet == \A j \in Jobs : job_pc[j] \in Uncommitted => \A i \in 1..Len(job_ran) : job_ran[i][2] # j

\* A job that reached its head ran exactly what lay above the revision it read.
Owns(j) == /\ Empty <= job_before[j] /\ job_before[j] <= HeadOf[j] /\ HeadOf[j] <= job_db
           /\ \A i \in 1..Len(job_ran) : job_ran[i][2] = j <=> job_before[j] < job_ran[i][1] /\ job_ran[i][1] <= HeadOf[j]

AtItsHead == \A j \in Jobs : job_pc[j] \in {"check", "done"} => Owns(j)

Reported == \A j \in Jobs : job_report[j] # None => job_pc[j] = "done" /\ (job_report[j] <=> job_before[j] # HeadOf[j])

JobsInv == JobsTyped /\ LockIsHeld /\ ChainRan /\ Upgrading /\ NothingYet /\ AtItsHead /\ Reported

LEMMA JobsStart == ASSUME Migrations!MigrateAssumption, Migrations!Init PROVE JobsInv
<1> USE DEF Migrations!Init, Migrations!MigrateAssumption
<1>1. JobsTyped
  BY DEF JobsTyped, MigrationsPlaces
<1>2. LockIsHeld /\ ChainRan /\ Upgrading /\ NothingYet /\ AtItsHead /\ Reported
  BY DEF LockIsHeld, Working, ChainRan, Upgrading, NothingYet, AtItsHead, Reported
<1> QED BY <1>1, <1>2 DEF JobsInv

\* A step of j that runs no migration and reports nothing keeps what the
\* jobs ran, as long as j itself comes to no place that promises something.
LEMMA QuietStep ==
  ASSUME Migrations!MigrateAssumption, JobsInv, NEW j \in Jobs, NEW place \in MigrationsPlaces, Migrations!Goto(j, place),
         UNCHANGED <<job_db, job_ran, job_report>>,
         job_before' \in [Jobs -> Nat], \A k \in Jobs \ {j} : job_before'[k] = job_before[k],
         job_report[j] = None,
         place \in {"check", "done"} => Owns(j)',
         place \in Uncommitted => job_pc[j] \in Uncommitted
  PROVE  ChainRan' /\ NothingYet' /\ AtItsHead' /\ Reported'
<1> USE DEF JobsInv
<1>1. \A k \in Jobs : job_pc'[k] = IF k = j THEN place ELSE job_pc[k]
  BY DEF Migrations!Goto, JobsTyped
<1>2. ChainRan'
  BY DEF ChainRan
<1>3. NothingYet'
  BY <1>1 DEF NothingYet
<1>4. AtItsHead'
  BY <1>1 DEF AtItsHead, Owns
<1>5. Reported'
  BY <1>1 DEF Reported
<1> QED BY <1>2, <1>3, <1>4, <1>5

LEMMA NoReportYet == ASSUME JobsInv, NEW j \in Jobs, job_pc[j] # "done" PROVE job_report[j] = None
BY DEF JobsInv, Reported

LEMMA BeginSafe == ASSUME Migrations!MigrateAssumption, JobsInv, NEW j \in Jobs, Migrations!Begin(j) PROVE JobsInv'
<1> USE DEF Migrations!Begin
<1> DEFINE place == IF j \in Expected THEN "wait" ELSE "mismatch"
<1>1. place \in {"wait", "mismatch"} /\ Migrations!Goto(j, place) /\ job_pc[j] = "new"
  OBVIOUS
<1> HIDE DEF place
<1>2. ChainRan' /\ NothingYet' /\ AtItsHead' /\ Reported'
  BY <1>1, QuietStep, NoReportYet DEF JobsInv, JobsTyped, MigrationsPlaces, Migrations!Ended, Uncommitted
<1>3. JobsTyped' /\ LockIsHeld' /\ Upgrading'
  BY <1>1 DEF JobsInv, JobsTyped, LockIsHeld, Upgrading, Migrations!Goto, MigrationsPlaces, Migrations!Ended, Working
<1> QED BY <1>2, <1>3 DEF JobsInv

LEMMA WaitSafe == ASSUME Migrations!MigrateAssumption, JobsInv, NEW j \in Jobs, Migrations!Acquire(j) \/ Migrations!LockTimeout(j) PROVE JobsInv'
<1>1. PICK place \in {"locked", "lock_timeout"} :
        /\ job_pc[j] = "wait" /\ Migrations!Goto(j, place)
        /\ place = "locked" => job_lock = None /\ job_lock' = j
        /\ place = "lock_timeout" => job_lock' = job_lock
        /\ UNCHANGED <<job_db, job_ran, job_before, job_work, job_report, job_faults>>
  BY DEF Migrations!Acquire, Migrations!LockTimeout
<1>2. ChainRan' /\ NothingYet' /\ AtItsHead' /\ Reported'
  BY <1>1, QuietStep, NoReportYet DEF JobsInv, JobsTyped, MigrationsPlaces, Working, Migrations!Ended, Uncommitted
<1>3. JobsTyped' /\ LockIsHeld' /\ Upgrading'
  BY <1>1 DEF JobsInv, JobsTyped, LockIsHeld, Upgrading, Migrations!Goto, MigrationsPlaces, Migrations!Ended, Working, Migrations!MigrateAssumption
<1> QED BY <1>2, <1>3 DEF JobsInv

\* Giving the lock back leaves nobody at work.
LEMMA Released ==
  ASSUME Migrations!MigrateAssumption, JobsInv, NEW j \in Jobs, NEW place \in Migrations!Ended, Migrations!Release(j, place)
  PROVE  job_lock' \in Jobs \cup {None} /\ LockIsHeld' /\ \A k \in Jobs : job_pc'[k] = IF k = j THEN place ELSE job_pc[k]
BY DEF JobsInv, JobsTyped, LockIsHeld, Migrations!Release, Migrations!Goto, Working, Migrations!Ended, Migrations!MigrateAssumption

LEMMA ReadStateSafe == ASSUME Migrations!MigrateAssumption, JobsInv, NEW j \in Jobs, Migrations!ReadState(j) PROVE JobsInv'
<1> USE DEF JobsInv
<1>1. job_pc[j] = "locked" /\ job_lock = j /\ job_db \in Nat /\ HeadOf[j] \in Nat \ {0} /\ Empty <= job_db /\ job_report[j] = None
  BY NoReportYet DEF Migrations!ReadState, LockIsHeld, Working, JobsTyped, Migrations!MigrateAssumption, ChainRan
<1>2. /\ job_before' = [job_before EXCEPT ![j] = job_db] /\ job_work' = [job_work EXCEPT ![j] = job_db]
      /\ UNCHANGED <<job_db, job_ran, job_report, job_faults>>
  BY DEF Migrations!ReadState
<1>3. /\ job_before' \in [Jobs -> Nat] /\ job_work' \in [Jobs -> Nat] /\ job_before'[j] = job_db /\ job_work'[j] = job_db
      /\ \A k \in Jobs \ {j} : job_before'[k] = job_before[k] /\ job_work'[k] = job_work[k]
  BY <1>1, <1>2 DEF JobsTyped
<1>4. CASE Migrations!State(job_db, HeadOf[j]) = "unknown"
  <2>1. Migrations!Release(j, "unknown")
    BY <1>4 DEF Migrations!ReadState
  <2>2. ChainRan' /\ NothingYet' /\ AtItsHead' /\ Reported'
    BY <1>1, <1>2, <1>3, <2>1, QuietStep DEF Migrations!Release, MigrationsPlaces, Migrations!Ended, Uncommitted
  <2>3. LockIsHeld' /\ job_lock' \in Jobs \cup {None} /\ \A k \in Jobs : job_pc'[k] = IF k = j THEN "unknown" ELSE job_pc[k]
    BY <2>1, Released DEF Migrations!Ended
  <2>4. JobsTyped'
    BY <1>2, <1>3, <2>1, <2>3 DEF JobsTyped, Migrations!Release, Migrations!Goto, MigrationsPlaces, Migrations!Ended
  <2>5. Upgrading'
    BY <1>2, <1>3, <2>3 DEF Upgrading
  <2> QED BY <2>2, <2>3, <2>4, <2>5
<1>5. CASE Migrations!State(job_db, HeadOf[j]) = "at_head"
  <2>1. Migrations!Goto(j, "check") /\ UNCHANGED job_lock /\ job_db = HeadOf[j]
    BY <1>5 DEF Migrations!ReadState, Migrations!State, Migrations!Known
  <2>2. Owns(j)'
    <3>1. \A i \in 1..Len(job_ran) : job_ran[i][2] # j /\ job_ran[i][1] = Empty + i
      BY <1>1 DEF NothingYet, Uncommitted, ChainRan
    <3>2. job_before'[j] = HeadOf[j] /\ job_db' = HeadOf[j] /\ job_ran' = job_ran /\ HeadOf[j] \in Nat /\ Empty \in Nat
      BY <1>1, <1>2, <1>3, <2>1 DEF Migrations!MigrateAssumption
    <3>3. \A i \in 1..Len(job_ran') : job_ran'[i][2] # j /\ ~(job_before'[j] < job_ran'[i][1] /\ job_ran'[i][1] <= HeadOf[j])
      <4> SUFFICES ASSUME NEW i \in 1..Len(job_ran) PROVE job_ran[i][2] # j /\ ~(HeadOf[j] < job_ran[i][1] /\ job_ran[i][1] <= HeadOf[j])
        BY <3>2
      <4>1. Len(job_ran) \in Nat /\ i \in Nat /\ job_ran[i][1] = Empty + i /\ Empty + i \in Nat
        BY <3>1, <3>2 DEF ChainRan, JobsTyped
      <4> QED BY <3>1, <3>2, <4>1
    <3> QED BY <1>1, <2>1, <3>2, <3>3 DEF Owns
  <2>3. ChainRan' /\ NothingYet' /\ AtItsHead' /\ Reported'
    BY <1>1, <1>2, <1>3, <2>1, <2>2, QuietStep DEF MigrationsPlaces, Working, Uncommitted
  <2>4. JobsTyped' /\ LockIsHeld'
    BY <1>1, <1>2, <1>3, <2>1 DEF JobsTyped, LockIsHeld, Migrations!Goto, MigrationsPlaces, Working
  <2>5. Upgrading'
    BY <1>2, <1>3, <2>1 DEF Upgrading, Migrations!Goto, JobsTyped
  <2> QED BY <2>3, <2>4, <2>5
<1>6. CASE Migrations!State(job_db, HeadOf[j]) \notin {"unknown", "at_head"}
  <2>1. Migrations!Goto(j, "upgrade") /\ UNCHANGED job_lock
    BY <1>6 DEF Migrations!ReadState
  <2>2. job_db < HeadOf[j]
    BY <1>1, <1>6 DEF Migrations!State, Migrations!Known
  <2>3. ChainRan' /\ NothingYet' /\ AtItsHead' /\ Reported'
    BY <1>1, <1>2, <1>3, <2>1, QuietStep DEF MigrationsPlaces, Working, Uncommitted
  <2>4. JobsTyped' /\ LockIsHeld'
    BY <1>1, <1>2, <1>3, <2>1 DEF JobsTyped, LockIsHeld, Migrations!Goto, MigrationsPlaces, Working
  <2>5. Upgrading'
    BY <1>1, <1>2, <1>3, <2>1, <2>2 DEF Upgrading, Migrations!Goto, JobsTyped
  <2> QED BY <2>3, <2>4, <2>5
<1> QED BY <1>4, <1>5, <1>6

LEMMA RunScriptSafe == ASSUME Migrations!MigrateAssumption, JobsInv, NEW j \in Jobs, Migrations!RunScript(j) PROVE JobsInv'
<1> USE DEF JobsInv, Migrations!RunScript
<1>1. JobsTyped' /\ LockIsHeld' /\ ChainRan' /\ NothingYet' /\ Reported'
  BY DEF JobsTyped, LockIsHeld, ChainRan, NothingYet, Reported
<1>2. AtItsHead'
  BY DEF AtItsHead, Owns
<1>3. Upgrading'
  BY DEF Upgrading, JobsTyped, Migrations!MigrateAssumption
<1> QED BY <1>1, <1>2, <1>3

-----------------------------------------------------------------------------
(* The commit of a job, alone or as it is interrupted.                     *)

LEMMA MigrationsCommitted ==
  ASSUME Migrations!MigrateAssumption, JobsInv, NEW j \in Jobs, job_pc[j] = "upgrade", Migrations!Applied(j), job_before' = job_before,
         job_report' = job_report, NEW place \in {"check", "interrupted"}, Migrations!Goto(j, place)
  PROVE  /\ job_db' \in Nat /\ job_ran' \in Seq(Nat \X Jobs)
         /\ ChainRan' /\ NothingYet' /\ AtItsHead' /\ Reported' /\ Upgrading'
<1> USE DEF JobsInv
<1>1. /\ job_before[j] = job_db /\ job_db < HeadOf[j] /\ job_db \in Nat /\ HeadOf[j] \in Nat /\ Empty \in Nat /\ Empty <= job_db
      /\ job_lock = j /\ Len(job_ran) = job_db - Empty /\ job_ran \in Seq(Nat \X Jobs) /\ Len(job_ran) \in Nat
  BY DEF Upgrading, JobsTyped, Migrations!MigrateAssumption, ChainRan, LockIsHeld, Working
<1> DEFINE n == HeadOf[j] - job_db
           more == [i \in 1..n |-> <<job_db + i, j>>]
<1>11. /\ job_db < HeadOf[j] /\ job_db \in Nat /\ HeadOf[j] \in Nat /\ Empty \in Nat /\ Empty <= job_db
       /\ Len(job_ran) = job_db - Empty /\ Len(job_ran) \in Nat
  BY <1>1
<1>2. n \in Nat /\ job_db + n = HeadOf[j]
  BY ONLY <1>11
<1>3. job_ran' = job_ran \o more /\ job_db' = HeadOf[j]
  BY <1>1 DEF Migrations!Applied
<1> HIDE DEF n
<1>21. more \in [1..n -> Nat \X Jobs] /\ \A i \in 1..n : more[i] = <<job_db + i, j>>
  BY <1>1, <1>2
<1> HIDE DEF more
<1>22. more \in Seq(Nat \X Jobs) /\ Len(more) = n
  BY <1>2, <1>21
<1>4. /\ job_ran' \in Seq(Nat \X Jobs) /\ Len(job_ran') = HeadOf[j] - Empty
      /\ \A i \in 1..Len(job_ran) : job_ran'[i] = job_ran[i]
      /\ \A i \in (Len(job_ran) + 1)..Len(job_ran') : job_ran'[i] = <<Empty + i, j>>
  <2>1. job_ran' \in Seq(Nat \X Jobs) /\ Len(job_ran') = Len(job_ran) + n
    BY <1>1, <1>2, <1>22, <1>3, ConcatProperties
  <2>2. \A i \in 1..(Len(job_ran) + n) : job_ran'[i] = IF i <= Len(job_ran) THEN job_ran[i] ELSE more[i - Len(job_ran)]
    BY <1>1, <1>2, <1>22, <1>3, ConcatProperties
  <2>3. ASSUME NEW i \in (Len(job_ran) + 1)..Len(job_ran') PROVE job_ran'[i] = <<Empty + i, j>>
    <3>1. i - Len(job_ran) \in 1..n /\ ~(i <= Len(job_ran)) /\ i \in 1..(Len(job_ran) + n) /\ job_db + (i - Len(job_ran)) = Empty + i
      <4>1. i \in Nat /\ Len(job_ran) + 1 <= i /\ i <= Len(job_ran) + n
        BY <1>2, <1>11, <2>1, <2>3
      <4> QED BY ONLY <1>2, <1>11, <4>1
    <3> QED BY <1>21, <2>2, <3>1
  <2>4. \A i \in 1..Len(job_ran) : job_ran'[i] = job_ran[i]
    <3> SUFFICES ASSUME NEW i \in 1..Len(job_ran) PROVE job_ran'[i] = job_ran[i]
      OBVIOUS
    <3>1. i \in 1..(Len(job_ran) + n) /\ i <= Len(job_ran)
      BY <1>1, <1>2
    <3> QED BY <2>2, <3>1
  <2>5. Len(job_ran') = HeadOf[j] - Empty
    BY <1>1, <1>2, <2>1
  <2> QED BY <2>1, <2>3, <2>4, <2>5
<1>5. \A k \in Jobs : job_pc'[k] = IF k = j THEN place ELSE job_pc[k]
  BY DEF Migrations!Goto, JobsTyped
<1>6. ChainRan'
  <2>1. ASSUME NEW i \in 1..Len(job_ran') PROVE job_ran'[i][1] = Empty + i
    <3>1. CASE i \in 1..Len(job_ran)
      BY <1>4, <3>1 DEF ChainRan
    <3>2. CASE i \in (Len(job_ran) + 1)..Len(job_ran')
      BY <1>4, <3>2
    <3> QED BY <1>1, <1>4, <3>1, <3>2
  <2>2. Empty <= HeadOf[j]
    BY ONLY <1>11
  <2> QED BY <1>3, <1>4, <2>1, <2>2 DEF ChainRan
<1>7. NothingYet'
  <2> SUFFICES ASSUME NEW k \in Jobs, job_pc'[k] \in Uncommitted, NEW i \in 1..Len(job_ran') PROVE job_ran'[i][2] # k
    BY DEF NothingYet
  <2>1. k # j /\ job_pc[k] \in Uncommitted
    BY <1>5 DEF Uncommitted
  <2>2. CASE i \in 1..Len(job_ran)
    BY <1>4, <2>1, <2>2 DEF NothingYet
  <2>3. CASE i \in (Len(job_ran) + 1)..Len(job_ran')
    BY <1>4, <2>1, <2>3
  <2> QED BY <1>1, <1>4, <2>2, <2>3
<1>8. AtItsHead'
  <2> SUFFICES ASSUME NEW k \in Jobs, job_pc'[k] \in {"check", "done"} PROVE Owns(k)'
    BY DEF AtItsHead
  <2>1. CASE k = j
    <3>1. ASSUME NEW i \in 1..Len(job_ran')
          PROVE  job_ran'[i][2] = j <=> job_before[j] < job_ran'[i][1] /\ job_ran'[i][1] <= HeadOf[j]
      <4>1. CASE i \in 1..Len(job_ran)
        <5>1. job_ran[i][2] # j /\ job_ran[i][1] = Empty + i /\ Empty + i <= job_db
          BY <1>1, <4>1 DEF NothingYet, Uncommitted, ChainRan
        <5>2. job_ran'[i] = job_ran[i]
          BY <1>4, <4>1
        <5>3. ~(job_before[j] < Empty + i)
          BY <1>1, <4>1, <5>1
        <5> QED BY <5>1, <5>2, <5>3
      <4>2. CASE i \in (Len(job_ran) + 1)..Len(job_ran')
        <5>1. job_ran'[i] = <<Empty + i, j>> /\ job_db < Empty + i /\ Empty + i <= HeadOf[j]
          BY <1>1, <1>4, <4>2
        <5> QED BY <1>1, <5>1
      <4> QED BY <1>1, <1>4, <4>1, <4>2
    <3>2. Empty <= job_before[j] /\ job_before[j] <= HeadOf[j] /\ HeadOf[j] <= job_db' /\ job_before'[j] = job_before[j]
      BY <1>1, <1>3
    <3> QED BY <2>1, <3>1, <3>2 DEF Owns
  <2>2. CASE k # j
    <3>1. job_pc[k] = "done" /\ Owns(k)
      BY <1>1, <1>5, <2>2 DEF AtItsHead, LockIsHeld, Working
    <3>2. job_before[k] \in Nat /\ HeadOf[k] \in Nat /\ HeadOf[k] <= job_db
      BY <3>1 DEF Owns, JobsTyped, Migrations!MigrateAssumption
    <3>3. ASSUME NEW i \in 1..Len(job_ran')
          PROVE  job_ran'[i][2] = k <=> job_before[k] < job_ran'[i][1] /\ job_ran'[i][1] <= HeadOf[k]
      <4>1. CASE i \in 1..Len(job_ran)
        BY <1>4, <3>1, <4>1 DEF Owns
      <4>2. CASE i \in (Len(job_ran) + 1)..Len(job_ran')
        <5>1. job_ran'[i] = <<Empty + i, j>> /\ job_db < Empty + i
          <6>1. i \in Nat /\ Len(job_ran) + 1 <= i /\ job_ran'[i] = <<Empty + i, j>>
            BY <1>4, <1>11, <4>2
          <6>2. job_db < Empty + i
            BY ONLY <1>11, <6>1
          <6> QED BY <6>1, <6>2
        <5> QED BY <1>1, <2>2, <3>2, <5>1
      <4> QED BY <1>1, <1>4, <4>1, <4>2
    <3> QED BY <1>1, <1>3, <3>1, <3>2, <3>3 DEF Owns
  <2> QED BY <2>1, <2>2
<1>9. Reported'
  BY <1>5, NoReportYet DEF Reported
<1>10. Upgrading'
  BY <1>1, <1>5 DEF Upgrading, LockIsHeld, Working
<1> QED BY <1>1, <1>3, <1>4, <1>6, <1>7, <1>8, <1>9, <1>10

LEMMA MigrationsCommitSafe == ASSUME Migrations!MigrateAssumption, JobsInv, NEW j \in Jobs, Migrations!Commit(j) PROVE JobsInv'
<1>1. /\ job_db' \in Nat /\ job_ran' \in Seq(Nat \X Jobs)
      /\ ChainRan' /\ NothingYet' /\ AtItsHead' /\ Reported' /\ Upgrading'
  BY MigrationsCommitted DEF Migrations!Commit
<1>2. JobsTyped' /\ LockIsHeld'
  BY <1>1 DEF Migrations!Commit, JobsInv, JobsTyped, LockIsHeld, Migrations!Goto, MigrationsPlaces, Working
<1> QED BY <1>1, <1>2 DEF JobsInv

LEMMA FinishSafe == ASSUME Migrations!MigrateAssumption, JobsInv, NEW j \in Jobs, Migrations!Finish(j) PROVE JobsInv'
<1> USE DEF JobsInv
<1>1. job_pc[j] = "check" /\ Owns(j) /\ job_report[j] = None
  BY NoReportYet DEF Migrations!Finish, AtItsHead
<1>2. UNCHANGED <<job_db, job_ran, job_before, job_work, job_faults>>
  BY DEF Migrations!Finish
<1>3. CASE job_db = HeadOf[j]
  <2>1. Migrations!Release(j, "done") /\ job_report' = [job_report EXCEPT ![j] = Migrations!State(job_before[j], HeadOf[j]) # "at_head"]
    BY <1>3 DEF Migrations!Finish
  <2>2. LockIsHeld' /\ job_lock' \in Jobs \cup {None} /\ \A k \in Jobs : job_pc'[k] = IF k = j THEN "done" ELSE job_pc[k]
    BY <2>1, Released DEF Migrations!Ended
  <2>3. (Migrations!State(job_before[j], HeadOf[j]) # "at_head") <=> job_before[j] # HeadOf[j]
    <3>1. job_before[j] \in Nat /\ HeadOf[j] \in Nat \ {0} /\ job_before[j] <= HeadOf[j]
      BY <1>1 DEF JobsTyped, Owns, Migrations!MigrateAssumption
    <3> QED BY <3>1 DEF Migrations!State, Migrations!Known
  <2> DEFINE told == Migrations!State(job_before[j], HeadOf[j]) # "at_head"
  <2>4. told \in BOOLEAN
    OBVIOUS
  <2> HIDE DEF told
  <2>5. job_report' \in [Jobs -> BOOLEAN \cup {None}] /\ job_report'[j] = told /\ \A k \in Jobs \ {j} : job_report'[k] = job_report[k]
    BY <2>1, <2>4 DEF JobsTyped, told
  <2>6. JobsTyped'
    BY <1>2, <2>1, <2>2, <2>5 DEF JobsTyped, Migrations!Release, Migrations!Goto, MigrationsPlaces, Migrations!Ended
  <2>7. ChainRan' /\ NothingYet' /\ Upgrading'
    BY <1>2, <2>2 DEF ChainRan, NothingYet, Uncommitted, Upgrading
  <2>8. AtItsHead'
    BY <1>1, <1>2, <2>2 DEF AtItsHead, Owns
  <2>9. Reported'
    <3> SUFFICES ASSUME NEW k \in Jobs, job_report'[k] # None
                 PROVE  job_pc'[k] = "done" /\ (job_report'[k] <=> job_before[k] # HeadOf[k])
      BY <1>2 DEF Reported
    <3>1. CASE k = j
      BY <2>2, <2>3, <2>5, <3>1 DEF told
    <3>2. CASE k # j
      BY <2>2, <2>5, <3>2 DEF Reported
    <3> QED BY <3>1, <3>2
  <2> QED BY <2>2, <2>6, <2>7, <2>8, <2>9
<1>4. CASE job_db # HeadOf[j]
  <2>1. Migrations!Release(j, "failed") /\ UNCHANGED job_report
    BY <1>4 DEF Migrations!Finish
  <2>2. LockIsHeld' /\ job_lock' \in Jobs \cup {None} /\ \A k \in Jobs : job_pc'[k] = IF k = j THEN "failed" ELSE job_pc[k]
    BY <2>1, Released DEF Migrations!Ended
  <2>3. ChainRan' /\ NothingYet' /\ AtItsHead' /\ Reported'
    BY <1>1, <1>2, <2>1, QuietStep DEF Migrations!Release, MigrationsPlaces, Migrations!Ended, Uncommitted, JobsTyped
  <2>4. JobsTyped' /\ Upgrading'
    BY <1>2, <2>1, <2>2 DEF JobsTyped, Migrations!Release, Migrations!Goto, MigrationsPlaces, Migrations!Ended, Upgrading
  <2> QED BY <2>2, <2>3, <2>4
<1> QED BY <1>3, <1>4

LEMMA FailsSafe == ASSUME Migrations!MigrateAssumption, JobsInv, NEW j \in Jobs, Migrations!Fails(j) PROVE JobsInv'
<1> USE DEF JobsInv
<1>1. job_pc[j] # "done" /\ Migrations!Release(j, "failed") /\ UNCHANGED <<job_db, job_ran, job_before, job_work, job_report>> /\ job_faults' = job_faults + 1
  BY DEF Migrations!Fails
<1>2. LockIsHeld' /\ job_lock' \in Jobs \cup {None} /\ \A k \in Jobs : job_pc'[k] = IF k = j THEN "failed" ELSE job_pc[k]
  BY <1>1, Released DEF Migrations!Ended
<1>3. ChainRan' /\ NothingYet' /\ AtItsHead' /\ Reported'
  BY <1>1, QuietStep, NoReportYet DEF Migrations!Release, MigrationsPlaces, Migrations!Ended, Uncommitted, JobsTyped
<1>4. JobsTyped' /\ Upgrading'
  BY <1>1, <1>2 DEF JobsTyped, Migrations!Release, Migrations!Goto, MigrationsPlaces, Migrations!Ended, Upgrading
<1> QED BY <1>2, <1>3, <1>4

LEMMA InterruptSafe == ASSUME Migrations!MigrateAssumption, JobsInv, NEW j \in Jobs, Migrations!Interrupt(j) PROVE JobsInv'
<1> USE DEF JobsInv
<1>1. /\ job_pc[j] \notin Migrations!Ended \cup {"new"} /\ Migrations!Release(j, "interrupted") /\ UNCHANGED <<job_before, job_work, job_report>>
      /\ job_faults' = job_faults + 1
  BY DEF Migrations!Interrupt
<1>2. LockIsHeld' /\ job_lock' \in Jobs \cup {None} /\ \A k \in Jobs : job_pc'[k] = IF k = j THEN "interrupted" ELSE job_pc[k]
  BY <1>1, Released DEF Migrations!Ended
<1>3. job_db' \in Nat /\ job_ran' \in Seq(Nat \X Jobs) /\ ChainRan' /\ NothingYet' /\ AtItsHead' /\ Reported' /\ Upgrading'
  <2>1. CASE job_pc[j] = "upgrade" /\ Migrations!Applied(j)
    BY <1>1, <2>1, MigrationsCommitted DEF Migrations!Release
  <2>2. CASE UNCHANGED <<job_db, job_ran>>
    <3>1. ChainRan' /\ NothingYet' /\ AtItsHead' /\ Reported'
      BY <1>1, <2>2, QuietStep, NoReportYet DEF Migrations!Release, MigrationsPlaces, Migrations!Ended, Uncommitted, JobsTyped
    <3>2. Upgrading'
      BY <1>1, <1>2, <2>2 DEF Upgrading
    <3> QED BY <2>2, <3>1, <3>2 DEF JobsTyped
  <2> QED BY <2>1, <2>2 DEF Migrations!Interrupt
<1>4. JobsTyped'
  BY <1>1, <1>2, <1>3 DEF JobsTyped, Migrations!Release, Migrations!Goto, MigrationsPlaces, Migrations!Ended
<1> QED BY <1>2, <1>3, <1>4

LEMMA JobsKeep == ASSUME Migrations!MigrateAssumption PROVE Migrations!Spec => []JobsInv
<1>1. Migrations!Init => JobsInv
  BY JobsStart
<1>2. JobsInv /\ [Migrations!Next]_(Migrations!vars) => JobsInv'
  <2>1. ASSUME JobsInv, UNCHANGED Migrations!vars PROVE JobsInv'
    BY <2>1 DEF Migrations!vars, JobsInv, JobsTyped, LockIsHeld, ChainRan, Upgrading, NothingYet, AtItsHead, Owns, Reported
  <2> QED BY <2>1, BeginSafe, WaitSafe, ReadStateSafe, RunScriptSafe, MigrationsCommitSafe, FinishSafe, FailsSafe,
             InterruptSafe DEF Migrations!Next, Migrations!Step
<1> QED BY <1>1, <1>2, PTL DEF Migrations!Spec

\* db upgrade: whatever jobs of other images ran, failed or were stopped, the
\* committed revision is exactly the migrations that ran, each once and in
\* the order of the chain.
THEOREM MigrationsRunOnceInOrder == ASSUME Migrations!MigrateAssumption PROVE Migrations!Spec => []Migrations!EachOnceInOrder
<1>1. JobsInv => Migrations!EachOnceInOrder
  BY DEF JobsInv, ChainRan, Migrations!EachOnceInOrder, JobsTyped
<1> QED BY <1>1, JobsKeep, PTL

\* A job that reports an upgrade ran every migration above the revision it
\* read, up to its head, itself; one that reports none ran nothing.
THEOREM MigrationReportsAreTrue == ASSUME Migrations!MigrateAssumption PROVE Migrations!Spec => []Migrations!ReportTrue
<1>1. ASSUME Migrations!MigrateAssumption, JobsInv PROVE Migrations!ReportTrue
  <2> SUFFICES ASSUME NEW j \in Jobs, job_report[j] # None
               PROVE  LET mine == {r \in 1..HeadOf[j] : \E i \in DOMAIN job_ran : job_ran[i] = <<r, j>>}
                      IN  /\ job_report[j] <=> mine # {}
                          /\ mine # {} => mine = {r \in 1..HeadOf[j] : r > job_before[j]}
    BY DEF Migrations!ReportTrue
  <2> DEFINE mine == {r \in 1..HeadOf[j] : \E i \in DOMAIN job_ran : job_ran[i] = <<r, j>>}
  <2>1. /\ Owns(j) /\ (job_report[j] <=> job_before[j] # HeadOf[j]) /\ job_before[j] \in Nat /\ HeadOf[j] \in Nat \ {0}
        /\ job_db \in Nat /\ Empty \in Nat /\ DOMAIN job_ran = 1..Len(job_ran) /\ Len(job_ran) = job_db - Empty
    BY <1>1 DEF JobsInv, Reported, AtItsHead, JobsTyped, Migrations!MigrateAssumption, ChainRan
  <2>11. \A i \in 1..Len(job_ran) : job_ran[i] \in Nat \X Jobs /\ job_ran[i][1] = Empty + i
    BY <1>1, <2>1, ElementOfSeq DEF JobsInv, JobsTyped, ChainRan
  <2>2. ASSUME NEW r \in 1..HeadOf[j] PROVE r \in mine <=> r > job_before[j]
    <3>1. ASSUME r \in mine PROVE r > job_before[j]
      <4>1. PICK i \in DOMAIN job_ran : job_ran[i] = <<r, j>>
        BY <3>1
      <4> QED BY <2>1, <2>11, <4>1 DEF Owns
    <3>2. ASSUME r > job_before[j] PROVE r \in mine
      <4>1. r - Empty \in 1..Len(job_ran) /\ Empty + (r - Empty) = r
        BY <2>1, <3>2 DEF Owns
      <4>2. job_ran[r - Empty][1] = r /\ job_ran[r - Empty][2] = j /\ job_ran[r - Empty] \in Nat \X Jobs
        BY <2>1, <2>11, <3>2, <4>1 DEF Owns
      <4>3. job_ran[r - Empty] = <<r, j>>
        BY <4>2
      <4> QED BY <2>1, <4>1, <4>3
    <3> QED BY <3>1, <3>2
  <2>3. job_before[j] # HeadOf[j] <=> mine # {}
    <3>1. ASSUME job_before[j] # HeadOf[j] PROVE HeadOf[j] \in mine
      <4>1. HeadOf[j] \in 1..HeadOf[j] /\ HeadOf[j] > job_before[j]
        BY <2>1, <3>1 DEF Owns
      <4> QED BY <2>2, <4>1
    <3>2. ASSUME job_before[j] = HeadOf[j] PROVE mine = {}
      <4> SUFFICES ASSUME NEW r \in mine PROVE FALSE
        OBVIOUS
      <4>1. r \in 1..HeadOf[j]
        OBVIOUS
      <4>2. r > job_before[j]
        BY <2>2, <4>1
      <4> QED BY <2>1, <3>2, <4>1, <4>2
    <3> QED BY <3>1, <3>2
  <2>4. mine = {r \in 1..HeadOf[j] : r > job_before[j]}
    BY <2>2
  <2> QED BY <2>1, <2>3, <2>4
<1> QED BY <1>1, JobsKeep, PTL

-----------------------------------------------------------------------------
\* Readiness probes and their abandoned checks.
Ready == INSTANCE Readiness WITH
  now <- probe_now, up <- probe_up, inFlight <- probe_inFlight, started <- probe_started,
  task <- probe_task, seen <- probe_seen, orphans <- probe_orphans, joined <- probe_joined,
  arrived <- probe_arrived, answer <- probe_answer,
  Requests <- ProbeRequests, MaxTime <- ProbeTime

\* Finite sets are the same in the instance.
LEMMA ReadySets == \A S : (Ready!IsFiniteSet(S) <=> IsFiniteSet(S)) /\ Ready!Cardinality(S) = Cardinality(S)
<1>1. \A S : Ready!IsFiniteSet(S) <=> IsFiniteSet(S)
  BY DEF Ready!IsFiniteSet, IsFiniteSet
<1>2. \A S : Ready!Cardinality(S) = Cardinality(S)
  BY DEF Ready!Cardinality, Cardinality
<1> QED BY <1>1, <1>2

USE ReadySets

Replies == {"ready", "not_ready", "gone"}
Begun(p) == probe_started[p] # None
Active(c) == {p \in Probes : probe_task[p][c] = "running"}

ReadinessTyped ==
  /\ probe_now \in Nat /\ probe_inFlight \in Probes \cup {None}
  /\ probe_started \in [Probes -> Nat \cup {None}]
  /\ probe_task \in [Probes -> [Checks -> {"idle", "running"} \cup Ready!Results]]
  /\ probe_seen \in [Probes -> [Checks -> Nat]]
  /\ probe_orphans \in SUBSET (Probes \X Checks)
  /\ probe_joined \in [ProbeRequests -> Probes \cup {None}] /\ probe_arrived \in [ProbeRequests -> Nat]
  /\ probe_answer \in [ProbeRequests -> Replies \cup {None}]

\* A probe's tasks begin with it, and what a task saw it saw since.
ProbesSee ==
  \A p \in Probes :
    /\ Begun(p) => probe_started[p] <= probe_now
    /\ \A c \in Checks : /\ probe_task[p][c] # "idle" => Begun(p)
                         /\ probe_task[p][c] = "ok" => probe_started[p] <= probe_seen[p][c]

\* A request joined a probe younger than the timeout.
JoinsFresh ==
  /\ probe_inFlight # None => Begun(probe_inFlight)
  /\ \A r \in ProbeRequests : probe_joined[r] # None => Begun(probe_joined[r]) /\ probe_arrived[r] < probe_started[probe_joined[r]] + Timeout

AnswersTrue ==
  \A r \in ProbeRequests : probe_answer[r] = "ready" =>
    probe_joined[r] # None /\ \A c \in Checks : probe_task[probe_joined[r]][c] = "ok"

\* Tasks of one check that run together began a timeout apart, and none
\* outlives its timer by more than the lag.
ReadyApart ==
       \A c \in Checks : \A p \in Active(c) :
         /\ probe_now <= probe_started[p] + Timeout + Lag
         /\ p # probe_inFlight => probe_started[p] + Timeout <= probe_now
         /\ \A q \in Active(c) \ {p} : probe_started[p] + Timeout <= probe_started[q] \/ probe_started[q] + Timeout <= probe_started[p]

Kept == \A c \in Checks : Cardinality(Ready!Abandoned(c)) + Cardinality(Active(c)) <= MaxAbandoned + 1

ReadinessInv == ReadinessTyped /\ ProbesSee /\ JoinsFresh /\ AnswersTrue /\ ReadyApart /\ Kept

-----------------------------------------------------------------------------
LEMMA FreshProbe ==
  ASSUME Ready!ReadinessAssumption, NEW S \in SUBSET Probes, S # {}
  PROVE  (CHOOSE q \in S : \A s \in S : q <= s) \in S
<1>1. S \subseteq Nat
  BY DEF Ready!ReadinessAssumption
<1>2. PICK n \in S : \A m \in S : <<m, n>> \notin OpToRel(<, Nat)
  <2>1. IsWellFoundedOn(OpToRel(<, Nat), Nat)
    BY NatLessThanWellFounded
  <2> QED BY <1>1, <2>1, WFMin
<1>3. \A m \in S : ~(m < n)
  BY <1>1, <1>2 DEF OpToRel
<1>4. \A m \in S : n <= m
  BY <1>1, <1>3
<1> QED BY <1>4

LEMMA FiniteKept ==
  ASSUME Ready!ReadinessAssumption, ReadinessInv
  PROVE  /\ \A c : IsFiniteSet(Ready!Abandoned(c)) /\ Cardinality(Ready!Abandoned(c)) \in Nat
         /\ \A c : IsFiniteSet(Active(c)) /\ Cardinality(Active(c)) \in Nat
<1>1. IsFiniteSet(Probes \X Checks)
  BY FS_Product DEF Ready!ReadinessAssumption
<1>2. \A c : Ready!Abandoned(c) \subseteq Probes \X Checks
  BY DEF Ready!Abandoned, ReadinessInv, ReadinessTyped
<1>3. \A c : IsFiniteSet(Ready!Abandoned(c))
  BY <1>1, <1>2, FS_Subset
<1>4. \A c : IsFiniteSet(Active(c))
  BY FS_Subset DEF Active, Ready!ReadinessAssumption
<1> QED BY <1>3, <1>4, FS_CardinalityType

\* When no task begins, tasks only end, time stands and orphans only go.
LEMMA TasksEnd ==
  ASSUME Ready!ReadinessAssumption, ReadinessInv,
         UNCHANGED <<probe_now, probe_inFlight, probe_started>>, \A c \in Checks : Active(c)' \subseteq Active(c)
  PROVE  ReadyApart'
BY DEF ReadinessInv, ReadyApart

LEMMA OrphansGo ==
  ASSUME Ready!ReadinessAssumption, ReadinessInv, \A c \in Checks : Active(c)' \subseteq Active(c), probe_orphans' \subseteq probe_orphans
  PROVE  Kept'
<1> SUFFICES ASSUME NEW c \in Checks
             PROVE  Cardinality(Ready!Abandoned(c)') + Cardinality(Active(c)') <= MaxAbandoned + 1
  BY DEF Kept
<1>1. Ready!Abandoned(c)' \subseteq Ready!Abandoned(c) /\ Active(c)' \subseteq Active(c)
  BY DEF Ready!Abandoned
<1>2. /\ Cardinality(Ready!Abandoned(c)') <= Cardinality(Ready!Abandoned(c)) /\ Cardinality(Ready!Abandoned(c)') \in Nat
      /\ Cardinality(Active(c)') <= Cardinality(Active(c)) /\ Cardinality(Active(c)') \in Nat
  BY <1>1, FiniteKept, FS_Subset, FS_CardinalityType
<1>3. /\ Cardinality(Ready!Abandoned(c)) + Cardinality(Active(c)) <= MaxAbandoned + 1
      /\ Cardinality(Ready!Abandoned(c)) \in Nat /\ Cardinality(Active(c)) \in Nat /\ MaxAbandoned \in Nat
  BY FiniteKept DEF ReadinessInv, Kept, Ready!ReadinessAssumption
<1> QED BY <1>2, <1>3

-----------------------------------------------------------------------------
\* The request joins the probe in flight.
LEMMA JoinSafe ==
  ASSUME Ready!ReadinessAssumption, ReadinessInv, NEW r \in ProbeRequests, Ready!Request(r), ~Ready!Stale
  PROVE  ReadinessInv'
<1>1. /\ probe_joined[r] = None /\ probe_answer[r] = None
      /\ probe_arrived' = [probe_arrived EXCEPT ![r] = probe_now] /\ probe_joined' = [probe_joined EXCEPT ![r] = probe_inFlight]
      /\ UNCHANGED <<probe_now, probe_up, probe_inFlight, probe_started, probe_task, probe_seen, probe_orphans, probe_answer>>
  BY DEF Ready!Request
<1>2. probe_inFlight # None /\ probe_inFlight \in Probes /\ ~(probe_now - probe_started[probe_inFlight] >= Timeout)
  BY DEF Ready!Stale, ReadinessInv, ReadinessTyped
<1>3. Begun(probe_inFlight) /\ probe_started[probe_inFlight] \in Nat /\ probe_now \in Nat /\ Timeout \in Nat
  BY <1>2 DEF ReadinessInv, ReadinessTyped, JoinsFresh, Begun, Ready!ReadinessAssumption
<1>4. probe_now < probe_started[probe_inFlight] + Timeout
  BY <1>2, <1>3
<1>5. ReadinessTyped' /\ ProbesSee' /\ AnswersTrue'
  BY <1>1, <1>2, <1>3 DEF ReadinessInv, ReadinessTyped, ProbesSee, Begun, AnswersTrue, Ready!ReadinessAssumption, Replies
<1>6. JoinsFresh'
  BY <1>1, <1>3, <1>4 DEF ReadinessInv, ReadinessTyped, JoinsFresh, Begun
<1>7. ReadyApart' /\ Kept'
  BY <1>1 DEF ReadinessInv, ReadyApart, Kept, Active, Ready!Abandoned
<1> QED BY <1>5, <1>6, <1>7 DEF ReadinessInv

\* When a probe may begin, at most one task of a check still runs.
LEMMA OneRuns ==
  ASSUME Ready!ReadinessAssumption, ReadinessInv, Ready!Stale, NEW c \in Checks
  PROVE  /\ \A p \in Active(c) : probe_started[p] \in Nat /\ probe_started[p] + Timeout <= probe_now
         /\ Cardinality(Active(c)) <= 1
<1>1. \A p \in Active(c) : probe_started[p] \in Nat /\ p \in Probes /\ probe_now <= probe_started[p] + Timeout + Lag
  BY DEF ReadinessInv, ReadinessTyped, ProbesSee, Active, ReadyApart, Begun
<1>2. probe_now \in Nat /\ Timeout \in Nat /\ Lag \in Nat /\ Lag < Timeout
  BY DEF ReadinessInv, ReadinessTyped, Ready!ReadinessAssumption
<1>3. ASSUME NEW p \in Active(c) PROVE probe_started[p] + Timeout <= probe_now
  <2>1. CASE p # probe_inFlight
    BY <2>1 DEF ReadinessInv, ReadyApart
  <2>2. CASE p = probe_inFlight
    <3>1. ~Ready!Done(p)
      BY DEF Ready!Done, Active, Ready!Results
    <3>2. probe_now - probe_started[p] >= Timeout
      BY <1>1, <2>2, <3>1 DEF Ready!Stale, Ready!ReadinessAssumption
    <3> QED BY <1>1, <1>2, <3>2
  <2> QED BY <2>1, <2>2
<1>4. \A p, q \in Active(c) : p = q
  <2> SUFFICES ASSUME NEW p \in Active(c), NEW q \in Active(c), p # q PROVE FALSE
    OBVIOUS
  <2>1. probe_started[p] + Timeout <= probe_started[q] \/ probe_started[q] + Timeout <= probe_started[p]
    BY DEF ReadinessInv, ReadyApart
  <2>2. probe_started[p] + Timeout <= probe_now /\ probe_started[q] + Timeout <= probe_now
    BY <1>3
  <2> QED BY <1>1, <1>2, <2>1, <2>2
<1>5. Cardinality(Active(c)) <= 1
  <2>1. CASE Active(c) = {}
    BY <2>1, FS_EmptySet
  <2>2. CASE Active(c) # {}
    <3>1. PICK p \in Active(c) : Active(c) = {p}
      BY <1>4, <2>2
    <3>2. Cardinality({p}) = 1
      BY FS_Singleton
    <3> QED BY <3>1, <3>2
  <2> QED BY <2>1, <2>2
<1> QED BY <1>1, <1>3, <1>5

\* The request begins a probe.
LEMMA ReadyBeginSafe ==
  ASSUME Ready!ReadinessAssumption, ReadinessInv, NEW r \in ProbeRequests, Ready!Request(r), Ready!Stale
  PROVE  ReadinessInv'
<1>1. PICK p \in Probes :
        /\ probe_started[p] = None /\ probe_inFlight' = p /\ probe_started' = [probe_started EXCEPT ![p] = probe_now]
        /\ probe_task' = [probe_task EXCEPT ![p] = [c \in Checks |-> Ready!Begin(c)]]
        /\ probe_joined' = [probe_joined EXCEPT ![r] = p]
  <2> DEFINE free == {p \in Probes : probe_started[p] = None}
  <2>1. free \in SUBSET Probes /\ free # {}
    BY DEF Ready!Request
  <2>2. (CHOOSE q \in free : \A s \in free : q <= s) \in free
    <3> HIDE DEF free
    <3> QED BY <2>1, FreshProbe
  <2> QED BY <2>2 DEF Ready!Request
<1>2. /\ probe_joined[r] = None /\ probe_answer[r] = None /\ probe_arrived' = [probe_arrived EXCEPT ![r] = probe_now]
      /\ UNCHANGED <<probe_now, probe_up, probe_seen, probe_orphans, probe_answer>>
  BY DEF Ready!Request
<1>3. probe_now \in Nat /\ Timeout \in Nat \ {0} /\ Lag \in Nat /\ MaxAbandoned \in Nat /\ p # None /\ probe_now # None
  BY DEF ReadinessInv, ReadinessTyped, Ready!ReadinessAssumption
<1>4. /\ \A q \in Probes : probe_started'[q] = IF q = p THEN probe_now ELSE probe_started[q]
      /\ \A q \in Probes : \A c \in Checks : probe_task'[q][c] = IF q = p THEN Ready!Begin(c) ELSE probe_task[q][c]
      /\ \A c \in Checks : Ready!Begin(c) \in {"timeout", "running"}
  BY <1>1 DEF ReadinessInv, ReadinessTyped, Ready!Begin
<1>5. \A c \in Checks : probe_task[p][c] = "idle" /\ p \notin Active(c)
  BY <1>1 DEF ReadinessInv, ReadinessTyped, ProbesSee, Begun, Active
<1>6. \A q \in ProbeRequests : probe_joined[q] # p
  BY <1>1, <1>3 DEF ReadinessInv, JoinsFresh, Begun
<1>7. ReadinessTyped'
  BY <1>1, <1>2, <1>3, <1>4 DEF ReadinessInv, ReadinessTyped, Ready!Results
<1>8. ProbesSee'
  BY <1>2, <1>3, <1>4 DEF ReadinessInv, ProbesSee, Begun
<1>9. JoinsFresh' /\ AnswersTrue'
  <2>1. \A q \in ProbeRequests : /\ probe_joined'[q] = IF q = r THEN p ELSE probe_joined[q]
                                 /\ probe_arrived'[q] = IF q = r THEN probe_now ELSE probe_arrived[q]
                                 /\ probe_joined[q] # None => probe_joined[q] \in Probes \ {p}
    BY <1>1, <1>2, <1>6 DEF ReadinessInv, ReadinessTyped
  <2>2. JoinsFresh'
    BY <1>1, <1>3, <1>4, <2>1 DEF ReadinessInv, JoinsFresh, Begun
  <2>3. probe_answer[r] # "ready"
    BY <1>2 DEF Ready!ReadinessAssumption
  <2>4. AnswersTrue'
    BY <1>2, <1>4, <2>1, <2>3 DEF ReadinessInv, AnswersTrue
  <2> QED BY <2>2, <2>4
<1>10. \A c \in Checks : Active(c)' = IF Ready!Begin(c) = "running" THEN Active(c) \cup {p} ELSE Active(c)
  BY <1>4, <1>5 DEF Active
<1>11. ReadyApart'
  <2> SUFFICES ASSUME NEW c \in Checks, NEW q \in Active(c) \cup {p}
               PROVE  /\ probe_now <= probe_started'[q] + Timeout + Lag
                      /\ q # p => probe_started'[q] + Timeout <= probe_now
                      /\ \A s \in (Active(c) \cup {p}) \ {q} : \/ probe_started'[q] + Timeout <= probe_started'[s]
                                                              \/ probe_started'[s] + Timeout <= probe_started'[q]
    BY <1>1, <1>2, <1>10 DEF ReadyApart
  <2>1. \A s \in Active(c) : /\ probe_started'[s] = probe_started[s] /\ probe_started[s] \in Nat /\ probe_started[s] + Timeout <= probe_now
                             /\ probe_now <= probe_started[s] + Timeout + Lag
    BY <1>4, <1>5, OneRuns DEF Active, ReadinessInv, ReadyApart
  <2>2. \A s, t \in Active(c) : s # t => probe_started[s] + Timeout <= probe_started[t] \/ probe_started[t] + Timeout <= probe_started[s]
    BY DEF ReadinessInv, ReadyApart
  <2>3. probe_started'[p] = probe_now
    BY <1>4
  <2> QED BY <1>3, <2>1, <2>2, <2>3
<1>12. Kept'
  <2> SUFFICES ASSUME NEW c \in Checks
               PROVE  Cardinality(Ready!Abandoned(c)) + Cardinality(Active(c)') <= MaxAbandoned + 1
    BY <1>2 DEF Kept, Ready!Abandoned
  <2>1. /\ IsFiniteSet(Active(c)) /\ Cardinality(Active(c)) \in Nat /\ Cardinality(Ready!Abandoned(c)) \in Nat
        /\ Cardinality(Active(c)) <= 1
    BY FiniteKept, OneRuns
  <2>2. CASE Ready!Begin(c) = "running"
    <3>1. Cardinality(Ready!Abandoned(c)) < MaxAbandoned
      BY <1>3, <2>1, <2>2 DEF Ready!Begin
    <3>2. Cardinality(Active(c)') = Cardinality(Active(c)) + 1
      BY <1>5, <1>10, <2>1, <2>2, FS_AddElement
    <3> QED BY <1>3, <2>1, <3>1, <3>2
  <2>3. CASE Ready!Begin(c) # "running"
    BY <1>10, <2>3 DEF ReadinessInv, Kept
  <2> QED BY <2>2, <2>3
<1> QED BY <1>7, <1>8, <1>9, <1>11, <1>12 DEF ReadinessInv

-----------------------------------------------------------------------------
LEMMA AnswersSafe ==
  ASSUME Ready!ReadinessAssumption, ReadinessInv, NEW p \in Probes, NEW c \in Checks, Ready!Answers(p, c)
  PROVE  ReadinessInv'
<1>1. /\ probe_task[p][c] = "running"
      /\ probe_task' = [probe_task EXCEPT ![p][c] = IF c \in probe_up THEN "ok" ELSE "failed"]
      /\ probe_seen' = [probe_seen EXCEPT ![p][c] = probe_now]
      /\ UNCHANGED <<probe_now, probe_up, probe_inFlight, probe_started, probe_orphans, probe_joined, probe_arrived, probe_answer>>
  BY DEF Ready!Answers
<1>2. \A q \in Probes, d \in Checks :
        /\ probe_task'[q][d] = IF q = p /\ d = c THEN IF c \in probe_up THEN "ok" ELSE "failed" ELSE probe_task[q][d]
        /\ probe_seen'[q][d] = IF q = p /\ d = c THEN probe_now ELSE probe_seen[q][d]
  BY <1>1 DEF ReadinessInv, ReadinessTyped
<1>3. ReadinessTyped'
  BY <1>1 DEF ReadinessInv, ReadinessTyped, Ready!Results
<1>4. ProbesSee' /\ JoinsFresh'
  BY <1>1, <1>2 DEF ReadinessInv, ReadinessTyped, ProbesSee, JoinsFresh, Begun
<1>5. AnswersTrue'
  BY <1>1, <1>2 DEF ReadinessInv, ReadinessTyped, AnswersTrue
<1>6. \A d \in Checks : Active(d)' \subseteq Active(d)
  BY <1>2 DEF Active
<1>7. ReadyApart' /\ Kept'
  BY <1>1, <1>6, TasksEnd, OrphansGo
<1> QED BY <1>3, <1>4, <1>5, <1>7 DEF ReadinessInv

LEMMA TimesOutSafe ==
  ASSUME Ready!ReadinessAssumption, ReadinessInv, NEW p \in Probes, NEW c \in Checks, Ready!TimesOut(p, c)
  PROVE  ReadinessInv'
<1>1. /\ probe_task[p][c] = "running" /\ probe_task' = [probe_task EXCEPT ![p][c] = "timeout"]
      /\ probe_orphans' = probe_orphans \cup {<<p, c>>}
      /\ UNCHANGED <<probe_now, probe_up, probe_inFlight, probe_started, probe_seen, probe_joined, probe_arrived, probe_answer>>
  BY DEF Ready!TimesOut
<1>2. \A q \in Probes, d \in Checks : probe_task'[q][d] = IF q = p /\ d = c THEN "timeout" ELSE probe_task[q][d]
  BY <1>1 DEF ReadinessInv, ReadinessTyped
<1>3. ReadinessTyped'
  BY <1>1 DEF ReadinessInv, ReadinessTyped, Ready!Results
<1>4. ProbesSee' /\ JoinsFresh'
  BY <1>1, <1>2 DEF ReadinessInv, ReadinessTyped, ProbesSee, JoinsFresh, Begun
<1>5. AnswersTrue'
  BY <1>1, <1>2 DEF ReadinessInv, ReadinessTyped, AnswersTrue
<1>6. \A d \in Checks : Active(d)' = IF d = c THEN Active(d) \ {p} ELSE Active(d)
  BY <1>2 DEF Active
<1>7. ReadyApart'
  BY <1>1, <1>6, TasksEnd
<1>8. Kept'
  <2> SUFFICES ASSUME NEW d \in Checks
               PROVE  Cardinality(Ready!Abandoned(d)') + Cardinality(Active(d)') <= MaxAbandoned + 1
    BY DEF Kept
  <2>1. /\ Cardinality(Ready!Abandoned(d)) + Cardinality(Active(d)) <= MaxAbandoned + 1
        /\ IsFiniteSet(Ready!Abandoned(d)) /\ IsFiniteSet(Active(d))
        /\ Cardinality(Ready!Abandoned(d)) \in Nat /\ Cardinality(Active(d)) \in Nat /\ MaxAbandoned \in Nat
    BY FiniteKept DEF ReadinessInv, Kept, Ready!ReadinessAssumption
  <2>2. CASE d = c
    <3>1. Ready!Abandoned(d)' = Ready!Abandoned(d) \cup {<<p, c>>}
      BY <1>1, <2>2 DEF Ready!Abandoned
    <3>2. Cardinality(Ready!Abandoned(d)') <= Cardinality(Ready!Abandoned(d)) + 1 /\ Cardinality(Ready!Abandoned(d)') \in Nat
      <4>1. CASE <<p, c>> \in Ready!Abandoned(d)
        BY <2>1, <3>1, <4>1
      <4>2. CASE <<p, c>> \notin Ready!Abandoned(d)
        <5>1. Cardinality(Ready!Abandoned(d) \cup {<<p, c>>}) = Cardinality(Ready!Abandoned(d)) + 1
          BY <2>1, <4>2, FS_AddElement
        <5> QED BY <2>1, <3>1, <5>1
      <4> QED BY <4>1, <4>2
    <3>3. Active(d)' = Active(d) \ {p} /\ p \in Active(d)
      BY <1>1, <1>6, <2>2 DEF Active
    <3>4. Cardinality(Active(d)') = Cardinality(Active(d)) - 1
      BY <2>1, <3>3, FS_RemoveElement
    <3> QED BY <2>1, <3>2, <3>4
  <2>3. CASE d # c
    <3>1. Ready!Abandoned(d)' = Ready!Abandoned(d)
      BY <1>1, <2>3 DEF Ready!Abandoned
    <3>2. Active(d)' = Active(d)
      BY <1>6, <2>3
    <3> QED BY <2>1, <3>1, <3>2
  <2> QED BY <2>2, <2>3
<1> QED BY <1>3, <1>4, <1>5, <1>7, <1>8 DEF ReadinessInv

LEMMA ReadyTickSafe == ASSUME Ready!ReadinessAssumption, ReadinessInv, Ready!Tick PROVE ReadinessInv'
<1>1. /\ ~Ready!Overdue /\ probe_now' = probe_now + 1 /\ probe_now \in Nat /\ Timeout \in Nat /\ Lag \in Nat
      /\ UNCHANGED <<probe_up, probe_inFlight, probe_started, probe_task, probe_seen, probe_orphans, probe_joined, probe_arrived, probe_answer>>
  BY DEF Ready!Tick, ReadinessInv, ReadinessTyped, Ready!ReadinessAssumption
<1>2. ReadinessTyped' /\ JoinsFresh' /\ AnswersTrue' /\ Kept'
  BY <1>1 DEF ReadinessInv, ReadinessTyped, JoinsFresh, Begun, AnswersTrue, Kept, Active, Ready!Abandoned
<1>3. ProbesSee'
  BY <1>1 DEF ReadinessInv, ReadinessTyped, ProbesSee, Begun
<1>4. ReadyApart'
  <2> SUFFICES ASSUME NEW c \in Checks, NEW p \in Active(c)
               PROVE  probe_now + 1 <= probe_started[p] + Timeout + Lag /\ (p # probe_inFlight => probe_started[p] + Timeout <= probe_now + 1)
    BY <1>1 DEF ReadyApart, Active, ReadinessInv
  <2>1. probe_started[p] \in Nat
    BY DEF ReadinessInv, ReadinessTyped, ProbesSee, Active, Begun
  <2>2. ~(probe_now - probe_started[p] >= Timeout + Lag)
    BY <1>1 DEF Ready!Overdue, Active
  <2>3. p # probe_inFlight => probe_started[p] + Timeout <= probe_now
    BY DEF ReadinessInv, ReadyApart
  <2> QED BY <1>1, <2>1, <2>2, <2>3
<1> QED BY <1>2, <1>3, <1>4 DEF ReadinessInv

LEMMA ReadyRespondSafe ==
  ASSUME Ready!ReadinessAssumption, ReadinessInv, NEW r \in ProbeRequests, Ready!Respond(r) \/ Ready!Disconnect(r)
  PROVE  ReadinessInv'
<1>1. PICK a \in Replies : /\ probe_joined[r] # None /\ probe_answer' = [probe_answer EXCEPT ![r] = a]
                           /\ a = "ready" => Ready!Ready(probe_joined[r])
                           /\ UNCHANGED <<probe_now, probe_up, probe_inFlight, probe_started, probe_task, probe_seen, probe_orphans, probe_joined, probe_arrived>>
  BY DEF Ready!Respond, Ready!Disconnect, Replies
<1>2. ReadinessTyped' /\ ProbesSee' /\ JoinsFresh'
  BY <1>1 DEF ReadinessInv, ReadinessTyped, ProbesSee, JoinsFresh, Begun
<1>3. AnswersTrue'
  BY <1>1 DEF ReadinessInv, ReadinessTyped, AnswersTrue, Ready!Ready
<1>4. ReadyApart' /\ Kept'
  BY <1>1 DEF ReadinessInv, ReadyApart, Kept, Active, Ready!Abandoned
<1> QED BY <1>2, <1>3, <1>4 DEF ReadinessInv

LEMMA ReapSafe ==
  ASSUME Ready!ReadinessAssumption, ReadinessInv,
         (\E o \in probe_orphans : Ready!Reap(o)) \/ (\E c \in Checks : Ready!Flip(c)) \/ UNCHANGED Ready!vars
  PROVE  ReadinessInv'
<1>1. /\ probe_orphans' \subseteq probe_orphans
      /\ UNCHANGED <<probe_now, probe_inFlight, probe_started, probe_task, probe_seen, probe_joined, probe_arrived, probe_answer>>
  BY DEF Ready!Reap, Ready!Flip, Ready!vars
<1>2. ReadinessTyped' /\ ProbesSee' /\ JoinsFresh' /\ AnswersTrue'
  BY <1>1 DEF ReadinessInv, ReadinessTyped, ProbesSee, JoinsFresh, Begun, AnswersTrue
<1>3. \A c \in Checks : Active(c)' \subseteq Active(c)
  BY <1>1 DEF Active
<1> QED BY <1>1, <1>2, <1>3, TasksEnd, OrphansGo DEF ReadinessInv

LEMMA ReadinessStarts == ASSUME Ready!ReadinessAssumption, Ready!Init PROVE ReadinessInv
<1>1. \A c : Ready!Abandoned(c) = {}
  BY DEF Ready!Init, Ready!Abandoned
<1>2. \A c \in Checks : Active(c) = {}
  BY DEF Ready!Init, Active
<1>3. Kept
  BY <1>1, <1>2, FS_EmptySet DEF Kept, Ready!ReadinessAssumption
<1> QED BY <1>2, <1>3 DEF Ready!Init, ReadinessInv, ReadinessTyped, ProbesSee, Begun, JoinsFresh, AnswersTrue, ReadyApart, Ready!ReadinessAssumption

LEMMA ReadinessKeeps == ASSUME Ready!ReadinessAssumption, ReadinessInv, [Ready!Next]_(Ready!vars) PROVE ReadinessInv'
<1>1. CASE \E r \in ProbeRequests : Ready!Request(r)
  BY <1>1, JoinSafe, ReadyBeginSafe
<1>2. CASE \E r \in ProbeRequests : Ready!Respond(r) \/ Ready!Disconnect(r)
  BY <1>2, ReadyRespondSafe
<1>3. CASE \E p \in Probes, c \in Checks : Ready!Answers(p, c) \/ Ready!TimesOut(p, c)
  BY <1>3, AnswersSafe, TimesOutSafe
<1>4. CASE (\E o \in probe_orphans : Ready!Reap(o)) \/ (\E c \in Checks : Ready!Flip(c)) \/ UNCHANGED Ready!vars
  BY <1>4, ReapSafe
<1>5. CASE Ready!Tick
  BY <1>5, ReadyTickSafe
<1> QED BY <1>1, <1>2, <1>3, <1>4, <1>5 DEF Ready!Next

(* The inductive invariant of the readiness probe, in every behaviour.     *)
THEOREM ReadinessIsSafe == ASSUME Ready!ReadinessAssumption PROVE Ready!Spec => []ReadinessInv
<1>1. Ready!Init => ReadinessInv
  BY ReadinessStarts
<1>2. ReadinessInv /\ [Ready!Next]_(Ready!vars) => ReadinessInv'
  BY ReadinessKeeps
<1> QED BY <1>1, <1>2, PTL DEF Ready!Spec

(* readiness.py, ReadinessProbe.probe: a shared probe never hands out an   *)
(* observation a timeout older than the request that is answered "ready".  *)
THEOREM ReadyMeansFresh == ASSUME Ready!ReadinessAssumption PROVE Ready!Spec => []Ready!ReadyIsFresh
<1>1. Ready!ReadinessAssumption /\ ReadinessInv => Ready!ReadyIsFresh
  <2> SUFFICES ASSUME Ready!ReadinessAssumption, ReadinessInv, NEW r \in ProbeRequests, probe_answer[r] = "ready", NEW c \in Checks
               PROVE  probe_seen[probe_joined[r]][c] + Timeout > probe_arrived[r]
    BY DEF Ready!ReadyIsFresh
  <2>1. probe_joined[r] \in Probes /\ probe_joined[r] # None /\ probe_task[probe_joined[r]][c] = "ok"
    BY DEF ReadinessInv, ReadinessTyped, AnswersTrue
  <2>2. probe_started[probe_joined[r]] # None /\ probe_arrived[r] < probe_started[probe_joined[r]] + Timeout
    BY <2>1 DEF ReadinessInv, JoinsFresh, Begun
  <2>3. probe_started[probe_joined[r]] <= probe_seen[probe_joined[r]][c]
    BY <2>1 DEF ReadinessInv, ProbesSee
  <2>4. /\ probe_started[probe_joined[r]] \in Nat /\ probe_seen[probe_joined[r]][c] \in Nat /\ probe_arrived[r] \in Nat /\ Timeout \in Nat
    <3>1. probe_started \in [Probes -> Nat \cup {None}] /\ probe_arrived \in [ProbeRequests -> Nat]
      BY DEF ReadinessInv, ReadinessTyped
    <3>2. probe_seen \in [Probes -> [Checks -> Nat]]
      BY DEF ReadinessInv, ReadinessTyped
    <3>3. probe_started[probe_joined[r]] \in Nat /\ probe_arrived[r] \in Nat /\ Timeout \in Nat
      BY <2>1, <2>2, <3>1 DEF Ready!ReadinessAssumption
    <3>4. probe_seen[probe_joined[r]][c] \in Nat
      BY <2>1, <3>2
    <3> QED BY <3>3, <3>4
  <2> QED BY <2>2, <2>3, <2>4
<1> QED BY <1>1, ReadinessIsSafe, PTL

(* ReadinessProbe._bounded: checks that ignore their cancellation do not   *)
(* pile up, as long as the event loop is late by less than the timeout.    *)
THEOREM OrphansStayBounded == ASSUME Ready!ReadinessAssumption PROVE Ready!Spec => []Ready!OrphansBounded
<1>1. Ready!ReadinessAssumption /\ ReadinessInv => Ready!OrphansBounded
  <2> SUFFICES ASSUME Ready!ReadinessAssumption, ReadinessInv, NEW c \in Checks
               PROVE  Cardinality(Ready!Abandoned(c)) <= MaxAbandoned + 1
    BY DEF Ready!OrphansBounded
  <2>1. /\ Cardinality(Ready!Abandoned(c)) + Cardinality(Active(c)) <= MaxAbandoned + 1
        /\ Cardinality(Ready!Abandoned(c)) \in Nat /\ Cardinality(Active(c)) \in Nat /\ MaxAbandoned \in Nat
    BY FiniteKept DEF ReadinessInv, Kept, Ready!ReadinessAssumption
  <2> QED BY <2>1
<1> QED BY <1>1, ReadinessIsSafe, PTL

HIDE ReadySets

-----------------------------------------------------------------------------
\* Rate limits: the buckets that are kept, and the hints of refusals.
Buckets == INSTANCE RateLimit WITH
  now <- rate_now, buckets <- rate_buckets, older <- rate_older, lastSweep <- rate_lastSweep,
  exact <- rate_exact, dropped <- rate_dropped, hint <- rate_hint

\* Finite sets are the same in the instance.
LEMMA BucketsSets == \A S : (Buckets!IsFiniteSet(S) <=> IsFiniteSet(S)) /\ Buckets!Cardinality(S) = Cardinality(S)
<1>1. \A S : Buckets!IsFiniteSet(S) <=> IsFiniteSet(S)
  BY DEF Buckets!IsFiniteSet, IsFiniteSet
<1>2. \A S : Buckets!Cardinality(S) = Cardinality(S)
  BY DEF Buckets!Cardinality, Cardinality
<1> QED BY <1>1, <1>2

USE BucketsSets

\* A bucket is one of the past, with no more tokens than a full one.
BucketOK(b) == /\ b = [tokens |-> b.tokens, updated |-> b.updated]
               /\ b.tokens \in 0..Buckets!Full /\ b.updated \in 0..rate_now

\* The dict order is a strict total order of the owners.
OrderOK ==
  /\ \A p, q \in Buckets!Owners : p # q => <<p, q>> \in rate_older \/ <<q, p>> \in rate_older
  /\ \A p, q, r \in Buckets!Owners : <<p, q>> \in rate_older /\ <<q, r>> \in rate_older => <<p, r>> \in rate_older
  /\ \A p \in Buckets!Owners : <<p, p>> \notin rate_older

\* At the time a refusal named, the bucket it left holds a token.
HintOK == \A p \in Principals :
  rate_hint[p] # 0 /\ p \in Buckets!Owners => rate_buckets[p].tokens + (rate_hint[p] - rate_buckets[p].updated) * Rate >= One

RateInv ==
  /\ rate_now \in Nat /\ Buckets!Owners \subseteq Principals /\ IsFiniteSet(Buckets!Owners)
  /\ rate_buckets = [p \in Buckets!Owners |-> rate_buckets[p]] /\ \A p \in Buckets!Owners : BucketOK(rate_buckets[p])
  /\ rate_exact = [p \in Principals |-> rate_exact[p]] /\ \A p \in Principals : BucketOK(rate_exact[p])
  /\ rate_hint \in [Principals -> Nat] /\ \A p \in Principals : rate_hint[p] # 0 /\ p \in Buckets!Owners => rate_buckets[p].updated <= rate_hint[p]
  /\ OrderOK /\ Buckets!BucketsBounded /\ Buckets!SweepIsInvisible /\ HintOK

-----------------------------------------------------------------------------
\* Refills add up: what a bucket gets over two stretches is what it gets over
\* both at once.
LEMMA RefillsAdd == \A a, b, c \in Nat : (a + b) * c = a * c + b * c /\ a * c \in Nat
OBVIOUS

LEMMA FullFacts ==
  ASSUME Buckets!RateAssumption
  PROVE  Buckets!Full \in Nat /\ One <= Buckets!Full /\ One \in Nat /\ Rate \in Nat /\ One > 0 /\ Rate > 0
<1>1. \A a, b \in Nat \ {0} : a * b \in Nat /\ b <= a * b
  OBVIOUS
<1> QED BY <1>1 DEF Buckets!RateAssumption, Buckets!Full

LEMMA RefilledBounds ==
  ASSUME Buckets!RateAssumption, rate_now \in Nat, NEW b, BucketOK(b)
  PROVE  Buckets!Refilled(b) \in 0..Buckets!Full /\ b.tokens <= Buckets!Refilled(b)
<1>1. rate_now - b.updated \in Nat
  BY DEF BucketOK
<1>2. (rate_now - b.updated) * Rate \in Nat
  BY <1>1, FullFacts, RefillsAdd
<1> QED BY <1>2, FullFacts DEF BucketOK, Buckets!Refilled

LEMMA TakeOK ==
  ASSUME Buckets!RateAssumption, rate_now \in Nat, NEW b, BucketOK(b)
  PROVE  BucketOK(Buckets!Take(b)) /\ Buckets!Take(b).updated = rate_now
<1>1. Buckets!Refilled(b) \in 0..Buckets!Full
  BY RefilledBounds
<1> DEFINE t == IF Buckets!Refilled(b) < One THEN Buckets!Refilled(b) ELSE Buckets!Refilled(b) - One
<1>2. t \in 0..Buckets!Full
  BY <1>1, FullFacts
<1>3. Buckets!Take(b) = [tokens |-> t, updated |-> rate_now]
  BY DEF Buckets!Take
<1> HIDE DEF t
<1> QED BY <1>2, <1>3 DEF BucketOK

\* The hint of a refusal is late enough for one token.
LEMMA HintSuffices ==
  ASSUME Buckets!RateAssumption, NEW t \in Nat, t < One
  PROVE  Buckets!RetryAfter(t) \in Nat \ {0} /\ t + Buckets!RetryAfter(t) * Rate >= One
<1> DEFINE a == One - t
           n == (a + Rate - 1) \div Rate
<1>1. a \in Nat \ {0} /\ Rate \in Nat \ {0} /\ One \in Nat
  BY FullFacts
<1>2. \A x, r \in Nat \ {0} : (x + r - 1) \div r \in Nat /\ ((x + r - 1) \div r) * r >= x
  OBVIOUS
<1>3. n \in Nat /\ n * Rate >= a
  BY <1>1, <1>2
<1>4. n >= 1
  <2>1. CASE n = 0
    <3>1. n * Rate = 0
      BY <2>1, <1>1
    <3> QED BY <3>1, <1>3, <1>1
  <2> QED BY <2>1, <1>3
<1>5. Buckets!RetryAfter(t) = n
  <2>1. One - t + Rate - 1 = a + Rate - 1
    OBVIOUS
  <2> HIDE DEF a
  <2> QED BY <2>1, <1>4, <1>3 DEF Buckets!RetryAfter
<1> HIDE DEF n
<1> QED BY <1>1, <1>3, <1>4, <1>5

\* Of a finite set ordered by age, fewer than n members have fewer than n - 1
\* younger ones.
LEMMA YoungestFew ==
  ASSUME NEW S, IsFiniteSet(S), NEW R, NEW n \in Nat \ {0},
         \A p, q \in S : p # q => <<p, q>> \in R \/ <<q, p>> \in R,
         \A p, q, r \in S : <<p, q>> \in R /\ <<q, r>> \in R => <<p, r>> \in R,
         \A p \in S : <<p, p>> \notin R
  PROVE  Cardinality({p \in S : Cardinality({q \in S : <<p, q>> \in R}) + 1 < n}) < n
<1> DEFINE After(p) == {q \in S : <<p, q>> \in R}
           X == {p \in S : Cardinality(After(p)) + 1 < n}
           L == {k \in Nat : \E p \in X : k = n - Cardinality(After(p))}
<1> SUFFICES Cardinality(X) < n
  OBVIOUS
<1>1. \A p \in S : IsFiniteSet(After(p)) /\ Cardinality(After(p)) \in Nat
  BY FS_Subset, FS_CardinalityType
<1>2. IsFiniteSet(X) /\ Cardinality(X) \in Nat
  BY FS_Subset, FS_CardinalityType
<1>3. CASE X = {}
  <2>1. Cardinality(X) = 0
    BY <1>3, FS_EmptySet
  <2> HIDE DEF X
  <2> QED BY <2>1
<1>4. CASE X # {}
  <2>1. L # {} /\ L \subseteq Nat
    <3>1. PICK p \in X : TRUE
      BY <1>4
    <3>2. Cardinality(After(p)) \in Nat /\ Cardinality(After(p)) + 1 < n
      BY <3>1, <1>1
    <3> HIDE DEF X, After
    <3>3. n - Cardinality(After(p)) \in Nat
      BY <3>2
    <3> QED BY <3>1, <3>3
  <2> HIDE DEF After, X
  <2>2. PICK k \in L : \A l \in L : ~(<<l, k>> \in OpToRel(<, Nat))
    BY <2>1, NatLessThanWellFounded, WFMin
  <2>3. PICK p \in X : k = n - Cardinality(After(p))
    BY <2>2
  <2>4. p \in S /\ Cardinality(After(p)) + 1 < n
    BY <2>3 DEF X
  <2>5. ASSUME NEW q \in X, q # p
        PROVE  q \in After(p)
    <3>1. q \in S /\ Cardinality(After(q)) + 1 < n
      BY <2>5 DEF X
    <3>2. CASE <<q, p>> \in R
      <4>1. After(p) \cup {p} \subseteq After(q) /\ p \notin After(p)
        BY <3>2, <3>1, <2>4 DEF After
      <4>2. Cardinality(After(p) \cup {p}) = Cardinality(After(p)) + 1
        BY <4>1, <1>1, <2>4, FS_AddElement
      <4>3. Cardinality(After(p) \cup {p}) <= Cardinality(After(q))
        BY <4>1, <1>1, <3>1, FS_Subset
      <4>4. n - Cardinality(After(q)) \in L /\ n - Cardinality(After(q)) < k
        BY <4>2, <4>3, <1>1, <2>3, <2>4, <3>1, <2>5
      <4>5. <<n - Cardinality(After(q)), k>> \in OpToRel(<, Nat)
        BY <4>4, <2>1 DEF OpToRel
      <4> QED BY <4>4, <4>5, <2>2
    <3> QED BY <3>1, <3>2, <2>4, <2>5 DEF After
  <2>6. X \subseteq After(p) \cup {p}
    BY <2>5
  <2>7. /\ IsFiniteSet(After(p) \cup {p})
        /\ Cardinality(After(p) \cup {p}) <= Cardinality(After(p)) + 1
    <3>1. p \notin After(p)
      BY <2>4 DEF After
    <3>2. /\ IsFiniteSet(After(p) \cup {p})
          /\ Cardinality(After(p) \cup {p}) = Cardinality(After(p)) + 1
      BY <3>1, <1>1, <2>4, FS_AddElement
    <3> QED BY <3>2, <1>1, <2>4
  <2>8. Cardinality(X) <= Cardinality(After(p) \cup {p})
    BY <2>6, <2>7, FS_Subset
  <2>9. Cardinality(After(p) \cup {p}) \in Nat
    BY <2>7, FS_CardinalityType
  <2>10. \A x, y, z \in Nat : x <= y /\ y <= z + 1 /\ z + 1 < n => x < n
    OBVIOUS
  <2>11. Cardinality(X) \in Nat /\ Cardinality(After(p)) \in Nat
    BY <1>1, <1>2, <2>4
  <2> QED BY ONLY <2>7, <2>8, <2>9, <2>4, <2>10, <2>11
<1> QED BY <1>3, <1>4
-----------------------------------------------------------------------------
LEMMA RateStarts == ASSUME Buckets!RateAssumption, Buckets!Init PROVE RateInv
<1>1. IsFiniteSet({}) /\ Cardinality({}) = 0
  BY FS_EmptySet
<1>2. Buckets!Owners = {}
  BY DEF Buckets!Init, Buckets!Owners
<1>3. rate_buckets = [p \in Buckets!Owners |-> rate_buckets[p]] /\ (\A p \in Buckets!Owners : BucketOK(rate_buckets[p])) /\ OrderOK
  BY <1>2 DEF Buckets!Init, OrderOK
<1>4. rate_exact = [p \in Principals |-> rate_exact[p]] /\ \A p \in Principals : BucketOK(rate_exact[p])
  BY FullFacts DEF Buckets!Init, BucketOK
<1>5. Buckets!BucketsBounded
  BY <1>1, <1>2 DEF Buckets!BucketsBounded, Buckets!RateAssumption
<1>6. Buckets!SweepIsInvisible
  BY <1>2 DEF Buckets!SweepIsInvisible, Buckets!BucketOf, Buckets!Init
<1> QED BY <1>1, <1>2, <1>3, <1>4, <1>5, <1>6 DEF RateInv, HintOK, Buckets!Init

\* Time refills every bucket alike.
LEMMA TickRefills ==
  ASSUME Buckets!RateAssumption, RateInv, Buckets!Tick, NEW b, BucketOK(b)
  PROVE  /\ BucketOK(b)'
         /\ Buckets!Refilled(b)' = IF Buckets!Refilled(b) + Rate <= Buckets!Full THEN Buckets!Refilled(b) + Rate ELSE Buckets!Full
<1> DEFINE n == rate_now - b.updated
<1>1. n \in Nat /\ rate_now \in Nat /\ rate_now' = rate_now + 1 /\ b.updated \in Nat /\ rate_now' - b.updated = n + 1
  <2>1. rate_now \in Nat /\ rate_now' = rate_now + 1 /\ b.updated \in 0..rate_now
    BY DEF RateInv, Buckets!Tick, BucketOK
  <2>2. \A u \in 0..rate_now : rate_now - u \in Nat /\ rate_now + 1 - u = (rate_now - u) + 1
    BY <2>1
  <2> QED BY <2>1, <2>2
<1> HIDE DEF n
<1>2. (n + 1) * Rate = n * Rate + Rate /\ n * Rate \in Nat
  <2>1. 1 * Rate = Rate
    BY FullFacts
  <2> QED BY <2>1, <1>1, FullFacts, RefillsAdd
<1>3. Buckets!Refilled(b)' = IF b.tokens + (n + 1) * Rate <= Buckets!Full THEN b.tokens + (n + 1) * Rate ELSE Buckets!Full
  BY <1>1 DEF Buckets!Refilled, Buckets!Full
<1>4. Buckets!Refilled(b) = IF b.tokens + n * Rate <= Buckets!Full THEN b.tokens + n * Rate ELSE Buckets!Full
  BY DEF Buckets!Refilled, n
<1>5. BucketOK(b)'
  BY <1>1 DEF BucketOK, Buckets!Full
<1> QED BY <1>2, <1>3, <1>4, <1>5, FullFacts DEF BucketOK

LEMMA RateTick == ASSUME Buckets!RateAssumption, RateInv, Buckets!Tick PROVE RateInv'
<1>1. rate_now \in Nat /\ rate_now' = rate_now + 1 /\ UNCHANGED <<rate_buckets, rate_older, rate_lastSweep, rate_exact, rate_dropped, rate_hint>>
  BY DEF RateInv, Buckets!Tick
<1>2. Buckets!Owners' = Buckets!Owners
  BY <1>1 DEF Buckets!Owners
<1>3. \A b : BucketOK(b) => BucketOK(b)'
  BY TickRefills
<1>4. \A p \in Buckets!Owners : BucketOK(rate_buckets[p])'
  BY <1>1, <1>2, <1>3 DEF RateInv
<1>5. \A p \in Principals : BucketOK(rate_exact[p])'
  BY <1>1, <1>3 DEF RateInv
<1>6. Buckets!SweepIsInvisible'
  <2> SUFFICES ASSUME NEW p \in Principals \ rate_dropped
               PROVE  Buckets!Refilled(Buckets!BucketOf(Buckets!Owners, p))' = Buckets!Refilled(rate_exact[p])'
    BY <1>1 DEF Buckets!SweepIsInvisible
  <2>1. Buckets!Refilled(Buckets!BucketOf(Buckets!Owners, p)) = Buckets!Refilled(rate_exact[p]) /\ BucketOK(rate_exact[p])
    BY DEF RateInv, Buckets!SweepIsInvisible
  <2>2. Buckets!Refilled(rate_exact[p])' = IF Buckets!Refilled(rate_exact[p]) + Rate <= Buckets!Full THEN Buckets!Refilled(rate_exact[p]) + Rate ELSE Buckets!Full
    BY <2>1, <1>1, TickRefills
  <2>3. CASE p \in Buckets!Owners
    <3>1. Buckets!BucketOf(Buckets!Owners, p) = rate_buckets[p] /\ Buckets!BucketOf(Buckets!Owners, p)' = rate_buckets[p] /\ BucketOK(rate_buckets[p])
      BY <2>3, <1>1, <1>2 DEF Buckets!BucketOf, RateInv
    <3>2. Buckets!Refilled(rate_buckets[p])' = IF Buckets!Refilled(rate_buckets[p]) + Rate <= Buckets!Full THEN Buckets!Refilled(rate_buckets[p]) + Rate ELSE Buckets!Full
      BY <3>1, <1>1, TickRefills
    <3>3. Buckets!Refilled(Buckets!BucketOf(Buckets!Owners, p))' = Buckets!Refilled(rate_buckets[p])'
      BY <3>1, <1>1 DEF Buckets!Refilled
    <3> QED BY <3>1, <3>2, <3>3, <2>1, <2>2
  <2>4. CASE p \notin Buckets!Owners
    <3>1. Buckets!Refilled([tokens |-> Buckets!Full, updated |-> rate_now]) = Buckets!Full
      <4>1. (rate_now - rate_now) * Rate = 0
        BY <1>1, FullFacts
      <4> QED BY <4>1, FullFacts DEF Buckets!Refilled
    <3>2. Buckets!Refilled(Buckets!BucketOf(Buckets!Owners, p)) = Buckets!Full
      BY <3>1, <2>4 DEF Buckets!BucketOf
    <3>3. Buckets!Refilled(Buckets!BucketOf(Buckets!Owners, p))' = Buckets!Full
      <4>1. (rate_now' - rate_now') * Rate = 0
        BY <1>1, FullFacts
      <4>2. Buckets!BucketOf(Buckets!Owners, p)' = [tokens |-> Buckets!Full, updated |-> rate_now']
        BY <2>4, <1>2 DEF Buckets!BucketOf, Buckets!Full
      <4> QED BY <4>1, <4>2, FullFacts DEF Buckets!Refilled, Buckets!Full
    <3>4. Buckets!Refilled(rate_exact[p])' = Buckets!Full
      <4>1. ~(Buckets!Full + Rate <= Buckets!Full)
        BY FullFacts
      <4>2. Buckets!Refilled(rate_exact[p]) = Buckets!Full
        BY <3>2, <2>1
      <4> QED BY <4>1, <4>2, <2>2
    <3> QED BY <3>3, <3>4
  <2> QED BY <2>3, <2>4
<1>7. OrderOK' /\ Buckets!BucketsBounded' /\ HintOK'
  BY <1>1, <1>2 DEF RateInv, OrderOK, Buckets!BucketsBounded, HintOK
<1> QED BY <1>1, <1>2, <1>4, <1>5, <1>6, <1>7 DEF RateInv

-----------------------------------------------------------------------------
\* Who keeps a bucket: an owner, and no more of them than fit beside one more.
LEMMA KeptFacts ==
  ASSUME Buckets!RateAssumption, RateInv, NEW p \in Principals
  PROVE  /\ Buckets!Kept(p) \subseteq Buckets!Owners /\ IsFiniteSet(Buckets!Kept(p) \ {p})
         /\ Cardinality(Buckets!Kept(p) \ {p}) + 1 <= MaxBuckets
<1>1. MaxBuckets \in Nat \ {0} /\ IsFiniteSet(Buckets!Owners) /\ Cardinality(Buckets!Owners) <= MaxBuckets /\ OrderOK
  BY DEF Buckets!RateAssumption, RateInv, Buckets!BucketsBounded
<1>2. Buckets!SweptFull \subseteq Buckets!Owners /\ Buckets!Capped(Buckets!SweptFull) \subseteq Buckets!SweptFull
  BY DEF Buckets!SweptFull, Buckets!Capped
<1>3. Buckets!Kept(p) \subseteq Buckets!Owners
  BY <1>2 DEF Buckets!Kept
<1>4. IsFiniteSet(Buckets!Kept(p)) /\ IsFiniteSet(Buckets!Kept(p) \ {p})
  BY <1>1, <1>3, FS_Subset
<1>5. /\ Cardinality(Buckets!Kept(p)) \in Nat /\ Cardinality(Buckets!Kept(p) \ {p}) \in Nat /\ Cardinality(Buckets!Owners) \in Nat
      /\ Cardinality(Buckets!Kept(p) \ {p}) <= Cardinality(Buckets!Kept(p))
      /\ p \in Buckets!Kept(p) => Cardinality(Buckets!Kept(p) \ {p}) = Cardinality(Buckets!Kept(p)) - 1
  BY <1>1, <1>4, FS_CardinalityType, FS_Subset, FS_RemoveElement
<1>6. CASE Buckets!SweepDue(p)
  <2>1. IsFiniteSet(Buckets!SweptFull)
    BY <1>1, <1>2, FS_Subset
  <2>2. Cardinality(Buckets!Capped(Buckets!SweptFull)) < MaxBuckets
    <3>1. /\ \A x, y \in Buckets!SweptFull : x # y => <<x, y>> \in rate_older \/ <<y, x>> \in rate_older
          /\ \A x, y, z \in Buckets!SweptFull : <<x, y>> \in rate_older /\ <<y, z>> \in rate_older => <<x, z>> \in rate_older
          /\ \A x \in Buckets!SweptFull : <<x, x>> \notin rate_older
      BY <1>1, <1>2 DEF OrderOK
    <3> HIDE DEF Buckets!SweptFull
    <3> QED BY <3>1, <2>1, <1>1, YoungestFew DEF Buckets!Capped
  <2>3. Buckets!Kept(p) = Buckets!Capped(Buckets!SweptFull)
    BY <1>6 DEF Buckets!Kept
  <2> QED BY <2>2, <2>3, <1>5, <1>3, <1>4, <1>1
<1>7. CASE ~Buckets!SweepDue(p)
  <2>1. Buckets!Kept(p) = Buckets!Owners /\ (Cardinality(Buckets!Owners) < MaxBuckets \/ p \in Buckets!Owners)
    BY <1>7, <1>5, <1>1 DEF Buckets!Kept, Buckets!SweepDue
  <2> QED BY <2>1, <1>5, <1>3, <1>4, <1>1
<1> QED BY <1>6, <1>7

\* What an acquire does.
LEMMA AcquireFacts ==
  ASSUME Buckets!RateAssumption, RateInv, NEW p \in Principals, Buckets!Acquire(p)
  PROVE  LET mine == Buckets!BucketOf(Buckets!Kept(p), p)
             others == Buckets!Kept(p) \ {p}
         IN  /\ Buckets!Owners' = others \cup {p} /\ others \subseteq Buckets!Owners
             /\ \A q \in others : rate_buckets'[q] = rate_buckets[q]
             /\ rate_buckets'[p] = Buckets!Take(mine) /\ BucketOK(mine)
             /\ rate_buckets' = [q \in Buckets!Owners' |-> rate_buckets'[q]]
             /\ rate_now' = rate_now
<1> DEFINE mine == Buckets!BucketOf(Buckets!Kept(p), p)
           others == Buckets!Kept(p) \ {p}
<1>1. rate_buckets' = [q \in others \cup {p} |-> IF q = p THEN Buckets!Take(mine) ELSE rate_buckets[q]] /\ rate_now' = rate_now
  BY DEF Buckets!Acquire
<1>2. Buckets!Owners' = others \cup {p}
  BY <1>1 DEF Buckets!Owners
<1>3. Buckets!Kept(p) \subseteq Buckets!Owners
  BY KeptFacts
<1>4. BucketOK(mine)
  <2>1. CASE p \in Buckets!Kept(p)
    BY <2>1, <1>3 DEF RateInv, Buckets!BucketOf
  <2>2. CASE p \notin Buckets!Kept(p)
    BY <2>2, FullFacts DEF RateInv, Buckets!BucketOf, BucketOK
  <2> QED BY <2>1, <2>2
<1> HIDE DEF mine
<1>5. others \subseteq Buckets!Owners
  BY <1>3
<1>6. (\A q \in others : rate_buckets'[q] = rate_buckets[q]) /\ rate_buckets'[p] = Buckets!Take(mine)
  BY <1>1
<1>7. rate_buckets' = [q \in Buckets!Owners' |-> rate_buckets'[q]]
  BY <1>1, <1>2
<1> QED BY <1>1, <1>2, <1>4, <1>5, <1>6, <1>7 DEF mine

LEMMA AcquireKeepsOrder ==
  ASSUME Buckets!RateAssumption, RateInv, NEW p \in Principals, Buckets!Acquire(p)
  PROVE  OrderOK'
<1> DEFINE others == Buckets!Kept(p) \ {p}
<1>1. Buckets!Owners' = others \cup {p} /\ others \subseteq Buckets!Owners
  BY AcquireFacts
<1>2. rate_older' = (rate_older \cap (others \X others)) \cup (others \X {p}) /\ p \notin others
  BY DEF Buckets!Acquire
<1> HIDE DEF others
<1>3. \A q, r \in others : <<q, r>> \in rate_older' <=> <<q, r>> \in rate_older
  BY <1>2
<1>4. \A q \in others : <<q, p>> \in rate_older' /\ <<p, q>> \notin rate_older'
  BY <1>2
<1>5. <<p, p>> \notin rate_older'
  BY <1>2
<1>6. /\ \A q, r \in others : q # r => <<q, r>> \in rate_older \/ <<r, q>> \in rate_older
      /\ \A q, r, s \in others : <<q, r>> \in rate_older /\ <<r, s>> \in rate_older => <<q, s>> \in rate_older
      /\ \A q \in others : <<q, q>> \notin rate_older
  BY <1>1 DEF RateInv, OrderOK
<1>7. /\ \A q, r \in Buckets!Owners' : q # r => <<q, r>> \in rate_older' \/ <<r, q>> \in rate_older'
      /\ \A q \in Buckets!Owners' : <<q, q>> \notin rate_older'
  BY <1>1, <1>3, <1>4, <1>5, <1>6
<1>8. ASSUME NEW q \in Buckets!Owners', NEW r \in Buckets!Owners', NEW s \in Buckets!Owners', <<q, r>> \in rate_older', <<r, s>> \in rate_older'
      PROVE  <<q, s>> \in rate_older'
  <2>1. q \in others /\ r \in others
    BY <1>1, <1>4, <1>5, <1>8
  <2>2. CASE s = p
    BY <2>1, <2>2, <1>4
  <2>3. CASE s \in others
    BY <2>1, <2>3, <1>3, <1>6, <1>8
  <2> QED BY <2>2, <2>3, <1>1
<1> QED BY <1>7, <1>8 DEF OrderOK

\* Who lost its bucket to a sweep was full; who lost it to the cap is noted.
LEMMA AcquireIsInvisible ==
  ASSUME Buckets!RateAssumption, RateInv, NEW p \in Principals, Buckets!Acquire(p)
  PROVE  Buckets!SweepIsInvisible' /\ (\A q \in Principals : BucketOK(rate_exact[q])') /\ rate_exact' = [q \in Principals |-> rate_exact'[q]]
<1> DEFINE mine == Buckets!BucketOf(Buckets!Kept(p), p)
           others == Buckets!Kept(p) \ {p}
           K == Buckets!Kept(p)
<1>1. /\ Buckets!Owners' = others \cup {p} /\ others \subseteq Buckets!Owners /\ rate_now' = rate_now /\ rate_now \in Nat
      /\ \A q \in others : rate_buckets'[q] = rate_buckets[q]
      /\ rate_buckets'[p] = Buckets!Take(mine) /\ BucketOK(mine)
  BY AcquireFacts DEF RateInv
<1>2. rate_exact' = [rate_exact EXCEPT ![p] = Buckets!Take(@)] /\ rate_exact = [q \in Principals |-> rate_exact[q]]
      /\ \A q \in Principals : BucketOK(rate_exact[q])
  BY DEF Buckets!Acquire, RateInv
<1>3. rate_dropped' = rate_dropped \cup (IF Buckets!SweepDue(p) THEN Buckets!SweptFull \ K ELSE {})
  BY DEF Buckets!Acquire
<1>4. rate_exact'[p] = Buckets!Take(rate_exact[p]) /\ \A q \in Principals : q # p => rate_exact'[q] = rate_exact[q]
  BY <1>2
<1>5. \A b : Buckets!Refilled(b)' = Buckets!Refilled(b) /\ BucketOK(b)' = BucketOK(b)
  BY <1>1 DEF Buckets!Refilled, BucketOK, Buckets!Full
<1>6. \A q \in Principals : BucketOK(rate_exact[q])'
  <2>1. BucketOK(Buckets!Take(rate_exact[p]))
    BY <1>1, <1>2, TakeOK
  <2>2. \A q \in Principals : BucketOK(rate_exact'[q])
    BY <1>2, <1>4, <2>1
  <2> QED BY <2>2, <1>1 DEF BucketOK, Buckets!Full
<1>7. Buckets!Refilled([tokens |-> Buckets!Full, updated |-> rate_now]) = Buckets!Full
  <2>1. (rate_now - rate_now) * Rate = 0
    BY <1>1, FullFacts
  <2> QED BY <2>1, FullFacts DEF Buckets!Refilled
\* The bucket of q in the dict that is kept is as good as the exact one.
<1>8. ASSUME NEW q \in Principals, q \notin rate_dropped'
      PROVE  Buckets!Refilled(Buckets!BucketOf(K, q)) = Buckets!Refilled(rate_exact[q])
  <2>1. Buckets!Refilled(Buckets!BucketOf(Buckets!Owners, q)) = Buckets!Refilled(rate_exact[q])
    BY <1>3, <1>8 DEF RateInv, Buckets!SweepIsInvisible
  <2>2. CASE q \in K
    <3>1. q \in Buckets!Owners
      BY <2>2, KeptFacts
    <3> QED BY <3>1, <2>1, <2>2 DEF Buckets!BucketOf
  <2>3. CASE q \notin K /\ q \notin Buckets!Owners
    BY <2>1, <2>3 DEF Buckets!BucketOf
  <2>4. CASE q \notin K /\ q \in Buckets!Owners
    <3>1. Buckets!SweepDue(p) /\ q \notin Buckets!SweptFull
      BY <2>4, <1>3, <1>8 DEF Buckets!Kept
    <3>2. Buckets!BucketOf(Buckets!Owners, q) = rate_buckets[q] /\ BucketOK(rate_buckets[q]) /\ ~(Buckets!Refilled(rate_buckets[q]) < Buckets!Full)
      BY <3>1, <2>4 DEF Buckets!SweptFull, Buckets!BucketOf, RateInv
    <3>3. Buckets!Refilled(rate_buckets[q]) = Buckets!Full
      BY <3>2, <1>1, RefilledBounds, FullFacts
    <3>4. Buckets!BucketOf(K, q) = [tokens |-> Buckets!Full, updated |-> rate_now]
      BY <2>4 DEF Buckets!BucketOf
    <3> QED BY <3>2, <3>3, <3>4, <2>1, <1>7
  <2> QED BY <2>2, <2>3, <2>4
<1>9. ASSUME NEW q \in Principals, q \notin rate_dropped'
      PROVE  Buckets!Refilled(Buckets!BucketOf(Buckets!Owners, q)') = Buckets!Refilled(rate_exact'[q])
  <2>1. CASE q = p
    <3>1. Buckets!BucketOf(Buckets!Owners, q)' = Buckets!Take(mine)
      BY <2>1, <1>1 DEF Buckets!BucketOf
    <3>2. Buckets!Refilled(mine) = Buckets!Refilled(rate_exact[p])
      BY <1>8, <1>9, <2>1
    <3>3. Buckets!Take(mine) = Buckets!Take(rate_exact[p])
      BY <3>2 DEF Buckets!Take
    <3> QED BY <3>1, <3>3, <2>1, <1>4
  <2>2. CASE q # p
    <3>1. Buckets!BucketOf(Buckets!Owners, q)' = Buckets!BucketOf(K, q)
      <4>1. CASE q \in K
        BY <4>1, <2>2, <1>1 DEF Buckets!BucketOf
      <4>2. CASE q \notin K
        BY <4>2, <2>2, <1>1 DEF Buckets!BucketOf, Buckets!Full
      <4> QED BY <4>1, <4>2
    <3> QED BY <3>1, <2>2, <1>4, <1>8, <1>9
  <2> QED BY <2>1, <2>2
<1>10. Buckets!SweepIsInvisible'
  <2> SUFFICES ASSUME NEW q \in Principals, q \notin rate_dropped'
               PROVE  Buckets!Refilled(Buckets!BucketOf(Buckets!Owners, q))' = Buckets!Refilled(rate_exact[q])'
    BY DEF Buckets!SweepIsInvisible
  <2>1. Buckets!Refilled(Buckets!BucketOf(Buckets!Owners, q)') = Buckets!Refilled(rate_exact'[q])
    BY <1>9
  <2> QED BY <2>1, <1>1 DEF Buckets!Refilled, Buckets!Full
<1>11. rate_exact' = [q \in Principals |-> rate_exact'[q]]
  BY <1>2
<1> QED BY <1>6, <1>10, <1>11

LEMMA AcquireHints ==
  ASSUME Buckets!RateAssumption, RateInv, NEW p \in Principals, Buckets!Acquire(p)
  PROVE  /\ HintOK' /\ rate_hint' \in [Principals -> Nat]
         /\ \A q \in Principals : rate_hint'[q] # 0 /\ q \in Buckets!Owners' => rate_buckets'[q].updated <= rate_hint'[q]
<1> DEFINE mine == Buckets!BucketOf(Buckets!Kept(p), p)
           others == Buckets!Kept(p) \ {p}
           new == IF Buckets!Refilled(mine) < One THEN rate_now + Buckets!RetryAfter(Buckets!Refilled(mine)) ELSE 0
<1>1. /\ Buckets!Owners' = others \cup {p} /\ others \subseteq Buckets!Owners /\ rate_now' = rate_now /\ rate_now \in Nat
      /\ \A q \in others : rate_buckets'[q] = rate_buckets[q]
      /\ rate_buckets'[p] = Buckets!Take(mine) /\ BucketOK(mine)
  BY AcquireFacts DEF RateInv
<1>2. rate_hint' = [rate_hint EXCEPT ![p] = new] /\ rate_hint \in [Principals -> Nat]
  BY DEF Buckets!Acquire, RateInv
<1>3. Buckets!Refilled(mine) \in Nat
  BY <1>1, RefilledBounds, FullFacts
<1>4. /\ new \in Nat
      /\ new # 0 => /\ rate_buckets'[p].tokens + (new - rate_buckets'[p].updated) * Rate >= One
                    /\ rate_buckets'[p].updated <= new
  <2> DEFINE t == Buckets!Refilled(mine)
  <2>1. CASE ~(t < One)
    BY <2>1
  <2>2. CASE t < One
    <3>1. Buckets!RetryAfter(t) \in Nat \ {0} /\ t + Buckets!RetryAfter(t) * Rate >= One
      BY <1>3, <2>2, HintSuffices
    <3>2. rate_buckets'[p].tokens = t /\ rate_buckets'[p].updated = rate_now
      BY <1>1, <2>2 DEF Buckets!Take
    <3>3. new = rate_now + Buckets!RetryAfter(t)
      BY <2>2
    <3> HIDE DEF new, t
    <3>4. new \in Nat /\ rate_now <= new /\ new - rate_now = Buckets!RetryAfter(t)
      BY <3>1, <3>3, <1>1
    <3> QED BY <3>1, <3>2, <3>4
  <2> QED BY <2>1, <2>2
<1> HIDE DEF new
<1>5. rate_hint' \in [Principals -> Nat] /\ rate_hint'[p] = new /\ \A q \in Principals : q # p => rate_hint'[q] = rate_hint[q]
  BY <1>2, <1>4
<1>6. ASSUME NEW q \in Principals, rate_hint'[q] # 0, q \in Buckets!Owners'
      PROVE  rate_buckets'[q].tokens + (rate_hint'[q] - rate_buckets'[q].updated) * Rate >= One /\ rate_buckets'[q].updated <= rate_hint'[q]
  <2>1. CASE q = p
    BY <2>1, <1>4, <1>5, <1>6
  <2>2. CASE q # p
    BY <2>2, <1>1, <1>5, <1>6 DEF RateInv, HintOK
  <2> QED BY <2>1, <2>2
<1> QED BY <1>5, <1>6 DEF HintOK

LEMMA RateAcquire == ASSUME Buckets!RateAssumption, RateInv, NEW p \in Principals, Buckets!Acquire(p) PROVE RateInv'
<1> DEFINE mine == Buckets!BucketOf(Buckets!Kept(p), p)
           others == Buckets!Kept(p) \ {p}
<1>1. /\ Buckets!Owners' = others \cup {p} /\ others \subseteq Buckets!Owners /\ rate_now' = rate_now /\ rate_now \in Nat
      /\ \A q \in others : rate_buckets'[q] = rate_buckets[q]
      /\ rate_buckets'[p] = Buckets!Take(mine) /\ BucketOK(mine)
      /\ rate_buckets' = [q \in Buckets!Owners' |-> rate_buckets'[q]]
  BY AcquireFacts DEF RateInv
<1>2. /\ IsFiniteSet(others) /\ Cardinality(others) + 1 <= MaxBuckets
      /\ Buckets!Owners \subseteq Principals
  BY KeptFacts DEF RateInv
<1>3. IsFiniteSet(Buckets!Owners') /\ Cardinality(Buckets!Owners') <= MaxBuckets
  <2>1. p \notin others
    OBVIOUS
  <2> HIDE DEF others
  <2>2. IsFiniteSet(others \cup {p}) /\ Cardinality(others \cup {p}) = Cardinality(others) + 1
    BY <1>2, <2>1, FS_AddElement
  <2> QED BY <2>2, <1>1, <1>2
<1>4. \A q \in Buckets!Owners' : BucketOK(rate_buckets[q])'
  <2>1. BucketOK(rate_buckets'[p])
    BY <1>1, TakeOK
  <2>2. \A q \in Buckets!Owners' : BucketOK(rate_buckets'[q])
    BY <2>1, <1>1 DEF RateInv
  <2> QED BY <2>2, <1>1 DEF BucketOK, Buckets!Full
<1>5. Buckets!BucketsBounded'
  BY <1>3 DEF Buckets!BucketsBounded
<1>6. Buckets!Owners' \subseteq Principals /\ rate_now' \in Nat
  BY <1>1, <1>2
<1> QED BY <1>1, <1>3, <1>4, <1>5, <1>6, AcquireIsInvisible, AcquireHints, AcquireKeepsOrder DEF RateInv

LEMMA RateInductive == ASSUME Buckets!RateAssumption PROVE Buckets!Spec => []RateInv
<1>1. Buckets!Init => RateInv
  BY RateStarts
<1>2. RateInv /\ [Buckets!Next]_(Buckets!vars) => RateInv'
  <2> SUFFICES ASSUME RateInv, [Buckets!Next]_(Buckets!vars) PROVE RateInv'
    OBVIOUS
  <2>1. CASE \E p \in Principals : Buckets!Acquire(p)
    BY <2>1, RateAcquire
  <2>2. CASE Buckets!Tick
    BY <2>2, RateTick
  <2>3. CASE UNCHANGED Buckets!vars
    BY <2>3 DEF RateInv, BucketOK, OrderOK, HintOK, Buckets!BucketsBounded, Buckets!SweepIsInvisible, Buckets!Refilled, Buckets!BucketOf, Buckets!Owners, Buckets!Full, Buckets!vars
  <2> QED BY <2>1, <2>2, <2>3 DEF Buckets!Next
<1> QED BY <1>1, <1>2, PTL DEF Buckets!Spec

\* Waiting until the hint is enough.
LEMMA HintsHold == ASSUME Buckets!RateAssumption, RateInv PROVE Buckets!RetryHintTrue
<1> SUFFICES ASSUME NEW p \in Principals, rate_hint[p] # 0, rate_now >= rate_hint[p]
             PROVE  Buckets!Refilled(Buckets!BucketOf(Buckets!Owners, p)) >= One
  BY DEF Buckets!RetryHintTrue
<1>1. CASE p \notin Buckets!Owners
  <2>1. (rate_now - rate_now) * Rate = 0
    BY FullFacts DEF RateInv
  <2> QED BY <2>1, <1>1, FullFacts DEF Buckets!BucketOf, Buckets!Refilled
<1>2. CASE p \in Buckets!Owners
  <2> DEFINE b == rate_buckets[p]
  <2>1. /\ rate_now \in Nat /\ rate_hint[p] \in Nat /\ BucketOK(b) /\ b.updated <= rate_hint[p] /\ rate_hint[p] <= rate_now
        /\ b.tokens + (rate_hint[p] - b.updated) * Rate >= One /\ Buckets!BucketOf(Buckets!Owners, p) = b
    BY <1>2 DEF RateInv, HintOK, Buckets!BucketOf
  <2>2. b.updated \in Nat /\ b.tokens \in Nat
    BY <2>1, FullFacts DEF BucketOK
  <2> HIDE DEF b
  <2>3. \A u, h, n \in Nat : u <= h /\ h <= n => h - u \in Nat /\ n - h \in Nat /\ n - u = (h - u) + (n - h)
    OBVIOUS
  <2>4. /\ (rate_now - b.updated) * Rate = (rate_hint[p] - b.updated) * Rate + (rate_now - rate_hint[p]) * Rate
        /\ (rate_hint[p] - b.updated) * Rate \in Nat /\ (rate_now - rate_hint[p]) * Rate \in Nat
    BY <2>1, <2>2, <2>3, RefillsAdd, FullFacts
  <2>5. b.tokens + (rate_now - b.updated) * Rate >= One
    BY <2>1, <2>2, <2>4, FullFacts
  <2> QED BY <2>1, <2>5, FullFacts DEF Buckets!Refilled
<1> QED BY <1>1, <1>2

-----------------------------------------------------------------------------
HIDE BucketsSets

-----------------------------------------------------------------------------
(* What the suite of services checks on its small instances, for any        *)
(* values of the constants.  A behaviour of the suite runs one part, and a  *)
(* property speaks of the component of that part.                           *)

\* The decode gate bounds what runs and gives every place back (DecodeGate).
\* - No more decodes run than there are workers, cancelled ones included.
\* - One producer never holds two decode threads.
\* - Every place of the gate is given back, however a request ends.
GateBounded ==
  part = "gate" => Gate!ThreadsBounded /\ Gate!OneDecodePerProducer /\ Gate!PlacesBalance

\* An export is answered by what became of its records (ingest_traces).
\* - A rejected record takes no other record of its export with it.
\* - What an answered export does not count as rejected is stored.
\* - Telemetry of the platform about itself is never ingested.
ExportHonest == part = "otlp" => ExportSound

\* Who gets in, and what a check of a token costs (PrincipalCache,
\* Argon2Verifier).
\* - A request is never let through with an expired token, cached or not.
\* - A revoked token is refused once every principal cached before has aged
\*   out.
\* - The principal cache never exceeds its size.
\* - Every slot of the password hashing is given back.
\* - Every request is audited exactly once.
AccessSound == part = "access" => Access!AccessSound

\* Rate limiting is exact and bounded (TokenBucketLimiter.acquire).
\* - Dropping an idle bucket never changes a decision.
\* - The buckets never exceed their bound.
\* - A request that waits as long as its refusal said is admitted.
RateSound == part = "rate" => Buckets!RateSound

\* A credential, its row and its file agree, whatever step fails (_issue).
\* - No row holds a credential nobody was given.
\* - A command that reports success has committed what its file holds.
\* - A command that fails leaves no file of its own behind.
CredentialsSound == part = "tokens" => Creds!CredentialsSound

\* A provisioning step destroys nothing it does not own.
\* - A live or revoked credential is displaced only by a rotation.
\* - A file somebody else put at the path is never removed or written.
CredentialsKept == [][part = "tokens" => Creds!NothingDestroyed]_(Creds!vars)

\* Migration jobs that race, and readiness probes whose checks hang.
\* - Every migration ran once and in order, whatever jobs raced or were
\*   killed.
\* - What a migration job reports as applied is what it applied.
\* - A ready answer rests on checks that ran after the request came, within
\*   the timeout.
\* - Abandoned checks never exceed their bound by more than one probe.
OperationsSound ==
  /\ part = "migrate" => Migrations!EachOnceInOrder /\ Migrations!ReportTrue
  /\ part = "ready" => Ready!ReadyIsFresh /\ Ready!OrphansBounded

\* For any requests, producers, workers and queue: no thread too many, no
\* producer twice, no place lost.
THEOREM GateIsBounded == ASSUME Gate!GateAssumption PROVE Gate!Spec => []GateBounded
<1>1. Gate!ThreadsBounded /\ Gate!OneDecodePerProducer /\ Gate!PlacesBalance => GateBounded
  BY DEF GateBounded
<1> QED BY <1>1, ThreadsAreBounded, ProducersTakeTurns, NoPlaceLeaks, PTL

\* An export as a whole: nothing lost silently, nothing of the platform
\* ingested, and no record lost with another where nothing is quarantined.
THEOREM ExportsAreSound == ASSUME ExportAssumption PROVE Spec => []ExportHonest
<1>1. CASE MaxQuarantines = 0
  <2>1. NoSilentLoss /\ NoLoop /\ InnocentKept => ExportHonest
    BY DEF ExportSound, ExportHonest
  <2>2. Spec => []InnocentKept
    BY <1>1, InnocentsAreKept DEF NoQuarantines
  <2> QED BY <2>1, <2>2, NothingIsLost, NoTelemetryLoop, PTL
<1>2. CASE MaxQuarantines # 0
  <2>1. NoSilentLoss /\ NoLoop => ExportHonest
    BY <1>2 DEF ExportSound, ExportHonest
  <2> QED BY <2>1, NothingIsLost, NoTelemetryLoop, PTL
<1> QED BY <1>1, <1>2

\* MCP access as a whole: expiry, revocation, the cache's bound, the slots of
\* the password check and the audit.
THEOREM AccessIsSound == ASSUME Access!AccessAssumption PROVE Access!Spec => []AccessSound
<1>1. Access!NeverExpired /\ Access!RevocationBound /\ Access!CacheBounded /\ Access!AdmissionBalanced
        /\ Access!AuditedOnce => AccessSound
  BY DEF Access!AccessSound, AccessSound
<1> QED BY <1>1, ExpiryIsNeverOutlived, RevocationIsBounded, CacheStaysBounded, AdmissionIsBalanced,
           RequestsAreAuditedOnce, PTL

\* For any rate, burst and number of principals: evicting full buckets is
\* invisible, memory is bounded by MaxBuckets, and a refused principal that
\* waits as long as it was told is let through.
THEOREM LimitsAreExact == ASSUME Buckets!RateAssumption PROVE Buckets!Spec => []RateSound
<1>1. RateInv => RateSound
  BY HintsHold DEF RateInv, Buckets!RateSound, RateSound
<1> QED BY <1>1, RateInductive, PTL

\* Credentials as a whole: what rows hold was handed over, what is reported is
\* committed, and what failed left nothing.
THEOREM CredentialsAreSound == ASSUME Creds!CommandsAssumption PROVE Creds!Spec => []CredentialsSound
<1>1. Creds!NoUndelivered /\ Creds!SuccessIsTrue /\ Creds!NoLeftover => CredentialsSound
  BY DEF Creds!CredentialsSound, CredentialsSound
<1> QED BY <1>1, RowsAreDelivered, ReportsAreTrue, NothingLeftOver, PTL

\* No step of a command destroys a credential or a file it does not own.
THEOREM CredentialsAreKept == ASSUME Creds!CommandsAssumption PROVE Creds!Spec => CredentialsKept
<1>1. [Creds!Displaced]_(Creds!vars) /\ [Creds!ForeignKept]_(Creds!vars)
        => [part = "tokens" => Creds!NothingDestroyed]_(Creds!vars)
  BY DEF Creds!NothingDestroyed
<1>2. Creds!Spec => [][Creds!Displaced]_(Creds!vars)
  BY RotationsDisplace DEF Creds!OnlyRotateDisplaces
<1>3. Creds!Spec => [][Creds!ForeignKept]_(Creds!vars)
  BY ForeignFilesKept DEF Creds!ForeignFileKept
<1> QED BY <1>1, <1>2, <1>3, PTL DEF CredentialsKept

\* Migration jobs that race, and probes whose checks hang, keep what they
\* report, for any number of jobs, requests and checks.
THEOREM OperationsAreSound ==
  ASSUME Migrations!MigrateAssumption, Ready!ReadinessAssumption
  PROVE  Migrations!Spec /\ Ready!Spec => []OperationsSound
<1>1. Migrations!EachOnceInOrder /\ Migrations!ReportTrue /\ Ready!ReadyIsFresh /\ Ready!OrphansBounded
        => OperationsSound
  BY DEF OperationsSound
<1> QED BY <1>1, MigrationsRunOnceInOrder, MigrationReportsAreTrue, ReadyMeansFresh, OrphansStayBounded, PTL
=============================================================================
