------------------------------- MODULE Ledger -------------------------------
(***************************************************************************)
(* The event ledger: concurrent ingestion transactions append batches of   *)
(* events to hash-chained streams, idempotently per key.                   *)
(*                                                                         *)
(* Sources: ledger/repository.py (LedgerRepository.append_with_outcome and *)
(* its helpers) and ledger/service.py (IngestionService), under            *)
(* PostgreSQL's READ COMMITTED isolation.                                  *)
(*                                                                         *)
(* One step is one SQL statement or savepoint.  An event is identified by  *)
(* its id, which also stands for its digest; a draft's body stands for     *)
(* everything else a producer sends.                                       *)
(***************************************************************************)
EXTENDS Integers, FiniteSets, Sequences, FiniteSetTheorems, SequenceTheorems, WellFoundedInduction, TLAPS

CONSTANTS
  Batches,       \* ingest calls; a producer may send the same batch again
  Nobody,        \* no holder of a lock
  Streams,       \* stream ids: numbers, so that they sort
  Drafts,        \* Drafts[b]: the drafts of a batch, in order
  LockKey,       \* the advisory lock of an idempotency key: a number
  MaxFailures,   \* bound: crashes, outages and lost responses, in all
  MaxQuarantines \* bound: streams an operator quarantines

Draft == [id : Nat \ {0}, key : DOMAIN LockKey, stream : Streams, body : Nat]

ASSUME StreamsAssumption == Streams \subseteq Nat /\ IsFiniteSet(Streams)
ASSUME BatchesAssumption == Nobody \notin Batches
ASSUME DraftsAssumption == Drafts \in [Batches -> Seq(Draft)]
\* A lock key is a bigint.
ASSUME LockKeyAssumption == /\ LockKey \in [DOMAIN LockKey -> Nat]
                            /\ IsFiniteSet({LockKey[k] : k \in DOMAIN LockKey})
ASSUME LedgerBoundsAssumption == MaxFailures \in Nat /\ MaxQuarantines \in Nat

\* Definitions named Mut_... are the seeded defects the runs must detect; no
\* specification uses them.

VARIABLES
  streams,      \* ledger.event_streams, committed
  events,       \* ledger.events, committed (each with its outbox row)
  stream_lock,  \* the transaction that holds each stream row FOR UPDATE
  key_lock,     \* the transaction that holds each idempotency advisory lock
  pc,           \* where each batch is
  stream_state, \* the sequence and head of each stream, as a transaction sees it
  fresh,        \* the events a transaction inserted and has not committed
  results,      \* the AppendOutcomes of a transaction so far
  answers,      \* what producers were told of their drafts
  failures,
  quarantines

vars == <<streams, events, stream_lock, key_lock, pc, stream_state, fresh, results,
          answers, failures, quarantines>>

Event == [id : Nat \ {0}, key : DOMAIN LockKey, stream : Streams, body : Nat,
          sequence : Nat \ {0}, previous : Nat]
StreamRow == [status : {"absent", "active", "quarantined"}, last_sequence : Nat,
              last_event : Nat]
StreamState == [sequence : Nat, head : Nat]
AppendOutcome == [key : DOMAIN LockKey, sequence : Nat, created : BOOLEAN]
Answer == [batch : Batches, key : DOMAIN LockKey, sequence : Nat,
           status : {"accepted", "existing"}]

LockKeys == {LockKey[k] : k \in DOMAIN LockKey}

InTransaction == {"streams", "keys", "insert"}

TypeOK ==
  /\ streams \in [Streams -> StreamRow]
  /\ events \subseteq Event
  /\ stream_lock \in [Streams -> Batches \cup {Nobody}]
  /\ key_lock \in [LockKeys -> Batches \cup {Nobody}]
  /\ pc \in [Batches -> InTransaction \cup {"new", "rejecting", "failing", "answered",
                                            "rejected", "unavailable"}]
  /\ stream_state \in [Batches -> [Streams -> StreamState]]
  /\ fresh \in [Batches -> SUBSET Event]
  /\ results \in [Batches -> Seq(AppendOutcome)]
  /\ answers \subseteq Answer
  /\ failures \in 0 .. MaxFailures
  /\ quarantines \in 0 .. MaxQuarantines

NoState == [s \in Streams |-> [sequence |-> 0, head |-> 0]]

Init ==
  /\ streams = [s \in Streams |-> [status |-> "absent", last_sequence |-> 0, last_event |-> 0]]
  /\ events = {}
  /\ stream_lock = [s \in Streams |-> Nobody]
  /\ key_lock = [k \in LockKeys |-> Nobody]
  /\ pc = [b \in Batches |-> "new"]
  /\ stream_state = [b \in Batches |-> NoState]
  /\ fresh = [b \in Batches |-> {}]
  /\ results = [b \in Batches |-> <<>>]
  /\ answers = {}
  /\ failures = 0
  /\ quarantines = 0

DraftsOf(b) == {Drafts[b][i] : i \in DOMAIN Drafts[b]}
StreamsOf(b) == {d.stream : d \in DraftsOf(b)}
LockKeysOf(b) == {LockKey[d.key] : d \in DraftsOf(b)}

----------------------------------------------------------------------------
(* The start of a batch.                                                   *)

DuplicateKeys(b) ==
  \E i, j \in DOMAIN Drafts[b] : i # j /\ Drafts[b][i].key = Drafts[b][j].key

\* A batch that repeats a key, or whose content is refused, never reaches the
\* ledger.
Refuse(b) ==
  /\ pc[b] = "new"
  /\ pc' = [pc EXCEPT ![b] = "rejecting"]
  /\ UNCHANGED <<streams, events, stream_lock, key_lock, stream_state, fresh, results,
                 answers, failures, quarantines>>

\* The producer sends the batch, or sends it again after an outage, and the
\* transaction opens.
Begin(b) ==
  /\ pc[b] \in {"new", "unavailable"}
  /\ ~DuplicateKeys(b)
  /\ pc' = [pc EXCEPT ![b] = IF Drafts[b] = <<>> THEN "insert" ELSE "streams"]
  /\ UNCHANGED <<streams, events, stream_lock, key_lock, stream_state, fresh, results,
                 answers, failures, quarantines>>

----------------------------------------------------------------------------
(* Locks.                                                                  *)

Mut_NextOf(wanted, held, x) == x \in wanted \ held

\* The next lock in ascending order.
NextOf(wanted, held, x) == x \in wanted \ held /\ \A y \in wanted \ held : x <= y

Held(lock, b) == {x \in DOMAIN lock : lock[x] = b}

NextStream(b, s) == pc[b] = "streams" /\ NextOf(StreamsOf(b), Held(stream_lock, b), s)
NextKey(b, k) == pc[b] = "keys" /\ NextOf(LockKeysOf(b), Held(key_lock, b), k)

\* The transaction ends: its locks go, and so do rows it did not commit.
EndTransaction(b, end) ==
  /\ pc' = [pc EXCEPT ![b] = end]
  /\ stream_lock' = [s \in Streams |-> IF stream_lock[s] = b THEN Nobody ELSE stream_lock[s]]
  /\ key_lock' = [k \in LockKeys |-> IF key_lock[k] = b THEN Nobody ELSE key_lock[k]]
  /\ stream_state' = [stream_state EXCEPT ![b] = NoState]
  /\ fresh' = [fresh EXCEPT ![b] = {}]
  /\ results' = [results EXCEPT ![b] = <<>>]

\* _lock_streams: create the row if it is missing, lock it, and read its head.
LockStream(b, s) ==
  /\ NextStream(b, s)
  /\ stream_lock[s] = Nobody
  /\ streams[s].status # "quarantined"
  /\ stream_lock' = [stream_lock EXCEPT ![s] = b]
  /\ stream_state' = [stream_state EXCEPT ![b][s] =
       [sequence |-> streams[s].last_sequence, head |-> streams[s].last_event]]
  /\ pc' = [pc EXCEPT ![b] = IF StreamsOf(b) = Held(stream_lock, b) \cup {s}
                             THEN "keys" ELSE "streams"]
  /\ UNCHANGED <<streams, events, key_lock, fresh, results, answers, failures, quarantines>>

\* A quarantined stream refuses the whole batch.
StreamQuarantined(b, s) ==
  /\ NextStream(b, s)
  /\ stream_lock[s] = Nobody
  /\ streams[s].status = "quarantined"
  /\ EndTransaction(b, "rejecting")
  /\ UNCHANGED <<streams, events, answers, failures, quarantines>>

\* _lock_idempotency_keys: ascending lock keys, each one once.
LockIdempotencyKey(b, k) ==
  /\ NextKey(b, k)
  /\ key_lock[k] = Nobody
  /\ key_lock' = [key_lock EXCEPT ![k] = b]
  /\ pc' = [pc EXCEPT ![b] = IF LockKeysOf(b) = Held(key_lock, b) \cup {k}
                             THEN "insert" ELSE "keys"]
  /\ UNCHANGED <<streams, events, stream_lock, stream_state, fresh, results, answers,
                 failures, quarantines>>

----------------------------------------------------------------------------
(* Inserting, recovering and committing.                                   *)

\* The draft a transaction works on.
Current(b) == Drafts[b][Len(results[b]) + 1]
Inserting(b) == pc[b] = "insert" /\ Len(results[b]) < Len(Drafts[b])

\* Other transactions whose uncommitted rows a unique index makes b wait for.
InsertBlockers(b, d) ==
  {c \in Batches \ {b} : \E e \in fresh[c] : e.id = d.id \/ e.key = d.key}

Unblocked(b) == Inserting(b) /\ InsertBlockers(b, Current(b)) = {}

\* seal_event: the next sequence of the stream, chained to its head.
Seal(b, d) == [id |-> d.id, key |-> d.key, stream |-> d.stream, body |-> d.body,
               sequence |-> stream_state[b][d.stream].sequence + 1,
               previous |-> stream_state[b][d.stream].head]

\* The rows that violate the index PostgreSQL checks first: pk_events, then
\* uq_events_producer_id.
Clashes(b, d) ==
  LET rows == events \cup fresh[b]
      byId == {e \in rows : e.id = d.id}
  IN  IF byId # {} THEN byId ELSE {e \in rows : e.key = d.key}

\* _draft_identity ignores the event id.
SameIdentity(d, e) == d.key = e.key /\ d.stream = e.stream /\ d.body = e.body

\* _insert_or_recover: the event and its outbox row in one savepoint.
InsertEvent(b) ==
  LET d == Current(b)
      e == Seal(b, d)
  IN
  /\ Unblocked(b)
  /\ Clashes(b, d) = {}
  /\ fresh' = [fresh EXCEPT ![b] = @ \cup {e}]
  /\ stream_state' = [stream_state EXCEPT ![b][d.stream] =
                                            [sequence |-> e.sequence, head |-> e.id]]
  /\ results' = [results EXCEPT ![b] = Append(@, [key |-> d.key, sequence |-> e.sequence,
                                                  created |-> TRUE])]
  /\ UNCHANGED <<streams, events, stream_lock, key_lock, pc, answers, failures, quarantines>>

Mut_RecoverExisting(b) ==
  LET d == Current(b) IN
  /\ Unblocked(b)
  /\ \E e \in Clashes(b, d) :
       results' = [results EXCEPT ![b] = Append(@, [key |-> d.key, sequence |-> e.sequence,
                                                    created |-> FALSE])]
  /\ UNCHANGED <<streams, events, stream_lock, key_lock, pc, stream_state, fresh, answers,
                 failures, quarantines>>

\* The savepoint rolls back on a clash; a row of the same draft is the answer.
RecoverExisting(b) ==
  LET d == Current(b) IN
  /\ Unblocked(b)
  /\ \E e \in Clashes(b, d) :
       /\ SameIdentity(d, e)
       /\ results' = [results EXCEPT ![b] = Append(@, [key |-> d.key, sequence |-> e.sequence,
                                                       created |-> FALSE])]
  /\ UNCHANGED <<streams, events, stream_lock, key_lock, pc, stream_state, fresh, answers,
                 failures, quarantines>>

\* What the response says once the batch is committed.
Accepted(b) ==
  {[batch |-> b, key |-> r.key, sequence |-> r.sequence,
    status |-> IF r.created THEN "accepted" ELSE "existing"] :
     r \in {results[b][i] : i \in DOMAIN results[b]}}

\* Streams the transaction inserted into (touched_streams).
Touched(b) == {e.stream : e \in fresh[b]}

Mut_Committed(b) ==
  [s \in Streams |->
     IF s \in StreamsOf(b)
     THEN [streams[s] EXCEPT
             !.status = IF @ = "absent" THEN "active" ELSE @,
             !.last_sequence = IF s \in Touched(b) THEN stream_state[b][s].sequence ELSE @]
     ELSE streams[s]]

\* _update_stream_head for the touched streams; a stream the batch saw first is
\* a row now.
Committed(b) ==
  [s \in Streams |->
     IF s \in StreamsOf(b)
     THEN [status |-> IF streams[s].status = "absent" THEN "active" ELSE streams[s].status,
           last_sequence |-> IF s \in Touched(b) THEN stream_state[b][s].sequence
                                                 ELSE streams[s].last_sequence,
           last_event |-> IF s \in Touched(b) THEN stream_state[b][s].head
                                              ELSE streams[s].last_event]
     ELSE streams[s]]

Mut_Conflict(b) ==
  /\ Unblocked(b)
  /\ \E e \in Clashes(b, Current(b)) : ~SameIdentity(Current(b), e)
  /\ streams' = Committed(b)
  /\ events' = events \cup fresh[b]
  /\ EndTransaction(b, "rejecting")
  /\ UNCHANGED <<answers, failures, quarantines>>

\* A row of another draft is an IdempotencyConflictError: the batch is refused.
Conflict(b) ==
  /\ Unblocked(b)
  /\ \E e \in Clashes(b, Current(b)) : ~SameIdentity(Current(b), e)
  /\ EndTransaction(b, "rejecting")
  /\ UNCHANGED <<streams, events, answers, failures, quarantines>>

Ready(b) == pc[b] = "insert" /\ Len(results[b]) = Len(Drafts[b])

Commit(b) ==
  /\ Ready(b)
  /\ streams' = Committed(b)
  /\ events' = events \cup fresh[b]
  /\ answers' = answers \cup Accepted(b)
  /\ EndTransaction(b, "answered")
  /\ UNCHANGED <<failures, quarantines>>

\* The commit is done and its response, or its acknowledgement, is lost.
CommitUnanswered(b) ==
  /\ Ready(b)
  /\ failures < MaxFailures
  /\ failures' = failures + 1
  /\ streams' = Committed(b)
  /\ events' = events \cup fresh[b]
  /\ EndTransaction(b, "failing")
  /\ UNCHANGED <<answers, quarantines>>

----------------------------------------------------------------------------
(* Failures and rejections.                                                *)

\* A crash or an outage before the commit.
Fail(b) ==
  /\ pc[b] \in InTransaction
  /\ failures < MaxFailures
  /\ failures' = failures + 1
  /\ EndTransaction(b, "failing")
  /\ UNCHANGED <<streams, events, answers, quarantines>>

\* _existing_events: drafts that are stored already, read after the rollback.
Existing(b) ==
  {[batch |-> b, key |-> e.key, sequence |-> e.sequence, status |-> "existing"] :
     e \in {e \in events : \E d \in DraftsOf(b) : d.key = e.key /\ SameIdentity(d, e)}}

\* _reject, best effort: the read may fail, and a crashed process says nothing.
Reject(b) ==
  /\ pc[b] \in {"rejecting", "failing"}
  /\ pc' = [pc EXCEPT ![b] = IF @ = "rejecting" THEN "rejected" ELSE "unavailable"]
  /\ answers' \in {answers, answers \cup Existing(b)}
  /\ UNCHANGED <<streams, events, stream_lock, key_lock, stream_state, fresh, results,
                 failures, quarantines>>

\* An operator quarantines a stream after a failed verification.
Quarantine(s) ==
  /\ streams[s].status = "active"
  /\ stream_lock[s] = Nobody
  /\ quarantines < MaxQuarantines
  /\ quarantines' = quarantines + 1
  /\ streams' = [streams EXCEPT ![s].status = "quarantined"]
  /\ UNCHANGED <<events, stream_lock, key_lock, pc, stream_state, fresh, results, answers,
                 failures>>

\* b cannot go on before c's transaction ends.
WaitsFor(b, c) ==
  \/ \E s \in Streams : NextStream(b, s) /\ stream_lock[s] = c
  \/ \E k \in LockKeys : NextKey(b, k) /\ key_lock[k] = c
  \/ /\ Inserting(b)
     /\ c \in InsertBlockers(b, Current(b))

Waiting == {b \in Batches : \E c \in Batches : WaitsFor(b, c)}

\* A set of transactions that only wait for one another.
WaitCycle(S) == S # {} /\ \A b \in S : \E c \in S : WaitsFor(b, c)

\* PostgreSQL aborts a transaction of a deadlock; the answer is a retryable 503.
DeadlockVictim(b) ==
  /\ \E S \in SUBSET Waiting : b \in S /\ WaitCycle(S)
  /\ EndTransaction(b, "failing")
  /\ UNCHANGED <<streams, events, answers, failures, quarantines>>

----------------------------------------------------------------------------
BatchStep(b) ==
  \/ Refuse(b) \/ Begin(b) \/ InsertEvent(b) \/ RecoverExisting(b) \/ Conflict(b)
  \/ Commit(b) \/ Reject(b) \/ DeadlockVictim(b)
  \/ \E s \in Streams : LockStream(b, s) \/ StreamQuarantined(b, s)
  \/ \E k \in LockKeys : LockIdempotencyKey(b, k)

Next ==
  \/ \E b \in Batches : BatchStep(b) \/ Fail(b) \/ CommitUnanswered(b)
  \/ \E s \in Streams : Quarantine(s)

Spec == Init /\ [][Next]_vars

\* Transactions go on, producers retry outages, and a waiter gets a lock that
\* comes free again and again: PostgreSQL queues waiters.
Fairness ==
  \A b \in Batches :
    /\ WF_vars(BatchStep(b))
    /\ SF_vars(\E s \in Streams : LockStream(b, s) \/ StreamQuarantined(b, s))
    /\ SF_vars(\E k \in LockKeys : LockIdempotencyKey(b, k))

FairSpec == Spec /\ Fairness

----------------------------------------------------------------------------
(* Properties.                                                             *)

StreamEvents(s) == {e \in events : e.stream = s}

\* Every stream is one unbroken chain, whatever transactions raced, recovered
\* or failed: its sequences run from 1 to its head without gap or duplicate,
\* each event names the one before it, and the head is the last one.
ChainIntact ==
  \A s \in Streams :
    LET n == streams[s].last_sequence IN
    /\ {e.sequence : e \in StreamEvents(s)} = 1 .. n
    /\ \A e \in StreamEvents(s) : \A f \in StreamEvents(s) :
         /\ e.sequence = f.sequence => e = f
         /\ f.sequence = e.sequence + 1 => f.previous = e.id
    /\ \A e \in StreamEvents(s) : /\ e.sequence = 1 => e.previous = 0
                                  /\ e.sequence = n => streams[s].last_event = e.id
    /\ n = 0 => streams[s].last_event = 0

\* An idempotency key, like an event id, is used once, on whichever streams and
\* by whichever transactions it is sent.
OneEventPerKey ==
  \A e, f \in events : e.key = f.key \/ e.id = f.id => e = f

\* What a producer is told stays true: the draft it asked about is committed,
\* with this content and this sequence, also after a retry with a fresh id.
AnswersTrue ==
  \A a \in answers : \E e \in events, d \in DraftsOf(a.batch) :
    /\ a.key = e.key /\ a.sequence = e.sequence
    /\ SameIdentity(d, e)

\* Only the transaction that stored an event answers accepted: no two
\* producers, and no two tries of one, are both told so.
AcceptedOnce ==
  \A a, c \in answers :
    a.status = "accepted" /\ c.status = "accepted" /\ a.key = c.key => a = c

\* The producers of S do not reuse an event id under another key.
IdsFollowKeys(S) ==
  \A b, c \in S : \A d \in DraftsOf(b), e \in DraftsOf(c) : d.id = e.id => d.key = e.key

\* Batches of such producers never deadlock with each other, although they lock
\* several streams, share keys across disjoint streams and meet on unique
\* indexes (_lock_streams, _lock_idempotency_keys).
NeverDeadlocks == \A S \in SUBSET Waiting : WaitCycle(S) => ~IdsFollowKeys(S)

\* The stored event at position n of a stream, and the log all of them make.
Entry(s, n) == CHOOSE e \in StreamEvents(s) : e.sequence = n
StoredLog == [s \in Streams |-> [n \in 1 .. streams[s].last_sequence |->
                [key |-> Entry(s, n).key, body |-> Entry(s, n).body]]]

Log == INSTANCE AppendOnlyLog WITH log <- StoredLog

\* The concurrent ledger behaves like one that appends whole batches, one after
\* the other, each event once.
ImplementsLog == Log!Spec

\* Every batch that is sent is answered in the end, by a commit or a refusal.
Sent(b) == pc[b] = "streams"
Replied(b) == pc[b] \in {"answered", "rejected"}
BatchAnswered == \A b \in Batches : Sent(b) ~> Replied(b)

----------------------------------------------------------------------------
(* What makes these properties inductive.                                  *)

\* A transaction locks its streams, in order, then its keys, in order, and
\* inserts when it holds them all.
StreamsHeld ==
  \A b \in Batches :
    /\ \A s \in Streams : stream_lock[s] = b => pc[b] \in InTransaction /\ s \in StreamsOf(b)
    /\ pc[b] \in {"keys", "insert"} => \A s \in StreamsOf(b) : stream_lock[s] = b
    /\ pc[b] = "streams" => \A s, t \in StreamsOf(b) :
         stream_lock[s] = b /\ stream_lock[t] # b => s < t

KeysHeld ==
  \A b \in Batches :
    /\ \A k \in LockKeys : key_lock[k] = b => pc[b] \in {"keys", "insert"} /\ k \in LockKeysOf(b)
    /\ pc[b] = "insert" => \A k \in LockKeysOf(b) : key_lock[k] = b
    /\ pc[b] = "keys" => \A k, l \in LockKeysOf(b) :
         key_lock[k] = b /\ key_lock[l] # b => k < l

\* Only an inserting transaction has rows and results, of drafts whose keys
\* differ.
OnlyInserting ==
  \A b \in Batches :
    /\ pc[b] # "insert" => fresh[b] = {} /\ results[b] = <<>>
    /\ pc[b] \in InTransaction => ~DuplicateKeys(b)
    /\ Len(results[b]) <= Len(Drafts[b])

\* The rows of E for s are a chain of n events that ends at head.
Chained(E, s, n, head) ==
  /\ \A e \in E : e.stream = s => /\ e.sequence <= n
                                  /\ e.sequence = 1 => e.previous = 0
                                  /\ e.sequence = n => head = e.id
  /\ \A i \in 1 .. n : \E e \in E : e.stream = s /\ e.sequence = i
  /\ \A e, f \in E : e.stream = s /\ f.stream = s =>
       /\ e.sequence = f.sequence => e = f
       /\ f.sequence = e.sequence + 1 => f.previous = e.id
  /\ n = 0 => head = 0

CommittedChains ==
  \A s \in Streams : Chained(events, s, streams[s].last_sequence, streams[s].last_event)

\* A transaction that holds a stream continues its committed chain.
OwnChains ==
  \A b \in Batches : \A s \in Streams : stream_lock[s] = b =>
    Chained(events \cup fresh[b], s, stream_state[b][s].sequence, stream_state[b][s].head)

\* Ids and keys are unique over the committed and all uncommitted rows, and a
\* row is either committed or of one transaction.
Rows == events \cup UNION {fresh[b] : b \in Batches}
RowsUnique == \A e, f \in Rows : e.key = f.key \/ e.id = f.id => e = f
RowsApart ==
  \A b \in Batches : /\ fresh[b] \cap events = {}
                     /\ \A c \in Batches \ {b} : fresh[b] \cap fresh[c] = {}

\* A row is the row of the draft, under its own id.
RowOf(d, e) == e.id = d.id /\ SameIdentity(d, e)

\* The uncommitted rows of a transaction are those of its created results.
FreshMatches ==
  \A b \in Batches : \A e \in fresh[b] : \E i \in DOMAIN results[b] :
    /\ results[b][i].created /\ results[b][i].sequence = e.sequence
    /\ RowOf(Drafts[b][i], e)

\* A result tells of a row with the content of its draft, one of the
\* transaction's own if it says created and a committed one otherwise, and the
\* created rows of a stream are in the order of the batch.
ResultsMatch ==
  \A b \in Batches : \A i \in DOMAIN results[b] :
    /\ results[b][i].key = Drafts[b][i].key
    /\ \E e \in events \cup fresh[b] :
         /\ e \in fresh[b] <=> results[b][i].created
         /\ e.sequence = results[b][i].sequence
         /\ SameIdentity(Drafts[b][i], e)
    /\ \A j \in DOMAIN results[b] :
         /\ i < j /\ Drafts[b][i].stream = Drafts[b][j].stream
         /\ results[b][i].created /\ results[b][j].created
         => results[b][i].sequence < results[b][j].sequence

\* The inductive invariant of the ledger.
Inductive ==
  /\ StreamsHeld /\ KeysHeld /\ OnlyInserting
  /\ CommittedChains /\ OwnChains
  /\ RowsUnique /\ RowsApart /\ FreshMatches /\ ResultsMatch
  /\ AnswersTrue /\ AcceptedOnce

-----------------------------------------------------------------------------
----------------------------------------------------------------------------
(* Steps.                                                                  *)

\* A transaction ends without a trace.
Aborts(b) ==
  /\ \E end \in {"rejecting", "failing"} : EndTransaction(b, end)
  /\ UNCHANGED <<streams, events, answers>>

\* A transaction commits; its answer may get lost.
Stores(b) ==
  /\ Ready(b)
  /\ streams' = Committed(b)
  /\ events' = events \cup fresh[b]
  /\ answers' \in {answers, answers \cup Accepted(b)}
  /\ \E end \in {"answered", "failing"} : EndTransaction(b, end)

\* All steps, with those that only differ in their cause taken together.
LEMMA NextCases ==
  ASSUME [Next]_vars
  PROVE  \/ \E b \in Batches : \/ Refuse(b) \/ Begin(b) \/ InsertEvent(b) \/ RecoverExisting(b)
                               \/ Reject(b) \/ Aborts(b) \/ Stores(b)
         \/ \E b \in Batches, s \in Streams : LockStream(b, s)
         \/ \E b \in Batches, k \in LockKeys : LockIdempotencyKey(b, k)
         \/ \E s \in Streams : Quarantine(s)
         \/ UNCHANGED vars
<1>1. ASSUME NEW b \in Batches, Conflict(b) PROVE Aborts(b)
  BY <1>1 DEF Conflict, Aborts
<1>2. ASSUME NEW b \in Batches, DeadlockVictim(b) PROVE Aborts(b)
  BY <1>2 DEF DeadlockVictim, Aborts
<1>3. ASSUME NEW b \in Batches, Fail(b) PROVE Aborts(b)
  BY <1>3 DEF Fail, Aborts
<1>4. ASSUME NEW b \in Batches, NEW s \in Streams, StreamQuarantined(b, s) PROVE Aborts(b)
  BY <1>4 DEF StreamQuarantined, Aborts
<1>5. ASSUME NEW b \in Batches, Commit(b) PROVE Stores(b)
  BY <1>5 DEF Commit, Stores
<1>6. ASSUME NEW b \in Batches, CommitUnanswered(b) PROVE Stores(b)
  BY <1>6 DEF CommitUnanswered, Stores
<1> QED
  BY <1>1, <1>2, <1>3, <1>4, <1>5, <1>6 DEF Next, BatchStep

----------------------------------------------------------------------------
(* Types.                                                                  *)

\* The draft an inserting transaction works on, and the event it becomes.
LEMMA CurrentType ==
  ASSUME TypeOK, NEW b \in Batches, Inserting(b)
  PROVE  /\ Len(results[b]) + 1 \in DOMAIN Drafts[b]
         /\ Current(b) \in Draft
         /\ Current(b) \in DraftsOf(b)
         /\ Seal(b, Current(b)) \in Event
<1>1. Drafts[b] \in Seq(Draft) /\ results[b] \in Seq(AppendOutcome)
  BY DraftsAssumption DEF TypeOK
<1>2. Len(results[b]) + 1 \in DOMAIN Drafts[b]
  BY <1>1 DEF Inserting
<1>3. Current(b) \in Draft /\ Current(b) \in DraftsOf(b)
  BY <1>1, <1>2 DEF Current, DraftsOf
<1>4. stream_state[b][Current(b).stream] \in StreamState
  BY <1>3 DEF TypeOK, Draft
<1>5. Seal(b, Current(b)) \in Event
  BY <1>3, <1>4 DEF Seal, Event, Draft, StreamState
<1> QED BY <1>2, <1>3, <1>5

LEMMA EndTypes ==
  ASSUME TypeOK, NEW b \in Batches,
         NEW end \in {"rejecting", "failing", "answered"}, EndTransaction(b, end)
  PROVE  /\ stream_lock' \in [Streams -> Batches \cup {Nobody}]
         /\ key_lock' \in [LockKeys -> Batches \cup {Nobody}]
         /\ pc' \in [Batches -> InTransaction \cup {"new", "rejecting", "failing", "answered",
                                                    "rejected", "unavailable"}]
         /\ stream_state' \in [Batches -> [Streams -> StreamState]]
         /\ fresh' \in [Batches -> SUBSET Event]
         /\ results' \in [Batches -> Seq(AppendOutcome)]
<1>1. NoState \in [Streams -> StreamState]
  BY DEF NoState, StreamState
<1> QED
  BY <1>1 DEF TypeOK, EndTransaction

LEMMA TypeStep ==
  ASSUME TypeOK, [Next]_vars
  PROVE  TypeOK'
<1> USE LedgerBoundsAssumption DEF TypeOK
<1>1. ASSUME NEW b \in Batches, Refuse(b) PROVE TypeOK'
  BY <1>1 DEF Refuse
<1>2. ASSUME NEW b \in Batches, Begin(b) PROVE TypeOK'
  BY <1>2 DEF Begin, InTransaction
<1>3. ASSUME NEW b \in Batches, NEW s \in Streams, LockStream(b, s) PROVE TypeOK'
  BY <1>3 DEF LockStream, InTransaction, StreamState, StreamRow
<1>4. ASSUME NEW b \in Batches, NEW k \in LockKeys, LockIdempotencyKey(b, k) PROVE TypeOK'
  BY <1>4 DEF LockIdempotencyKey, InTransaction
<1>5. ASSUME NEW b \in Batches, InsertEvent(b) PROVE TypeOK'
  <2>1. Current(b) \in Draft /\ Seal(b, Current(b)) \in Event
    BY <1>5, CurrentType DEF InsertEvent, Unblocked
  <2> DEFINE d == Current(b)
             e == Seal(b, d)
             r == [key |-> d.key, sequence |-> e.sequence, created |-> TRUE]
  <2>2. r \in AppendOutcome /\ [sequence |-> e.sequence, head |-> e.id] \in StreamState
    BY <2>1 DEF Event, Draft, StreamState, AppendOutcome
  <2>3. results' = [results EXCEPT ![b] = Append(@, r)]
    BY <1>5 DEF InsertEvent
  <2>4. results' \in [Batches -> Seq(AppendOutcome)]
    <3> HIDE DEF r
    <3> QED BY <2>2, <2>3
  <2>5. stream_state' \in [Batches -> [Streams -> StreamState]]
    BY <1>5, <2>1, <2>2 DEF InsertEvent, Draft
  <2> QED BY <1>5, <2>1, <2>4, <2>5 DEF InsertEvent
<1>6. ASSUME NEW b \in Batches, RecoverExisting(b) PROVE TypeOK'
  <2>1. Current(b) \in Draft
    BY <1>6, CurrentType DEF RecoverExisting, Unblocked
  <2>2. PICK e \in Clashes(b, Current(b)) :
          results' = [results EXCEPT ![b] = Append(@, [key |-> Current(b).key,
                                                       sequence |-> e.sequence,
                                                       created |-> FALSE])]
    BY <1>6 DEF RecoverExisting
  <2>3. e \in Event
    BY <2>2 DEF Clashes
  <2> DEFINE r == [key |-> Current(b).key, sequence |-> e.sequence, created |-> FALSE]
  <2>4. r \in AppendOutcome
    BY <2>1, <2>3 DEF Event, Draft, AppendOutcome
  <2>5. results' = [results EXCEPT ![b] = Append(@, r)]
    BY <2>2
  <2>6. results' \in [Batches -> Seq(AppendOutcome)]
    <3> HIDE DEF r
    <3> QED BY <2>4, <2>5
  <2> QED BY <1>6, <2>6 DEF RecoverExisting
<1>7. ASSUME NEW b \in Batches, Reject(b) PROVE TypeOK'
  <2>1. Existing(b) \subseteq Answer
    BY DEF Existing, Answer, Event
  <2> QED BY <1>7, <2>1 DEF Reject
<1>8. ASSUME NEW b \in Batches, Conflict(b) PROVE TypeOK'
  BY <1>8, EndTypes DEF Conflict
<1>9. ASSUME NEW b \in Batches, DeadlockVictim(b) PROVE TypeOK'
  BY <1>9, EndTypes DEF DeadlockVictim
<1>10. ASSUME NEW b \in Batches, Fail(b) PROVE TypeOK'
  BY <1>10, EndTypes DEF Fail
<1>11. ASSUME NEW b \in Batches, NEW s \in Streams, StreamQuarantined(b, s) PROVE TypeOK'
  BY <1>11, EndTypes DEF StreamQuarantined
<1>12. ASSUME NEW b \in Batches, Ready(b) PROVE Committed(b) \in [Streams -> StreamRow]
  BY DEF Committed, StreamRow, StreamState
<1>13. ASSUME NEW b \in Batches, Ready(b) PROVE Accepted(b) \subseteq Answer
  <2>1. \A i \in DOMAIN results[b] : results[b][i] \in AppendOutcome
    OBVIOUS
  <2> QED BY <2>1 DEF Accepted, Answer, AppendOutcome
<1>14. ASSUME NEW b \in Batches, Commit(b) PROVE TypeOK'
  BY <1>12, <1>13, <1>14, EndTypes DEF Commit
<1>15. ASSUME NEW b \in Batches, CommitUnanswered(b) PROVE TypeOK'
  BY <1>12, <1>15, EndTypes DEF CommitUnanswered
<1>16. ASSUME NEW s \in Streams, Quarantine(s) PROVE TypeOK'
  <2>1. streams[s] \in StreamRow
    OBVIOUS
  <2>2. [streams[s] EXCEPT !.status = "quarantined"] \in StreamRow
    BY <2>1 DEF StreamRow
  <2>3. streams' \in [Streams -> StreamRow]
    BY <1>16, <2>2 DEF Quarantine
  <2> QED BY <1>16, <2>3 DEF Quarantine
<1>17. CASE UNCHANGED vars
  BY <1>17 DEF vars
<1> QED
  BY <1>1, <1>2, <1>3, <1>4, <1>5, <1>6, <1>7, <1>8, <1>9, <1>10, <1>11, <1>14, <1>15, <1>16,
     <1>17 DEF Next, BatchStep

----------------------------------------------------------------------------
(* Locks.                                                                  *)

LEMMA WantedTypes ==
  ASSUME NEW b \in Batches
  PROVE  /\ StreamsOf(b) \subseteq Streams /\ StreamsOf(b) \subseteq Nat
         /\ LockKeysOf(b) \subseteq LockKeys /\ LockKeysOf(b) \subseteq Nat
<1>1. DraftsOf(b) \subseteq Draft
  BY DraftsAssumption DEF DraftsOf
<1> QED
  BY <1>1, StreamsAssumption, LockKeyAssumption DEF StreamsOf, LockKeysOf, LockKeys, Draft

\* Streams are locked in ascending order, held until the transaction ends, and
\* all of them held before the first idempotency key is locked (_lock_streams).
LEMMA StreamsHeldStep ==
  ASSUME TypeOK, StreamsHeld, [Next]_vars
  PROVE  StreamsHeld'
<1> USE BatchesAssumption DEF StreamsHeld, InTransaction
<1>0. /\ stream_lock \in [Streams -> Batches \cup {Nobody}]
      /\ pc \in [Batches -> InTransaction \cup {"new", "rejecting", "failing", "answered",
                                              "rejected", "unavailable"}]
      /\ \A b \in Batches : StreamsOf(b) \subseteq Streams
  BY WantedTypes DEF TypeOK
<1>1. ASSUME NEW b \in Batches, Refuse(b) PROVE StreamsHeld'
  BY <1>0, <1>1 DEF Refuse
<1>2. ASSUME NEW b \in Batches, Begin(b) PROVE StreamsHeld'
  <2>1. Drafts[b] = <<>> => StreamsOf(b) = {}
    BY DEF StreamsOf, DraftsOf
  <2> QED BY <1>0, <1>2, <2>1 DEF Begin
<1>3. ASSUME NEW b \in Batches, InsertEvent(b) PROVE StreamsHeld'
  BY <1>0, <1>3 DEF InsertEvent
<1>4. ASSUME NEW b \in Batches, RecoverExisting(b) PROVE StreamsHeld'
  BY <1>0, <1>4 DEF RecoverExisting
<1>5. ASSUME NEW b \in Batches, Reject(b) PROVE StreamsHeld'
  BY <1>0, <1>5 DEF Reject
<1>6. ASSUME NEW b \in Batches, Aborts(b) PROVE StreamsHeld'
  BY <1>0, <1>6 DEF Aborts, EndTransaction
<1>7. ASSUME NEW b \in Batches, Stores(b) PROVE StreamsHeld'
  BY <1>0, <1>7 DEF Stores, EndTransaction
<1>8. ASSUME NEW b \in Batches, NEW s \in Streams, LockStream(b, s) PROVE StreamsHeld'
  <2>1. pc[b] = "streams" /\ stream_lock[s] = Nobody /\ s \in StreamsOf(b)
    BY <1>8 DEF LockStream, NextStream, NextOf
  <2>2. \A t \in StreamsOf(b) : stream_lock[t] # b => s <= t
    BY <1>8, WantedTypes DEF LockStream, NextStream, NextOf, Held
  <2>3. pc'[b] = "keys" => \A t \in StreamsOf(b) : t = s \/ stream_lock[t] = b
    BY <1>8, <2>1 DEF LockStream, Held
  <2>4. pc'[b] \in {"streams", "keys"}
    BY <1>8, <2>1 DEF LockStream
  <2> QED BY <1>0, <1>8, <2>1, <2>2, <2>3, <2>4, WantedTypes DEF LockStream
<1>9. ASSUME NEW b \in Batches, NEW k \in LockKeys, LockIdempotencyKey(b, k)
      PROVE  StreamsHeld'
  BY <1>0, <1>9 DEF LockIdempotencyKey, NextKey
<1>10. ASSUME NEW s \in Streams, Quarantine(s) PROVE StreamsHeld'
  BY <1>0, <1>10 DEF Quarantine
<1>11. CASE UNCHANGED vars
  BY <1>0, <1>11 DEF vars
<1> QED
  BY <1>1, <1>2, <1>3, <1>4, <1>5, <1>6, <1>7, <1>8, <1>9, <1>10, <1>11, NextCases

\* The same of the advisory locks on idempotency keys, held until the
\* transaction ends and all of them while it inserts (_lock_idempotency_keys).
LEMMA KeysHeldStep ==
  ASSUME TypeOK, KeysHeld, [Next]_vars
  PROVE  KeysHeld'
<1> USE BatchesAssumption DEF KeysHeld, InTransaction
<1>0. /\ key_lock \in [LockKeys -> Batches \cup {Nobody}]
      /\ pc \in [Batches -> InTransaction \cup {"new", "rejecting", "failing", "answered",
                                              "rejected", "unavailable"}]
      /\ \A b \in Batches : LockKeysOf(b) \subseteq LockKeys
  BY WantedTypes DEF TypeOK
<1>1. ASSUME NEW b \in Batches, Refuse(b) PROVE KeysHeld'
  BY <1>0, <1>1 DEF Refuse
<1>2. ASSUME NEW b \in Batches, Begin(b) PROVE KeysHeld'
  <2>1. Drafts[b] = <<>> => LockKeysOf(b) = {}
    BY DEF LockKeysOf, DraftsOf
  <2> QED BY <1>0, <1>2, <2>1 DEF Begin
<1>3. ASSUME NEW b \in Batches, InsertEvent(b) PROVE KeysHeld'
  BY <1>0, <1>3 DEF InsertEvent
<1>4. ASSUME NEW b \in Batches, RecoverExisting(b) PROVE KeysHeld'
  BY <1>0, <1>4 DEF RecoverExisting
<1>5. ASSUME NEW b \in Batches, Reject(b) PROVE KeysHeld'
  BY <1>0, <1>5 DEF Reject
<1>6. ASSUME NEW b \in Batches, Aborts(b) PROVE KeysHeld'
  BY <1>0, <1>6 DEF Aborts, EndTransaction
<1>7. ASSUME NEW b \in Batches, Stores(b) PROVE KeysHeld'
  BY <1>0, <1>7 DEF Stores, EndTransaction
<1>8. ASSUME NEW b \in Batches, NEW s \in Streams, LockStream(b, s) PROVE KeysHeld'
  BY <1>0, <1>8 DEF LockStream, NextStream
<1>9. ASSUME NEW b \in Batches, NEW k \in LockKeys, LockIdempotencyKey(b, k)
      PROVE  KeysHeld'
  <2>1. pc[b] = "keys" /\ key_lock[k] = Nobody /\ k \in LockKeysOf(b)
    BY <1>0, <1>9 DEF LockIdempotencyKey, NextKey, NextOf
  <2>2. \A l \in LockKeysOf(b) : key_lock[l] # b => k <= l
    BY <1>0, <1>9, WantedTypes DEF LockIdempotencyKey, NextKey, NextOf, Held
  <2>3. pc'[b] = "insert" => \A l \in LockKeysOf(b) : l = k \/ key_lock[l] = b
    BY <1>0, <1>9, <2>1 DEF LockIdempotencyKey, Held
  <2>4. pc'[b] \in {"keys", "insert"}
    BY <1>0, <1>9, <2>1 DEF LockIdempotencyKey
  <2> QED BY <1>0, <1>9, <2>1, <2>2, <2>3, <2>4, WantedTypes DEF LockIdempotencyKey
<1>10. ASSUME NEW s \in Streams, Quarantine(s) PROVE KeysHeld'
  BY <1>0, <1>10 DEF Quarantine
<1>11. CASE UNCHANGED vars
  BY <1>0, <1>11 DEF vars
<1> QED
  BY <1>1, <1>2, <1>3, <1>4, <1>5, <1>6, <1>7, <1>8, <1>9, <1>10, <1>11, NextCases

\* Only a transaction that holds all of its locks has rows and results.
LEMMA OnlyInsertingStep ==
  ASSUME TypeOK, OnlyInserting, [Next]_vars
  PROVE  OnlyInserting'
<1> USE DEF TypeOK, OnlyInserting, InTransaction, DuplicateKeys
<1>0. \A b \in Batches : Drafts[b] \in Seq(Draft) /\ Len(Drafts[b]) \in Nat
  BY DraftsAssumption
<1>1. ASSUME NEW b \in Batches, Refuse(b) PROVE OnlyInserting'
  BY <1>1 DEF Refuse
<1>2. ASSUME NEW b \in Batches, Begin(b) PROVE OnlyInserting'
  BY <1>2 DEF Begin
<1>3. ASSUME NEW b \in Batches, InsertEvent(b) PROVE OnlyInserting'
  <2>1. PICK r : results' = [results EXCEPT ![b] = Append(@, r)]
    BY <1>3 DEF InsertEvent
  <2>2. pc[b] = "insert" /\ Len(results[b]) < Len(Drafts[b])
    BY <1>3 DEF InsertEvent, Unblocked, Inserting
  <2>3. Len(results'[b]) = Len(results[b]) + 1
    BY <2>1
  <2> QED BY <1>0, <1>3, <2>1, <2>2, <2>3 DEF InsertEvent
<1>4. ASSUME NEW b \in Batches, RecoverExisting(b) PROVE OnlyInserting'
  <2>1. PICK r : results' = [results EXCEPT ![b] = Append(@, r)]
    BY <1>4 DEF RecoverExisting
  <2>2. pc[b] = "insert" /\ Len(results[b]) < Len(Drafts[b])
    BY <1>4 DEF RecoverExisting, Unblocked, Inserting
  <2>3. Len(results'[b]) = Len(results[b]) + 1
    BY <2>1
  <2> QED BY <1>0, <1>4, <2>1, <2>2, <2>3 DEF RecoverExisting
<1>5. ASSUME NEW b \in Batches, Reject(b) PROVE OnlyInserting'
  BY <1>5 DEF Reject
<1>6. ASSUME NEW b \in Batches, Aborts(b) PROVE OnlyInserting'
  BY <1>0, <1>6 DEF Aborts, EndTransaction
<1>7. ASSUME NEW b \in Batches, Stores(b) PROVE OnlyInserting'
  BY <1>0, <1>7 DEF Stores, EndTransaction
<1>8. ASSUME NEW b \in Batches, NEW s \in Streams, LockStream(b, s) PROVE OnlyInserting'
  BY <1>8 DEF LockStream, NextStream
<1>9. ASSUME NEW b \in Batches, NEW k \in LockKeys, LockIdempotencyKey(b, k)
      PROVE  OnlyInserting'
  BY <1>9 DEF LockIdempotencyKey, NextKey
<1>10. ASSUME NEW s \in Streams, Quarantine(s) PROVE OnlyInserting'
  BY <1>10 DEF Quarantine
<1>11. CASE UNCHANGED vars
  BY <1>11 DEF vars
<1> QED
  BY <1>1, <1>2, <1>3, <1>4, <1>5, <1>6, <1>7, <1>8, <1>9, <1>10, <1>11, NextCases

----------------------------------------------------------------------------
(* Chains.                                                                 *)

\* Nothing that the rows of the ledger depend on changes.
Quiet ==
  /\ UNCHANGED <<events, fresh, results, stream_lock, stream_state>>
  /\ \A s \in Streams : /\ streams'[s].last_sequence = streams[s].last_sequence
                        /\ streams'[s].last_event = streams[s].last_event
  /\ answers' = answers \/ \E b \in Batches : answers' = answers \cup Existing(b)

\* All steps, by what they do to rows.
LEMMA RowCases ==
  ASSUME TypeOK, [Next]_vars
  PROVE  \/ \E b \in Batches : InsertEvent(b) \/ RecoverExisting(b) \/ Aborts(b) \/ Stores(b)
         \/ \E b \in Batches, s \in Streams : LockStream(b, s)
         \/ Quiet
<1>1. ASSUME NEW b \in Batches, Refuse(b) \/ Begin(b) \/ Reject(b) PROVE Quiet
  BY <1>1 DEF Refuse, Begin, Reject, Quiet
<1>2. ASSUME NEW b \in Batches, NEW k \in LockKeys, LockIdempotencyKey(b, k) PROVE Quiet
  BY <1>2 DEF LockIdempotencyKey, Quiet
<1>3. ASSUME NEW s \in Streams, Quarantine(s) PROVE Quiet
  <2>1. streams \in [Streams -> StreamRow]
    BY DEF TypeOK
  <2> QED BY <1>3, <2>1 DEF Quarantine, Quiet, StreamRow
<1>4. CASE UNCHANGED vars
  BY <1>4 DEF vars, Quiet
<1> QED BY <1>1, <1>2, <1>3, <1>4, NextCases

\* A chain depends on the rows of its stream only.
LEMMA ChainedSame ==
  ASSUME NEW E, NEW F, NEW s, NEW n, NEW head, Chained(E, s, n, head),
         \A e : e.stream = s => (e \in E <=> e \in F)
  PROVE  Chained(F, s, n, head)
BY DEF Chained

\* A chain goes on with an event sealed at its head.
LEMMA ChainedAppend ==
  ASSUME NEW E \in SUBSET Event, NEW s, NEW n \in Nat, NEW head, NEW e \in Event,
         Chained(E, s, n, head), e.stream = s, e.sequence = n + 1, e.previous = head
  PROVE  Chained(E \cup {e}, s, n + 1, e.id)
<1> DEFINE F == E \cup {e}
<1>0. \A f \in F : f.sequence \in Nat \ {0}
  BY DEF Event
<1>1. \A f \in F : f.stream = s => /\ f.sequence <= n + 1
                                   /\ f.sequence = 1 => f.previous = 0
                                   /\ f.sequence = n + 1 => e.id = f.id
  BY <1>0 DEF Chained
<1>2. \A i \in 1 .. n + 1 : \E f \in F : f.stream = s /\ f.sequence = i
  BY DEF Chained
<1>3. ASSUME NEW f \in F, NEW g \in F, f.stream = s, g.stream = s
      PROVE  /\ f.sequence = g.sequence => f = g
             /\ g.sequence = f.sequence + 1 => g.previous = f.id
  BY <1>0, <1>3 DEF Chained
<1> QED BY <1>1, <1>2, <1>3 DEF Chained

\* A transaction holds the streams of its uncommitted rows.
LEMMA FreshHeld ==
  ASSUME TypeOK, StreamsHeld, OnlyInserting, FreshMatches,
         NEW b \in Batches, NEW e \in fresh[b]
  PROVE  e.stream \in Streams /\ e.stream \in StreamsOf(b) /\ stream_lock[e.stream] = b
<1>1. pc[b] = "insert"
  BY DEF OnlyInserting
<1>2. PICK i \in DOMAIN results[b] : RowOf(Drafts[b][i], e)
  BY DEF FreshMatches
<1>3. i \in DOMAIN Drafts[b]
  BY DraftsAssumption DEF OnlyInserting, TypeOK
<1>4. e.stream \in StreamsOf(b)
  BY <1>2, <1>3 DEF StreamsOf, DraftsOf, RowOf, SameIdentity
<1> QED BY <1>1, <1>4, WantedTypes DEF StreamsHeld

\* The commit moves the heads of the touched streams with their rows
\* (_update_stream_head).
LEMMA CommittedChainsStep ==
  ASSUME TypeOK, StreamsHeld, OnlyInserting, FreshMatches, CommittedChains, OwnChains,
         [Next]_vars
  PROVE  CommittedChains'
<1> USE DEF CommittedChains
<1>1. ASSUME NEW b \in Batches, InsertEvent(b) \/ RecoverExisting(b) \/ Aborts(b)
      PROVE  CommittedChains'
  BY <1>1 DEF InsertEvent, RecoverExisting, Aborts
<1>2. ASSUME NEW b \in Batches, Stores(b) PROVE CommittedChains'
  <2> SUFFICES ASSUME NEW s \in Streams
               PROVE  Chained(events', s, streams'[s].last_sequence, streams'[s].last_event)
    OBVIOUS
  <2>1. streams' = Committed(b) /\ events' = events \cup fresh[b]
    BY <1>2 DEF Stores
  <2>2. CASE s \in Touched(b)
    <3>1. stream_lock[s] = b /\ s \in StreamsOf(b)
      BY <2>2, FreshHeld DEF Touched
    <3>2. /\ streams'[s].last_sequence = stream_state[b][s].sequence
          /\ streams'[s].last_event = stream_state[b][s].head
      BY <2>1, <2>2, <3>1 DEF Committed
    <3> QED BY <2>1, <3>1, <3>2 DEF OwnChains
  <2>3. CASE s \notin Touched(b)
    <3>1. /\ streams'[s].last_sequence = streams[s].last_sequence
          /\ streams'[s].last_event = streams[s].last_event
      BY <2>1, <2>3 DEF Committed
    <3>2. \A e : e.stream = s => (e \in events <=> e \in events')
      BY <2>1, <2>3 DEF Touched
    <3> QED BY <3>1, <3>2, ChainedSame
  <2> QED BY <2>2, <2>3
<1>3. ASSUME NEW b \in Batches, NEW s \in Streams, LockStream(b, s) PROVE CommittedChains'
  BY <1>3 DEF LockStream
<1>4. CASE Quiet
  BY <1>4 DEF Quiet
<1> QED BY <1>1, <1>2, <1>3, <1>4, RowCases

\* Until its commit a transaction extends the chain it found under its lock.
LEMMA OwnChainsStep ==
  ASSUME TypeOK, StreamsHeld, OnlyInserting, FreshMatches, CommittedChains, OwnChains,
         [Next]_vars
  PROVE  OwnChains'
<1>0. /\ stream_lock \in [Streams -> Batches \cup {Nobody}] /\ Nobody \notin Batches
      /\ stream_state \in [Batches -> [Streams -> StreamState]]
      /\ fresh \in [Batches -> SUBSET Event] /\ events \subseteq Event
  BY BatchesAssumption DEF TypeOK
<1> SUFFICES ASSUME NEW c \in Batches, NEW s \in Streams, stream_lock'[s] = c
             PROVE  Chained(events' \cup fresh'[c], s, stream_state'[c][s].sequence,
                                                       stream_state'[c][s].head)
  BY DEF OwnChains
<1> DEFINE Goal == Chained(events' \cup fresh'[c], s, stream_state'[c][s].sequence,
                                                      stream_state'[c][s].head)
<1>1. CASE /\ stream_lock[s] = c /\ UNCHANGED events
           /\ fresh'[c] = fresh[c] /\ stream_state'[c][s] = stream_state[c][s]
  BY <1>1 DEF OwnChains
<1>2. ASSUME NEW b \in Batches, InsertEvent(b) PROVE Goal
  <2> DEFINE d == Current(b)
             e == Seal(b, d)
  <2>1. d \in Draft /\ e \in Event
    BY <1>2, CurrentType DEF InsertEvent, Unblocked
  <2>2. /\ stream_lock[s] = c /\ UNCHANGED events
        /\ fresh' = [fresh EXCEPT ![b] = @ \cup {e}]
        /\ stream_state' = [stream_state EXCEPT ![b][d.stream] = [sequence |-> e.sequence,
                                                                  head |-> e.id]]
    BY <1>2 DEF InsertEvent
  <2>3. /\ e.stream = d.stream
        /\ e.sequence = stream_state[b][d.stream].sequence + 1
        /\ e.previous = stream_state[b][d.stream].head
    BY DEF Seal
  <2>4. d.stream \in Streams
    BY <2>1 DEF Draft
  <2> HIDE DEF d, e
  <2>5. CASE c = b /\ s = d.stream
    <3>1. Chained(events \cup fresh[c], s, stream_state[c][s].sequence, stream_state[c][s].head)
      BY <2>2 DEF OwnChains
    <3>2. stream_state[c][s].sequence \in Nat
      BY <1>0 DEF StreamState
    <3>3. Chained((events \cup fresh[c]) \cup {e}, s, stream_state[c][s].sequence + 1, e.id)
      BY <1>0, <2>1, <2>3, <2>5, <3>1, <3>2, ChainedAppend
    <3>4. events' \cup fresh'[c] = (events \cup fresh[c]) \cup {e}
      BY <1>0, <2>2, <2>5
    <3>5. stream_state'[c][s] = [sequence |-> e.sequence, head |-> e.id]
      BY <1>0, <2>2, <2>5
    <3>6. /\ stream_state'[c][s].sequence = stream_state[c][s].sequence + 1
          /\ stream_state'[c][s].head = e.id
      BY <2>3, <2>5, <3>5
    <3> QED BY <3>3, <3>4, <3>6
  <2>6. CASE c = b /\ s # d.stream
    <3>1. \A f : f.stream = s => (f \in events \cup fresh[c] <=> f \in events' \cup fresh'[c])
      BY <1>0, <2>2, <2>3, <2>6
    <3>2. stream_state'[c][s] = stream_state[c][s]
      BY <1>0, <2>2, <2>4, <2>6
    <3>3. Chained(events \cup fresh[c], s, stream_state[c][s].sequence, stream_state[c][s].head)
      BY <2>2 DEF OwnChains
    <3> QED BY <3>1, <3>2, <3>3, ChainedSame
  <2>7. CASE c # b
    BY <1>0, <1>1, <2>2, <2>7
  <2> QED BY <2>5, <2>6, <2>7
<1>3. ASSUME NEW b \in Batches, RecoverExisting(b) PROVE Goal
  BY <1>1, <1>3 DEF RecoverExisting
<1>4. ASSUME NEW b \in Batches, Aborts(b) PROVE Goal
  BY <1>0, <1>1, <1>4 DEF Aborts, EndTransaction
<1>5. ASSUME NEW b \in Batches, Stores(b) PROVE Goal
  <2>1. events' = events \cup fresh[b]
    BY <1>5 DEF Stores
  <2>2. /\ stream_lock[s] = c /\ c # b
        /\ fresh'[c] = fresh[c] /\ stream_state'[c] = stream_state[c]
    BY <1>0, <1>5 DEF Stores, EndTransaction
  <2>3. \A f : f.stream = s => (f \in events \cup fresh[c] <=> f \in events' \cup fresh'[c])
    BY <2>1, <2>2, FreshHeld
  <2>4. Chained(events \cup fresh[c], s, stream_state[c][s].sequence, stream_state[c][s].head)
    BY <2>2 DEF OwnChains
  <2> QED BY <2>2, <2>3, <2>4, ChainedSame
<1>6. ASSUME NEW b \in Batches, NEW t \in Streams, LockStream(b, t) PROVE Goal
  <2>1. CASE c = b /\ s = t
    <3>1. fresh[b] = {}
      BY <1>6 DEF LockStream, NextStream, OnlyInserting
    <3>2. stream_state'[c][s] = [sequence |-> streams[s].last_sequence,
                                 head |-> streams[s].last_event]
      BY <1>0, <1>6, <2>1 DEF LockStream
    <3>3. Chained(events, s, streams[s].last_sequence, streams[s].last_event)
      BY DEF CommittedChains
    <3>4. events' \cup fresh'[c] = events
      BY <1>6, <2>1, <3>1 DEF LockStream
    <3> QED BY <3>2, <3>3, <3>4
  <2>2. CASE c # b \/ s # t
    BY <1>0, <1>1, <1>6, <2>2 DEF LockStream
  <2> QED BY <2>1, <2>2
<1>7. CASE Quiet
  BY <1>1, <1>7 DEF Quiet
<1> QED BY <1>2, <1>3, <1>4, <1>5, <1>6, <1>7, RowCases

----------------------------------------------------------------------------
(* Rows and results.                                                       *)

\* An insert goes through only if no row, committed or not, has its id or key.
LEMMA InsertIsNew ==
  ASSUME NEW b \in Batches, InsertEvent(b), NEW f \in Rows
  PROVE  f.key # Current(b).key /\ f.id # Current(b).id
<1>1. Clashes(b, Current(b)) = {} /\ InsertBlockers(b, Current(b)) = {}
  BY DEF InsertEvent, Unblocked
<1>2. CASE f \in events \cup fresh[b]
  BY <1>1, <1>2 DEF Clashes
<1>3. CASE \E c \in Batches \ {b} : f \in fresh[c]
  BY <1>1, <1>3 DEF InsertBlockers
<1> QED BY <1>2, <1>3 DEF Rows

\* The unique indexes of ledger.events.
LEMMA RowsUniqueStep ==
  ASSUME TypeOK, RowsUnique, [Next]_vars
  PROVE  RowsUnique'
<1>0. fresh \in [Batches -> SUBSET Event]
  BY DEF TypeOK
<1>1. ASSUME Rows' \subseteq Rows PROVE RowsUnique'
  BY <1>1 DEF RowsUnique
<1>2. ASSUME NEW b \in Batches, InsertEvent(b) PROVE RowsUnique'
  <2> DEFINE e == Seal(b, Current(b))
  <2>1. events' = events /\ fresh' = [fresh EXCEPT ![b] = @ \cup {e}]
    BY <1>2 DEF InsertEvent
  <2>2. e.key = Current(b).key /\ e.id = Current(b).id
    BY DEF Seal
  <2> HIDE DEF e
  <2>3. Rows' \subseteq Rows \cup {e}
    BY <1>0, <2>1 DEF Rows
  <2>4. \A f \in Rows : f.key # e.key /\ f.id # e.id
    BY <1>2, <2>2, InsertIsNew
  <2> QED BY <2>3, <2>4 DEF RowsUnique
<1>3. ASSUME NEW b \in Batches, Aborts(b) PROVE Rows' \subseteq Rows
  BY <1>0, <1>3 DEF Aborts, EndTransaction, Rows
<1>4. ASSUME NEW b \in Batches, Stores(b) PROVE Rows' \subseteq Rows
  BY <1>0, <1>4 DEF Stores, EndTransaction, Rows
<1>5. ASSUME UNCHANGED <<events, fresh>> PROVE Rows' \subseteq Rows
  BY <1>5 DEF Rows
<1> QED
  BY <1>1, <1>2, <1>3, <1>4, <1>5, RowCases DEF RecoverExisting, LockStream, Quiet

\* A row is inserted by one transaction and committed once.
LEMMA RowsApartStep ==
  ASSUME TypeOK, RowsApart, [Next]_vars
  PROVE  RowsApart'
<1>0. fresh \in [Batches -> SUBSET Event]
  BY DEF TypeOK
<1>1. ASSUME NEW b \in Batches, InsertEvent(b) PROVE RowsApart'
  <2> DEFINE e == Seal(b, Current(b))
  <2>1. events' = events /\ fresh' = [fresh EXCEPT ![b] = @ \cup {e}]
    BY <1>1 DEF InsertEvent
  <2>2. e.key = Current(b).key
    BY DEF Seal
  <2> HIDE DEF e
  <2>3. e \notin events /\ \A c \in Batches : e \notin fresh[c]
    BY <1>1, <2>2, InsertIsNew DEF Rows
  <2> QED BY <1>0, <2>1, <2>3 DEF RowsApart
<1>2. ASSUME NEW b \in Batches, Aborts(b) PROVE RowsApart'
  BY <1>0, <1>2 DEF Aborts, EndTransaction, RowsApart
<1>3. ASSUME NEW b \in Batches, Stores(b) PROVE RowsApart'
  BY <1>0, <1>3 DEF Stores, EndTransaction, RowsApart
<1>4. ASSUME UNCHANGED <<events, fresh>> PROVE RowsApart'
  BY <1>4 DEF RowsApart
<1> QED
  BY <1>1, <1>2, <1>3, <1>4, RowCases DEF RecoverExisting, LockStream, Quiet

\* The result a transaction appends for its current draft.
LEMMA ResultAppended ==
  ASSUME TypeOK, NEW b \in Batches, NEW r, Inserting(b),
         results' = [results EXCEPT ![b] = Append(@, r)]
  PROVE  LET n == Len(results[b]) + 1 IN
         /\ n \in Nat \ {0} /\ DOMAIN results[b] = 1 .. n - 1 /\ DOMAIN results'[b] = 1 .. n
         /\ results'[b][n] = r /\ Current(b) = Drafts[b][n]
         /\ \A i \in DOMAIN results[b] : results'[b][i] = results[b][i]
         /\ \A c \in Batches \ {b} : results'[c] = results[c]
<1>1. results \in [Batches -> Seq(AppendOutcome)]
  BY DEF TypeOK
<1> QED BY <1>1 DEF Current

\* Every uncommitted row is reported as created.
LEMMA FreshMatchesStep ==
  ASSUME TypeOK, FreshMatches, [Next]_vars
  PROVE  FreshMatches'
<1>0. fresh \in [Batches -> SUBSET Event] /\ results \in [Batches -> Seq(AppendOutcome)]
  BY DEF TypeOK
<1>1. ASSUME NEW b \in Batches, InsertEvent(b) PROVE FreshMatches'
  <2> DEFINE e == Seal(b, Current(b))
             r == [key |-> Current(b).key, sequence |-> e.sequence, created |-> TRUE]
             n == Len(results[b]) + 1
  <2>1. /\ results' = [results EXCEPT ![b] = Append(@, r)]
        /\ fresh' = [fresh EXCEPT ![b] = @ \cup {e}]
        /\ Inserting(b)
    BY <1>1 DEF InsertEvent, Unblocked
  <2>2. RowOf(Current(b), e) /\ r.created /\ r.sequence = e.sequence
    BY DEF Seal, RowOf, SameIdentity
  <2> HIDE DEF e, r
  <2>3. /\ n \in Nat \ {0} /\ DOMAIN results[b] = 1 .. n - 1 /\ DOMAIN results'[b] = 1 .. n
        /\ results'[b][n] = r /\ Current(b) = Drafts[b][n]
        /\ \A i \in DOMAIN results[b] : results'[b][i] = results[b][i]
        /\ \A c \in Batches \ {b} : results'[c] = results[c]
    BY <2>1, ResultAppended
  <2> HIDE DEF n
  <2>4. ASSUME NEW f \in fresh'[b]
        PROVE  \E i \in DOMAIN results'[b] :
                 /\ results'[b][i].created /\ results'[b][i].sequence = f.sequence
                 /\ RowOf(Drafts[b][i], f)
    <3>1. CASE f = e
      <4>1. n \in DOMAIN results'[b]
        BY <2>3
      <4> QED BY <2>2, <2>3, <3>1, <4>1
    <3>2. CASE f \in fresh[b]
      <4>1. PICK i \in DOMAIN results[b] :
              /\ results[b][i].created /\ results[b][i].sequence = f.sequence
              /\ RowOf(Drafts[b][i], f)
        BY <3>2 DEF FreshMatches
      <4>2. i \in DOMAIN results'[b] /\ results'[b][i] = results[b][i]
        BY <2>3
      <4> QED BY <4>1, <4>2
    <3> QED BY <1>0, <2>1, <3>1, <3>2
  <2>5. ASSUME NEW c \in Batches \ {b} PROVE fresh'[c] = fresh[c] /\ results'[c] = results[c]
    BY <1>0, <2>1
  <2> QED BY <2>4, <2>5 DEF FreshMatches
<1>2. ASSUME NEW b \in Batches, RecoverExisting(b) PROVE FreshMatches'
  <2>1. PICK r : results' = [results EXCEPT ![b] = Append(@, r)]
    BY <1>2 DEF RecoverExisting
  <2>2. /\ DOMAIN results[b] \subseteq DOMAIN results'[b]
        /\ \A i \in DOMAIN results[b] : results'[b][i] = results[b][i]
        /\ \A c \in Batches \ {b} : results'[c] = results[c]
    <3>1. Inserting(b)
      BY <1>2 DEF RecoverExisting, Unblocked
    <3> QED BY <2>1, <3>1, ResultAppended
  <2>3. fresh' = fresh
    BY <1>2 DEF RecoverExisting
  <2> QED BY <2>2, <2>3 DEF FreshMatches
<1>3. ASSUME NEW b \in Batches, Aborts(b) PROVE FreshMatches'
  BY <1>0, <1>3 DEF Aborts, EndTransaction, FreshMatches
<1>4. ASSUME NEW b \in Batches, Stores(b) PROVE FreshMatches'
  BY <1>0, <1>4 DEF Stores, EndTransaction, FreshMatches
<1>5. ASSUME UNCHANGED <<fresh, results>> PROVE FreshMatches'
  BY <1>5 DEF FreshMatches
<1> QED
  BY <1>1, <1>2, <1>3, <1>4, <1>5, RowCases DEF LockStream, Quiet

\* A result i of b tells the truth about row e.
Tells(b, i, e) ==
  /\ e \in fresh[b] <=> results[b][i].created
  /\ e.sequence = results[b][i].sequence
  /\ SameIdentity(Drafts[b][i], e)

\* A row the transaction found is not one of its own: its drafts have
\* different keys.
LEMMA ClashCommitted ==
  ASSUME TypeOK, OnlyInserting, FreshMatches, NEW b \in Batches, Unblocked(b),
         NEW e \in Clashes(b, Current(b)), SameIdentity(Current(b), e)
  PROVE  e \in events /\ e \notin fresh[b]
<1>1. e \in events \cup fresh[b]
  BY DEF Clashes
<1>2. ASSUME e \in fresh[b] PROVE FALSE
  <2>1. PICK i \in DOMAIN results[b] : Drafts[b][i].key = e.key
    BY <1>2 DEF FreshMatches, RowOf, SameIdentity
  <2>2. /\ Len(results[b]) + 1 \in DOMAIN Drafts[b]
        /\ Drafts[b][Len(results[b]) + 1].key = e.key
    BY CurrentType DEF Unblocked, Current, SameIdentity
  <2>3. i \in DOMAIN Drafts[b] /\ i # Len(results[b]) + 1
    BY <2>2, DraftsAssumption DEF TypeOK
  <2>4. ~DuplicateKeys(b)
    BY DEF Unblocked, Inserting, OnlyInserting, InTransaction
  <2> QED BY <2>1, <2>2, <2>3, <2>4 DEF DuplicateKeys
<1> QED BY <1>1, <1>2

\* A created result of b on stream s has a row on the chain b extends.
LEMMA CreatedBelowHead ==
  ASSUME TypeOK, StreamsHeld, OnlyInserting, FreshMatches, OwnChains, ResultsMatch,
         NEW b \in Batches, NEW i \in DOMAIN results[b], results[b][i].created
  PROVE  results[b][i].sequence <= stream_state[b][Drafts[b][i].stream].sequence
<1>1. PICK e \in fresh[b] : /\ e.sequence = results[b][i].sequence
                            /\ e.stream = Drafts[b][i].stream
  BY DEF ResultsMatch, SameIdentity
<1>2. e.stream \in Streams /\ stream_lock[e.stream] = b
  BY FreshHeld
<1>3. Chained(events \cup fresh[b], e.stream, stream_state[b][e.stream].sequence,
              stream_state[b][e.stream].head)
  BY <1>2 DEF OwnChains
<1> QED BY <1>1, <1>3 DEF Chained

\* AppendOutcomes are true of the rows a transaction would commit.
LEMMA ResultsMatchStep ==
  ASSUME TypeOK, StreamsHeld, OnlyInserting, OwnChains, RowsUnique, RowsApart, FreshMatches,
         ResultsMatch, [Next]_vars
  PROVE  ResultsMatch'
<1>0. /\ fresh \in [Batches -> SUBSET Event] /\ results \in [Batches -> Seq(AppendOutcome)]
      /\ stream_state \in [Batches -> [Streams -> StreamState]]
  BY DEF TypeOK
<1>1. ASSUME NEW b \in Batches, InsertEvent(b) PROVE ResultsMatch'
  <2> DEFINE d == Current(b)
             e == Seal(b, d)
             r == [key |-> d.key, sequence |-> e.sequence, created |-> TRUE]
             n == Len(results[b]) + 1
  <2>1. /\ results' = [results EXCEPT ![b] = Append(@, r)]
        /\ fresh' = [fresh EXCEPT ![b] = @ \cup {e}]
        /\ events' = events
        /\ Inserting(b)
    BY <1>1 DEF InsertEvent, Unblocked
  <2>2. /\ SameIdentity(d, e) /\ r.created = TRUE /\ r.sequence = e.sequence /\ r.key = d.key
        /\ e.key = d.key /\ e.sequence = stream_state[b][d.stream].sequence + 1
        /\ d \in Draft
    BY <2>1, CurrentType DEF Seal, SameIdentity
  <2> HIDE DEF e, r
  <2>3. /\ n \in Nat \ {0} /\ DOMAIN results[b] = 1 .. n - 1 /\ DOMAIN results'[b] = 1 .. n
        /\ results'[b][n] = r /\ d = Drafts[b][n]
        /\ \A i \in DOMAIN results[b] : results'[b][i] = results[b][i]
        /\ \A c \in Batches \ {b} : results'[c] = results[c]
    BY <2>1, ResultAppended
  <2> HIDE DEF n, d
  <2>4. e \notin events /\ e \notin fresh[b]
    BY <1>1, <2>2, InsertIsNew DEF Rows, d
  <2>5. ASSUME NEW i \in DOMAIN results'[b]
        PROVE  /\ results'[b][i].key = Drafts[b][i].key
               /\ \E f \in events' \cup fresh'[b] : Tells(b, i, f)'
    <3>1. CASE i = n
      <4>1. /\ results'[b][i].created = TRUE /\ results'[b][i].sequence = e.sequence
            /\ results'[b][i].key = Drafts[b][i].key /\ SameIdentity(Drafts[b][i], e)
        BY <2>2, <2>3, <3>1
      <4>2. e \in fresh'[b]
        BY <1>0, <2>1
      <4> QED BY <4>1, <4>2 DEF Tells, SameIdentity
    <3>2. CASE i # n
      <4>1. i \in DOMAIN results[b] /\ results'[b][i] = results[b][i]
        BY <2>3, <3>2
      <4>2. PICK f \in events \cup fresh[b] : Tells(b, i, f)
        BY <4>1 DEF ResultsMatch, Tells
      <4>3. f # e
        BY <2>4, <4>2
      <4>4. Tells(b, i, f)'
        BY <1>0, <2>1, <4>1, <4>2, <4>3 DEF Tells
      <4> QED BY <1>0, <2>1, <4>1, <4>2, <4>4 DEF ResultsMatch
    <3> QED BY <3>1, <3>2
  <2>6. ASSUME NEW i \in DOMAIN results'[b], NEW j \in DOMAIN results'[b], i < j,
               Drafts[b][i].stream = Drafts[b][j].stream,
               results'[b][i].created, results'[b][j].created
        PROVE  results'[b][i].sequence < results'[b][j].sequence
    <3>1. CASE j = n
      <4>1. i \in DOMAIN results[b] /\ results'[b][i] = results[b][i]
        BY <2>3, <2>6, <3>1
      <4>2. results[b][i].sequence <= stream_state[b][d.stream].sequence
        BY <2>3, <2>6, <3>1, <4>1, CreatedBelowHead
      <4>3. results[b][i].sequence \in Nat
        <5>1. results[b] \in Seq(AppendOutcome)
          BY <1>0
        <5>2. results[b][i] \in AppendOutcome
          BY <4>1, <5>1
        <5> QED BY <5>2 DEF AppendOutcome
      <4>4. stream_state[b][d.stream].sequence \in Nat
        BY <1>0, <2>2 DEF StreamState, Draft
      <4> QED BY <2>2, <2>3, <3>1, <4>1, <4>2, <4>3, <4>4
    <3>2. CASE j # n
      BY <2>3, <2>6, <3>2 DEF ResultsMatch
    <3> QED BY <3>1, <3>2
  <2>7. ASSUME NEW c \in Batches \ {b} PROVE fresh'[c] = fresh[c] /\ results'[c] = results[c]
    BY <1>0, <2>1
  <2> QED BY <2>1, <2>5, <2>6, <2>7 DEF ResultsMatch, Tells
<1>2. ASSUME NEW b \in Batches, RecoverExisting(b) PROVE ResultsMatch'
  <2> DEFINE d == Current(b)
             n == Len(results[b]) + 1
  <2>1. PICK e \in Clashes(b, d) :
          /\ SameIdentity(d, e)
          /\ results' = [results EXCEPT ![b] = Append(@, [key |-> d.key, sequence |-> e.sequence,
                                                          created |-> FALSE])]
    BY <1>2 DEF RecoverExisting
  <2> DEFINE r == [key |-> d.key, sequence |-> e.sequence, created |-> FALSE]
  <2>2. /\ events' = events /\ fresh' = fresh /\ Inserting(b) /\ Unblocked(b)
        /\ results' = [results EXCEPT ![b] = Append(@, r)]
    BY <1>2, <2>1 DEF RecoverExisting, Unblocked
  <2>3. r.created = FALSE /\ r.sequence = e.sequence /\ r.key = d.key
    OBVIOUS
  <2>4. e \in events /\ e \notin fresh[b]
    BY <2>1, <2>2, ClashCommitted
  <2> HIDE DEF r
  <2>5. /\ n \in Nat \ {0} /\ DOMAIN results[b] = 1 .. n - 1 /\ DOMAIN results'[b] = 1 .. n
        /\ results'[b][n] = r /\ d = Drafts[b][n]
        /\ \A i \in DOMAIN results[b] : results'[b][i] = results[b][i]
        /\ \A c \in Batches \ {b} : results'[c] = results[c]
    BY <2>2, ResultAppended
  <2> HIDE DEF n, d
  <2>6. ASSUME NEW i \in DOMAIN results'[b]
        PROVE  /\ results'[b][i].key = Drafts[b][i].key
               /\ \E f \in events' \cup fresh'[b] : Tells(b, i, f)'
    <3>1. CASE i = n
      <4>1. Tells(b, i, e)'
        BY <2>1, <2>2, <2>3, <2>4, <2>5, <3>1 DEF Tells
      <4> QED BY <2>2, <2>3, <2>4, <2>5, <3>1, <4>1
    <3>2. CASE i # n
      <4>1. i \in DOMAIN results[b] /\ results'[b][i] = results[b][i]
        BY <2>5, <3>2
      <4>2. PICK f \in events \cup fresh[b] : Tells(b, i, f)
        BY <4>1 DEF ResultsMatch, Tells
      <4>3. Tells(b, i, f)'
        BY <2>2, <4>1, <4>2 DEF Tells
      <4> QED BY <2>2, <4>1, <4>2, <4>3 DEF ResultsMatch
    <3> QED BY <3>1, <3>2
  <2>7. ASSUME NEW i \in DOMAIN results'[b], NEW j \in DOMAIN results'[b], i < j,
               Drafts[b][i].stream = Drafts[b][j].stream,
               results'[b][i].created, results'[b][j].created
        PROVE  results'[b][i].sequence < results'[b][j].sequence
    <3>1. i \in DOMAIN results[b] /\ j \in DOMAIN results[b]
      BY <2>3, <2>5, <2>7
    <3> QED BY <2>5, <2>7, <3>1 DEF ResultsMatch
  <2> QED BY <2>2, <2>5, <2>6, <2>7 DEF ResultsMatch, Tells
<1>3. ASSUME NEW b \in Batches, Aborts(b) PROVE ResultsMatch'
  <2>1. /\ events' = events /\ results'[b] = <<>>
        /\ \A c \in Batches \ {b} : fresh'[c] = fresh[c] /\ results'[c] = results[c]
    BY <1>0, <1>3 DEF Aborts, EndTransaction
  <2> QED BY <2>1 DEF ResultsMatch
<1>4. ASSUME NEW b \in Batches, Stores(b) PROVE ResultsMatch'
  <2>1. /\ events' = events \cup fresh[b] /\ results'[b] = <<>>
        /\ \A c \in Batches \ {b} : fresh'[c] = fresh[c] /\ results'[c] = results[c]
    BY <1>0, <1>4 DEF Stores, EndTransaction
  <2> QED BY <2>1 DEF ResultsMatch
<1>5. ASSUME UNCHANGED <<events, fresh, results>> PROVE ResultsMatch'
  BY <1>5 DEF ResultsMatch
<1> QED
  BY <1>1, <1>2, <1>3, <1>4, <1>5, RowCases DEF LockStream, Quiet

----------------------------------------------------------------------------
(* Answers.                                                                *)

\* What a commit answers is true once it is done.
LEMMA AcceptedTrue ==
  ASSUME TypeOK, OnlyInserting, ResultsMatch, NEW b \in Batches, NEW a \in Accepted(b)
  PROVE  \E i \in DOMAIN results[b] : \E e \in events \cup fresh[b] :
           /\ i \in DOMAIN Drafts[b] /\ Drafts[b][i].key = a.key
           /\ a = [batch |-> b, key |-> results[b][i].key, sequence |-> results[b][i].sequence,
                   status |-> IF results[b][i].created THEN "accepted" ELSE "existing"]
           /\ Tells(b, i, e) /\ e.key = a.key /\ e.sequence = a.sequence
<1>1. PICK i \in DOMAIN results[b] :
        a = [batch |-> b, key |-> results[b][i].key, sequence |-> results[b][i].sequence,
             status |-> IF results[b][i].created THEN "accepted" ELSE "existing"]
  BY DEF Accepted
<1>2. i \in DOMAIN Drafts[b]
  BY DraftsAssumption DEF OnlyInserting, TypeOK
<1>3. PICK e \in events \cup fresh[b] : Tells(b, i, e)
  BY DEF ResultsMatch, Tells
<1>4. results[b][i].key = Drafts[b][i].key
  BY DEF ResultsMatch
<1> QED BY <1>1, <1>2, <1>3, <1>4 DEF Tells, SameIdentity

LEMMA AnswersTrueStep ==
  ASSUME TypeOK, OnlyInserting, ResultsMatch, AnswersTrue, [Next]_vars
  PROVE  AnswersTrue'
<1>1. ASSUME events \subseteq events', answers' = answers PROVE AnswersTrue'
  BY <1>1 DEF AnswersTrue
<1>2. ASSUME NEW b \in Batches, Stores(b) PROVE AnswersTrue'
  <2>1. events' = events \cup fresh[b] /\ answers' \subseteq answers \cup Accepted(b)
    BY <1>2 DEF Stores
  <2>2. ASSUME NEW a \in Accepted(b)
        PROVE  \E e \in events', d \in DraftsOf(a.batch) :
                 a.key = e.key /\ a.sequence = e.sequence /\ SameIdentity(d, e)
    BY <2>1, AcceptedTrue DEF Tells, DraftsOf
  <2> QED BY <2>1, <2>2 DEF AnswersTrue
<1>3. CASE Quiet
  <2>1. ASSUME NEW b \in Batches, NEW a \in Existing(b)
        PROVE  \E e \in events, d \in DraftsOf(a.batch) :
                 a.key = e.key /\ a.sequence = e.sequence /\ SameIdentity(d, e)
    BY DEF Existing
  <2> QED BY <1>3, <2>1 DEF Quiet, AnswersTrue
<1> QED
  BY <1>1, <1>2, <1>3, RowCases DEF InsertEvent, RecoverExisting, Aborts, LockStream

\* Only the insert that stores a row is reported as created, and a key is
\* stored once.
LEMMA AcceptedOnceStep ==
  ASSUME TypeOK, OnlyInserting, RowsUnique, RowsApart, ResultsMatch, AnswersTrue, AcceptedOnce,
         [Next]_vars
  PROVE  AcceptedOnce'
<1>1. ASSUME answers' = answers PROVE AcceptedOnce'
  BY <1>1 DEF AcceptedOnce
<1>2. ASSUME NEW b \in Batches, Stores(b) PROVE AcceptedOnce'
  <2>1. answers' \subseteq answers \cup Accepted(b)
    BY <1>2 DEF Stores
  <2>2. ASSUME NEW a \in Accepted(b), a.status = "accepted"
        PROVE  \E e \in fresh[b] : e.key = a.key
    BY <2>2, AcceptedTrue DEF Tells
  <2>3. ASSUME NEW a \in answers, NEW c \in Accepted(b), c.status = "accepted", a.key = c.key
        PROVE  FALSE
    <3>1. PICK e \in events : e.key = a.key
      BY DEF AnswersTrue
    <3>2. PICK f \in fresh[b] : f.key = c.key
      BY <2>2, <2>3
    <3>3. e \in Rows /\ f \in Rows
      BY DEF Rows
    <3> QED BY <2>3, <3>1, <3>2, <3>3 DEF RowsUnique, RowsApart
  <2>4. ASSUME NEW a \in Accepted(b), NEW c \in Accepted(b), a.key = c.key PROVE a = c
    <3>1. PICK i \in DOMAIN results[b] :
            /\ i \in DOMAIN Drafts[b] /\ Drafts[b][i].key = a.key
            /\ a = [batch |-> b, key |-> results[b][i].key, sequence |-> results[b][i].sequence,
                    status |-> IF results[b][i].created THEN "accepted" ELSE "existing"]
      BY AcceptedTrue
    <3>2. PICK j \in DOMAIN results[b] :
            /\ j \in DOMAIN Drafts[b] /\ Drafts[b][j].key = c.key
            /\ c = [batch |-> b, key |-> results[b][j].key, sequence |-> results[b][j].sequence,
                    status |-> IF results[b][j].created THEN "accepted" ELSE "existing"]
      BY AcceptedTrue
    <3>3. ~DuplicateKeys(b)
      BY <1>2 DEF Stores, Ready, OnlyInserting, InTransaction
    <3>4. i = j
      BY <2>4, <3>1, <3>2, <3>3 DEF DuplicateKeys
    <3> QED BY <3>1, <3>2, <3>4
  <2> QED BY <2>1, <2>3, <2>4 DEF AcceptedOnce
<1>3. CASE Quiet
  <2>1. ASSUME NEW b \in Batches, NEW a \in Existing(b) PROVE a.status = "existing"
    BY DEF Existing
  <2> QED BY <1>3, <2>1 DEF Quiet, AcceptedOnce
<1> QED
  BY <1>1, <1>2, <1>3, RowCases DEF InsertEvent, RecoverExisting, Aborts, LockStream

----------------------------------------------------------------------------
(* The inductive invariant.                                                *)

Safe == TypeOK /\ Inductive

LEMMA InitSafe == Init => Safe
<1> SUFFICES ASSUME Init PROVE Safe
  OBVIOUS
<1>1. TypeOK
  BY LedgerBoundsAssumption, BatchesAssumption
     DEF Init, TypeOK, NoState, StreamRow, StreamState, Event
<1>2. StreamsHeld /\ KeysHeld
  BY BatchesAssumption, WantedTypes DEF Init, StreamsHeld, KeysHeld, InTransaction
<1>3. OnlyInserting
  BY DraftsAssumption DEF Init, OnlyInserting, InTransaction
<1>4. CommittedChains
  BY DEF Init, CommittedChains, Chained
<1>5. OwnChains
  BY BatchesAssumption DEF Init, OwnChains
<1>6. RowsUnique /\ RowsApart /\ FreshMatches /\ ResultsMatch
  BY DEF Init, RowsUnique, Rows, RowsApart, FreshMatches, ResultsMatch
<1>7. AnswersTrue /\ AcceptedOnce
  BY DEF Init, AnswersTrue, AcceptedOnce
<1> QED BY <1>1, <1>2, <1>3, <1>4, <1>5, <1>6, <1>7 DEF Safe, Inductive

LEMMA NextSafe == Safe /\ [Next]_vars => Safe'
<1> SUFFICES ASSUME Safe, [Next]_vars PROVE Safe'
  OBVIOUS
<1> QED
  BY TypeStep, StreamsHeldStep, KeysHeldStep, OnlyInsertingStep, CommittedChainsStep,
     OwnChainsStep, RowsUniqueStep, RowsApartStep, FreshMatchesStep, ResultsMatchStep,
     AnswersTrueStep, AcceptedOnceStep DEF Safe, Inductive

LEMMA AlwaysSafe == Spec => []Safe
BY InitSafe, NextSafe, PTL DEF Spec

----------------------------------------------------------------------------
(* Deadlocks.                                                              *)

\* A finite set of numbers has a largest one.
LEMMA Largest ==
  ASSUME NEW S \in SUBSET Nat, IsFiniteSet(S), S # {}
  PROVE  \E x \in S : \A y \in S : y <= x
<1> DEFINE Above(x) == {y \in S : x < y}
           Counts == {Cardinality(Above(x)) : x \in S}
<1>1. \A x \in S : IsFiniteSet(Above(x)) /\ Cardinality(Above(x)) \in Nat
  BY FS_Subset, FS_CardinalityType
<1>2. PICK n \in Counts : \A m \in Counts : ~(m < n)
  <2>1. Counts \subseteq Nat /\ Counts # {}
    BY <1>1
  <2>2. PICK n \in Counts : \A m \in Counts : <<m, n>> \notin OpToRel(<, Nat)
    BY <2>1, NatLessThanWellFounded, WFMin
  <2> QED BY <2>1, <2>2 DEF OpToRel
<1>3. PICK x \in S : n = Cardinality(Above(x))
  OBVIOUS
<1>4. ASSUME NEW y \in S, x < y PROVE FALSE
  <2>0. x \in Nat /\ y \in Nat /\ \A z \in S : z \in Nat
    OBVIOUS
  <2>1. Above(y) \subseteq Above(x) /\ y \in Above(x) /\ y \notin Above(y)
    <3>1. \A z \in Above(y) : z \in S /\ x < z
      BY <1>4, <2>0
    <3>2. ~(y < y)
      BY <2>0
    <3> QED BY <1>4, <3>1, <3>2
  <2>2. Cardinality(Above(y)) < Cardinality(Above(x))
    <3> HIDE DEF Above, Counts
    <3>1. IsFiniteSet(Above(x)) /\ Above(y) # Above(x)
      BY <1>1, <2>1
    <3>2. /\ Cardinality(Above(y)) <= Cardinality(Above(x))
          /\ Cardinality(Above(y)) # Cardinality(Above(x))
      BY <3>1, <2>1, FS_Subset
    <3>3. Cardinality(Above(y)) \in Nat /\ Cardinality(Above(x)) \in Nat
      BY <1>1
    <3> QED BY <3>2, <3>3
  <2> QED BY <1>2, <1>3, <2>2
<1>5. ASSUME NEW y \in S PROVE y <= x
  <2>1. x \in Nat /\ y \in Nat
    OBVIOUS
  <2> QED BY <1>4, <2>1
<1> QED BY <1>5

\* Who holds a key lock and waits for another one waits for a larger one.
LEMMA NoKeyCycle ==
  ASSUME TypeOK, KeysHeld, NEW S \in SUBSET Batches, S # {},
         \A b \in S : \E k \in LockKeys : NextKey(b, k) /\ key_lock[k] \in S
  PROVE  FALSE
<1> DEFINE Awaited == {k \in LockKeys : key_lock[k] \in S /\ \E b \in S : NextKey(b, k)}
<1>1. LockKeys \subseteq Nat /\ IsFiniteSet(LockKeys)
  BY LockKeyAssumption DEF LockKeys
<1>2. PICK k \in Awaited : \A l \in Awaited : l <= k
  BY <1>1, FS_Subset, Largest
<1>3. PICK l \in LockKeys : NextKey(key_lock[k], l) /\ key_lock[l] \in S
  OBVIOUS
<1>4. l \in Awaited
  BY <1>3
<1>5. k < l
  <2>1. /\ key_lock[k] \in Batches /\ pc[key_lock[k]] = "keys"
        /\ l \in LockKeysOf(key_lock[k]) /\ key_lock[l] # key_lock[k]
    BY <1>3 DEF NextKey, NextOf, Held, TypeOK
  <2> QED BY <2>1 DEF KeysHeld
<1> QED BY <1>1, <1>2, <1>4, <1>5

\* The same of streams.
LEMMA NoStreamCycle ==
  ASSUME TypeOK, StreamsHeld, NEW S \in SUBSET Batches, S # {},
         \A b \in S : \E s \in Streams : NextStream(b, s) /\ stream_lock[s] \in S
  PROVE  FALSE
<1> DEFINE Awaited == {s \in Streams : stream_lock[s] \in S /\ \E b \in S : NextStream(b, s)}
<1>1. PICK s \in Awaited : \A t \in Awaited : t <= s
  BY StreamsAssumption, FS_Subset, Largest
<1>2. PICK t \in Streams : NextStream(stream_lock[s], t) /\ stream_lock[t] \in S
  OBVIOUS
<1>3. t \in Awaited
  BY <1>2
<1>4. s < t
  <2>1. /\ stream_lock[s] \in Batches /\ pc[stream_lock[s]] = "streams"
        /\ t \in StreamsOf(stream_lock[s]) /\ stream_lock[t] # stream_lock[s]
    BY <1>2 DEF NextStream, NextOf, Held, TypeOK
  <2> QED BY <2>1 DEF StreamsHeld
<1> QED BY <1>1, <1>3, <1>4, StreamsAssumption

\* Rows with a common key or id belong to transactions that hold the same key
\* lock, so that two of them never insert at once.
LEMMA NoInsertWait ==
  ASSUME Safe, NEW b \in Batches, NEW c \in Batches, IdsFollowKeys({b, c}),
         Inserting(b), c \in InsertBlockers(b, Current(b))
  PROVE  FALSE
<1>1. PICK e \in fresh[c] : e.id = Current(b).id \/ e.key = Current(b).key
  BY DEF InsertBlockers
<1>2. Current(b) \in DraftsOf(b) /\ Current(b) \in Draft
  BY CurrentType DEF Safe
<1>3. PICK i \in DOMAIN results[c] : RowOf(Drafts[c][i], e)
  BY DEF Safe, Inductive, FreshMatches
<1>4. Drafts[c][i] \in DraftsOf(c)
  BY <1>3, DraftsAssumption DEF Safe, Inductive, OnlyInserting, TypeOK, DraftsOf
<1>5. e.key = Current(b).key /\ e.key = Drafts[c][i].key
  BY <1>1, <1>2, <1>3, <1>4 DEF IdsFollowKeys, RowOf, SameIdentity
<1>6. pc[b] = "insert" /\ pc[c] = "insert" /\ b # c
  BY DEF Inserting, InsertBlockers, Safe, Inductive, OnlyInserting
<1>7. LockKey[e.key] \in LockKeysOf(b) /\ LockKey[e.key] \in LockKeysOf(c)
  BY <1>2, <1>4, <1>5 DEF LockKeysOf
<1> QED BY <1>6, <1>7 DEF Safe, Inductive, KeysHeld

\* Batches of producers that do not reuse ids never deadlock: whoever waits for
\* a key waits for one that inserts or waits for a larger key, inserting ones
\* wait for nobody, and the rest wait for larger streams.
THEOREM NoDeadlock == Spec => []NeverDeadlocks
<1>1. ASSUME Safe PROVE NeverDeadlocks
  <2> SUFFICES ASSUME NEW S \in SUBSET Waiting, WaitCycle(S), IdsFollowKeys(S) PROVE FALSE
    BY DEF NeverDeadlocks
  <2>1. S \subseteq Batches /\ S # {}
    BY DEF Waiting, WaitCycle
  <2>2. ASSUME NEW b \in S
        PROVE  \/ \E s \in Streams : NextStream(b, s) /\ stream_lock[s] \in S
               \/ \E k \in LockKeys : NextKey(b, k) /\ key_lock[k] \in S
    <3>1. PICK c \in S : WaitsFor(b, c)
      BY DEF WaitCycle
    <3>2. IdsFollowKeys({b, c})
      BY DEF IdsFollowKeys
    <3> QED BY <1>1, <2>1, <3>1, <3>2, NoInsertWait DEF WaitsFor
  <2> DEFINE T == {b \in S : pc[b] = "keys"}
  <2>3. ASSUME NEW b \in T PROVE \E k \in LockKeys : NextKey(b, k) /\ key_lock[k] \in T
    <3>1. PICK k \in LockKeys : NextKey(b, k) /\ key_lock[k] \in S
      BY <2>2 DEF NextStream
    <3>2. pc[key_lock[k]] \in {"keys", "insert"}
      BY <1>1, <2>1, <3>1 DEF Safe, Inductive, KeysHeld
    <3>3. pc[key_lock[k]] = "keys"
      BY <2>2, <3>1, <3>2 DEF NextStream, NextKey
    <3> QED BY <3>1, <3>3
  <2>4. T = {}
    BY <1>1, <2>1, <2>3, NoKeyCycle DEF Safe, Inductive
  <2>5. \A b \in S : \E s \in Streams : NextStream(b, s) /\ stream_lock[s] \in S
    BY <2>2, <2>4 DEF NextKey
  <2> QED BY <1>1, <2>1, <2>5, NoStreamCycle DEF Safe, Inductive
<1> QED BY <1>1, AlwaysSafe, PTL

----------------------------------------------------------------------------
(* The safety properties.                                                  *)

\* Every value keeps its shape.
THEOREM TypeCorrect == Spec => []TypeOK
BY AlwaysSafe, PTL DEF Safe

\* Every stream is one unbroken hash chain from 1 to its head.
THEOREM ChainsIntact == Spec => []ChainIntact
<1>1. ASSUME Safe PROVE ChainIntact
  <2> SUFFICES ASSUME NEW s \in Streams
               PROVE  LET n == streams[s].last_sequence IN
                      /\ {e.sequence : e \in StreamEvents(s)} = 1 .. n
                      /\ \A e \in StreamEvents(s) : \A f \in StreamEvents(s) :
                           /\ e.sequence = f.sequence => e = f
                           /\ f.sequence = e.sequence + 1 => f.previous = e.id
                      /\ \A e \in StreamEvents(s) :
                           /\ e.sequence = 1 => e.previous = 0
                           /\ e.sequence = n => streams[s].last_event = e.id
                      /\ n = 0 => streams[s].last_event = 0
    BY DEF ChainIntact
  <2> DEFINE n == streams[s].last_sequence
  <2>1. Chained(events, s, n, streams[s].last_event)
    BY <1>1 DEF Safe, Inductive, CommittedChains
  <2>2. n \in Nat /\ \A e \in events : e.sequence \in Nat \ {0}
    BY <1>1 DEF Safe, TypeOK, StreamRow, Event
  <2> HIDE DEF n
  <2>3. {e.sequence : e \in StreamEvents(s)} = 1 .. n
    <3>1. ASSUME NEW e \in StreamEvents(s) PROVE e.sequence \in 1 .. n
      BY <2>1, <2>2 DEF StreamEvents, Chained
    <3>2. ASSUME NEW i \in 1 .. n PROVE \E e \in StreamEvents(s) : e.sequence = i
      BY <2>1 DEF StreamEvents, Chained
    <3> QED BY <3>1, <3>2
  <2> QED BY <2>1, <2>3 DEF StreamEvents, Chained, n
<1> QED BY <1>1, AlwaysSafe, PTL

\* An idempotency key, and an event id, is stored once.
THEOREM KeysUnique == Spec => []OneEventPerKey
<1>1. Safe => OneEventPerKey
  BY DEF Safe, Inductive, RowsUnique, Rows, OneEventPerKey
<1> QED BY <1>1, AlwaysSafe, PTL

\* What a producer is told is committed with the content it sent.
THEOREM AnswersStayTrue == Spec => []AnswersTrue
BY AlwaysSafe, PTL DEF Safe, Inductive

\* An event is accepted once.
THEOREM AcceptsOnce == Spec => []AcceptedOnce
BY AlwaysSafe, PTL DEF Safe, Inductive

----------------------------------------------------------------------------
(* The refinement.                                                         *)

\* A stored log is a sequence with one position per event.
LogShape ==
  \A s \in Streams :
    /\ DOMAIN StoredLog[s] = 1 .. streams[s].last_sequence
    /\ Len(StoredLog[s]) = streams[s].last_sequence
    /\ \A n \in 1 .. streams[s].last_sequence :
         StoredLog[s][n] = [key |-> Entry(s, n).key, body |-> Entry(s, n).body]

LEMMA StoredLogRows == Safe => LogShape
<1> SUFFICES ASSUME Safe, NEW s \in Streams
             PROVE  /\ DOMAIN StoredLog[s] = 1 .. streams[s].last_sequence
                    /\ Len(StoredLog[s]) = streams[s].last_sequence
                    /\ \A n \in 1 .. streams[s].last_sequence :
                         StoredLog[s][n] = [key |-> Entry(s, n).key, body |-> Entry(s, n).body]
  BY DEF LogShape
<1>1. streams[s].last_sequence \in Nat
  BY DEF Safe, TypeOK, StreamRow
<1> DEFINE row(n) == [key |-> Entry(s, n).key, body |-> Entry(s, n).body]
           last == streams[s].last_sequence
           rows == {row(n) : n \in 1 .. last}
<1>2. StoredLog[s] = [n \in 1 .. last |-> row(n)]
  BY DEF StoredLog
<1>3. StoredLog[s] \in Seq(rows) /\ Len(StoredLog[s]) = last
  <2> HIDE DEF row, last
  <2>1. StoredLog[s] \in [1 .. last -> rows]
    BY <1>2
  <2>2. last \in Nat
    BY <1>1 DEF last
  <2>3. StoredLog[s] \in Seq(rows)
    BY <2>1, <2>2, SeqDef
  <2> QED BY <2>1, <2>2, <2>3, LenProperties
<1> QED BY <1>1, <1>2, <1>3

\* The event at a position.
LEMMA EntryIs ==
  ASSUME Safe, NEW s \in Streams, NEW e \in events, e.stream = s
  PROVE  e.sequence \in 1 .. streams[s].last_sequence /\ Entry(s, e.sequence) = e
<1>1. Chained(events, s, streams[s].last_sequence, streams[s].last_event)
  BY DEF Safe, Inductive, CommittedChains
<1>2. e.sequence \in 1 .. streams[s].last_sequence
  BY <1>1 DEF Chained, Safe, TypeOK, Event, StreamRow
<1> QED BY <1>1, <1>2 DEF Chained, Entry, StreamEvents

LEMMA EntryExists ==
  ASSUME Safe, NEW s \in Streams, NEW n \in 1 .. streams[s].last_sequence
  PROVE  Entry(s, n) \in events /\ Entry(s, n).stream = s /\ Entry(s, n).sequence = n
<1>1. Chained(events, s, streams[s].last_sequence, streams[s].last_event)
  BY DEF Safe, Inductive, CommittedChains
<1> QED BY <1>1 DEF Chained, Entry, StreamEvents

\* A key is stored exactly if it is in the log.
LEMMA StoredKeys ==
  ASSUME Safe, NEW k
  PROVE  Log!Stored(k) <=> \E e \in events : e.key = k
<1>1. ASSUME NEW s \in Streams, NEW n \in DOMAIN StoredLog[s], StoredLog[s][n].key = k
      PROVE  \E e \in events : e.key = k
  <2>1. /\ n \in 1 .. streams[s].last_sequence
        /\ StoredLog[s][n] = [key |-> Entry(s, n).key, body |-> Entry(s, n).body]
    BY StoredLogRows DEF LogShape
  <2>2. Entry(s, n) \in events
    BY <2>1, EntryExists
  <2> QED BY <1>1, <2>1, <2>2
<1>2. ASSUME NEW e \in events, e.key = k PROVE Log!Stored(k)
  <2>1. e.stream \in Streams
    BY DEF Safe, TypeOK, Event
  <2>2. /\ e.sequence \in 1 .. streams[e.stream].last_sequence
        /\ Entry(e.stream, e.sequence) = e
    BY <2>1, EntryIs
  <2>3. /\ DOMAIN StoredLog[e.stream] = 1 .. streams[e.stream].last_sequence
        /\ StoredLog[e.stream][e.sequence] = [key |-> e.key, body |-> e.body]
    BY <2>1, <2>2, StoredLogRows DEF LogShape
  <2>4. e.sequence \in DOMAIN StoredLog[e.stream] /\ StoredLog[e.stream][e.sequence].key = k
    BY <1>2, <2>2, <2>3
  <2> QED BY <2>1, <2>4 DEF Log!Stored
<1> QED BY <1>1, <1>2 DEF Log!Stored

\* A commit answers for every draft of its batch.
LEMMA EveryDraft ==
  ASSUME Safe, NEW b \in Batches, Ready(b), NEW i \in DOMAIN Drafts[b]
  PROVE  i \in DOMAIN results[b] /\ \E e \in events \cup fresh[b] : Tells(b, i, e)
<1>1. i \in DOMAIN results[b]
  BY DraftsAssumption DEF Ready, Safe, TypeOK
<1> QED BY <1>1 DEF Safe, Inductive, ResultsMatch, Tells

LEMMA CommitRepeats ==
  ASSUME Safe, NEW b \in Batches, Ready(b)
  PROVE  Log!Repeats(b)
<1> SUFFICES ASSUME NEW i \in DOMAIN Drafts[b], NEW s \in Streams, NEW n \in DOMAIN StoredLog[s],
                    StoredLog[s][n].key = Drafts[b][i].key
             PROVE  s = Drafts[b][i].stream /\ StoredLog[s][n] = Log!Row(Drafts[b][i])
  BY DEF Log!Repeats
<1>1. PICK e \in events \cup fresh[b] : Tells(b, i, e)
  BY EveryDraft
<1>2. /\ Entry(s, n) \in events /\ Entry(s, n).stream = s
      /\ StoredLog[s][n] = [key |-> Entry(s, n).key, body |-> Entry(s, n).body]
  BY StoredLogRows, EntryExists DEF LogShape
<1>3. e = Entry(s, n)
  BY <1>1, <1>2 DEF Safe, Inductive, RowsUnique, Rows, Tells, SameIdentity
<1> QED BY <1>1, <1>2, <1>3 DEF Tells, SameIdentity, Log!Row

\* A draft is new to the log exactly if its result says created.
LEMMA NewIsCreated ==
  ASSUME Safe, NEW b \in Batches, Ready(b), NEW i \in DOMAIN Drafts[b]
  PROVE  Log!Stored(Drafts[b][i].key) <=> ~results[b][i].created
<1>1. PICK e \in events \cup fresh[b] : Tells(b, i, e)
  BY EveryDraft
<1>2. e.key = Drafts[b][i].key
  BY <1>1 DEF Tells, SameIdentity
<1>3. CASE results[b][i].created
  <2>1. e \in fresh[b]
    BY <1>1, <1>3 DEF Tells
  <2>2. ASSUME NEW f \in events, f.key = e.key PROVE FALSE
    <3>1. e \in Rows /\ f \in Rows
      BY DEF Rows
    <3>2. e = f
      BY <2>2, <3>1 DEF Safe, Inductive, RowsUnique
    <3> QED BY <2>1, <3>2 DEF Safe, Inductive, RowsApart
  <2> QED BY <1>2, <1>3, <2>2, StoredKeys
<1>4. CASE ~results[b][i].created
  BY <1>1, <1>2, <1>4, StoredKeys DEF Tells
<1> QED BY <1>3, <1>4

\* The commit of a batch extends each stream with its new drafts, in the order
\* of the batch.
LEMMA CommitExtends ==
  ASSUME Safe, Safe', NEW b \in Batches, Stores(b), NEW s \in Streams
  PROVE  Log!Extends(b, s, StoredLog[s], StoredLog'[s])
<1> DEFINE old == streams[s].last_sequence
           new == streams'[s].last_sequence
           Created(i, n) == /\ results[b][i].created
                            /\ Drafts[b][i].stream = s /\ results[b][i].sequence = n
           source == [n \in old + 1 .. new |-> CHOOSE i \in DOMAIN Drafts[b] : Created(i, n)]
<1>1. Ready(b) /\ events' = events \cup fresh[b]
  BY DEF Stores
<1>2. old \in Nat /\ new \in Nat
  BY DEF Safe, TypeOK, StreamRow
<1>3. Chained(events, s, old, streams[s].last_event)
  BY DEF Safe, Inductive, CommittedChains
<1>4. Chained(events', s, new, streams'[s].last_event)
  BY DEF Safe, Inductive, CommittedChains
<1>5. \A e \in events' : e.sequence \in Nat \ {0}
  BY DEF Safe, TypeOK, Event
<1>6. DOMAIN results[b] = DOMAIN Drafts[b] /\ DOMAIN Drafts[b] \subseteq Nat
  BY <1>1, DraftsAssumption DEF Ready, Safe, TypeOK
<1>7. old <= new
  <2>1. CASE old = 0
    BY <1>2, <2>1
  <2>2. CASE old # 0
    <3>1. PICK e \in events : e.stream = s /\ e.sequence = old
      BY <1>2, <1>3, <2>2 DEF Chained
    <3> QED BY <1>1, <1>4, <3>1 DEF Chained
  <2> QED BY <2>1, <2>2
<1>8. \A e \in fresh[b] : e.stream = s => e.sequence \in old + 1 .. new
  <2> SUFFICES ASSUME NEW e \in fresh[b], e.stream = s PROVE e.sequence \in old + 1 .. new
    OBVIOUS
  <2>1. e \in events' /\ e.sequence <= new /\ e.sequence \in Nat \ {0}
    BY <1>1, <1>4, <1>5 DEF Chained
  <2>2. ASSUME e.sequence <= old PROVE FALSE
    <3>1. PICK f \in events : f.stream = s /\ f.sequence = e.sequence
      BY <1>2, <1>3, <2>1, <2>2 DEF Chained
    <3>2. e = f
      BY <1>1, <1>4, <2>1, <3>1 DEF Chained
    <3> QED BY <3>2 DEF Safe, Inductive, RowsApart
  <2> QED BY <1>2, <2>1, <2>2
<1> HIDE DEF old, new
\* Positions of the extension, new drafts and created results correspond.
<1>9. \A n \in old + 1 .. new : \E i \in DOMAIN Drafts[b] : Created(i, n)
  <2> SUFFICES ASSUME NEW n \in old + 1 .. new
               PROVE  \E i \in DOMAIN Drafts[b] : Created(i, n)
    OBVIOUS
  <2>1. PICK e \in events' : e.stream = s /\ e.sequence = n
    BY <1>2, <1>4 DEF Chained
  <2>2. e \in fresh[b]
    BY <1>1, <1>2, <1>3, <2>1 DEF Chained
  <2>3. PICK i \in DOMAIN results[b] :
          /\ results[b][i].created /\ results[b][i].sequence = e.sequence
          /\ RowOf(Drafts[b][i], e)
    BY <2>2 DEF Safe, Inductive, FreshMatches
  <2> QED BY <1>6, <2>1, <2>3 DEF RowOf, SameIdentity
<1>10. \A i \in DOMAIN Drafts[b] : i \in Log!New(b, s) <=> \E n \in old + 1 .. new : Created(i, n)
  <2> SUFFICES ASSUME NEW i \in DOMAIN Drafts[b]
               PROVE  i \in Log!New(b, s) <=> \E n \in old + 1 .. new : Created(i, n)
    OBVIOUS
  <2>1. i \in Log!New(b, s) <=> Drafts[b][i].stream = s /\ results[b][i].created
    BY <1>1, NewIsCreated DEF Log!New
  <2>2. ASSUME Drafts[b][i].stream = s, results[b][i].created
        PROVE  results[b][i].sequence \in old + 1 .. new
    <3>1. PICK e \in events \cup fresh[b] : Tells(b, i, e)
      BY <1>1, EveryDraft
    <3> QED BY <1>8, <2>2, <3>1 DEF Tells, SameIdentity
  <2> QED BY <2>1, <2>2
<1>11. \A i, j \in DOMAIN Drafts[b] : \A m, n \in old + 1 .. new :
         Created(i, m) /\ Created(j, n) => /\ i < j => m < n
                                           /\ m < n => i < j
                                           /\ m = n => i = j
  <2> SUFFICES ASSUME NEW i \in DOMAIN Drafts[b], NEW j \in DOMAIN Drafts[b],
                      NEW m \in old + 1 .. new, NEW n \in old + 1 .. new,
                      Created(i, m), Created(j, n)
               PROVE  (i < j => m < n) /\ (m < n => i < j) /\ (m = n => i = j)
    OBVIOUS
  <2>1. i < j => m < n
    BY <1>6 DEF Safe, Inductive, ResultsMatch
  <2>2. j < i => n < m
    BY <1>6 DEF Safe, Inductive, ResultsMatch
  <2> QED BY <1>2, <1>6, <2>1, <2>2
<1>12. \A n \in old + 1 .. new : source[n] \in DOMAIN Drafts[b] /\ Created(source[n], n)
  BY <1>9
<1>13. DOMAIN source = old + 1 .. new
  OBVIOUS
<1> HIDE DEF source
<1>14. source \in [old + 1 .. new -> Log!New(b, s)]
  <2>1. source = [n \in old + 1 .. new |-> source[n]]
    BY DEF source
  <2> QED BY <1>10, <1>12, <2>1
<1>15. \A i \in Log!New(b, s) : \E n \in DOMAIN source : source[n] = i
  <2> SUFFICES ASSUME NEW i \in Log!New(b, s) PROVE \E n \in DOMAIN source : source[n] = i
    OBVIOUS
  <2>1. i \in DOMAIN Drafts[b]
    BY DEF Log!New
  <2>2. PICK n \in old + 1 .. new : Created(i, n)
    BY <1>10, <2>1
  <2> QED BY <1>11, <1>12, <1>13, <2>1, <2>2
<1>16. \A m, n \in DOMAIN source : m < n => source[m] < source[n]
  BY <1>11, <1>12, <1>13
\* The log before and after.
<1>17. /\ DOMAIN StoredLog[s] = 1 .. old /\ Len(StoredLog[s]) = old
       /\ \A n \in 1 .. old :
            StoredLog[s][n] = [key |-> Entry(s, n).key, body |-> Entry(s, n).body]
  BY StoredLogRows DEF old, LogShape
<1>18. /\ Len(StoredLog'[s]) = new
       /\ StoredLog'[s] = [n \in 1 .. new |-> [key |-> Entry(s, n)'.key, body |-> Entry(s, n)'.body]]
  <2>1. Len(StoredLog'[s]) = new
    <3>1. LogShape'
      BY StoredLogRows, PTL
    <3> QED BY <3>1 DEF new, LogShape
  <2> QED BY <2>1 DEF StoredLog, new
<1>19. ASSUME NEW n \in 1 .. new
       PROVE  [key |-> Entry(s, n)'.key, body |-> Entry(s, n)'.body] =
                IF n <= old THEN StoredLog[s][n] ELSE Log!Row(Drafts[b][source[n]])
  <2>1. \A e \in events' : e.stream = s /\ e.sequence = n => Entry(s, n)' = e
    BY <1>4 DEF Chained, Entry, StreamEvents
  <2>2. CASE n <= old
    <3>1. Entry(s, n) \in events /\ Entry(s, n).stream = s /\ Entry(s, n).sequence = n
      BY <1>2, <2>2, EntryExists DEF old
    <3>2. Entry(s, n)' = Entry(s, n)
      BY <1>1, <2>1, <3>1
    <3> QED BY <1>2, <1>17, <2>2, <3>2
  <2>3. CASE ~(n <= old)
    <3>1. n \in old + 1 .. new
      BY <1>2, <2>3
    <3>2. PICK e \in events \cup fresh[b] : Tells(b, source[n], e)
      BY <1>1, <1>12, <3>1, EveryDraft
    <3>3. e.stream = s /\ e.sequence = n /\ e \in events'
      BY <1>1, <1>12, <3>1, <3>2 DEF Tells, SameIdentity
    <3>4. Entry(s, n)' = e
      BY <2>1, <3>3
    <3> QED BY <2>3, <3>2, <3>4 DEF Tells, SameIdentity, Log!Row
  <2> QED BY <2>2, <2>3
<1>20. StoredLog'[s] = [n \in 1 .. Len(StoredLog'[s]) |->
                          IF n <= Len(StoredLog[s]) THEN StoredLog[s][n]
                          ELSE Log!Row(Drafts[b][source[n]])]
  BY <1>17, <1>18, <1>19
<1> QED BY <1>7, <1>14, <1>15, <1>16, <1>17, <1>18, <1>20 DEF Log!Extends

\* Every step is the append of one whole batch or leaves the log alone: what
\* concurrent transactions do is what one after the other would do.
THEOREM LedgerImplementsLog == Spec => ImplementsLog
<1>1. ASSUME Init PROVE Log!Init
  <2>1. StoredLog = [s \in Streams |-> <<>>]
    BY <1>1 DEF Init, StoredLog
  <2> QED BY <2>1 DEF Log!Init
<1>2. ASSUME Safe, Safe', [Next]_vars PROVE [Log!Next]_StoredLog
  <2>1. ASSUME events' = events,
               \A s \in Streams : streams'[s].last_sequence = streams[s].last_sequence
        PROVE  StoredLog' = StoredLog
    BY <2>1 DEF StoredLog, Entry, StreamEvents
  <2>2. ASSUME NEW b \in Batches, Stores(b) PROVE Log!AppendBatch(b)
    <3>1. StoredLog' = [s \in Streams |-> StoredLog'[s]]
      BY DEF StoredLog
    <3>2. Log!Repeats(b)
      BY <1>2, <2>2, CommitRepeats DEF Stores
    <3>3. \A s \in Streams : Log!Extends(b, s, StoredLog[s], StoredLog'[s])
      BY <1>2, <2>2, CommitExtends
    <3> QED BY <3>1, <3>2, <3>3 DEF Log!AppendBatch
  <2> QED
    BY <1>2, <2>1, <2>2, RowCases
       DEF InsertEvent, RecoverExisting, Aborts, LockStream, Quiet, Safe, Log!Next
<1> QED BY <1>1, <1>2, AlwaysSafe, PTL DEF Spec, ImplementsLog, Log!Spec
=============================================================================
