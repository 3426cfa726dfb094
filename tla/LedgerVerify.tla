----------------------------- MODULE LedgerVerify -----------------------------
(***************************************************************************)
(* ledger verify (ledger/verify.py): one read-only snapshot of the ledger  *)
(* is walked stream by stream, in batches, while producers keep appending, *)
(* and every sealed field, link and stream head is recomputed.  Before the *)
(* walk, somebody edits the stored rows (a bad restore, a hand edit).  A   *)
(* digest is modelled as the tuple it was computed from, so two digests    *)
(* are equal exactly when they cover the same envelope.                    *)
(***************************************************************************)
EXTENDS Naturals, FiniteSets, FiniteSetsExt

CONSTANTS Streams,      \* numbers, in the order of their IDs
          Payloads, NoDigest,
          MaxEvents,    \* events per stream
          MaxEdits,     \* edits of the stored rows
          PageSize,     \* STREAM_PAGE_SIZE
          BatchSizes, Sinces, Requests   \* the arguments of a verification

VerifyAssumption ==
  /\ Streams \subseteq Nat \ {0} /\ IsFiniteSet(Streams) /\ PageSize \in Nat \ {0}
  /\ BatchSizes \subseteq Nat \ {0} /\ Sinces \subseteq Nat \ {0} /\ Requests \subseteq SUBSET Streams

VARIABLES rows,      \* ledger.events: stream -> sequence -> row
          heads,     \* ledger.event_streams: stream -> head, where present
          edits,     \* edits made so far
          run        \* the verification and its REPEATABLE READ snapshot

vars == <<rows, heads, edits, run>>

Empty == [x \in {} |-> x]
NoHead == [seq |-> 0, sha |-> NoDigest]
Digest(s, seq, payload, payloadSha, prev) == <<s, seq, payload, payloadSha, prev>>

(* What seal_event writes: the columns of one row.                         *)
Seal(s, seq, payload, prev) ==
  [payload |-> payload, producer |-> "own", canonical |-> TRUE,
   payloadSha |-> payload, prev |-> prev,
   sha |-> Digest(s, seq, payload, payload, prev)]

Off == [pc |-> "off"]

Init == /\ rows = [s \in Streams |-> Empty] /\ heads = Empty
        /\ edits = 0 /\ run = Off

Put(f, k, x) == [y \in DOMAIN f \cup {k} |-> IF y = k THEN x ELSE f[y]]
Drop(f, k) == [y \in DOMAIN f \ {k} |-> f[y]]

-----------------------------------------------------------------------------
(* The ledger appends a sealed event and moves its stream's head.          *)
Append(s, payload) ==
  LET head == IF s \in DOMAIN heads THEN heads[s] ELSE NoHead
      seq == head.seq + 1
  IN /\ Cardinality(DOMAIN rows[s]) < MaxEvents /\ edits = 0
     /\ rows' = [rows EXCEPT ![s] = Put(@, seq, Seal(s, seq, payload, head.sha))]
     /\ heads' = Put(heads, s, [seq |-> seq, sha |-> rows'[s][seq].sha])
     /\ UNCHANGED <<edits, run>>

(* A stored row or head is edited, dropped or renumbered outside the       *)
(* ledger.  The forged values include a digest that fits the new row.      *)
Edited(s, q) ==
  LET r == rows[s][q] IN
    {[r EXCEPT !.payload = x] : x \in Payloads}
      \cup {[r EXCEPT !.payload = x, !.payloadSha = x] : x \in Payloads}
      \cup {Seal(s, q, x, r.prev) : x \in Payloads}
      \cup {[r EXCEPT !.producer = "other"], [r EXCEPT !.canonical = FALSE],
            [r EXCEPT !.prev = NoDigest]}

Edit(s) ==
  /\ run.pc = "off" /\ edits < MaxEdits
  /\ edits' = edits + 1
  /\ \/ \E q \in DOMAIN rows[s] : \E r \in Edited(s, q) :
          rows' = [rows EXCEPT ![s][q] = r] /\ UNCHANGED heads
     \/ \E q \in DOMAIN rows[s] :
          rows' = [rows EXCEPT ![s] = Drop(@, q)] /\ UNCHANGED heads
     \/ /\ s \in DOMAIN heads
        /\ \/ heads' = Drop(heads, s)
           \/ heads' = [heads EXCEPT ![s].seq = @ - 1] /\ heads[s].seq > 0
           \/ \E q \in DOMAIN rows[s] : heads' = [heads EXCEPT ![s].sha = rows[s][q].sha]
        /\ UNCHANGED rows
  /\ UNCHANGED run

(* verify_ledger opens its snapshot.                                       *)
Begin(batch, since, requested) ==
  /\ run.pc = "off"
  /\ run' = [pc |-> "streams", rows |-> rows, heads |-> heads, edited |-> edits > 0,
             batch |-> batch, since |-> since, requested |-> requested,
             after |-> 0, page |-> requested, walk |-> Empty,
             results |-> Empty, failure |-> "none"]
  /\ UNCHANGED <<rows, heads, edits>>

-----------------------------------------------------------------------------
First(set, n) == {x \in set : Cardinality({y \in set : y < x}) < n}

(* _stream_ids: one keyset page of the streams with a head or with events. *)
StreamIds(after) ==
  LET hs == First({s \in DOMAIN run.heads : s > after}, PageSize)
      es == First({s \in Streams : s > after /\ DOMAIN run.rows[s] # {}}, PageSize)
  IN First(hs \cup es, PageSize)

Ok == run.failure = "none" /\ \A s \in DOMAIN run.results : run.results[s].failure = "none"
InScope == UNION {{s} \X {q \in DOMAIN run.rows[s] : q >= run.since} :
                    s \in {t \in Streams : run.requested = {} \/ t \in run.requested}}

(* _verify_stream up to the walk: a stream with no head has failed; a      *)
(* range that starts after a missing event has failed; else its first      *)
(* batch is next.                                                          *)
Result(failure, events) == [failure |-> failure, events |-> events]

Enter(s) ==
  LET stored == DOMAIN run.rows[s]
      before == IF run.since > 1 /\ run.since - 1 \in stored
                THEN run.rows[s][run.since - 1].sha ELSE NoDigest
      hole == /\ run.since > 1 /\ run.since - 1 \notin stored
              /\ \E q \in stored : q >= run.since
      failed(f) == [run EXCEPT !.results = Put(@, s, Result(f, {})), !.page = @ \ {s}]
  IN CASE s \notin DOMAIN run.heads /\ stored = {} -> failed("stream_exists")
       [] s \notin DOMAIN run.heads /\ stored # {} -> failed("stream_head_missing")
       [] s \in DOMAIN run.heads /\ hole -> failed("sequence")
       [] OTHER -> [run EXCEPT !.pc = "walk",
                      !.walk = [stream |-> s, expected |-> run.since, prev |-> before,
                                last |-> 0, events |-> {}]]

(* The loop of verify_ledger: the next stream, the next page, the end.     *)
NextStream ==
  /\ run.pc = "streams"
  /\ run' = IF run.page # {} THEN Enter(Min(run.page))
            ELSE LET page == StreamIds(run.after) IN
                 IF run.requested = {} /\ page # {}
                 THEN [run EXCEPT !.page = page, !.after = Max(page)]
                 ELSE [run EXCEPT !.pc = "count"]
  /\ UNCHANGED <<rows, heads, edits>>

(* _stored_columns_are_canonical, and the columns decode at all.           *)
Canonical(s, q) == run.rows[s][q].canonical

Mut_CheckEvent(s, q, expected, prev) ==
  LET r == run.rows[s][q] IN
  CASE q # expected -> "sequence"
    [] r.prev # prev -> "previous_event_sha256"
    [] ~Canonical(s, q) -> "event_decode"
    [] r.producer # "own" -> "producer_id"
    [] r.payload # r.payloadSha -> "payload_sha256"
    [] OTHER -> "none"

(* _check_event: the first check row q of stream s fails.                  *)
CheckEvent(s, q, expected, prev) ==
  LET r == run.rows[s][q] IN
  CASE q # expected -> "sequence"
    [] r.prev # prev -> "previous_event_sha256"
    [] ~Canonical(s, q) -> "event_decode"
    [] r.producer # "own" -> "producer_id"
    [] r.payload # r.payloadSha -> "payload_sha256"
    [] Digest(s, q, r.payload, r.payloadSha, r.prev) # r.sha -> "event_sha256"
    [] OTHER -> "none"

(* _check_head: the head names the stream's last event, or none.           *)
CheckHead(s, last) ==
  LET head == run.heads[s] IN
  IF last = 0 THEN IF head = NoHead THEN "none" ELSE "stream_head"
  ELSE IF head = [seq |-> last, sha |-> run.rows[s][last].sha] THEN "none"
       ELSE "stream_head"

(* Nothing in range: the head must still name the stream's last event.     *)
LastOf(s) == IF run.since > 1 /\ DOMAIN run.rows[s] # {} THEN Max(DOMAIN run.rows[s]) ELSE 0

EndWalk(s, failure, events) ==
  run' = [run EXCEPT !.pc = "streams", !.page = @ \ {s},
                     !.results = Put(@, s, Result(failure, events)), !.walk = Empty]

(* One server-side batch of _walk.  Rows come in sequence order, so a row  *)
(* is checked against the row before it, of the previous batch or of this. *)
From == IF run.walk.last = 0 THEN run.since ELSE run.walk.last + 1
Batch == First({q \in DOMAIN run.rows[run.walk.stream] : q >= From}, run.batch)
Before(q) == {p \in Batch : p < q}

Fails(q) ==
  LET s == run.walk.stream
      last == Max(Before(q))
  IN IF Before(q) = {} THEN CheckEvent(s, q, run.walk.expected, run.walk.prev)
     ELSE CheckEvent(s, q, last + 1, run.rows[s][last].sha)

Failing == {q \in Batch : Fails(q) # "none"}

WalkBatch ==
  /\ run.pc = "walk"
  /\ LET w == run.walk
         s == w.stream
     IN \/ /\ Batch = {}
           /\ EndWalk(s, CheckHead(s, IF w.last = 0 THEN LastOf(s) ELSE w.last), w.events)
        \/ /\ Failing # {}
           /\ EndWalk(s, Fails(Min(Failing)), w.events \cup Before(Min(Failing)))
        \/ /\ Batch # {} /\ Failing = {}
           /\ run' = [run EXCEPT !.walk =
                        [stream |-> s, expected |-> Max(Batch) + 1,
                         prev |-> run.rows[s][Max(Batch)].sha, last |-> Max(Batch),
                         events |-> w.events \cup Batch]]
  /\ UNCHANGED <<rows, heads, edits>>

(* _check_count: once every stream verified, no event sits outside.        *)
Walked == UNION {{s} \X run.results[s].events : s \in DOMAIN run.results}

CheckCount ==
  /\ run.pc = "count"
  /\ run' = [run EXCEPT !.pc = "done",
               !.failure = IF Ok /\ Cardinality(Walked) # Cardinality(InScope)
                           THEN "event_count" ELSE @]
  /\ UNCHANGED <<rows, heads, edits>>

Next == \/ \E s \in Streams : (\E p \in Payloads : Append(s, p)) \/ Edit(s)
        \/ \E b \in BatchSizes, since \in Sinces, r \in Requests : Begin(b, since, r)
        \/ NextStream \/ WalkBatch \/ CheckCount

Spec == Init /\ [][Next]_vars /\ WF_vars(NextStream \/ WalkBatch \/ CheckCount)

-----------------------------------------------------------------------------
Done == run.pc = "done"
Scope == IF run.requested = {} THEN Streams ELSE run.requested

(* A stream whose rows from since on are what sealing leaves: contiguous,  *)
(* linked, recomputable, and named by its head.                            *)
WellSealed(s) ==
  LET stored == DOMAIN run.rows[s] IN
  /\ stored # {} \/ s \in DOMAIN run.heads =>
       /\ s \in DOMAIN run.heads
       /\ run.heads[s] = IF stored = {} THEN NoHead
                         ELSE [seq |-> Max(stored), sha |-> run.rows[s][Max(stored)].sha]
  /\ \A q \in {x \in stored : x >= run.since} :
       /\ q = 1 \/ q - 1 \in stored
       /\ run.rows[s][q] = Seal(s, q, run.rows[s][q].payload,
                                IF q = 1 THEN NoDigest ELSE run.rows[s][q - 1].sha)

(* A verification that reports ok saw streams exactly as sealing leaves    *)
(* them, whatever was edited, dropped or deleted, and at every batch and   *)
(* page size: no row, link, head or stray event escapes the walk.          *)
OkMeansSealed == (Done /\ Ok) => \A s \in Scope : WellSealed(s)

(* A ledger nobody edited is never reported broken, for every range, also  *)
(* while producers append beside the walk; only a requested stream that    *)
(* does not exist fails.                                                   *)
NoFalseAlarm ==
  (Done /\ ~run.edited) =>
    \/ Ok
    \/ \E s \in run.requested : run.results[s].failure = "stream_exists"

(* Every verification ends with a verdict.                                 *)
Started == run.pc # "off"
VerifyEnds == Started ~> Done

(* What a verification promises.                                           *)
VerifySound == OkMeansSealed /\ NoFalseAlarm
=============================================================================
