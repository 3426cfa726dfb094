------------------------------- MODULE McpAccess -------------------------------
(***************************************************************************)
(* Authentication of MCP requests (mcp/auth.py, mcp/protocol_guard.py) and  *)
(* the Argon2 admission it shares in kind with ingestion                    *)
(* (security/bearer.py, ledger/auth.py): a short-lived cache of verified    *)
(* principals in front of an admission of bounded slots and waiting places, *)
(* a lookup, and a hash in a worker thread that a cancelled request cannot  *)
(* stop.  Tokens are revoked and expire meanwhile, and every admitted       *)
(* request is audited.                                                     *)
(***************************************************************************)
EXTENDS Naturals, FiniteSets, FiniteSetsExt

CONSTANTS Requests, TokenOf, Tokens,
          Cached,        \* whether this plane has a principal cache (MCP) or none (ingestion)
          Unknown,       \* a bearer no row matches
          Scoped,        \* tokens that carry the scope the plane demands
          ExpiresAt, Never,
          Ttl, MaxEntries, MaxConcurrency, MaxQueueDepth,
          MaxTime, MaxCancels, MaxFailures

AccessAssumption ==
  /\ IsFiniteSet(Requests) /\ IsFiniteSet(Tokens) /\ Unknown \notin Tokens
  /\ ExpiresAt \in [Tokens -> Nat] /\ Scoped \subseteq Tokens /\ Cached \in BOOLEAN
  /\ Ttl \in Nat /\ MaxEntries \in Nat \ {0} /\ MaxConcurrency \in Nat \ {0} /\ MaxQueueDepth \in Nat
  /\ MaxTime \in Nat /\ Never \in Nat /\ MaxTime < Never

VARIABLES now, revokedAt,
          cache,     \* token -> [deadline, order], the order of insertion
          pc,        \* where each request is
          row,       \* the revocation time its lookup read
          readAt,    \* when it read it
          servedAt,  \* when a request was let through, or Never
          pending, slots,   \* of the Argon2Verifier
          threads,   \* hashes that run
          audits,    \* audit lines of each request
          cancels, failures

vars == <<now, revokedAt, cache, pc, row, readAt, servedAt, pending, slots, threads,
          audits, cancels, failures>>

gate == <<pending, slots>>
tokens == <<now, revokedAt>>
budget == <<cancels, failures>>

T(r) == TokenOf[r]
Capacity == MaxConcurrency + MaxQueueDepth

Init == /\ now = 0 /\ revokedAt = [t \in Tokens |-> Never]
        /\ cache = [t \in {} |-> 0]
        /\ pc = [r \in Requests |-> "new"]
        /\ row = [r \in Requests |-> Never] /\ readAt = [r \in Requests |-> Never]
        /\ servedAt = [r \in Requests |-> Never]
        /\ pending = 0 /\ slots = MaxConcurrency /\ threads = {}
        /\ audits = [r \in Requests |-> 0]
        /\ cancels = 0 /\ failures = 0

Goto(r, place) == pc' = [pc EXCEPT ![r] = place]
Record(r) == audits' = [audits EXCEPT ![r] = @ + 1]
Reject(r) == Goto(r, "rejected") /\ Record(r)

-----------------------------------------------------------------------------
(* The principal cache, a dict in insertion order.                         *)

Mut_Live(t) == now < cache[t].deadline

(* get: neither past its deadline nor past the token's expiry.             *)
Live(t) == now < cache[t].deadline /\ now < ExpiresAt[t]

Entries == DOMAIN cache
Hit(t) == t \in Entries /\ Live(t)
Drop(t) == [u \in Entries \ {t} |-> cache[u]]

(* put's room: expired entries first, then the oldest insertion.           *)
Oldest(S) == CHOOSE t \in S : \A u \in S : cache[t].order <= cache[u].order
Room == IF Cardinality(Entries) < MaxEntries THEN Entries
        ELSE LET alive == {t \in Entries : Live(t)}
             IN  IF Cardinality(alive) >= MaxEntries THEN alive \ {Oldest(alive)} ELSE alive

Newest(S) == Max({0} \cup {cache[t].order : t \in S}) + 1

Put(t) ==
  CASE now >= ExpiresAt[t] -> cache
    [] now < ExpiresAt[t] /\ t \in Entries -> [cache EXCEPT ![t].deadline = now + Ttl]
    [] OTHER -> [u \in Room \cup {t} |->
                   IF u = t THEN [deadline |-> now + Ttl, order |-> Newest(Room)] ELSE cache[u]]

-----------------------------------------------------------------------------
(* admit: credentials, then the cache, then the admission.                 *)

(* A missing, repeated or malformed credential, or a plane not yet bound.  *)
Refuse(r) == /\ pc[r] = "new" /\ T(r) \notin Tokens \cup {Unknown}
             /\ Reject(r)
             /\ UNCHANGED <<tokens, cache, row, readAt, servedAt, gate, threads, budget>>

(* The scope decides; the limiter that is asked next, and may answer 429,  *)
(* is RateLimit.                                                           *)
Authorised(r) == IF T(r) \in Scoped
                 THEN Goto(r, "served") /\ servedAt' = [servedAt EXCEPT ![r] = now] /\ UNCHANGED audits
                 ELSE Reject(r) /\ UNCHANGED servedAt

UseCache(r) == /\ pc[r] = "new" /\ Cached /\ Hit(T(r))
               /\ Authorised(r)
               /\ UNCHANGED <<tokens, cache, row, readAt, gate, threads, budget>>

(* A stale entry is deleted by the read that finds it.                     *)
Overloaded(r) == /\ pc[r] = "new" /\ T(r) \in Tokens \cup {Unknown} /\ ~(Cached /\ Hit(T(r)))
                 /\ pending >= Capacity
                 /\ cache' = Drop(T(r))
                 /\ Reject(r)
                 /\ UNCHANGED <<tokens, row, readAt, servedAt, gate, threads, budget>>

Enter(r) == /\ pc[r] = "new" /\ T(r) \in Tokens \cup {Unknown} /\ ~(Cached /\ Hit(T(r)))
            /\ pending < Capacity
            /\ cache' = Drop(T(r))
            /\ pending' = pending + 1
            /\ Goto(r, "waiting")
            /\ UNCHANGED <<tokens, row, readAt, servedAt, slots, threads, audits, budget>>

TakeSlot(r) == /\ pc[r] = "waiting" /\ slots > 0
               /\ slots' = slots - 1
               /\ Goto(r, "lookup")
               /\ UNCHANGED <<tokens, cache, row, readAt, servedAt, pending, threads, audits, budget>>

(* The row is read in a session of its own, closed before the hash.        *)
Lookup(r) == /\ pc[r] = "lookup"
             /\ row' = [row EXCEPT ![r] = IF T(r) = Unknown THEN Never ELSE revokedAt[T(r)]]
             /\ readAt' = [readAt EXCEPT ![r] = now]
             /\ threads' = threads \cup {r}
             /\ Goto(r, "hashing")
             /\ UNCHANGED <<tokens, cache, servedAt, gate, audits, budget>>

(* The admission's exit, on every path.                                    *)
Leave(held) == /\ pending' = pending - 1
               /\ slots' = IF held THEN slots + 1 ELSE slots

LookupFails(r) == /\ pc[r] = "lookup" /\ failures < MaxFailures
                  /\ failures' = failures + 1
                  /\ Leave(TRUE) /\ Reject(r)
                  /\ UNCHANGED <<tokens, cache, row, readAt, servedAt, threads, cancels>>

(* The secret matched, and the row read was neither revoked nor expired.   *)
Valid(r) == /\ T(r) # Unknown
            /\ row[r] = Never \/ row[r] > now
            /\ now < ExpiresAt[T(r)]

(* The hash is done: the slot is returned, then the row decides.           *)
Decide(r) == /\ pc[r] = "hashing"
             /\ threads' = threads \ {r}
             /\ Leave(TRUE)
             /\ IF Valid(r)
                THEN Authorised(r) /\ cache' = IF Cached THEN Put(T(r)) ELSE cache
                ELSE Reject(r) /\ UNCHANGED <<servedAt, cache>>
             /\ UNCHANGED <<tokens, row, readAt, budget>>

(* The client goes away while its request waits, looks up or hashes: the   *)
(* admission is left at once and a started hash runs on.                   *)
Cancel(r) == /\ pc[r] \in {"waiting", "lookup", "hashing"} /\ cancels < MaxCancels
             /\ cancels' = cancels + 1
             /\ Leave(pc[r] # "waiting")
             /\ Goto(r, "gone")
             /\ UNCHANGED <<tokens, cache, row, readAt, servedAt, threads, audits, failures>>

AbandonedHashEnds(r) == /\ pc[r] = "gone" /\ r \in threads
                        /\ threads' = threads \ {r}
                        /\ UNCHANGED <<tokens, cache, pc, row, readAt, servedAt, gate, audits, budget>>

-----------------------------------------------------------------------------
(* After admission: the guard's checks and the application.                *)

(* The first record wins.                                                  *)
RecordOnce(r) == IF audits[r] = 0 THEN Record(r) ELSE UNCHANGED audits

(* A response starts: 405, 413, a version refusal, or the application's.   *)
Respond(r) == /\ pc[r] = "served"
              /\ RecordOnce(r) /\ Goto(r, "responding")
              /\ UNCHANGED <<tokens, cache, row, readAt, servedAt, gate, threads, budget>>

(* The request ends after its response, or without one: the client left,   *)
(* or the application raised.                                              *)
Finish(r) == /\ pc[r] \in {"served", "responding"}
             /\ RecordOnce(r) /\ Goto(r, "finished")
             /\ UNCHANGED <<tokens, cache, row, readAt, servedAt, gate, threads, budget>>

Revoke(t) == /\ revokedAt[t] = Never
             /\ revokedAt' = [revokedAt EXCEPT ![t] = now]
             /\ UNCHANGED <<now, cache, pc, row, readAt, servedAt, gate, threads, audits, budget>>

Tick == /\ now < MaxTime /\ now' = now + 1
        /\ UNCHANGED <<revokedAt, cache, pc, row, readAt, servedAt, gate, threads, audits, budget>>

Next == \/ \E r \in Requests : \/ Refuse(r) \/ UseCache(r) \/ Overloaded(r) \/ Enter(r)
                               \/ TakeSlot(r) \/ Lookup(r) \/ LookupFails(r) \/ Decide(r)
                               \/ Cancel(r) \/ AbandonedHashEnds(r) \/ Respond(r) \/ Finish(r)
        \/ \E t \in Tokens : Revoke(t)
        \/ Tick

Spec == Init /\ [][Next]_vars

(* The event loop runs what is ready, threads end, and a Semaphore wakes   *)
(* its waiters in order.                                                   *)
FairSpec == /\ Spec
            /\ \A r \in Requests : /\ WF_vars(Lookup(r) \/ LookupFails(r)) /\ WF_vars(Decide(r))
                                   /\ SF_vars(TakeSlot(r))

-----------------------------------------------------------------------------
Inside == {r \in Requests : pc[r] \in {"waiting", "lookup", "hashing"}}
Holding == {r \in Requests : pc[r] \in {"lookup", "hashing"}}

(* No request is let through with a token past its expiry, from the cache  *)
(* or from a row read before.                                              *)
NeverExpired ==
  \A r \in Requests : servedAt[r] # Never => servedAt[r] < ExpiresAt[T(r)]

(* A revoked token works only within Ttl of a full authentication whose    *)
(* lookup came before the revocation: cache hits never prolong each other. *)
RevocationBound ==
  \A r \in Requests : servedAt[r] # Never /\ revokedAt[T(r)] # Never /\ servedAt[r] >= revokedAt[T(r)] =>
    \E q \in Requests : /\ T(q) = T(r) /\ readAt[q] # Never /\ servedAt[q] # Never
                        /\ readAt[q] <= revokedAt[T(r)]
                        /\ servedAt[r] <= servedAt[q] + Ttl

(* The cache keeps at most its bound of entries.                           *)
CacheBounded == Cardinality(Entries) <= MaxEntries

(* A cancelled, failed or refused authentication returns what it took, and *)
(* only that: the counters equal the requests inside.                      *)
AdmissionBalanced == /\ pending = Cardinality(Inside)
                     /\ slots = MaxConcurrency - Cardinality(Holding)

(* Every answered or finished request has exactly one audit line.          *)
AuditedOnce == \A r \in Requests :
                 /\ audits[r] <= 1
                 /\ pc[r] \in {"rejected", "finished"} => audits[r] = 1

(* Who gets in, for how long, and what a check of a token may cost: all of *)
(* the above, for every request of a behaviour (auth.py, bearer.py).       *)
AccessSound ==
  NeverExpired /\ RevocationBound /\ CacheBounded /\ AdmissionBalanced /\ AuditedOnce

(* An admitted authentication ends: no slot is lost.                       *)
Waits(r) == pc[r] = "waiting"
Checked(r) == pc[r] \notin {"waiting", "lookup", "hashing"}
AdmittedEnds == \A r \in Requests : Waits(r) ~> Checked(r)

(* At most max_concurrency hashes run.                                     *)
HashThreadsBounded == Cardinality(threads) <= MaxConcurrency

(* A revoked token keeps working for at most the cache's TTL.              *)
RevokedWithinTtl ==
  \A r \in Requests : servedAt[r] # Never /\ revokedAt[T(r)] # Never =>
    servedAt[r] <= revokedAt[T(r)] + Ttl
=============================================================================
