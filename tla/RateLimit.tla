------------------------------- MODULE RateLimit -------------------------------
(***************************************************************************)
(* The per-principal token bucket (mcp/auth.py, TokenBucketLimiter): full  *)
(* buckets are evicted by a sweep, and at the cap the least recently used  *)
(* one is dropped.  Tokens are counted in fractions, One of them a whole   *)
(* token, so that the refill of one time unit may be less than a token.    *)
(***************************************************************************)
EXTENDS Naturals, FiniteSets

CONSTANTS Principals, One, Rate, Burst, MaxBuckets, MaxTime

RateAssumption == {One, Rate, Burst, MaxBuckets} \subseteq Nat \ {0} /\ MaxTime \in Nat

Full == Burst * One

VARIABLES now,
          buckets,    \* owner -> [tokens, updated], of the principals that have one
          older,      \* pairs <<p, q>>: in the order of the dict, p comes before q
          lastSweep,
          exact,      \* the bucket no eviction ever touched, per principal
          dropped,    \* principals whose bucket was dropped at the cap
          hint        \* owner -> when its last refusal said to come back, or 0

vars == <<now, buckets, older, lastSweep, exact, dropped, hint>>

Init == /\ now = 0 /\ buckets = [p \in {} |-> 0] /\ older = {} /\ lastSweep = 0
        /\ exact = [p \in Principals |-> [tokens |-> Full, updated |-> 0]]
        /\ dropped = {} /\ hint = [p \in Principals |-> 0]

Owners == DOMAIN buckets

(* The tokens of a bucket now.                                             *)
Refilled(b) == LET n == b.tokens + (now - b.updated) * Rate
               IN  IF n <= Full THEN n ELSE Full

BucketOf(owners, p) == IF p \in owners THEN buckets[p] ELSE [tokens |-> Full, updated |-> now]

(* ceil(burst / rate): when every idle bucket is full again.               *)
Horizon == (Full + Rate - 1) \div Rate

SweepDue(p) == \/ now - lastSweep >= Horizon
               \/ Cardinality(Owners) >= MaxBuckets /\ p \notin Owners

Mut_SweptFull == {p \in Owners : Refilled(buckets[p]) + One < Full}

(* _sweep: a full bucket is as good as a new one.                          *)
SweptFull == {p \in Owners : Refilled(buckets[p]) < Full}

(* ... and at the cap the least recently used ones go, until fewer than    *)
(* MaxBuckets are left.                                                    *)
Capped(S) == {p \in S : Cardinality({q \in S : <<p, q>> \in older}) + 1 < MaxBuckets}

(* max(1, ceil((1 - tokens) / rate))                                       *)
RetryAfter(tokens) == LET n == (One - tokens + Rate - 1) \div Rate
                      IN  IF n < 1 THEN 1 ELSE n

Take(b) == [tokens |-> IF Refilled(b) < One THEN Refilled(b) ELSE Refilled(b) - One, updated |-> now]

(* Who still has a bucket when p's is looked up.                           *)
Kept(p) == IF SweepDue(p) THEN Capped(SweptFull) ELSE Owners

(* The bucket of p is taken out and put back at the end of the dict.       *)
Acquire(p) ==
  LET mine == BucketOf(Kept(p), p)
      others == Kept(p) \ {p}
  IN  /\ buckets' = [q \in others \cup {p} |-> IF q = p THEN Take(mine) ELSE buckets[q]]
      /\ older' = (older \cap (others \X others)) \cup (others \X {p})
      /\ lastSweep' = IF SweepDue(p) THEN now ELSE lastSweep
      /\ dropped' = dropped \cup (IF SweepDue(p) THEN SweptFull \ Kept(p) ELSE {})
      /\ exact' = [exact EXCEPT ![p] = Take(@)]
      /\ hint' = [hint EXCEPT ![p] = IF Refilled(mine) < One THEN now + RetryAfter(Refilled(mine)) ELSE 0]
      /\ UNCHANGED now

Tick == /\ now < MaxTime /\ now' = now + 1
        /\ UNCHANGED <<buckets, older, lastSweep, exact, dropped, hint>>

Next == (\E p \in Principals : Acquire(p)) \/ Tick

Spec == Init /\ [][Next]_vars

-----------------------------------------------------------------------------
(* Evicting full buckets changes nothing: a principal whose bucket was     *)
(* never dropped at the cap has exactly the tokens of a bucket kept        *)
(* forever.                                                                *)
SweepIsInvisible ==
  \A p \in Principals \ dropped : Refilled(BucketOf(Owners, p)) = Refilled(exact[p])

(* Memory is bounded.                                                      *)
BucketsBounded == Cardinality(Owners) <= MaxBuckets

(* A refused principal that waits as long as it was told is let through.   *)
RetryHintTrue ==
  \A p \in Principals : hint[p] # 0 /\ now >= hint[p] => Refilled(BucketOf(Owners, p)) >= One

RateSound == SweepIsInvisible /\ BucketsBounded /\ RetryHintTrue
=============================================================================
