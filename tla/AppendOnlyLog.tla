--------------------------- MODULE AppendOnlyLog ---------------------------
(***************************************************************************)
(* What the ledger promises: a log per stream that only grows, to which    *)
(* whole batches are appended one after the other, each event at most once *)
(* under its idempotency key.                                              *)
(***************************************************************************)
EXTENDS Sequences, Integers

CONSTANTS Streams,  \* the streams
          Batches,  \* the batches producers send, any number of times
          Drafts    \* Drafts[b]: the drafts of a batch, with key, stream and body

VARIABLE log        \* log[s]: what is stored in s, in order

Init == log = [s \in Streams |-> <<>>]

Row(d) == [key |-> d.key, body |-> d.body]

Stored(key) == \E s \in Streams : \E n \in DOMAIN log[s] : log[s][n].key = key

\* Every draft of b that reuses a key repeats what is stored under it.
Repeats(b) ==
  \A i \in DOMAIN Drafts[b] : \A s \in Streams : \A n \in DOMAIN log[s] :
    log[s][n].key = Drafts[b][i].key => s = Drafts[b][i].stream /\ log[s][n] = Row(Drafts[b][i])

\* The drafts of b for s that are not stored yet.
New(b, s) == {i \in DOMAIN Drafts[b] : Drafts[b][i].stream = s /\ ~Stored(Drafts[b][i].key)}

\* longer is old with the new drafts of b for s behind it, in the order of the
\* batch: source[n] is the draft at position n.
Extends(b, s, old, longer) ==
  /\ Len(old) <= Len(longer)
  /\ \E source \in [Len(old) + 1 .. Len(longer) -> New(b, s)] :
       /\ \A i \in New(b, s) : \E n \in DOMAIN source : source[n] = i
       /\ \A m, n \in DOMAIN source : m < n => source[m] < source[n]
       /\ longer = [n \in 1 .. Len(longer) |->
                      IF n <= Len(old) THEN old[n] ELSE Row(Drafts[b][source[n]])]

AppendBatch(b) ==
  /\ Repeats(b)
  /\ \A s \in Streams : Extends(b, s, log[s], log'[s])
  /\ log' = [s \in Streams |-> log'[s]]

Next == \E b \in Batches : AppendBatch(b)

Spec == Init /\ [][Next]_log

=============================================================================
