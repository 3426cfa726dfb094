---------------------------- MODULE ContextPages ----------------------------
(***************************************************************************)
(* A client pages through the answer of a memory tool while the projection *)
(* moves (retrieval/composer.py, freshness.py, cursor.py, evidence.py).    *)
(* Every page is a request of its own: the freshness statements, the reads *)
(* of the graph and of the temporal facts, the loads of cited events and   *)
(* excerpts are separate reads, and outbox rows are committed, claimed,    *)
(* projected, delivered and buried between them.  Row r's event is the     *)
(* evidence of item r and ends the facts Closes[r]; ranks are a fixed      *)
(* order, texts are their sizes, HMAC signatures hold.                     *)
(***************************************************************************)
EXTENDS Integers, Sequences, FiniteSets, FiniteSetsExt, SequencesExt

CONSTANTS Rows,                 \* outbox ids
          Temporal,             \* the rows of knowledge and quality events
          Closes,               \* row -> items whose fact its event ends
          Observed, Recorded,   \* row -> the producer's and the ledger's time
          Order,                \* the items by rank
          Quoted, Bare,         \* item -> bytes with and without its excerpt
          MaxItems, MaxBytes, MaxCandidates, Window, RecentEvents,
          Lifetime, MaxClock, MaxRequests,
          Done, Late,           \* rows delivered, and not yet committed, at first
          None

VARIABLES outbox,      \* row -> absent, pending, leased, delivered or dead
          touched,     \* rows claimed at least once
          graph,       \* rows whose event is projected
          checkpoint,  \* last_outbox_id of the tool's projectors
          purged,      \* items whose content was purged
          clock,
          cursor,      \* the cursor the client holds
          req,         \* the request in progress
          pages,       \* the pages of the answer so far
          asked        \* requests made

vars == <<outbox, touched, graph, checkpoint, purged, clock, cursor, req, pages, asked>>

world == <<outbox, touched, graph, checkpoint, purged, clock>>

Idle == [pc |-> "idle"]

Init == /\ outbox = [r \in Rows |-> IF r \in Late THEN "absent"
                                   ELSE IF r \in Done THEN "delivered" ELSE "pending"]
        /\ touched = Done /\ graph = Done /\ checkpoint = Max(Done \cup {0})
        /\ purged = {} /\ clock = 0
        /\ cursor = None /\ req = Idle /\ pages = <<>> /\ asked = 0

-----------------------------------------------------------------------------
(* The projection, as the runtime leaves it to a reader.                   *)
Client == UNCHANGED <<cursor, req, pages, asked>>
Row(r, from, to) == outbox[r] = from /\ outbox' = [outbox EXCEPT ![r] = to]

Commit(r) == Row(r, "absent", "pending") /\ UNCHANGED <<touched, graph, checkpoint, purged, clock>>
Claim(r) == /\ Row(r, "pending", "leased") /\ touched' = touched \cup {r}
            /\ UNCHANGED <<graph, checkpoint, purged, clock>>
Release(r) == Row(r, "leased", "pending") /\ UNCHANGED <<touched, graph, checkpoint, purged, clock>>
Project(r) == /\ outbox[r] = "leased" /\ r \notin graph /\ graph' = graph \cup {r}
              /\ UNCHANGED <<outbox, touched, checkpoint, purged, clock>>
Deliver(r) == /\ r \in graph /\ Row(r, "leased", "delivered")
              /\ checkpoint' = IF r > checkpoint THEN r ELSE checkpoint
              /\ UNCHANGED <<touched, graph, purged, clock>>
Bury(r) == Row(r, "leased", "dead") /\ UNCHANGED <<touched, graph, checkpoint, purged, clock>>
Purge(r) == /\ r \notin purged /\ Quoted[r] > Bare[r] /\ purged' = purged \cup {r}
            /\ UNCHANGED <<outbox, touched, graph, checkpoint, clock>>
Tick == clock < MaxClock /\ clock' = clock + 1 /\ UNCHANGED <<outbox, touched, graph, checkpoint, purged>>

World == /\ \/ \E r \in Rows : Commit(r) \/ Claim(r) \/ Release(r) \/ Project(r) \/ Deliver(r) \/ Bury(r) \/ Purge(r)
            \/ Tick
         /\ Client

-----------------------------------------------------------------------------
(* _answer: the instant of the request is taken before anything is read.   *)
At(pc) == req.pc = pc
Client1 == UNCHANGED <<cursor, pages, asked>>

(* A request without a cursor starts an answer; one with it continues it;  *)
(* mine is whether tool, query and principal are the ones of the cursor.   *)
Begin ==
  /\ At("idle") /\ asked < MaxRequests /\ asked' = asked + 1
  /\ \E from \in {None, cursor}, mine \in BOOLEAN :
       /\ from = None => mine
       /\ req' = [pc |-> "waiting", from |-> from, mine |-> mine, now |-> clock, gone |-> purged]
       /\ pages' = IF from = None THEN <<>> ELSE pages
       /\ cursor' = from
  /\ UNCHANGED world

Waiting == {r \in Rows : outbox[r] \in {"pending", "leased"}}
Delivered == {r \in Rows : outbox[r] = "delivered"}

(* FreshnessReader.read: one transaction, but every statement sees what is *)
(* committed when it starts.                                               *)
ReadWaiting ==
  /\ At("waiting") /\ Client1 /\ UNCHANGED world
  /\ req' = [req EXCEPT !.pc = "mark"] @@ [low |-> IF Waiting = {} THEN None ELSE Min(Waiting)]

Below(low) == {r \in Delivered : low = None \/ r < low}

Newest(S) == {r \in S : Cardinality({x \in S : x > r}) < RecentEvents}
Clamped(r) == Min({Observed[r], Recorded[r]})

ReadWatermark ==
  /\ At("mark") /\ Client1 /\ UNCHANGED world
  /\ LET found == Below(req.low) IN
     IF found = {} THEN req' = Idle     \* ProjectionNotReady
     ELSE req' = [req EXCEPT !.pc = "beyond"] @@
                 [mark |-> Max(found),
                  instant |-> Max({Clamped(r) : r \in Newest({x \in Delivered : x <= Max(found)})})]

Behind == {r \in Temporal : r > req.mark /\ outbox[r] # "absent" /\ r \in touched}

ReadBeyond ==
  /\ At("beyond") /\ Client1 /\ UNCHANGED world
  /\ req' = [req EXCEPT !.pc = "checkpoints"] @@
            [claimed |-> touched,
             until |-> IF Behind = {} THEN None ELSE Min({Observed[r] : r \in Behind}) - 1]

(* _snapshot_token, and decode: the cursor is for this query and principal *)
(* (CursorMismatch), is not past its expiry and names the same snapshot.   *)
Token == <<req.mark, checkpoint>>
Accepted == /\ req.mine /\ req.now < req.from.expires /\ req.from.token = Token

ReadCheckpoints ==
  /\ At("checkpoints") /\ Client1 /\ UNCHANGED world
  /\ IF req.from # None /\ ~Accepted THEN req' = Idle
     ELSE req' = [req EXCEPT !.pc = "code"] @@
                 [token |-> Token, start |-> IF req.from = None THEN 1 ELSE req.from.position]

(* The record time of temporal facts (_known).                             *)
Known == IF req.until = None THEN req.instant ELSE Min({req.until, req.instant})

Ended(S) == UNION {Closes[r] : r \in S}

(* The facts of the graph, then the temporal ones recorded by then.        *)
GatherCode ==
  /\ At("code") /\ Client1 /\ UNCHANGED world
  /\ LET seen == graph \ Temporal IN
     req' = [req EXCEPT !.pc = "temporal"] @@ [code |-> seen \ Ended(seen)]

GatherTemporal ==
  /\ At("temporal") /\ Client1 /\ UNCHANGED world
  /\ LET seen == {r \in graph \cap Temporal : Observed[r] <= Known}
         found == req.code \cup (seen \ Ended(seen))
         ranked == SelectSeq(Order, LAMBDA i : i \in found)
     IN  req' = [req EXCEPT !.pc = "render"] @@
                [seen |-> seen, position |-> req.start, loaded |-> 0, events |-> {}, open |-> {},
                 snippets |-> {}, items |-> <<>>, used |-> 2,
                 ranked |-> SubSeq(ranked, 1, Min({Len(ranked), MaxCandidates}))]

-----------------------------------------------------------------------------
(* _Renderer._load: the cited events of a window, then their excerpts in a *)
(* transaction of their own that checks for purges again.                  *)
InWindow == {req.ranked[p] : p \in req.position .. Min({Len(req.ranked), req.position + Window - 1})}

NeedsLoad == req.position <= Len(req.ranked) /\ req.position > req.loaded

LoadEvents ==
  /\ At("render") /\ NeedsLoad /\ Client1 /\ UNCHANGED world
  /\ LET found == {i \in InWindow : i \in Delivered /\ i <= req.mark} IN
     req' = [req EXCEPT !.pc = "quote", !.events = @ \cup found, !.open = found \ purged]

LoadSnippets ==
  /\ At("quote") /\ Client1 /\ UNCHANGED world
  /\ req' = [req EXCEPT !.pc = "render",
               !.snippets = @ \cup {i \in req.open \ purged : Quoted[i] > Bare[i]},
               !.loaded = req.position + Cardinality(InWindow) - 1]

(* _page: one candidate after the other.                                   *)
Size(i, quote) == IF quote THEN Quoted[i] ELSE Bare[i]
Comma == IF req.items = <<>> THEN 0 ELSE 1
Mut_Fits(i, quote) == req.used + Size(i, quote) <= MaxBytes
Fits(i, quote) == req.used + Size(i, quote) + Comma <= MaxBytes

Ready == At("render") /\ ~NeedsLoad /\ UNCHANGED world
Candidate == req.ranked[req.position]
Citable(i) == i \in req.events
Room == Len(req.items) < MaxItems

Drop == /\ Ready /\ req.position <= Len(req.ranked) /\ ~Citable(Candidate)
        /\ req' = [req EXCEPT !.position = @ + 1] /\ Client1

Take == /\ Ready /\ req.position <= Len(req.ranked) /\ Citable(Candidate) /\ Room
        /\ \E quote \in BOOLEAN :
             /\ quote = (Candidate \in req.snippets /\ (Fits(Candidate, TRUE) \/ req.items # <<>>))
             /\ Fits(Candidate, quote)
             /\ req' = [req EXCEPT !.position = @ + 1, !.used = @ + Size(Candidate, quote) + Comma,
                          !.items = Append(@, [item |-> Candidate, quoted |-> quote])]
        /\ Client1

(* ContextBudgetTooSmall: even the bare first item does not fit.           *)
TooSmall == /\ Ready /\ req.position <= Len(req.ranked) /\ Citable(Candidate) /\ Room
            /\ req.items = <<>> /\ ~Fits(Candidate, FALSE)
            /\ req' = Idle /\ Client1

Full == req.position <= Len(req.ranked) =>
          /\ Citable(Candidate)
          /\ Room => req.items # <<>> /\ ~Fits(Candidate, Candidate \in req.snippets)

More == req.position <= Len(req.ranked)

Reply == /\ Ready /\ Full
         /\ pages' = Append(pages, [items |-> req.items, ranked |-> req.ranked, used |-> req.used,
                                    mark |-> req.mark, next |-> req.position, more |-> More,
                                    seen |-> req.seen, claimed |-> req.claimed, gone |-> req.gone,
                                    instant |-> req.instant, quotes |-> req.snippets])
         /\ cursor' = IF More THEN [position |-> req.position, token |-> req.token,
                                    expires |-> req.now + Lifetime]
                      ELSE None
         /\ req' = Idle /\ UNCHANGED asked

(* asyncio.timeout: the deadline ends a request wherever it is.            *)
Deadline == ~At("idle") /\ req' = Idle /\ Client1 /\ UNCHANGED world

Next == World \/ Begin \/ ReadWaiting \/ ReadWatermark \/ ReadBeyond \/ ReadCheckpoints \/ GatherCode
          \/ GatherTemporal \/ LoadEvents \/ LoadSnippets \/ Drop \/ Take \/ TooSmall \/ Reply \/ Deadline

Spec == Init /\ [][Next]_vars

-----------------------------------------------------------------------------
Items(p) == [k \in DOMAIN p.items |-> p.items[k].item]
SameRanking == \A k \in DOMAIN pages : pages[k].ranked = pages[1].ranked
Settled(m) == \A r \in Rows : r <= m => outbox[r] \in {"delivered", "dead"}
Shown == FlattenSeq([k \in DOMAIN pages |-> Items(pages[k])])
Citables(p) == SelectSeq(p.ranked, LAMBDA i : i \in Delivered /\ i <= p.mark)

(* Pages that were ranked alike are contiguous: together they are the      *)
(* first citable candidates in rank order, none twice and none left out,   *)
(* and truncated says exactly whether one remains (_page, _answer).        *)
PagesContiguous ==
  pages # <<>> /\ SameRanking =>
    LET all == Citables(pages[1]) IN
    /\ IsPrefix(Shown, all)
    /\ Last(pages).more = (Len(Shown) < Len(all))

(* The items of a page with their brackets and commas fit the budget, and  *)
(* a page with room left stops only at an item that does not fit: max_bytes *)
(* is the exact size of the serialized array.                              *)
BudgetExact ==
  \A k \in DOMAIN pages :
    LET p == pages[k]
        bytes == 1 + FoldSeq(LAMBDA e, n : n + 1 + Size(e.item, e.quoted), 0, p.items)
    IN  /\ p.items # <<>> => bytes = p.used /\ bytes <= MaxBytes
        /\ p.more /\ Len(p.items) < MaxItems =>
             LET i == p.ranked[p.next] IN bytes + 1 + Size(i, i \in p.quotes) > MaxBytes

(* Every event at or below as_of_event_id has been delivered or            *)
(* dead-lettered when the page arrives (FreshnessReader.read).             *)
WatermarkHolds == \A k \in DOMAIN pages : Settled(pages[k].mark)

(* Temporal facts of a page rest on nothing beyond its watermark that was  *)
(* claimed when the freshness was read, nor on a time after the snapshot's *)
(* (known_until, valid_instant): a supersession there is not known yet.    *)
BacklogHidden ==
  \A k \in DOMAIN pages :
    LET p == pages[k] IN
    /\ \A r \in p.seen \cap p.claimed : r <= p.mark
    /\ \A r \in p.seen : Observed[r] <= p.instant

(* Content purged before a request began is not quoted by its page, also   *)
(* when an earlier page of the answer quoted it (EvidenceLedger.snippets). *)
PurgeWins ==
  \A k \in DOMAIN pages : \A e \in DOMAIN pages[k].items :
    pages[k].items[e].item \in pages[k].gone => ~pages[k].items[e].quoted

(* What the cursor's snapshot is for: the pages a client collects with     *)
(* accepted cursors show no item twice (_snapshot_token).                  *)
NoItemTwice == IsInjective(Shown)
=============================================================================
