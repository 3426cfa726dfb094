----------------------------- MODULE SearchIndex -----------------------------
(***************************************************************************)
(* The search projector (projection/projectors/search.py): content named   *)
(* by events is indexed twice, as a PostgreSQL document row and as a Neo4j *)
(* embedding node, by workers that crash and retry, in any delivery order, *)
(* beside purges of the same content and beside a rebuild.  The two stores *)
(* commit separately: reading, each lock of the PostgreSQL transaction, its *)
(* tombstone check and its commit, the graph transaction and the delivery  *)
(* are steps of their own.  Text, vectors and media types are abstracted:  *)
(* content is a digest.                                                    *)
(***************************************************************************)
EXTENDS Integers, FiniteSets, TLAPS

CONSTANTS Events,       \* event -> [purges, refs, scope]; refs: content -> digest
          Workers, Contents,          \* contents are numbers: the lock order
          Blank,        \* the digests whose text is empty
          NoScope, Embeds,            \* SearchBackend.embeddings is not None
          MaxAttempts, MaxCrashes, MaxLost, Modes

VARIABLES status,       \* event -> pending, delivered or dead
          attempts, crashes,
          docs,         \* retrieval.search_documents
          tomb,         \* retrieval.content_tombstones
          nodes,        \* ContentEmbedding nodes of the live graph
          standby,      \* and of a scratch or standby graph
          lost,         \* contents whose bytes are gone without a purge
          w,            \* the workers
          r             \* the rebuild

vars == <<status, attempts, crashes, docs, tomb, nodes, standby, lost, w, r>>

Ids == DOMAIN Events
Empty == [x \in {} |-> x]
Refs(e) == DOMAIN Events[e].refs
LedgerPurges == UNION {Events[e].purges : e \in Ids}
IsPurge(e) == Events[e].purges # {}

(* What a row or a node binds a content ID to, and the events behind it.   *)
Entry(e, c) == [scope |-> Events[e].scope, sha |-> Events[e].refs[c], sources |-> {e}]
SameIdentity(a, b) == a.scope = b.scope /\ a.sha = b.sha
Upsert(f, e, cs) ==
  [c \in DOMAIN f \cup cs |->
     IF c \notin cs THEN f[c]
     ELSE IF c \in DOMAIN f THEN [f[c] EXCEPT !.sources = @ \cup {e}]
     ELSE Entry(e, c)]
Without(f, cs) == [c \in DOMAIN f \ cs |-> f[c]]

Free == [pc |-> "idle", ev |-> 0, found |-> {}, locks |-> {}]
NoRebuild == [pc |-> "off", mode |-> "in_place", at |-> 0, purges |-> {}]

Init == /\ status = [e \in Ids |-> "pending"] /\ attempts = [e \in Ids |-> 0]
        /\ crashes = 0 /\ docs = Empty /\ tomb = {} /\ nodes = Empty
        /\ standby = Empty /\ lost = {}
        /\ w = [i \in Workers |-> Free] /\ r = NoRebuild

Step(i, pc) == w' = [w EXCEPT ![i].pc = pc]
SearchUnchanged == UNCHANGED <<docs, tomb, nodes, standby>>

-----------------------------------------------------------------------------
(* A failed projection is retried and then dead-lettered; a crash only     *)
(* drops the worker's locks and its claim.                                 *)
Fail(i) ==
  LET e == w[i].ev IN
  /\ w' = [w EXCEPT ![i] = Free]
  /\ attempts' = [attempts EXCEPT ![e] = @ + 1]
  /\ status' = [status EXCEPT ![e] = IF attempts[e] + 1 < MaxAttempts THEN "pending" ELSE "dead"]
  /\ SearchUnchanged /\ UNCHANGED <<crashes, lost, r>>

Crash(i) == /\ w[i].pc # "idle" /\ crashes < MaxCrashes
            /\ crashes' = crashes + 1 /\ w' = [w EXCEPT ![i] = Free]
            /\ SearchUnchanged /\ UNCHANGED <<status, attempts, lost, r>>

InPlaceRuns == r.mode = "in_place" /\ r.pc \notin {"off", "refused"}

(* project: an event with no scope or nothing indexable is a no-op.        *)
Claim(i, e) ==
  /\ w[i].pc = "idle" /\ status[e] = "pending" /\ ~InPlaceRuns
  /\ \A j \in Workers : w[j].ev # e
  /\ w' = [w EXCEPT ![i].ev = e,
             ![i].found = Events[e].purges,
             ![i].pc = IF IsPurge(e) THEN "lock"
                       ELSE IF Events[e].scope = NoScope \/ Refs(e) = {} THEN "deliver"
                       ELSE "read"]
  /\ SearchUnchanged /\ UNCHANGED <<status, attempts, crashes, lost, r>>

(* _read_document for each reference that is not tombstoned: bytes that    *)
(* are lost cannot be read, purged ones may be gone; blank text is skipped.*)
Wanted(e, purged) == Refs(e) \ purged
Indexed(e, purged) == {c \in Wanted(e, purged) : Events[e].refs[c] \notin Blank}
MayFail(e, purged) == Wanted(e, purged) \cap (lost \cup LedgerPurges) # {}
MustFail(e, purged) == Wanted(e, purged) \cap lost # {}

Read(i) ==
  /\ w[i].pc = "read"
  /\ \/ MayFail(w[i].ev, tomb) /\ Fail(i)
     \/ /\ ~MustFail(w[i].ev, tomb)
        /\ LET found == Indexed(w[i].ev, tomb) IN
           w' = [w EXCEPT ![i].found = found,
                          ![i].pc = IF found = {} THEN "deliver" ELSE "lock"]
        /\ SearchUnchanged /\ UNCHANGED <<status, attempts, crashes, lost, r>>

Held == UNION {w[i].locks : i \in Workers}

(* lock_content takes the per-content advisory locks in sorted order.      *)
IsNextLock(i, c) == \A d \in w[i].found \ w[i].locks : c <= d

LockContent(i) ==
  \E c \in w[i].found \ w[i].locks :
    LET locks == w[i].locks \cup {c} IN
    /\ w[i].pc = "lock" /\ IsNextLock(i, c) /\ c \notin Held
    /\ w' = [w EXCEPT ![i].locks = locks,
                      ![i].pc = IF locks # w[i].found THEN "lock"
                                ELSE IF IsPurge(w[i].ev) THEN "write" ELSE "check"]
    /\ SearchUnchanged /\ UNCHANGED <<status, attempts, crashes, lost, r>>

Mut_Rechecked(i) == w[i].found

(* The tombstones are read again under the locks, which keep a purge of    *)
(* the same contents from committing before the upsert does.               *)
Rechecked(i) == w[i].found \ tomb

RecheckTombstones(i) ==
  /\ w[i].pc = "check"
  /\ w' = [w EXCEPT ![i].found = Rechecked(i), ![i].pc = "write"]
  /\ SearchUnchanged /\ UNCHANGED <<status, attempts, crashes, lost, r>>

Conflict(f, e, cs) == \E c \in cs \cap DOMAIN f : ~SameIdentity(f[c], Entry(e, c))

(* _index_documents' transaction: every row is upserted or none is.        *)
WriteDocuments(i) ==
  LET e == w[i].ev
      cs == w[i].found
  IN /\ w[i].pc = "write" /\ ~IsPurge(e)
     /\ \/ Conflict(docs, e, cs) /\ Fail(i)
        \/ /\ ~Conflict(docs, e, cs)
           /\ docs' = Upsert(docs, e, cs)
           /\ w' = [w EXCEPT ![i].locks = {},
                      ![i].pc = IF cs = {} \/ ~Embeds THEN "deliver" ELSE "graph"]
           /\ UNCHANGED <<status, attempts, crashes, tomb, nodes, standby, lost, r>>

(* _purge's transaction: tombstones in, rows out.                          *)
WriteTombstones(i) ==
  /\ w[i].pc = "write" /\ IsPurge(w[i].ev)
  /\ tomb' = tomb \cup w[i].found
  /\ docs' = Without(docs, w[i].found)
  /\ w' = [w EXCEPT ![i].locks = {}, ![i].pc = "graph"]
  /\ UNCHANGED <<status, attempts, crashes, nodes, standby, lost, r>>

(* _check_embedding_identity: the graph's own identity check.              *)
GraphConflict(f, e, cs) == Conflict(f, e, cs)

(* The graph transaction: identity checks, then embeddings and links.      *)
WriteGraph(i) ==
  LET e == w[i].ev IN
  /\ w[i].pc = "graph" /\ ~IsPurge(e)
  /\ \/ GraphConflict(nodes, e, w[i].found) /\ Fail(i)
     \/ /\ ~GraphConflict(nodes, e, w[i].found)
        /\ nodes' = Upsert(nodes, e, w[i].found)
        /\ Step(i, "deliver")
        /\ UNCHANGED <<status, attempts, crashes, docs, tomb, standby, lost, r>>

(* The graph half of a purge.                                              *)
DeleteEmbeddings(i) ==
  /\ w[i].pc = "graph" /\ IsPurge(w[i].ev)
  /\ nodes' = Without(nodes, w[i].found)
  /\ Step(i, "deliver")
  /\ UNCHANGED <<status, attempts, crashes, docs, tomb, standby, lost, r>>

(* The runner delivers the row after the graph transaction committed.      *)
Deliver(i) == /\ w[i].pc = "deliver"
              /\ status' = [status EXCEPT ![w[i].ev] = "delivered"]
              /\ w' = [w EXCEPT ![i] = Free]
              /\ SearchUnchanged /\ UNCHANGED <<attempts, crashes, lost, r>>

-----------------------------------------------------------------------------
(* Bytes disappear without a purge; never while a checked replay runs.     *)
LoseBytes(c) == /\ Cardinality(lost) < MaxLost /\ c \notin lost
                /\ r.pc \notin {"reset", "replay"}
                /\ lost' = lost \cup {c}
                /\ SearchUnchanged /\ UNCHANGED <<status, attempts, crashes, w, r>>

(* check_replay: every document an in-place replay will index is readable  *)
(* and each content ID names one scope and digest.                         *)
CheckReplay ==
  LET replayed == {e \in Ids : status[e] = "delivered" /\ Events[e].scope # NoScope}
  IN /\ \A e \in replayed : ~MustFail(e, LedgerPurges)
     /\ \A d, e \in replayed :
          \A c \in Indexed(d, LedgerPurges) \cap Indexed(e, LedgerPurges) :
            SameIdentity(Entry(d, c), Entry(e, c))

(* A standby graph has no seeded purges.                                   *)
Mut_Seeded(mode) == {}

(* seed_purges: a replay that writes no tombstone remembers every purge.   *)
Seeded(mode) == IF mode = "standby" THEN LedgerPurges ELSE {}

(* An in-place rebuild excludes the workers and checks first; a standby    *)
(* replay needs a model, starts from an empty graph, runs beside the       *)
(* workers and remembers every purge of the ledger.                        *)
Begin(mode) ==
  /\ r.pc = "off" /\ mode \in Modes
  /\ IF mode = "standby" THEN Embeds ELSE \A i \in Workers : w[i].pc = "idle"
  /\ r' = [pc |-> IF mode = "standby" THEN "replay"
                  ELSE IF CheckReplay THEN "reset" ELSE "refused",
           mode |-> mode, at |-> 0,
           purges |-> Seeded(mode)]
  /\ standby' = IF mode = "standby" THEN Empty ELSE standby
  /\ UNCHANGED <<status, attempts, crashes, docs, tomb, nodes, lost, w>>

(* reset_search_tables: no documents, every purge of the ledger a          *)
(* tombstone; the graph is wiped.                                          *)
Reset == /\ r.pc = "reset"
         /\ docs' = Empty /\ tomb' = LedgerPurges /\ nodes' = Empty
         /\ r' = [r EXCEPT !.pc = "replay"]
         /\ UNCHANGED <<status, attempts, crashes, standby, lost, w>>

(* What the replay of an event indexes: a purge indexes nothing.           *)
ReplayWants(e) == IF IsPurge(e) \/ Events[e].scope = NoScope THEN {}
                  ELSE Indexed(e, tomb \cup r.purges)

(* The stores the replay writes; a standby replay writes neither rows nor  *)
(* tombstones, and without a model no embedding is written.                *)
ReplayFails(e) ==
  \/ ~IsPurge(e) /\ Events[e].scope # NoScope /\ MustFail(e, tomb \cup r.purges)
  \/ r.mode = "in_place" /\ Conflict(docs, e, ReplayWants(e))
  \/ Embeds /\ GraphConflict(IF r.mode = "standby" THEN standby ELSE nodes, e, ReplayWants(e))

(* The graph after the replay of e.                                        *)
Replayed(f, e) == IF IsPurge(e) THEN Without(f, Events[e].purges)
                  ELSE IF Embeds THEN Upsert(f, e, ReplayWants(e)) ELSE f

(* What is left to replay, in ledger order.                                *)
Left == {e \in Ids : e > r.at /\ status[e] # "dead"
                       /\ (r.mode = "in_place" => status[e] = "delivered")}

ReplayEvent(e) ==
  /\ r.pc = "replay" /\ e \in Left /\ \A d \in Left : e <= d
  /\ ~ReplayFails(e)
  /\ r' = [r EXCEPT !.at = e,
             !.purges = IF r.mode = "standby" THEN @ \cup Events[e].purges ELSE @]
  /\ IF r.mode = "standby"
     THEN standby' = Replayed(standby, e) /\ UNCHANGED <<docs, tomb, nodes>>
     ELSE /\ docs' = IF IsPurge(e) THEN Without(docs, Events[e].purges)
                     ELSE Upsert(docs, e, ReplayWants(e))
          /\ tomb' = tomb \cup Events[e].purges
          /\ nodes' = Replayed(nodes, e) /\ UNCHANGED standby
  /\ UNCHANGED <<status, attempts, crashes, lost, w>>

ReplayStops(e) ==
  /\ r.pc = "replay" /\ e \in Left /\ \A d \in Left : e <= d
  /\ ReplayFails(e)
  /\ r' = [r EXCEPT !.pc = "failed"]
  /\ SearchUnchanged /\ UNCHANGED <<status, attempts, crashes, lost, w>>

ReplayEnds ==
  /\ r.pc = "replay" /\ Left = {}
  /\ r' = [r EXCEPT !.pc = "off", !.at = 0]
  /\ SearchUnchanged /\ UNCHANGED <<status, attempts, crashes, lost, w>>

Working(i) == \/ Read(i) \/ LockContent(i) \/ RecheckTombstones(i) \/ WriteDocuments(i)
              \/ WriteTombstones(i) \/ WriteGraph(i) \/ DeleteEmbeddings(i) \/ Deliver(i)

Next == \/ \E i \in Workers : (\E e \in Ids : Claim(i, e)) \/ Working(i) \/ Crash(i)
        \/ \E c \in Contents : LoseBytes(c)
        \/ \E mode \in Modes : Begin(mode)
        \/ Reset
        \/ \E e \in Ids : ReplayEvent(e) \/ ReplayStops(e)
        \/ ReplayEnds

Spec == Init /\ [][Next]_vars

(* A running worker keeps claiming and finishes what it claimed.           *)
FairSpec == /\ Spec
            /\ \A i \in Workers : WF_vars(Working(i))
            /\ WF_vars(\E i \in Workers, e \in Ids : Claim(i, e))

-----------------------------------------------------------------------------
(* No document row outlives the tombstone of its content: an index whose   *)
(* tombstone check ran before a concurrent purge, a redelivery, a crash    *)
(* between the stores or a replay never brings purged content back.        *)
PurgedStaysPurged == tomb \cap DOMAIN docs = {}

(* Row and vector of one content ID always describe the same bytes in the  *)
(* same scope, in whatever order events that reuse the ID are delivered,   *)
(* so what search returns never mixes two documents.                       *)
RowAndVectorAgree ==
  \A c \in DOMAIN docs \cap DOMAIN nodes : SameIdentity(docs[c], nodes[c])

(* Delivery means searchable: while no replay is rewriting the index,      *)
(* every delivered event is a source of the row and, with a model, of the  *)
(* vector of each readable, unpurged content it names.                     *)
DeliveredIsSearchable ==
  ~InPlaceRuns =>
    \A e \in Ids : status[e] = "delivered" /\ ~IsPurge(e) /\ Events[e].scope # NoScope =>
      \A c \in Indexed(e, tomb) :
        /\ c \in DOMAIN docs /\ e \in docs[c].sources
        /\ Embeds => c \in DOMAIN nodes /\ e \in nodes[c].sources

(* A rebuild that passed check_replay never fails after it wiped the       *)
(* index: what the check reads is exactly what the replay will index.      *)
CheckGuardsReplay == ~(r.mode = "in_place" /\ r.pc = "failed")

(* Once the tables are reset no replayed event indexes content the ledger  *)
(* purged, also when the purge event itself was dead-lettered and is       *)
(* never replayed.                                                         *)
ReplayHidesPurged ==
  (r.mode = "in_place" /\ r.pc = "replay") => DOMAIN docs \cap LedgerPurges = {}

(* A scratch or standby graph never receives content the ledger purged,    *)
(* although its replay meets the originals before their purges and writes  *)
(* no tombstone.                                                           *)
StandbyHoldsNoPurged == DOMAIN standby \cap LedgerPurges = {}

(* Every event is settled in the end: index and purge of overlapping       *)
(* contents never wait for each other's locks forever.                     *)
Settled == \A e \in Ids : status[e] # "pending"
EventsSettle == <>Settled

-----------------------------------------------------------------------------
(* Why the index is safe: the inductive invariant.                         *)

\* The index shows what was delivered and nothing that was purged, live and
\* replayed (search.py).
SearchSound ==
  /\ PurgedStaysPurged /\ RowAndVectorAgree /\ DeliveredIsSearchable
  /\ CheckGuardsReplay /\ ReplayHidesPurged /\ StandbyHoldsNoPurged

\* Events are numbered as the ledger stores them.
SearchAssumption == Ids \subseteq Nat \ {0} /\ Modes \subseteq {"in_place", "standby"}

Named == LedgerPurges \cup UNION {Refs(e) : e \in Ids}
Rows == [scope : {Events[e].scope : e \in Ids},
         sha : UNION {{Events[e].refs[c] : c \in Refs(e)} : e \in Ids},
         sources : SUBSET Ids]
IsIndex(f) == f = [c \in DOMAIN f |-> f[c]] /\ \A c \in DOMAIN f : f[c] \in Rows

TypeOK ==
  /\ status \in [Ids -> {"pending", "delivered", "dead"}]
  /\ attempts \in [Ids -> Nat] /\ crashes \in Nat
  /\ IsIndex(docs) /\ IsIndex(nodes) /\ IsIndex(standby)
  /\ tomb \subseteq LedgerPurges
  /\ w \in [Workers -> [pc : {"idle", "read", "lock", "check", "write", "graph", "deliver"},
                        ev : Ids \cup {0}, found : SUBSET Named, locks : SUBSET Named]]
  /\ r \in [pc : {"off", "refused", "reset", "replay", "failed"},
            mode : {"in_place", "standby"}, at : Ids \cup {0}, purges : SUBSET LedgerPurges]

\* An entry has a source, and all its sources name the same bytes and scope.
Describes(f) ==
  \A c \in DOMAIN f :
    f[c].sources # {} /\ \A e \in f[c].sources : c \in Refs(e) /\ SameIdentity(f[c], Entry(e, c))

\* The vector of a content that is not purged never knows more than its row.
NodesFollowRows ==
  \A c \in DOMAIN nodes \ tomb : c \in DOMAIN docs /\ nodes[c].sources \subseteq docs[c].sources

InRow(e, c) == c \in DOMAIN docs /\ e \in docs[c].sources
InNode(e, c) == c \in DOMAIN nodes /\ e \in nodes[c].sources
Searchable(e, c) == InRow(e, c) /\ (Embeds => InNode(e, c))

LocksExclusive == \A i, j \in Workers : i # j => w[i].locks \cap w[j].locks = {}

WorkersExcluded == InPlaceRuns => \A i \in Workers : w[i].pc = "idle"

\* What a worker that indexes an event holds between its transactions.
Indexing(i) ==
  LET e == w[i].ev IN
  /\ w[i].pc \in {"lock", "check", "write", "graph"} =>
       Events[e].scope # NoScope /\ w[i].found \subseteq Refs(e) /\ Indexed(e, tomb) \subseteq w[i].found
  /\ w[i].pc \in {"check", "write"} => w[i].found \subseteq w[i].locks
  /\ w[i].pc = "write" => w[i].found \cap tomb = {}
  /\ w[i].pc = "graph" => Embeds /\ \A c \in w[i].found \ tomb : InRow(e, c)
  /\ w[i].pc = "deliver" /\ Events[e].scope # NoScope => \A c \in Indexed(e, tomb) : Searchable(e, c)
  /\ w[i].pc = "read" => Events[e].scope # NoScope

\* And one that applies a purge.
Purging(i) ==
  /\ w[i].pc \in {"lock", "write", "graph", "deliver"}
  /\ w[i].found = Events[w[i].ev].purges
  /\ w[i].pc = "write" => w[i].found \subseteq w[i].locks
  /\ w[i].pc \in {"graph", "deliver"} => w[i].found \subseteq tomb

WorkerCorrect(i) ==
  w[i].pc # "idle" => /\ w[i].ev \in Ids
                      /\ IF IsPurge(w[i].ev) THEN Purging(i) ELSE Indexing(i)
WorkersCorrect == \A i \in Workers : WorkerCorrect(i)

\* The entries of a replayed store come from the events the check has read.
Checked(e) == status[e] = "delivered" /\ Events[e].scope # NoScope
FromChecked(f) ==
  \A c \in DOMAIN f : \A e \in f[c].sources : Checked(e) /\ c \in Indexed(e, LedgerPurges)

InPlaceCorrect ==
  r.mode = "in_place" =>
    /\ r.pc # "failed"
    /\ r.pc \in {"reset", "replay"} => CheckReplay /\ r.purges = {}
    /\ r.pc = "reset" => r.at = 0
    /\ r.pc = "replay" =>
         /\ tomb = LedgerPurges
         /\ FromChecked(docs) /\ FromChecked(nodes)
         /\ \A e \in Ids : Checked(e) /\ ~IsPurge(e) /\ e <= r.at =>
              \A c \in Indexed(e, tomb) : Searchable(e, c)

StandbyCorrect ==
  r.mode = "standby" => /\ r.pc \in {"off", "replay", "failed"}
                        /\ r.pc = "replay" => LedgerPurges \subseteq r.purges

Inductive == /\ TypeOK
             /\ Describes(docs) /\ Describes(nodes)
             /\ PurgedStaysPurged /\ NodesFollowRows
             /\ LocksExclusive /\ WorkersExcluded /\ WorkersCorrect
             /\ InPlaceCorrect /\ StandbyCorrect
             /\ DeliveredIsSearchable /\ StandbyHoldsNoPurged

-----------------------------------------------------------------------------
(* The proofs: what an upsert and a removal do to a store, then one lemma  *)
(* per action that the inductive invariant survives it.                    *)

\* What upserting the contents cs of an event into a store leaves and adds.
Upserted(f, e, cs, u) ==
  /\ IsIndex(u) /\ DOMAIN u = DOMAIN f \cup cs
  /\ \A c \in DOMAIN f : /\ SameIdentity(u[c], f[c]) /\ f[c].sources \subseteq u[c].sources
                         /\ \A d \in u[c].sources : d \in f[c].sources \/ d = e
  /\ \A c \in cs : e \in u[c].sources /\ (c \notin DOMAIN f => u[c] = Entry(e, c))
  /\ \A c \in DOMAIN f : c \notin cs => u[c] = f[c]

LEMMA UpsertIs ==
  ASSUME NEW f, IsIndex(f), NEW e \in Ids, NEW cs \in SUBSET Refs(e)
  PROVE  Upserted(f, e, cs, Upsert(f, e, cs))
<1> DEFINE U == Upsert(f, e, cs)
<1>1. DOMAIN U = DOMAIN f \cup cs /\ U = [c \in DOMAIN U |-> U[c]]
  BY DEF Upsert
<1>2. \A c \in DOMAIN f \ cs : U[c] = f[c]
  BY DEF Upsert
<1>3. \A c \in cs \ DOMAIN f : U[c] = Entry(e, c)
  BY DEF Upsert
<1>4. \A c \in cs \cap DOMAIN f : U[c] = [f[c] EXCEPT !.sources = @ \cup {e}]
  BY DEF Upsert
<1>5. \A c \in DOMAIN f : f[c] \in Rows
  BY DEF IsIndex
<1>6. ASSUME NEW c \in cs PROVE Entry(e, c) \in Rows
  <2>1. Events[e].scope \in {Events[d].scope : d \in Ids}
    OBVIOUS
  <2>2. Events[e].refs[c] \in UNION {{Events[d].refs[b] : b \in Refs(d)} : d \in Ids}
    OBVIOUS
  <2> QED BY <2>1, <2>2 DEF Rows, Entry
<1>7. ASSUME NEW c \in cs \cap DOMAIN f
      PROVE  U[c] \in Rows /\ SameIdentity(U[c], f[c]) /\ U[c].sources = f[c].sources \cup {e}
  <2> DEFINE old == f[c]
             new == [old EXCEPT !.sources = old.sources \cup {e}]
  <2>1. old \in Rows /\ U[c] = new
    BY <1>4, <1>5
  <2> HIDE DEF old
  <2>2. new \in Rows /\ new.sources = old.sources \cup {e} /\ new.scope = old.scope /\ new.sha = old.sha
    BY <2>1 DEF Rows
  <2> HIDE DEF new
  <2> QED BY <2>1, <2>2 DEF SameIdentity, old
<1>8. \A c \in DOMAIN U : U[c] \in Rows
  BY <1>1, <1>2, <1>3, <1>5, <1>6, <1>7
<1>9. \A c \in cs \ DOMAIN f : U[c].sources = {e}
  <2>1. \A c \in cs : Entry(e, c).sources = {e}
    BY DEF Entry
  <2> QED BY <1>3, <2>1
<1>10. \A c \in DOMAIN f \ cs : SameIdentity(U[c], f[c]) /\ U[c].sources = f[c].sources
  BY <1>2 DEF SameIdentity
<1>11. IsIndex(U)
  BY <1>1, <1>8 DEF IsIndex
<1> HIDE DEF U
<1>12. \A c \in DOMAIN f : SameIdentity(U[c], f[c]) /\ f[c].sources \subseteq U[c].sources
                           /\ \A d \in U[c].sources : d \in f[c].sources \/ d = e
  BY <1>7, <1>10
<1>13. \A c \in cs : e \in U[c].sources
  BY <1>7, <1>9
<1>14. Upserted(f, e, cs, U)
  BY <1>1, <1>2, <1>3, <1>11, <1>12, <1>13 DEF Upserted
<1> QED BY <1>14 DEF U

\* An upsert that meets no conflict keeps every entry the bytes of its sources.
LEMMA UpsertDescribes ==
  ASSUME NEW f, IsIndex(f), NEW e \in Ids, NEW cs \in SUBSET Refs(e),
         Describes(f), ~Conflict(f, e, cs)
  PROVE  Describes(Upsert(f, e, cs))
<1> DEFINE U == Upsert(f, e, cs)
<1>1. Upserted(f, e, cs, U)
  BY UpsertIs
<1>2. \A c \in DOMAIN f : f[c].sources # {} /\ \A d \in f[c].sources : c \in Refs(d) /\ SameIdentity(f[c], Entry(d, c))
  BY DEF Describes
<1> HIDE DEF U
<1>3. /\ DOMAIN U = DOMAIN f \cup cs
      /\ \A c \in DOMAIN f : /\ SameIdentity(U[c], f[c]) /\ f[c].sources \subseteq U[c].sources
                             /\ \A d \in U[c].sources : d \in f[c].sources \/ d = e
      /\ \A c \in cs : e \in U[c].sources /\ (c \notin DOMAIN f => U[c] = Entry(e, c))
      /\ \A c \in DOMAIN f : c \notin cs => U[c] = f[c]
  BY <1>1 DEF Upserted
<1>6. ASSUME NEW c \in DOMAIN U
      PROVE  U[c].sources # {} /\ \A d \in U[c].sources : c \in Refs(d) /\ SameIdentity(U[c], Entry(d, c))
  <2>1. CASE c \in DOMAIN f \ cs
    BY <2>1, <1>2, <1>3
  <2>2. CASE c \in cs \ DOMAIN f
    <3>1. U[c] = Entry(e, c) /\ Entry(e, c).sources = {e} /\ c \in Refs(e)
      BY <2>2, <1>3 DEF Entry
    <3> QED BY <3>1 DEF SameIdentity
  <2>3. CASE c \in cs \cap DOMAIN f
    <3>1. SameIdentity(f[c], Entry(e, c)) /\ c \in Refs(e)
      BY <2>3 DEF Conflict
    <3>2. \A d \in U[c].sources : c \in Refs(d) /\ SameIdentity(f[c], Entry(d, c))
      BY <2>3, <3>1, <1>3, <1>2
    <3>3. SameIdentity(U[c], f[c]) /\ U[c].sources # {}
      BY <2>3, <1>3
    <3> QED BY <3>2, <3>3 DEF SameIdentity
  <2> QED BY <2>1, <2>2, <2>3, <1>3
<1> QED BY <1>6 DEF Describes, U

\* What removing contents from a store leaves.
LEMMA WithoutIs ==
  ASSUME NEW f, IsIndex(f), NEW cs
  PROVE  /\ IsIndex(Without(f, cs)) /\ DOMAIN Without(f, cs) = DOMAIN f \ cs
         /\ \A c \in DOMAIN f : c \notin cs => Without(f, cs)[c] = f[c]
         /\ Describes(f) => Describes(Without(f, cs))
BY DEF IsIndex, Without, Describes

-----------------------------------------------------------------------------
\* Nothing that is not purged disappears from the stores in a step.
RowsKept ==
  /\ tomb \subseteq tomb'
  /\ \A e \in Ids : \A c \in Refs(e) :
       c \notin tomb' => (InRow(e, c) => InRow(e, c)') /\ (InNode(e, c) => InNode(e, c)')

\* A worker that does not move stays correct.
LEMMA OthersKeep ==
  ASSUME NEW j \in Workers, WorkerCorrect(j), w'[j] = w[j], RowsKept,
         w[j].pc = "write" /\ ~IsPurge(w[j].ev) => w[j].found \cap tomb' = {}
  PROVE  WorkerCorrect(j)'
<1>1. CASE w[j].pc = "idle"
  BY <1>1 DEF WorkerCorrect
<1>2. CASE w[j].pc # "idle" /\ IsPurge(w[j].ev)
  BY <1>2 DEF WorkerCorrect, Purging, RowsKept, IsPurge
<1>3. CASE w[j].pc # "idle" /\ ~IsPurge(w[j].ev)
  <2> DEFINE e == w[j].ev
  <2>1. e \in Ids /\ Indexing(j)
    BY <1>3 DEF WorkerCorrect
  <2>2. tomb \subseteq tomb' /\ Indexed(e, tomb') \subseteq Indexed(e, tomb) /\ Indexed(e, tomb') \cap tomb' = {}
        /\ Indexed(e, tomb') \subseteq Refs(e)
    BY DEF RowsKept, Indexed, Wanted
  <2>3. \A c \in Refs(e) : c \notin tomb' => (InRow(e, c) => InRow(e, c)') /\ (Searchable(e, c) => Searchable(e, c)')
    BY <2>1 DEF RowsKept, Searchable
  <2>4. w[j].pc = "graph" => Embeds /\ \A c \in w[j].found \ tomb' : InRow(e, c)'
    BY <2>1, <2>2, <2>3 DEF Indexing
  <2>5. w[j].pc = "deliver" /\ Events[e].scope # NoScope => \A c \in Indexed(e, tomb') : Searchable(e, c)'
    BY <2>1, <2>2, <2>3 DEF Indexing
  <2>6. Indexing(j)'
    BY <1>3, <2>1, <2>2, <2>4, <2>5 DEF Indexing, Indexed, Wanted
  <2> QED BY <1>3, <2>1, <2>6 DEF WorkerCorrect, IsPurge
<1> QED BY <1>1, <1>2, <1>3

\* What a step of a worker has to keep for the invariant to hold.
LEMMA WorkerStep ==
  ASSUME Inductive, NEW i \in Workers, ~InPlaceRuns, r' = r, standby' = standby, RowsKept,
         TypeOK', Describes(docs)', Describes(nodes)', PurgedStaysPurged', NodesFollowRows',
         WorkerCorrect(i)',
         \A j \in Workers \ {i} : /\ w'[j] = w[j]
                                  /\ w'[i].locks \cap w[j].locks = {}
                                  /\ w[j].pc = "write" /\ ~IsPurge(w[j].ev) => w[j].found \cap tomb' = {},
         \A e \in Ids : status'[e] = "delivered" =>
                          status[e] = "delivered" \/ (e = w[i].ev /\ w[i].pc = "deliver")
  PROVE  Inductive'
<1>1. LocksExclusive'
  BY DEF Inductive, LocksExclusive
<1>2. WorkersExcluded' /\ InPlaceCorrect'
  BY DEF InPlaceRuns, WorkersExcluded, InPlaceCorrect, Inductive
<1>3. StandbyCorrect' /\ StandbyHoldsNoPurged'
  BY DEF Inductive, StandbyCorrect, StandbyHoldsNoPurged
<1>4. WorkersCorrect'
  <2>1. ASSUME NEW j \in Workers \ {i} PROVE WorkerCorrect(j)'
    BY OthersKeep DEF Inductive, WorkersCorrect
  <2> QED BY <2>1 DEF WorkersCorrect
<1>5. DeliveredIsSearchable'
  <2> SUFFICES ASSUME NEW e \in Ids, status'[e] = "delivered", ~IsPurge(e), Events[e].scope # NoScope,
                      NEW c \in Indexed(e, tomb')
               PROVE  Searchable(e, c)'
    BY DEF DeliveredIsSearchable, Searchable, InRow, InNode, IsPurge, Indexed, Wanted
  <2>1. c \in Indexed(e, tomb) /\ c \in Refs(e) /\ c \notin tomb'
    BY DEF Indexed, Wanted, RowsKept
  <2>2. CASE status[e] = "delivered"
    <3>1. Searchable(e, c)
      BY <2>1, <2>2 DEF Inductive, DeliveredIsSearchable, Searchable, InRow, InNode
    <3> QED BY <2>1, <3>1 DEF RowsKept, Searchable
  <2>3. CASE e = w[i].ev /\ w[i].pc = "deliver"
    <3>1. Searchable(e, c)
      BY <2>1, <2>3 DEF Inductive, WorkersCorrect, WorkerCorrect, Indexing
    <3> QED BY <2>1, <3>1 DEF RowsKept, Searchable
  <2> QED BY <2>2, <2>3
<1> QED BY <1>1, <1>2, <1>3, <1>4, <1>5 DEF Inductive

\* A worker that runs excludes an in-place rebuild.
LEMMA RunningMeansLive ==
  ASSUME Inductive, NEW i \in Workers, w[i].pc # "idle"
  PROVE  ~InPlaceRuns
BY DEF Inductive, WorkersExcluded

\* A step of a worker that writes neither store.
LEMMA QuietStep ==
  ASSUME Inductive, NEW i \in Workers, ~InPlaceRuns, SearchUnchanged, r' = r,
         TypeOK', WorkerCorrect(i)',
         \A j \in Workers \ {i} : w'[j] = w[j] /\ w'[i].locks \cap w[j].locks = {},
         \A e \in Ids : status'[e] = "delivered" =>
                          status[e] = "delivered" \/ (e = w[i].ev /\ w[i].pc = "deliver")
  PROVE  Inductive'
<1>1. RowsKept
  BY DEF SearchUnchanged, RowsKept, InRow, InNode
<1>2. Describes(docs)' /\ Describes(nodes)' /\ PurgedStaysPurged' /\ NodesFollowRows' /\ standby' = standby
  BY DEF SearchUnchanged, Inductive, Describes, PurgedStaysPurged, NodesFollowRows
<1>3. ASSUME NEW j \in Workers \ {i}, w[j].pc = "write", ~IsPurge(w[j].ev)
      PROVE  w[j].found \cap tomb' = {}
  BY <1>3 DEF SearchUnchanged, Inductive, WorkersCorrect, WorkerCorrect, Indexing
<1> QED BY <1>1, <1>2, <1>3, WorkerStep

WorkerType == [pc : {"idle", "read", "lock", "check", "write", "graph", "deliver"},
               ev : Ids \cup {0}, found : SUBSET Named, locks : SUBSET Named]

LEMMA NamedContents ==
  ASSUME NEW e \in Ids
  PROVE  Refs(e) \subseteq Named /\ Events[e].purges \subseteq Named
                                 /\ Events[e].purges \subseteq LedgerPurges
BY DEF Named, LedgerPurges

LEMMA ClaimSafe ==
  ASSUME Inductive, NEW i \in Workers, NEW e \in Ids, Claim(i, e)
  PROVE  Inductive'
<1> DEFINE new == [w[i] EXCEPT !.ev = e, !.found = Events[e].purges,
                               !.pc = IF IsPurge(e) THEN "lock"
                                      ELSE IF Events[e].scope = NoScope \/ Refs(e) = {} THEN "deliver"
                                      ELSE "read"]
<1>1. w \in [Workers -> WorkerType] /\ w' = [w EXCEPT ![i] = new]
  BY DEF Inductive, TypeOK, WorkerType, Claim
<1>2. /\ new \in WorkerType /\ new.locks = w[i].locks /\ new.ev = e /\ new.found = Events[e].purges
      /\ new.pc = IF IsPurge(e) THEN "lock"
                  ELSE IF Events[e].scope = NoScope \/ Refs(e) = {} THEN "deliver" ELSE "read"
  BY <1>1, NamedContents DEF WorkerType
<1> HIDE DEF new
<1>3. w'[i] = new /\ w' \in [Workers -> WorkerType] /\ \A j \in Workers \ {i} : w'[j] = w[j]
  BY <1>1, <1>2
<1>4. TypeOK'
  <2>1. SearchUnchanged /\ UNCHANGED <<status, attempts, crashes, r>>
    BY DEF Claim
  <2> QED BY <1>3, <2>1 DEF TypeOK, WorkerType, Inductive, SearchUnchanged, IsIndex
<1>5. WorkerCorrect(i)'
  <2>1. CASE IsPurge(e)
    BY <2>1, <1>2, <1>3 DEF WorkerCorrect, Purging, IsPurge
  <2>2. CASE ~IsPurge(e)
    <3>1. Refs(e) = {} => Indexed(e, tomb') = {}
      BY DEF Indexed, Wanted
    <3> QED BY <2>2, <3>1, <1>2, <1>3 DEF WorkerCorrect, Indexing, IsPurge
  <2> QED BY <2>1, <2>2
<1>6. \A j \in Workers \ {i} : w'[j] = w[j] /\ w'[i].locks \cap w[j].locks = {}
  BY <1>2, <1>3 DEF Inductive, LocksExclusive
<1> QED BY <1>4, <1>5, <1>6, QuietStep DEF Claim

\* A worker that fails or crashes is idle and holds nothing.
LEMMA FreedSafe ==
  ASSUME Inductive, NEW i \in Workers, w[i].pc # "idle", w' = [w EXCEPT ![i] = Free],
         SearchUnchanged, r' = r,
         status' \in [Ids -> {"pending", "delivered", "dead"}], attempts' \in [Ids -> Nat], crashes' \in Nat,
         \A e \in Ids : status'[e] = "delivered" =>
                          status[e] = "delivered" \/ (e = w[i].ev /\ w[i].pc = "deliver")
  PROVE  Inductive'
<1>1. w \in [Workers -> WorkerType]
  BY DEF Inductive, TypeOK, WorkerType
<1>2. Free \in WorkerType /\ Free.pc = "idle" /\ Free.locks = {}
  BY DEF Free, WorkerType
<1>3. w'[i] = Free /\ w' \in [Workers -> WorkerType] /\ \A j \in Workers \ {i} : w'[j] = w[j]
  BY <1>1, <1>2
<1>4. TypeOK'
  BY <1>3 DEF TypeOK, WorkerType, Inductive, SearchUnchanged, IsIndex
<1>5. WorkerCorrect(i)'
  BY <1>2, <1>3 DEF WorkerCorrect
<1>6. \A j \in Workers \ {i} : w'[j] = w[j] /\ w'[i].locks \cap w[j].locks = {}
  BY <1>2, <1>3
<1> QED BY <1>4, <1>5, <1>6, RunningMeansLive, QuietStep

LEMMA FailSafe ==
  ASSUME Inductive, NEW i \in Workers, w[i].pc # "idle", Fail(i)
  PROVE  Inductive'
<1>1. w[i].ev \in Ids
  BY DEF Inductive, WorkersCorrect, WorkerCorrect
<1>2. status \in [Ids -> {"pending", "delivered", "dead"}] /\ attempts \in [Ids -> Nat] /\ crashes \in Nat
  BY DEF Inductive, TypeOK
<1>3. /\ attempts' = [attempts EXCEPT ![w[i].ev] = @ + 1]
      /\ status' = [status EXCEPT ![w[i].ev] = IF attempts[w[i].ev] + 1 < MaxAttempts THEN "pending" ELSE "dead"]
      /\ crashes' = crashes /\ w' = [w EXCEPT ![i] = Free] /\ SearchUnchanged /\ r' = r
  BY DEF Fail
<1>4. /\ attempts' \in [Ids -> Nat] /\ crashes' \in Nat
      /\ status' \in [Ids -> {"pending", "delivered", "dead"}]
      /\ \A e \in Ids : status'[e] = "delivered" => status[e] = "delivered"
  BY <1>1, <1>2, <1>3
<1> QED BY <1>3, <1>4, FreedSafe

LEMMA CrashSafe ==
  ASSUME Inductive, NEW i \in Workers, Crash(i)
  PROVE  Inductive'
<1>1. crashes' \in Nat
  BY DEF Inductive, TypeOK, Crash
<1> QED BY <1>1, FreedSafe DEF Crash, Inductive, TypeOK

LEMMA DeliverSafe ==
  ASSUME Inductive, NEW i \in Workers, Deliver(i)
  PROVE  Inductive'
<1>1. w[i].ev \in Ids /\ w[i].pc = "deliver"
  BY DEF Inductive, WorkersCorrect, WorkerCorrect, Deliver
<1>2. status \in [Ids -> {"pending", "delivered", "dead"}] /\ attempts \in [Ids -> Nat] /\ crashes \in Nat
  BY DEF Inductive, TypeOK
<1>3. /\ status' = [status EXCEPT ![w[i].ev] = "delivered"]
      /\ crashes' = crashes /\ attempts' = attempts /\ w' = [w EXCEPT ![i] = Free] /\ SearchUnchanged /\ r' = r
  BY DEF Deliver
<1>4. /\ status' \in [Ids -> {"pending", "delivered", "dead"}]
      /\ \A e \in Ids : status'[e] = "delivered" => status[e] = "delivered" \/ e = w[i].ev
  BY <1>1, <1>2, <1>3
<1> QED BY <1>1, <1>2, <1>3, <1>4, FreedSafe

\* The steps that read, wait and check.
LEMMA ReadSafe ==
  ASSUME Inductive, NEW i \in Workers, Read(i)
  PROVE  Inductive'
<1>1. CASE Fail(i)
  BY <1>1, FailSafe DEF Read
<1>2. CASE ~Fail(i)
  <2> DEFINE e == w[i].ev
             cs == Indexed(e, tomb)
             new == [w[i] EXCEPT !.found = cs, !.pc = IF cs = {} THEN "deliver" ELSE "lock"]
  <2>1. /\ w[i].pc = "read" /\ w' = [w EXCEPT ![i] = new]
        /\ SearchUnchanged /\ UNCHANGED <<status, attempts, crashes, r>>
    BY <1>2 DEF Read
  <2>2. w \in [Workers -> WorkerType] /\ e \in Ids /\ ~IsPurge(e) /\ Events[e].scope # NoScope
    BY <2>1 DEF Inductive, TypeOK, WorkerType, WorkersCorrect, WorkerCorrect, Purging, Indexing
  <2>3. cs \subseteq Named /\ cs \subseteq Refs(e)
    BY <2>2, NamedContents DEF Indexed, Wanted
  <2>4. /\ new \in WorkerType /\ new.locks = w[i].locks /\ new.ev = e /\ new.found = cs
        /\ new.pc = IF cs = {} THEN "deliver" ELSE "lock"
    BY <2>2, <2>3 DEF WorkerType
  <2> HIDE DEF new
  <2>5. w'[i] = new /\ w' \in [Workers -> WorkerType] /\ \A j \in Workers \ {i} : w'[j] = w[j]
    BY <2>1, <2>2, <2>4
  <2>6. TypeOK'
    BY <2>1, <2>5 DEF TypeOK, WorkerType, Inductive, SearchUnchanged, IsIndex
  <2>7. Indexed(e, tomb') = cs
    BY <2>1 DEF SearchUnchanged
  <2> HIDE DEF cs
  <2>8. WorkerCorrect(i)'
    BY <2>2, <2>3, <2>4, <2>5, <2>7 DEF WorkerCorrect, Indexing, IsPurge
  <2>9. \A j \in Workers \ {i} : w'[j] = w[j] /\ w'[i].locks \cap w[j].locks = {}
    BY <2>4, <2>5 DEF Inductive, LocksExclusive
  <2> QED BY <2>1, <2>6, <2>8, <2>9, RunningMeansLive, QuietStep
<1> QED BY <1>1, <1>2

LEMMA LockSafe ==
  ASSUME Inductive, NEW i \in Workers, LockContent(i)
  PROVE  Inductive'
<1> DEFINE e == w[i].ev
<1>1. PICK c \in w[i].found \ w[i].locks :
        /\ w[i].pc = "lock" /\ c \notin Held
        /\ w' = [w EXCEPT ![i].locks = w[i].locks \cup {c},
                          ![i].pc = IF w[i].locks \cup {c} # w[i].found THEN "lock"
                                    ELSE IF IsPurge(e) THEN "write" ELSE "check"]
        /\ SearchUnchanged /\ UNCHANGED <<status, attempts, crashes, r>>
  BY DEF LockContent
<1> DEFINE locks == w[i].locks \cup {c}
           place == IF locks # w[i].found THEN "lock" ELSE IF IsPurge(e) THEN "write" ELSE "check"
           new == [w[i] EXCEPT !.locks = locks, !.pc = place]
<1>2. w \in [Workers -> WorkerType] /\ e \in Ids /\ w[i].found \subseteq Named
  BY <1>1 DEF Inductive, TypeOK, WorkerType, WorkersCorrect, WorkerCorrect
<1>3. w' = [w EXCEPT ![i] = new] /\ locks \subseteq Named
  BY <1>1, <1>2 DEF WorkerType
<1>4. /\ new \in WorkerType /\ new.locks = locks /\ new.ev = e /\ new.found = w[i].found
      /\ new.pc = place /\ place \in {"lock", "write", "check"}
  BY <1>2, <1>3 DEF WorkerType
<1> HIDE DEF new
<1>5. w'[i] = new /\ w' \in [Workers -> WorkerType] /\ \A j \in Workers \ {i} : w'[j] = w[j]
  BY <1>2, <1>3, <1>4
<1>6. TypeOK'
  <2>1. SearchUnchanged /\ UNCHANGED <<status, attempts, crashes, r>>
    BY <1>1
  <2> QED BY <1>5, <2>1 DEF TypeOK, WorkerType, Inductive, SearchUnchanged, IsIndex
<1>7. place # "lock" => w[i].found \subseteq locks
  OBVIOUS
<1>8. /\ place = "write" => IsPurge(e)
      /\ place = "check" => ~IsPurge(e)
  OBVIOUS
<1> HIDE DEF place
<1>9. WorkerCorrect(i)'
  <2>1. CASE IsPurge(e)
    BY <2>1, <1>1, <1>2, <1>4, <1>5, <1>7, <1>8
       DEF Inductive, WorkersCorrect, WorkerCorrect, Purging, IsPurge, SearchUnchanged
  <2>2. CASE ~IsPurge(e)
    <3>1. Indexing(i) /\ tomb' = tomb
      BY <2>2, <1>1 DEF Inductive, WorkersCorrect, WorkerCorrect, SearchUnchanged
    <3>2. Indexing(i)'
      BY <2>2, <3>1, <1>1, <1>4, <1>5, <1>7, <1>8 DEF Indexing, Indexed, Wanted
    <3> QED BY <2>2, <3>2, <1>2, <1>4, <1>5 DEF WorkerCorrect, IsPurge
  <2> QED BY <2>1, <2>2
<1>10. ASSUME NEW j \in Workers \ {i} PROVE w'[j] = w[j] /\ w'[i].locks \cap w[j].locks = {}
  <2>1. c \notin w[j].locks /\ w[i].locks \cap w[j].locks = {}
    BY <1>1 DEF Held, Inductive, LocksExclusive
  <2> QED BY <2>1, <1>4, <1>5
<1> QED BY <1>1, <1>6, <1>9, <1>10, RunningMeansLive, QuietStep

LEMMA RecheckSafe ==
  ASSUME Inductive, NEW i \in Workers, RecheckTombstones(i)
  PROVE  Inductive'
<1> DEFINE e == w[i].ev
           cs == w[i].found \ tomb
           new == [w[i] EXCEPT !.found = cs, !.pc = "write"]
<1>1. /\ w[i].pc = "check" /\ w' = [w EXCEPT ![i] = new]
      /\ SearchUnchanged /\ UNCHANGED <<status, attempts, crashes, r>>
  BY DEF RecheckTombstones, Rechecked
<1>2. w \in [Workers -> WorkerType] /\ e \in Ids /\ ~IsPurge(e) /\ Indexing(i)
  BY <1>1 DEF Inductive, TypeOK, WorkerType, WorkersCorrect, WorkerCorrect, Purging
<1>3. new \in WorkerType /\ new.locks = w[i].locks /\ new.ev = e /\ new.found = cs /\ new.pc = "write"
  BY <1>2 DEF WorkerType
<1> HIDE DEF new
<1>4. w'[i] = new /\ w' \in [Workers -> WorkerType] /\ \A j \in Workers \ {i} : w'[j] = w[j]
  BY <1>1, <1>2, <1>3
<1>5. TypeOK'
  BY <1>1, <1>4 DEF TypeOK, WorkerType, Inductive, SearchUnchanged, IsIndex
<1>6. WorkerCorrect(i)'
  <2>1. Indexing(i)'
    BY <1>1, <1>2, <1>3, <1>4 DEF Indexing, Indexed, Wanted, SearchUnchanged
  <2> QED BY <2>1, <1>2, <1>3, <1>4 DEF WorkerCorrect, IsPurge
<1>7. \A j \in Workers \ {i} : w'[j] = w[j] /\ w'[i].locks \cap w[j].locks = {}
  BY <1>3, <1>4 DEF Inductive, LocksExclusive
<1> QED BY <1>1, <1>5, <1>6, <1>7, RunningMeansLive, QuietStep

\* The transaction that writes the rows.
LEMMA WriteDocumentsSafe ==
  ASSUME Inductive, NEW i \in Workers, WriteDocuments(i)
  PROVE  Inductive'
<1> DEFINE e == w[i].ev
           cs == w[i].found
           place == IF cs = {} \/ ~Embeds THEN "deliver" ELSE "graph"
           new == [w[i] EXCEPT !.locks = {}, !.pc = place]
<1>1. CASE Fail(i)
  BY <1>1, FailSafe DEF WriteDocuments
<1>2. CASE ~Fail(i)
  <2>1. /\ w[i].pc = "write" /\ ~IsPurge(e) /\ ~Conflict(docs, e, cs)
        /\ docs' = Upsert(docs, e, cs) /\ w' = [w EXCEPT ![i] = new]
        /\ UNCHANGED <<status, attempts, crashes, tomb, nodes, standby, lost, r>>
    BY <1>2 DEF WriteDocuments
  <2>2. w \in [Workers -> WorkerType] /\ e \in Ids /\ Indexing(i)
    BY <2>1 DEF Inductive, TypeOK, WorkerType, WorkersCorrect, WorkerCorrect
  <2>3. /\ cs \in SUBSET Refs(e) /\ Indexed(e, tomb) \subseteq cs /\ cs \cap tomb = {}
        /\ Events[e].scope # NoScope
    BY <2>1, <2>2 DEF Indexing
  <2>4. new \in WorkerType /\ new.locks = {} /\ new.ev = e /\ new.found = cs /\ new.pc = place
    BY <2>2 DEF WorkerType
  <2> HIDE DEF new
  <2>5. w'[i] = new /\ w' \in [Workers -> WorkerType] /\ \A j \in Workers \ {i} : w'[j] = w[j]
    BY <2>1, <2>2, <2>4
  <2>6. IsIndex(docs) /\ Describes(docs) /\ PurgedStaysPurged /\ NodesFollowRows
    BY DEF Inductive, TypeOK
  <2>7. Upserted(docs, e, cs, docs') /\ Describes(docs')
    BY <2>1, <2>2, <2>3, <2>6, UpsertIs, UpsertDescribes
  <2>8. /\ IsIndex(docs') /\ DOMAIN docs' = DOMAIN docs \cup cs
        /\ \A c \in DOMAIN docs : docs[c].sources \subseteq docs'[c].sources
        /\ \A c \in cs : e \in docs'[c].sources
    BY <2>7 DEF Upserted
  <2>9. TypeOK'
    <3>1. IsIndex(nodes)' /\ IsIndex(standby)' /\ IsIndex(docs)'
      BY <2>1, <2>8 DEF Inductive, TypeOK, IsIndex
    <3>2. UNCHANGED <<status, attempts, crashes, tomb, lost, r>>
      BY <2>1
    <3> QED BY <3>1, <3>2, <2>5 DEF TypeOK, WorkerType, Inductive
  <2>10. RowsKept
    BY <2>1, <2>8 DEF RowsKept, InRow, InNode
  <2>11. Describes(docs)' /\ Describes(nodes)'
    BY <2>1, <2>7 DEF Describes, Inductive
  <2>12. PurgedStaysPurged' /\ NodesFollowRows'
    BY <2>1, <2>3, <2>6, <2>8 DEF PurgedStaysPurged, NodesFollowRows
  <2>13. WorkerCorrect(i)'
    <3>1. \A c \in cs : c \in DOMAIN docs' /\ e \in docs'[c].sources
      BY <2>8
    <3>2. Indexed(e, tomb') \subseteq cs
      BY <2>1, <2>3
    <3>3. place = "graph" => Embeds
      OBVIOUS
    <3>4. place = "deliver" => Indexed(e, tomb') = {} \/ ~Embeds
      BY <3>2
    <3>5. place \in {"graph", "deliver"}
      OBVIOUS
    <3> HIDE DEF place, cs
    <3>6. w'[i].ev = e /\ w'[i].found = cs /\ w'[i].pc = place
      BY <2>4, <2>5
    <3>7. Indexing(i)'
      BY <2>3, <3>1, <3>2, <3>3, <3>4, <3>5, <3>6 DEF Indexing, Indexed, Wanted, Searchable, InRow
    <3> QED BY <2>1, <2>2, <3>6, <3>7 DEF WorkerCorrect, IsPurge
  <2>14. ASSUME NEW j \in Workers \ {i}
         PROVE  /\ w'[j] = w[j] /\ w'[i].locks \cap w[j].locks = {}
                /\ w[j].pc = "write" /\ ~IsPurge(w[j].ev) => w[j].found \cap tomb' = {}
    BY <2>1, <2>4, <2>5 DEF Inductive, WorkersCorrect, WorkerCorrect, Indexing
  <2> QED BY <2>1, <2>9, <2>10, <2>11, <2>12, <2>13, <2>14, RunningMeansLive, WorkerStep
<1> QED BY <1>1, <1>2

\* The transaction of a purge: an index that has checked its contents holds
\* their locks, so the purge does not overlap it.
LEMMA WriteTombstonesSafe ==
  ASSUME Inductive, NEW i \in Workers, WriteTombstones(i)
  PROVE  Inductive'
<1> DEFINE e == w[i].ev
           cs == w[i].found
           new == [w[i] EXCEPT !.locks = {}, !.pc = "graph"]
<1>1. /\ w[i].pc = "write" /\ IsPurge(e)
      /\ tomb' = tomb \cup cs /\ docs' = Without(docs, cs) /\ w' = [w EXCEPT ![i] = new]
      /\ UNCHANGED <<status, attempts, crashes, nodes, standby, lost, r>>
  BY DEF WriteTombstones
<1>2. w \in [Workers -> WorkerType] /\ e \in Ids /\ Purging(i)
  BY <1>1 DEF Inductive, TypeOK, WorkerType, WorkersCorrect, WorkerCorrect
<1>3. cs = Events[e].purges /\ cs \subseteq LedgerPurges /\ cs \subseteq w[i].locks
  BY <1>1, <1>2, NamedContents DEF Purging
<1>4. new \in WorkerType /\ new.locks = {} /\ new.ev = e /\ new.found = cs /\ new.pc = "graph"
  BY <1>2 DEF WorkerType
<1> HIDE DEF new
<1>5. w'[i] = new /\ w' \in [Workers -> WorkerType] /\ \A j \in Workers \ {i} : w'[j] = w[j]
  BY <1>1, <1>2, <1>4
<1>6. IsIndex(docs) /\ Describes(docs) /\ PurgedStaysPurged /\ NodesFollowRows
  BY DEF Inductive, TypeOK
<1>7. /\ IsIndex(docs') /\ DOMAIN docs' = DOMAIN docs \ cs /\ Describes(docs')
      /\ \A c \in DOMAIN docs : c \notin cs => docs'[c] = docs[c]
  <2>1. IsIndex(Without(docs, cs)) /\ DOMAIN Without(docs, cs) = DOMAIN docs \ cs
    BY <1>6, WithoutIs
  <2>2. Describes(Without(docs, cs))
    BY <1>6, WithoutIs
  <2>3. \A c \in DOMAIN docs : c \notin cs => Without(docs, cs)[c] = docs[c]
    BY <1>6, WithoutIs
  <2> QED BY <1>1, <2>1, <2>2, <2>3
<1>8. TypeOK'
  <2>1. IsIndex(nodes)' /\ IsIndex(standby)' /\ IsIndex(docs)'
    BY <1>1, <1>7 DEF Inductive, TypeOK, IsIndex
  <2>2. UNCHANGED <<status, attempts, crashes, lost, r>> /\ tomb' \subseteq LedgerPurges
    BY <1>1, <1>3 DEF Inductive, TypeOK
  <2> QED BY <2>1, <2>2, <1>5 DEF TypeOK, WorkerType, Inductive
<1>9. RowsKept
  BY <1>1, <1>7 DEF RowsKept, InRow, InNode
<1>10. Describes(docs)' /\ Describes(nodes)'
  BY <1>1, <1>7 DEF Describes, Inductive
<1>11. PurgedStaysPurged' /\ NodesFollowRows'
  BY <1>1, <1>6, <1>7 DEF PurgedStaysPurged, NodesFollowRows
<1>12. WorkerCorrect(i)'
  BY <1>1, <1>2, <1>3, <1>4, <1>5 DEF WorkerCorrect, Purging, IsPurge
<1>13. ASSUME NEW j \in Workers \ {i}
       PROVE  /\ w'[j] = w[j] /\ w'[i].locks \cap w[j].locks = {}
              /\ w[j].pc = "write" /\ ~IsPurge(w[j].ev) => w[j].found \cap tomb' = {}
  <2>1. w[i].locks \cap w[j].locks = {}
    BY DEF Inductive, LocksExclusive
  <2>2. w[j].pc = "write" /\ ~IsPurge(w[j].ev) => w[j].found \subseteq w[j].locks /\ w[j].found \cap tomb = {}
    BY DEF Inductive, WorkersCorrect, WorkerCorrect, Indexing
  <2> QED BY <2>1, <2>2, <1>1, <1>3, <1>4, <1>5
<1> QED BY <1>1, <1>8, <1>9, <1>10, <1>11, <1>12, <1>13, RunningMeansLive, WorkerStep

\* The graph transactions of an index and of a purge.
LEMMA WriteGraphSafe ==
  ASSUME Inductive, NEW i \in Workers, WriteGraph(i)
  PROVE  Inductive'
<1> DEFINE e == w[i].ev
           cs == w[i].found
           new == [w[i] EXCEPT !.pc = "deliver"]
<1>1. CASE Fail(i)
  BY <1>1, FailSafe DEF WriteGraph
<1>2. CASE ~Fail(i)
  <2>1. /\ w[i].pc = "graph" /\ ~IsPurge(e) /\ ~Conflict(nodes, e, cs)
        /\ nodes' = Upsert(nodes, e, cs) /\ w' = [w EXCEPT ![i] = new]
        /\ UNCHANGED <<status, attempts, crashes, docs, tomb, standby, lost, r>>
    BY <1>2 DEF WriteGraph, GraphConflict, Step
  <2>2. w \in [Workers -> WorkerType] /\ e \in Ids /\ Indexing(i)
    BY <2>1 DEF Inductive, TypeOK, WorkerType, WorkersCorrect, WorkerCorrect
  <2>3. /\ cs \in SUBSET Refs(e) /\ Indexed(e, tomb) \subseteq cs /\ Indexed(e, tomb) \cap tomb = {}
        /\ \A c \in cs : c \notin tomb => InRow(e, c)
    BY <2>1, <2>2 DEF Indexing, Indexed, Wanted
  <2>4. new \in WorkerType /\ new.locks = w[i].locks /\ new.ev = e /\ new.found = cs /\ new.pc = "deliver"
    BY <2>2 DEF WorkerType
  <2> HIDE DEF new
  <2>5. w'[i] = new /\ w' \in [Workers -> WorkerType] /\ \A j \in Workers \ {i} : w'[j] = w[j]
    BY <2>1, <2>2, <2>4
  <2>6. IsIndex(nodes) /\ Describes(nodes) /\ PurgedStaysPurged /\ NodesFollowRows
    BY DEF Inductive, TypeOK
  <2>7. Upserted(nodes, e, cs, nodes') /\ Describes(nodes')
    BY <2>1, <2>2, <2>3, <2>6, UpsertIs, UpsertDescribes
  <2>8. /\ IsIndex(nodes') /\ DOMAIN nodes' = DOMAIN nodes \cup cs
        /\ \A c \in DOMAIN nodes : /\ nodes[c].sources \subseteq nodes'[c].sources
                                   /\ \A d \in nodes'[c].sources : d \in nodes[c].sources \/ d = e
                                   /\ c \notin cs => nodes'[c] = nodes[c]
        /\ \A c \in cs : e \in nodes'[c].sources /\ (c \notin DOMAIN nodes => nodes'[c] = Entry(e, c))
    BY <2>7 DEF Upserted
  <2>9. TypeOK'
    <3>1. IsIndex(nodes)' /\ IsIndex(standby)' /\ IsIndex(docs)'
      BY <2>1, <2>8 DEF Inductive, TypeOK, IsIndex
    <3>2. UNCHANGED <<status, attempts, crashes, tomb, lost, r>>
      BY <2>1
    <3> QED BY <3>1, <3>2, <2>5 DEF TypeOK, WorkerType, Inductive
  <2>10. RowsKept
    BY <2>1, <2>8 DEF RowsKept, InRow, InNode
  <2>11. Describes(docs)' /\ Describes(nodes)'
    BY <2>1, <2>7 DEF Describes, Inductive
  <2>12. NodesFollowRows'
    <3> SUFFICES ASSUME NEW c \in DOMAIN nodes', c \notin tomb
                 PROVE  c \in DOMAIN docs /\ nodes'[c].sources \subseteq docs[c].sources
      BY <2>1 DEF NodesFollowRows
    <3>1. CASE c \notin cs
      BY <3>1, <2>6, <2>8 DEF NodesFollowRows
    <3>2. CASE c \in cs /\ c \in DOMAIN nodes
      <4>1. c \in DOMAIN docs /\ e \in docs[c].sources /\ nodes[c].sources \subseteq docs[c].sources
        BY <3>2, <2>3, <2>6 DEF InRow, NodesFollowRows
      <4> QED BY <3>2, <4>1, <2>8
    <3>3. CASE c \in cs /\ c \notin DOMAIN nodes
      <4>1. nodes'[c] = Entry(e, c)
        BY <3>3, <2>8
      <4>2. Entry(e, c).sources = {e}
        BY DEF Entry
      <4>3. nodes'[c].sources = {e}
        BY <4>1, <4>2
      <4> QED BY <3>3, <4>3, <2>3 DEF InRow
    <3> QED BY <3>1, <3>2, <3>3
  <2>13. PurgedStaysPurged'
    BY <2>1, <2>6 DEF PurgedStaysPurged
  <2>14. WorkerCorrect(i)'
    <3>1. \A c \in Indexed(e, tomb) : /\ c \in DOMAIN docs' /\ e \in docs'[c].sources
                                      /\ c \in DOMAIN nodes' /\ e \in nodes'[c].sources
      BY <2>1, <2>3, <2>8 DEF InRow
    <3>2. w'[i].ev = e /\ w'[i].found = cs /\ w'[i].pc = "deliver" /\ Indexed(e, tomb') = Indexed(e, tomb)
      BY <2>1, <2>4, <2>5
    <3> HIDE DEF cs
    <3>3. Indexing(i)'
      BY <3>1, <3>2 DEF Indexing, Indexed, Wanted, Searchable, InRow, InNode
    <3> QED BY <2>1, <2>2, <3>2, <3>3 DEF WorkerCorrect, IsPurge
  <2>15. ASSUME NEW j \in Workers \ {i}
         PROVE  /\ w'[j] = w[j] /\ w'[i].locks \cap w[j].locks = {}
                /\ w[j].pc = "write" /\ ~IsPurge(w[j].ev) => w[j].found \cap tomb' = {}
    BY <2>1, <2>4, <2>5 DEF Inductive, LocksExclusive, WorkersCorrect, WorkerCorrect, Indexing
  <2> QED BY <2>1, <2>9, <2>10, <2>11, <2>12, <2>13, <2>14, <2>15, RunningMeansLive, WorkerStep
<1> QED BY <1>1, <1>2

LEMMA DeleteEmbeddingsSafe ==
  ASSUME Inductive, NEW i \in Workers, DeleteEmbeddings(i)
  PROVE  Inductive'
<1> DEFINE e == w[i].ev
           cs == w[i].found
           new == [w[i] EXCEPT !.pc = "deliver"]
<1>1. /\ w[i].pc = "graph" /\ IsPurge(e)
      /\ nodes' = Without(nodes, cs) /\ w' = [w EXCEPT ![i] = new]
      /\ UNCHANGED <<status, attempts, crashes, docs, tomb, standby, lost, r>>
  BY DEF DeleteEmbeddings, Step
<1>2. w \in [Workers -> WorkerType] /\ e \in Ids /\ Purging(i)
  BY <1>1 DEF Inductive, TypeOK, WorkerType, WorkersCorrect, WorkerCorrect
<1>3. cs = Events[e].purges /\ cs \subseteq tomb
  BY <1>1, <1>2 DEF Purging
<1>4. new \in WorkerType /\ new.locks = w[i].locks /\ new.ev = e /\ new.found = cs /\ new.pc = "deliver"
  BY <1>2 DEF WorkerType
<1> HIDE DEF new
<1>5. w'[i] = new /\ w' \in [Workers -> WorkerType] /\ \A j \in Workers \ {i} : w'[j] = w[j]
  BY <1>1, <1>2, <1>4
<1>6. IsIndex(nodes) /\ Describes(nodes) /\ PurgedStaysPurged /\ NodesFollowRows
  BY DEF Inductive, TypeOK
<1>7. /\ IsIndex(nodes') /\ DOMAIN nodes' = DOMAIN nodes \ cs /\ Describes(nodes')
      /\ \A c \in DOMAIN nodes : c \notin cs => nodes'[c] = nodes[c]
  <2>1. IsIndex(Without(nodes, cs)) /\ DOMAIN Without(nodes, cs) = DOMAIN nodes \ cs
    BY <1>6, WithoutIs
  <2>2. Describes(Without(nodes, cs))
    BY <1>6, WithoutIs
  <2>3. \A c \in DOMAIN nodes : c \notin cs => Without(nodes, cs)[c] = nodes[c]
    BY <1>6, WithoutIs
  <2> QED BY <1>1, <2>1, <2>2, <2>3
<1>8. TypeOK'
  <2>1. IsIndex(nodes)' /\ IsIndex(standby)' /\ IsIndex(docs)'
    BY <1>1, <1>7 DEF Inductive, TypeOK, IsIndex
  <2>2. UNCHANGED <<status, attempts, crashes, tomb, lost, r>>
    BY <1>1
  <2> QED BY <2>1, <2>2, <1>5 DEF TypeOK, WorkerType, Inductive
<1>9. RowsKept
  BY <1>1, <1>3, <1>7 DEF RowsKept, InRow, InNode
<1>10. Describes(docs)' /\ Describes(nodes)'
  BY <1>1, <1>7 DEF Describes, Inductive
<1>11. PurgedStaysPurged' /\ NodesFollowRows'
  BY <1>1, <1>6, <1>7 DEF PurgedStaysPurged, NodesFollowRows
<1>12. WorkerCorrect(i)'
  BY <1>1, <1>2, <1>3, <1>4, <1>5 DEF WorkerCorrect, Purging, IsPurge
<1>13. ASSUME NEW j \in Workers \ {i}
       PROVE  /\ w'[j] = w[j] /\ w'[i].locks \cap w[j].locks = {}
              /\ w[j].pc = "write" /\ ~IsPurge(w[j].ev) => w[j].found \cap tomb' = {}
  BY <1>1, <1>4, <1>5 DEF Inductive, LocksExclusive, WorkersCorrect, WorkerCorrect, Indexing
<1> QED BY <1>1, <1>8, <1>9, <1>10, <1>11, <1>12, <1>13, RunningMeansLive, WorkerStep

-----------------------------------------------------------------------------
\* The parts of the invariant that only speak of the live stores and workers.
Live == /\ Describes(docs) /\ Describes(nodes) /\ PurgedStaysPurged /\ NodesFollowRows
        /\ LocksExclusive /\ WorkersCorrect

LEMMA LiveKept ==
  ASSUME Inductive, UNCHANGED <<docs, nodes, tomb, w>>
  PROVE  Live'
<1>1. RowsKept
  BY DEF RowsKept, InRow, InNode
<1>2. WorkersCorrect'
  <2>1. ASSUME NEW j \in Workers PROVE WorkerCorrect(j)'
    <3>1. w[j].pc = "write" /\ ~IsPurge(w[j].ev) => w[j].found \cap tomb' = {}
      BY DEF Inductive, WorkersCorrect, WorkerCorrect, Indexing
    <3> QED BY <1>1, <3>1, OthersKeep DEF Inductive, WorkersCorrect
  <2> QED BY <2>1 DEF WorkersCorrect
<1> QED BY <1>2 DEF Live, Inductive, Describes, PurgedStaysPurged, NodesFollowRows, LocksExclusive

LEMMA LoseBytesSafe ==
  ASSUME Inductive, NEW c \in Contents, LoseBytes(c)
  PROVE  Inductive'
<1>1. /\ UNCHANGED <<docs, nodes, tomb, w, standby, status, attempts, crashes, r>>
      /\ r.pc \notin {"reset", "replay"}
  BY DEF LoseBytes, SearchUnchanged
<1>2. TypeOK'
  BY <1>1 DEF Inductive, TypeOK, IsIndex
<1>3. WorkersExcluded' /\ InPlaceCorrect' /\ StandbyCorrect' /\ StandbyHoldsNoPurged'
  BY <1>1 DEF Inductive, WorkersExcluded, InPlaceRuns, InPlaceCorrect, StandbyCorrect, StandbyHoldsNoPurged
<1>4. DeliveredIsSearchable'
  BY <1>1 DEF Inductive, DeliveredIsSearchable, InPlaceRuns, Indexed, Wanted, IsPurge
<1> QED BY <1>1, <1>2, <1>3, <1>4, LiveKept DEF Inductive, Live

-----------------------------------------------------------------------------
\* The steps of the rebuild.
RebuildType == [pc : {"off", "refused", "reset", "replay", "failed"},
                mode : {"in_place", "standby"}, at : Ids \cup {0}, purges : SUBSET LedgerPurges]

LEMMA BeginSafe ==
  ASSUME SearchAssumption, Inductive, NEW mode \in Modes, Begin(mode)
  PROVE  Inductive'
<1>1. /\ UNCHANGED <<status, attempts, crashes, docs, tomb, nodes, lost, w>>
      /\ r.pc = "off" /\ mode \in {"in_place", "standby"}
      /\ mode = "in_place" => \A i \in Workers : w[i].pc = "idle"
      /\ standby' = Empty \/ standby' = standby
  BY DEF Begin, SearchAssumption
<1> DEFINE pc == IF mode = "standby" THEN "replay" ELSE IF CheckReplay THEN "reset" ELSE "refused"
           new == [pc |-> pc, mode |-> mode, at |-> 0, purges |-> Seeded(mode)]
<1>2. r' = new
  BY DEF Begin
<1>3. /\ new \in RebuildType /\ new.pc = pc /\ new.mode = mode /\ new.at = 0
      /\ new.purges = Seeded(mode)
  BY <1>1 DEF RebuildType, Seeded
<1> HIDE DEF new
<1>4. CheckReplay' = CheckReplay
  BY <1>1 DEF CheckReplay, MustFail, Indexed, Wanted
<1>5. TypeOK'
  <2>1. IsIndex(Empty) /\ IsIndex(docs)' /\ IsIndex(nodes)' /\ IsIndex(standby)
    BY <1>1 DEF IsIndex, Empty, Inductive, TypeOK
  <2>2. IsIndex(standby)'
    BY <1>1, <2>1 DEF IsIndex
  <2> QED BY <1>1, <1>2, <1>3, <2>1, <2>2 DEF Inductive, TypeOK, RebuildType
<1>6. WorkersExcluded'
  BY <1>1, <1>2, <1>3 DEF WorkersExcluded, InPlaceRuns
<1>7. InPlaceCorrect'
  BY <1>1, <1>2, <1>3, <1>4 DEF InPlaceCorrect, Seeded
<1>8. StandbyCorrect'
  BY <1>1, <1>2, <1>3 DEF StandbyCorrect, Seeded
<1>9. DeliveredIsSearchable'
  BY <1>1 DEF Inductive, DeliveredIsSearchable, InPlaceRuns, Indexed, Wanted, IsPurge
<1>10. StandbyHoldsNoPurged'
  BY <1>1 DEF Inductive, StandbyHoldsNoPurged, Empty
<1> QED BY <1>1, <1>5, <1>6, <1>7, <1>8, <1>9, <1>10, LiveKept DEF Inductive, Live

\* While the index is rewritten no worker runs and none is left half done.
LEMMA IdleCorrect ==
  ASSUME Inductive, InPlaceRuns, w' = w
  PROVE  WorkersCorrect' /\ LocksExclusive' /\ (\A i \in Workers : w'[i].pc = "idle")
BY DEF Inductive, WorkersExcluded, WorkersCorrect, WorkerCorrect, LocksExclusive

LEMMA ResetSafe ==
  ASSUME SearchAssumption, Inductive, Reset
  PROVE  Inductive'
<1>1. /\ docs' = Empty /\ tomb' = LedgerPurges /\ nodes' = Empty
      /\ UNCHANGED <<status, attempts, crashes, standby, lost, w>>
      /\ r.pc = "reset" /\ r' = [r EXCEPT !.pc = "replay"]
  BY DEF Reset
<1>2. r \in RebuildType
  BY DEF Inductive, TypeOK, RebuildType
<1>3. r.mode = "in_place" /\ InPlaceRuns /\ CheckReplay /\ r.purges = {} /\ r.at = 0
  BY <1>1, <1>2 DEF Inductive, StandbyCorrect, InPlaceCorrect, InPlaceRuns, RebuildType
<1>4. /\ r' \in RebuildType /\ r'.pc = "replay" /\ r'.mode = "in_place" /\ r'.at = 0 /\ r'.purges = {}
  BY <1>1, <1>2, <1>3 DEF RebuildType
<1>5. TypeOK'
  <2>1. IsIndex(Empty) /\ IsIndex(standby)'
    BY <1>1 DEF IsIndex, Empty, Inductive, TypeOK
  <2> QED BY <1>1, <1>4, <2>1 DEF Inductive, TypeOK, RebuildType, IsIndex
<1>6. Describes(docs)' /\ Describes(nodes)' /\ PurgedStaysPurged' /\ NodesFollowRows'
      /\ FromChecked(docs)' /\ FromChecked(nodes)'
  BY <1>1 DEF Describes, PurgedStaysPurged, NodesFollowRows, FromChecked, Empty
<1>7. WorkersCorrect' /\ LocksExclusive' /\ WorkersExcluded'
  BY <1>1, <1>3, IdleCorrect DEF WorkersExcluded
<1>8. CheckReplay'
  BY <1>1, <1>3 DEF CheckReplay, MustFail, Indexed, Wanted
<1>9. ~ \E e \in Ids : e <= 0
  BY DEF SearchAssumption
<1>10. InPlaceCorrect'
  BY <1>1, <1>4, <1>6, <1>8, <1>9 DEF InPlaceCorrect
<1>11. StandbyCorrect' /\ DeliveredIsSearchable' /\ StandbyHoldsNoPurged'
  BY <1>1, <1>4 DEF StandbyCorrect, DeliveredIsSearchable, InPlaceRuns, Inductive, StandbyHoldsNoPurged
<1> QED BY <1>5, <1>6, <1>7, <1>10, <1>11 DEF Inductive

\* What the replay of an event leaves of a store and adds to it.
ReplayedTo(f, e, cs, g) ==
  /\ IsIndex(g) /\ Describes(g)
  /\ \A c \in cs : c \in DOMAIN g /\ e \in g[c].sources
  /\ \A c \in DOMAIN f : c \notin Events[e].purges => c \in DOMAIN g /\ f[c].sources \subseteq g[c].sources
  /\ \A c \in DOMAIN g : \A d \in g[c].sources : (d = e /\ c \in cs) \/ (c \in DOMAIN f /\ d \in f[c].sources)
  /\ \A c \in DOMAIN g : c \in cs \/ c \in DOMAIN f

LEMMA ReplayedIs ==
  ASSUME NEW f, IsIndex(f), Describes(f), NEW e \in Ids, NEW cs \in SUBSET Refs(e), NEW g,
         \/ IsPurge(e) /\ cs = {} /\ g = Without(f, Events[e].purges)
         \/ ~Conflict(f, e, cs) /\ g = Upsert(f, e, cs)
         \/ cs = {} /\ g = f
  PROVE  ReplayedTo(f, e, cs, g)
<1>1. CASE cs = {} /\ g = f
  BY <1>1 DEF ReplayedTo
<1>2. CASE cs = {} /\ g = Without(f, Events[e].purges)
  <2> DEFINE ps == Events[e].purges
  <2>1. IsIndex(Without(f, ps)) /\ DOMAIN Without(f, ps) = DOMAIN f \ ps
    BY WithoutIs
  <2>2. Describes(Without(f, ps))
    BY WithoutIs
  <2>3. \A c \in DOMAIN f : c \notin ps => Without(f, ps)[c] = f[c]
    BY WithoutIs
  <2>4. IsIndex(g) /\ Describes(g) /\ DOMAIN g = DOMAIN f \ ps
        /\ \A c \in DOMAIN f : c \notin ps => g[c] = f[c]
    BY <1>2, <2>1, <2>2, <2>3
  <2> QED BY <1>2, <2>4 DEF ReplayedTo
<1>3. CASE ~Conflict(f, e, cs) /\ g = Upsert(f, e, cs)
  <2>1. Upserted(f, e, cs, g) /\ Describes(g)
    BY <1>3, UpsertIs, UpsertDescribes
  <2>2. /\ IsIndex(g) /\ DOMAIN g = DOMAIN f \cup cs
        /\ \A c \in DOMAIN f : /\ f[c].sources \subseteq g[c].sources
                               /\ \A d \in g[c].sources : d \in f[c].sources \/ d = e
                               /\ c \notin cs => g[c] = f[c]
        /\ \A c \in cs : e \in g[c].sources /\ (c \notin DOMAIN f => g[c] = Entry(e, c))
    BY <2>1 DEF Upserted
  <2>3. \A c \in cs : c \notin DOMAIN f => g[c].sources = {e}
    <3>1. \A c \in cs : Entry(e, c).sources = {e}
      BY DEF Entry
    <3> QED BY <2>2, <3>1
  <2>4. ASSUME NEW c \in DOMAIN g, NEW d \in g[c].sources
        PROVE  (d = e /\ c \in cs) \/ (c \in DOMAIN f /\ d \in f[c].sources)
    BY <2>2, <2>3
  <2> QED BY <2>1, <2>2, <2>4 DEF ReplayedTo
<1> QED BY <1>1, <1>2, <1>3

LEMMA WantsAreRefs ==
  ASSUME NEW e \in Ids
  PROVE  /\ ReplayWants(e) \subseteq Refs(e)
         /\ ReplayWants(e) \cap (tomb \cup r.purges) = {}
         /\ IsPurge(e) => ReplayWants(e) = {}
         /\ Events[e].scope = NoScope => ReplayWants(e) = {}
BY DEF ReplayWants, Indexed, Wanted

LEMMA StandbyEventSafe ==
  ASSUME Inductive, NEW e \in Ids, ReplayEvent(e), r.mode = "standby"
  PROVE  Inductive'
<1> DEFINE cs == IF Embeds THEN ReplayWants(e) ELSE {}
<1>1. /\ UNCHANGED <<status, attempts, crashes, docs, tomb, nodes, lost, w>>
      /\ r.pc = "replay" /\ ~ReplayFails(e) /\ standby' = Replayed(standby, e)
      /\ r' = [r EXCEPT !.at = e, !.purges = r.purges \cup Events[e].purges]
  BY DEF ReplayEvent
<1>2. r \in RebuildType /\ LedgerPurges \subseteq r.purges /\ Events[e].purges \subseteq LedgerPurges
  BY <1>1, NamedContents DEF Inductive, TypeOK, RebuildType, StandbyCorrect
<1>3. r' \in RebuildType /\ r'.pc = "replay" /\ r'.mode = "standby" /\ LedgerPurges \subseteq r'.purges
  BY <1>1, <1>2 DEF RebuildType
<1>4. IsIndex(standby') /\ DOMAIN standby' \subseteq DOMAIN standby \cup cs
  <2>1. IsIndex(standby) /\ ReplayWants(e) \in SUBSET Refs(e)
    BY WantsAreRefs DEF Inductive, TypeOK
  <2>2. CASE IsPurge(e)
    <3>1. standby' = Without(standby, Events[e].purges)
      BY <1>1, <2>2 DEF Replayed
    <3>2. IsIndex(Without(standby, Events[e].purges))
      BY <2>1, WithoutIs
    <3>3. DOMAIN Without(standby, Events[e].purges) = DOMAIN standby \ Events[e].purges
      BY <2>1, WithoutIs
    <3> QED BY <3>1, <3>2, <3>3
  <2>3. CASE ~IsPurge(e) /\ Embeds
    <3>1. standby' = Upsert(standby, e, ReplayWants(e))
      BY <1>1, <2>3 DEF Replayed
    <3>2. Upserted(standby, e, ReplayWants(e), standby')
      BY <2>1, <3>1, UpsertIs
    <3> QED BY <2>3, <3>2 DEF Upserted
  <2>4. CASE ~IsPurge(e) /\ ~Embeds
    BY <1>1, <2>1, <2>4 DEF Replayed
  <2> QED BY <2>2, <2>3, <2>4
<1>5. TypeOK'
  <2>1. IsIndex(standby)' /\ IsIndex(docs)' /\ IsIndex(nodes)'
    BY <1>1, <1>4 DEF Inductive, TypeOK, IsIndex
  <2> QED BY <1>1, <1>3, <2>1 DEF Inductive, TypeOK, RebuildType
<1>6. StandbyHoldsNoPurged'
  BY <1>2, <1>4, WantsAreRefs DEF Inductive, StandbyHoldsNoPurged
<1>7. WorkersExcluded' /\ InPlaceCorrect' /\ StandbyCorrect'
  BY <1>3 DEF WorkersExcluded, InPlaceRuns, InPlaceCorrect, StandbyCorrect
<1>8. DeliveredIsSearchable'
  BY <1>1 DEF Inductive, DeliveredIsSearchable, InPlaceRuns, Indexed, Wanted, IsPurge
<1> QED BY <1>1, <1>5, <1>6, <1>7, <1>8, LiveKept DEF Inductive, Live

\* The replay of an event into a store keeps it within what the check read.
LEMMA ReplayedFromChecked ==
  ASSUME NEW f, NEW g, NEW e \in Ids, NEW cs, ReplayedTo(f, e, cs, g), FromChecked(f),
         \A c \in cs : Checked(e) /\ c \in Indexed(e, LedgerPurges)
  PROVE  FromChecked(g)
BY DEF ReplayedTo, FromChecked

LEMMA InPlaceEventSafe ==
  ASSUME SearchAssumption, Inductive, NEW e \in Ids, ReplayEvent(e), r.mode = "in_place"
  PROVE  Inductive'
<1> DEFINE rows == ReplayWants(e)
           vectors == IF Embeds THEN rows ELSE {}
           ps == Events[e].purges
<1>1. /\ UNCHANGED <<status, attempts, crashes, standby, lost, w>>
      /\ r.pc = "replay" /\ ~ReplayFails(e) /\ e \in Left /\ \A d \in Left : e <= d
      /\ docs' = IF IsPurge(e) THEN Without(docs, ps) ELSE Upsert(docs, e, rows)
      /\ tomb' = tomb \cup ps /\ nodes' = Replayed(nodes, e)
      /\ r' = [r EXCEPT !.at = e, !.purges = r.purges]
  BY DEF ReplayEvent
<1>2. /\ r \in RebuildType /\ CheckReplay /\ r.purges = {} /\ tomb = LedgerPurges
      /\ FromChecked(docs) /\ FromChecked(nodes) /\ InPlaceRuns
      /\ \A d \in Ids : Checked(d) /\ ~IsPurge(d) /\ d <= r.at =>
           \A c \in Indexed(d, tomb) : Searchable(d, c)
  BY <1>1 DEF Inductive, TypeOK, RebuildType, InPlaceCorrect, InPlaceRuns
<1>3. /\ r' \in RebuildType /\ r'.pc = "replay" /\ r'.mode = "in_place" /\ r'.purges = {} /\ r'.at = e
  BY <1>1, <1>2 DEF RebuildType
<1>4. tomb' = LedgerPurges /\ tomb' = tomb
  BY <1>1, <1>2, NamedContents
<1>5. /\ rows \in SUBSET Refs(e) /\ rows \cap LedgerPurges = {} /\ vectors \subseteq rows
      /\ IsPurge(e) => rows = {}
      /\ Events[e].scope = NoScope => rows = {}
  BY <1>2, WantsAreRefs
<1>6. Events[e].scope # NoScope /\ ~IsPurge(e) => rows = Indexed(e, LedgerPurges)
  <2>1. tomb \cup r.purges = LedgerPurges
    BY <1>2
  <2> QED BY <2>1 DEF ReplayWants
<1>7. status[e] = "delivered"
  BY <1>1 DEF Left
<1>8. \A c \in rows : Checked(e) /\ c \in Indexed(e, LedgerPurges)
  BY <1>5, <1>6, <1>7 DEF Checked
<1>9. ~Conflict(docs, e, rows) /\ (Embeds => ~Conflict(nodes, e, rows))
  BY <1>1 DEF ReplayFails, GraphConflict
<1>10. /\ IsIndex(docs) /\ Describes(docs) /\ IsIndex(nodes) /\ Describes(nodes)
       /\ PurgedStaysPurged /\ NodesFollowRows
  BY DEF Inductive, TypeOK
<1> HIDE DEF rows
<1>11. ReplayedTo(docs, e, rows, docs')
  <2>1. CASE IsPurge(e)
    BY <2>1, <1>1, <1>5, <1>10, ReplayedIs
  <2>2. CASE ~IsPurge(e)
    BY <2>2, <1>1, <1>5, <1>9, <1>10, ReplayedIs
  <2> QED BY <2>1, <2>2
<1>12. ReplayedTo(nodes, e, vectors, nodes')
  <2>1. CASE IsPurge(e)
    <3>1. nodes' = Without(nodes, ps) /\ vectors = {}
      BY <2>1, <1>1, <1>5 DEF Replayed
    <3>2. vectors \in SUBSET Refs(e)
      BY <3>1
    <3> QED BY <2>1, <3>1, <3>2, <1>10, ReplayedIs
  <2>2. CASE ~IsPurge(e) /\ Embeds
    <3>1. nodes' = Upsert(nodes, e, rows) /\ vectors = rows
      BY <2>2, <1>1 DEF Replayed, rows
    <3> QED BY <2>2, <3>1, <1>5, <1>9, <1>10, ReplayedIs
  <2>3. CASE ~IsPurge(e) /\ ~Embeds
    <3>1. nodes' = nodes /\ vectors = {}
      BY <2>3, <1>1 DEF Replayed
    <3>2. vectors \in SUBSET Refs(e)
      BY <3>1
    <3> QED BY <3>1, <3>2, <1>10, ReplayedIs
  <2> QED BY <2>1, <2>2, <2>3
<1> HIDE DEF vectors
<1>13. FromChecked(docs') /\ FromChecked(nodes')
  <2>1. \A c \in vectors : Checked(e) /\ c \in Indexed(e, LedgerPurges)
    BY <1>5, <1>8
  <2>2. FromChecked(docs')
    BY <1>2, <1>8, <1>11, ReplayedFromChecked
  <2>3. FromChecked(nodes')
    BY <1>2, <2>1, <1>12, ReplayedFromChecked
  <2> QED BY <2>2, <2>3
<1>14. Checked(e)' = Checked(e) /\ (\A d \in Ids : Checked(d)' = Checked(d)) /\ CheckReplay'
  BY <1>1, <1>2 DEF Checked, CheckReplay, MustFail, Indexed, Wanted
<1>15. FromChecked(docs)' /\ FromChecked(nodes)'
  BY <1>13, <1>14, <1>10, <1>1 DEF FromChecked, Checked
<1>16. /\ \A c \in rows : c \in DOMAIN docs' /\ e \in docs'[c].sources
       /\ \A c \in DOMAIN docs : c \notin ps => c \in DOMAIN docs' /\ docs[c].sources \subseteq docs'[c].sources
       /\ \A c \in DOMAIN docs' : c \in rows \/ c \in DOMAIN docs
       /\ IsIndex(docs') /\ Describes(docs')
  BY <1>11 DEF ReplayedTo
<1>17. /\ \A c \in vectors : c \in DOMAIN nodes' /\ e \in nodes'[c].sources
       /\ \A c \in DOMAIN nodes : c \notin ps => c \in DOMAIN nodes' /\ nodes[c].sources \subseteq nodes'[c].sources
       /\ \A c \in DOMAIN nodes' : c \in vectors \/ c \in DOMAIN nodes
       /\ \A c \in DOMAIN nodes' : \A d \in nodes'[c].sources :
            (d = e /\ c \in vectors) \/ (c \in DOMAIN nodes /\ d \in nodes[c].sources)
       /\ IsIndex(nodes') /\ Describes(nodes')
  BY <1>12 DEF ReplayedTo
<1>18. TypeOK'
  <2>1. IsIndex(standby)' /\ IsIndex(docs)' /\ IsIndex(nodes)'
    BY <1>1, <1>16, <1>17 DEF Inductive, TypeOK, IsIndex
  <2>2. tomb' \subseteq LedgerPurges
    BY <1>4
  <2> QED BY <1>1, <1>3, <2>1, <2>2 DEF Inductive, TypeOK, RebuildType
<1>19. Describes(docs)' /\ Describes(nodes)'
  BY <1>16, <1>17 DEF Describes
<1>20. PurgedStaysPurged'
  BY <1>2, <1>4, <1>5, <1>10, <1>16 DEF PurgedStaysPurged
<1>21. NodesFollowRows'
  <2> SUFFICES ASSUME NEW c \in DOMAIN nodes', c \notin tomb'
               PROVE  c \in DOMAIN docs' /\ nodes'[c].sources \subseteq docs'[c].sources
    BY DEF NodesFollowRows
  <2>1. c \notin ps /\ c \notin tomb
    BY <1>1
  <2>2. c \in DOMAIN nodes => c \in DOMAIN docs /\ nodes[c].sources \subseteq docs[c].sources
    BY <2>1, <1>10 DEF NodesFollowRows
  <2>3. c \in DOMAIN docs'
    BY <2>1, <2>2, <1>5, <1>16, <1>17
  <2>4. ASSUME NEW d \in nodes'[c].sources PROVE d \in docs'[c].sources
    <3>1. (d = e /\ c \in vectors) \/ (c \in DOMAIN nodes /\ d \in nodes[c].sources)
      BY <1>17
    <3> QED BY <3>1, <2>1, <2>2, <1>5, <1>16
  <2> QED BY <2>3, <2>4
<1>22. WorkersCorrect' /\ LocksExclusive' /\ WorkersExcluded'
  BY <1>1, <1>2, IdleCorrect DEF WorkersExcluded
<1>23. ASSUME NEW d \in Ids, Checked(d), ~IsPurge(d), d <= e, NEW c \in Indexed(d, LedgerPurges)
       PROVE  Searchable(d, c)'
  <2>1. c \notin ps /\ c \notin LedgerPurges
    BY NamedContents DEF Indexed, Wanted
  <2>2. CASE d = e
    <3>1. c \in rows
      BY <2>2, <1>6, <1>23 DEF Checked
    <3>2. Embeds => c \in vectors
      BY <3>1 DEF vectors
    <3> QED BY <2>2, <3>1, <3>2, <1>16, <1>17 DEF Searchable, InRow, InNode
  <2>3. CASE d # e
    <3>1. e \in Nat /\ d \in Nat /\ r.at \in Nat
      <4>1. r.at \in Ids \cup {0}
        BY <1>2 DEF RebuildType
      <4>2. Ids \subseteq Nat
        BY DEF SearchAssumption
      <4>3. r.at \in Nat
        <5>1. CASE r.at \in Ids
          BY <4>2, <5>1
        <5>2. CASE r.at = 0
          BY <5>2
        <5> QED BY <4>1, <5>1, <5>2
      <4>4. e \in Nat
        BY <4>2
      <4>5. d \in Nat
        BY <4>2
      <4> QED BY <4>3, <4>4, <4>5
    <3>2. d <= r.at
      <4>1. ~(e <= d)
        BY <3>1, <2>3, <1>23
      <4>2. d \notin Left
        BY <4>1, <1>1
      <4>3. ~(d > r.at)
        BY <4>2, <1>23 DEF Left, Checked
      <4> QED BY <3>1, <4>3
    <3>3. Searchable(d, c)
      BY <3>2, <1>2, <1>23
    <3> QED BY <2>1, <3>3, <1>16, <1>17 DEF Searchable, InRow, InNode
  <2> QED BY <2>2, <2>3
<1>24. InPlaceCorrect'
  <2>1. \A d \in Ids : Checked(d)' /\ ~IsPurge(d) /\ d <= r'.at =>
          \A c \in Indexed(d, tomb') : Searchable(d, c)'
    BY <1>3, <1>4, <1>14, <1>23
  <2>2. \A d \in Ids : IsPurge(d)' = IsPurge(d) /\ Indexed(d, tomb)' = Indexed(d, tomb')
    BY DEF IsPurge, Indexed, Wanted
  <2> QED BY <2>1, <2>2, <1>3, <1>4, <1>14, <1>15 DEF InPlaceCorrect
<1>25. StandbyCorrect' /\ DeliveredIsSearchable' /\ StandbyHoldsNoPurged'
  BY <1>1, <1>3 DEF StandbyCorrect, DeliveredIsSearchable, InPlaceRuns, Inductive, StandbyHoldsNoPurged
<1> QED BY <1>18, <1>19, <1>20, <1>21, <1>22, <1>24, <1>25 DEF Inductive

LEMMA ReplayEventSafe ==
  ASSUME SearchAssumption, Inductive, NEW e \in Ids, ReplayEvent(e)
  PROVE  Inductive'
<1>1. r.mode \in {"in_place", "standby"}
  BY DEF Inductive, TypeOK
<1> QED BY <1>1, StandbyEventSafe, InPlaceEventSafe

\* An in-place replay meets nothing that the check has not read: it never stops.
LEMMA ReplayStopsSafe ==
  ASSUME Inductive, NEW e \in Ids, ReplayStops(e)
  PROVE  Inductive'
<1>1. /\ UNCHANGED <<status, attempts, crashes, docs, tomb, nodes, standby, lost, w>>
      /\ r.pc = "replay" /\ e \in Left /\ ReplayFails(e) /\ r' = [r EXCEPT !.pc = "failed"]
  BY DEF ReplayStops, SearchUnchanged
<1>2. r \in RebuildType
  BY DEF Inductive, TypeOK, RebuildType
<1>3. CASE r.mode = "standby"
  <2>1. r' \in RebuildType /\ r'.pc = "failed" /\ r'.mode = "standby"
    BY <1>1, <1>2, <1>3 DEF RebuildType
  <2>2. TypeOK'
    <3>1. IsIndex(standby)' /\ IsIndex(docs)' /\ IsIndex(nodes)'
      BY <1>1 DEF Inductive, TypeOK, IsIndex
    <3> QED BY <1>1, <2>1, <3>1 DEF Inductive, TypeOK, RebuildType
  <2>3. WorkersExcluded' /\ InPlaceCorrect' /\ StandbyCorrect'
    BY <2>1 DEF WorkersExcluded, InPlaceRuns, InPlaceCorrect, StandbyCorrect
  <2>4. DeliveredIsSearchable' /\ StandbyHoldsNoPurged'
    BY <1>1, <1>3 DEF Inductive, DeliveredIsSearchable, InPlaceRuns, Indexed, Wanted, IsPurge,
                      StandbyHoldsNoPurged
  <2> QED BY <1>1, <2>2, <2>3, <2>4, LiveKept DEF Inductive, Live
<1>4. CASE r.mode = "in_place"
  <2> DEFINE wants == ReplayWants(e)
  <2>1. /\ CheckReplay /\ r.purges = {} /\ tomb = LedgerPurges /\ FromChecked(docs) /\ FromChecked(nodes)
        /\ Describes(docs) /\ Describes(nodes) /\ IsIndex(docs) /\ IsIndex(nodes)
    BY <1>1, <1>4 DEF Inductive, InPlaceCorrect, TypeOK
  <2>2. status[e] = "delivered"
    BY <1>1, <1>4 DEF Left
  <2>3. ~(~IsPurge(e) /\ Events[e].scope # NoScope /\ MustFail(e, tomb \cup r.purges))
    BY <2>1, <2>2 DEF CheckReplay
  <2>4. wants \subseteq Indexed(e, LedgerPurges) /\ (wants # {} => Events[e].scope # NoScope)
    BY <2>1 DEF ReplayWants
  <2> HIDE DEF wants
  <2>5. ASSUME NEW f, FromChecked(f), Describes(f), IsIndex(f) PROVE ~Conflict(f, e, wants)
    <3> SUFFICES ASSUME NEW c \in wants \cap DOMAIN f PROVE SameIdentity(f[c], Entry(e, c))
      BY DEF Conflict
    <3>1. PICK d \in f[c].sources : TRUE
      BY <2>5 DEF Describes
    <3>2. SameIdentity(f[c], Entry(d, c))
      BY <2>5, <3>1 DEF Describes
    <3>3. Checked(d) /\ c \in Indexed(d, LedgerPurges)
      BY <2>5, <3>1 DEF FromChecked
    <3>4. d \in Ids
      BY <2>5, <3>1 DEF IsIndex, Rows
    <3>5. SameIdentity(Entry(d, c), Entry(e, c))
      BY <2>1, <2>2, <2>4, <3>3, <3>4 DEF CheckReplay, Checked
    <3> QED BY <3>2, <3>5 DEF SameIdentity
  <2>6. ~Conflict(docs, e, wants) /\ ~Conflict(nodes, e, wants)
    BY <2>1, <2>5
  <2> QED BY <1>1, <1>4, <2>3, <2>6 DEF ReplayFails, GraphConflict, wants
<1> QED BY <1>2, <1>3, <1>4 DEF RebuildType

LEMMA ReplayEndsSafe ==
  ASSUME SearchAssumption, Inductive, ReplayEnds
  PROVE  Inductive'
<1>1. /\ UNCHANGED <<status, attempts, crashes, docs, tomb, nodes, standby, lost, w>>
      /\ r.pc = "replay" /\ Left = {} /\ r' = [r EXCEPT !.pc = "off", !.at = 0]
  BY DEF ReplayEnds, SearchUnchanged
<1>2. r \in RebuildType
  BY DEF Inductive, TypeOK, RebuildType
<1>3. r' \in RebuildType /\ r'.pc = "off" /\ r'.mode = r.mode
  BY <1>1, <1>2 DEF RebuildType
<1>4. TypeOK'
  <2>1. IsIndex(standby)' /\ IsIndex(docs)' /\ IsIndex(nodes)'
    BY <1>1 DEF Inductive, TypeOK, IsIndex
  <2> QED BY <1>1, <1>3, <2>1 DEF Inductive, TypeOK, RebuildType
<1>5. WorkersExcluded' /\ InPlaceCorrect' /\ StandbyCorrect' /\ StandbyHoldsNoPurged'
  BY <1>1, <1>3 DEF WorkersExcluded, InPlaceRuns, InPlaceCorrect, StandbyCorrect, Inductive, StandbyHoldsNoPurged
<1>6. DeliveredIsSearchable'
  <2> SUFFICES ASSUME NEW e \in Ids, status[e] = "delivered", ~IsPurge(e), Events[e].scope # NoScope,
                      NEW c \in Indexed(e, tomb)
               PROVE  Searchable(e, c)
    BY <1>1 DEF DeliveredIsSearchable, Searchable, InRow, InNode, IsPurge, Indexed, Wanted
  <2>1. CASE r.mode = "in_place"
    <3>1. \A d \in Ids : Checked(d) /\ ~IsPurge(d) /\ d <= r.at => \A b \in Indexed(d, tomb) : Searchable(d, b)
      BY <1>1, <2>1 DEF Inductive, InPlaceCorrect
    <3>2. ~(e > r.at)
      BY <1>1, <2>1 DEF Left
    <3>3. e \in Nat /\ r.at \in Nat
      <4>1. r.at \in Ids \cup {0}
        BY <1>2 DEF RebuildType
      <4>2. Ids \subseteq Nat
        BY DEF SearchAssumption
      <4>3. r.at \in Nat
        <5>1. CASE r.at \in Ids
          BY <4>2, <5>1
        <5>2. CASE r.at = 0
          BY <5>2
        <5> QED BY <4>1, <5>1, <5>2
      <4>4. e \in Nat
        BY <4>2
      <4> QED BY <4>3, <4>4
    <3> QED BY <3>1, <3>2, <3>3 DEF Checked
  <2>2. CASE r.mode # "in_place"
    BY <2>2 DEF Inductive, DeliveredIsSearchable, InPlaceRuns, Searchable, InRow, InNode
  <2> QED BY <2>1, <2>2
<1> QED BY <1>1, <1>4, <1>5, <1>6, LiveKept DEF Inductive, Live

-----------------------------------------------------------------------------
LEMMA InitSafe ==
  ASSUME SearchAssumption, Init
  PROVE  Inductive
<1>1. /\ status = [e \in Ids |-> "pending"] /\ attempts = [e \in Ids |-> 0] /\ crashes = 0
      /\ docs = Empty /\ tomb = {} /\ nodes = Empty /\ standby = Empty
      /\ w = [i \in Workers |-> Free] /\ r = NoRebuild
  BY DEF Init
<1>2. Free \in WorkerType /\ Free.pc = "idle" /\ Free.locks = {}
  BY DEF Free, WorkerType
<1>3. NoRebuild \in RebuildType /\ NoRebuild.pc = "off" /\ NoRebuild.mode = "in_place"
  BY DEF NoRebuild, RebuildType
<1>4. TypeOK
  <2>1. IsIndex(Empty)
    BY DEF IsIndex, Empty
  <2>2. w \in [Workers -> WorkerType] /\ r \in RebuildType
    BY <1>1, <1>2, <1>3
  <2> QED BY <1>1, <2>1, <2>2 DEF TypeOK, WorkerType, RebuildType
<1>5. Describes(docs) /\ Describes(nodes) /\ PurgedStaysPurged /\ NodesFollowRows /\ StandbyHoldsNoPurged
  BY <1>1 DEF Describes, PurgedStaysPurged, NodesFollowRows, StandbyHoldsNoPurged, Empty
<1>6. \A i \in Workers : w[i] = Free
  BY <1>1
<1>7. LocksExclusive /\ WorkersExcluded /\ WorkersCorrect
  BY <1>2, <1>6 DEF LocksExclusive, WorkersExcluded, WorkersCorrect, WorkerCorrect
<1>8. InPlaceCorrect /\ StandbyCorrect
  BY <1>1, <1>3 DEF InPlaceCorrect, StandbyCorrect
<1>9. DeliveredIsSearchable
  BY <1>1 DEF DeliveredIsSearchable
<1> QED BY <1>4, <1>5, <1>7, <1>8, <1>9 DEF Inductive

LEMMA StutterSafe ==
  ASSUME Inductive, UNCHANGED vars
  PROVE  Inductive'
<1>1. UNCHANGED <<status, attempts, crashes, docs, tomb, nodes, standby, lost, w, r>>
  BY DEF vars
<1>2. TypeOK'
  BY <1>1 DEF Inductive, TypeOK, IsIndex
<1>3. WorkersExcluded' /\ StandbyCorrect' /\ StandbyHoldsNoPurged'
  BY <1>1 DEF Inductive, WorkersExcluded, InPlaceRuns, StandbyCorrect, StandbyHoldsNoPurged
<1>4. InPlaceCorrect'
  BY <1>1 DEF Inductive, InPlaceCorrect, CheckReplay, MustFail, Indexed, Wanted, FromChecked, Checked,
              Searchable, InRow, InNode, IsPurge
<1>5. DeliveredIsSearchable'
  BY <1>1 DEF Inductive, DeliveredIsSearchable, InPlaceRuns, Indexed, Wanted, IsPurge
<1> QED BY <1>1, <1>2, <1>3, <1>4, <1>5, LiveKept DEF Inductive, Live

LEMMA NextSafe ==
  ASSUME SearchAssumption, Inductive, [Next]_vars
  PROVE  Inductive'
<1>1. CASE UNCHANGED vars
  BY <1>1, StutterSafe
<1>2. ASSUME NEW i \in Workers, (\E e \in Ids : Claim(i, e)) \/ Working(i) \/ Crash(i)
      PROVE  Inductive'
  BY <1>2, ClaimSafe, CrashSafe, ReadSafe, LockSafe, RecheckSafe, WriteDocumentsSafe, WriteTombstonesSafe,
     WriteGraphSafe, DeleteEmbeddingsSafe, DeliverSafe DEF Working
<1>3. CASE \E c \in Contents : LoseBytes(c)
  BY <1>3, LoseBytesSafe
<1>4. CASE \E mode \in Modes : Begin(mode)
  BY <1>4, BeginSafe
<1>5. CASE Reset
  BY <1>5, ResetSafe
<1>6. CASE \E e \in Ids : ReplayEvent(e) \/ ReplayStops(e)
  BY <1>6, ReplayEventSafe, ReplayStopsSafe
<1>7. CASE ReplayEnds
  BY <1>7, ReplayEndsSafe
<1> QED BY <1>1, <1>2, <1>3, <1>4, <1>5, <1>6, <1>7 DEF Next

LEMMA AlwaysSafe ==
  ASSUME SearchAssumption
  PROVE  Spec => []Inductive
<1>1. Init => Inductive
  BY InitSafe
<1>2. Inductive /\ [Next]_vars => Inductive'
  BY NextSafe
<1> QED BY <1>1, <1>2, PTL DEF Spec

(* The type invariant of the search projector's two stores, its workers    *)
(* and the replay (projection/projectors/search.py).                       *)
THEOREM SearchTyped ==
  ASSUME SearchAssumption PROVE Spec => []TypeOK
<1>1. Inductive => TypeOK
  BY DEF Inductive
<1> QED BY <1>1, AlwaysSafe, PTL

(* Whatever index, purge, crash, redelivery or replay interleave, the      *)
(* tombstone check under the content locks (search.py _index_documents)    *)
(* keeps purged content out of the document table.                         *)
THEOREM TombstonesHold ==
  ASSUME SearchAssumption PROVE Spec => []PurgedStaysPurged
<1>1. Inductive => PurgedStaysPurged
  BY DEF Inductive
<1> QED BY <1>1, AlwaysSafe, PTL

(* The identity checks of both stores (the ON CONFLICT guard of the upsert *)
(* and _check_embedding_identity) make row and vector of a content ID      *)
(* agree although the two transactions commit apart.                       *)
THEOREM StoresAgree ==
  ASSUME SearchAssumption PROVE Spec => []RowAndVectorAgree
<1>1. Inductive => RowAndVectorAgree
  <2> SUFFICES ASSUME Inductive, NEW c \in DOMAIN docs \cap DOMAIN nodes
               PROVE  SameIdentity(docs[c], nodes[c])
    BY DEF RowAndVectorAgree
  <2>1. c \notin tomb
    BY DEF Inductive, PurgedStaysPurged
  <2>2. nodes[c].sources \subseteq docs[c].sources
    BY <2>1 DEF Inductive, NodesFollowRows
  <2>3. PICK e \in nodes[c].sources : SameIdentity(nodes[c], Entry(e, c))
    BY DEF Inductive, Describes
  <2>4. SameIdentity(docs[c], Entry(e, c))
    BY <2>2, <2>3 DEF Inductive, Describes
  <2> QED BY <2>3, <2>4 DEF SameIdentity
<1> QED BY <1>1, AlwaysSafe, PTL

(* A row of the outbox marked delivered is searchable in both stores, also *)
(* after crashes between the two transactions and after a replay.          *)
THEOREM DeliveryMeansSearchable ==
  ASSUME SearchAssumption PROVE Spec => []DeliveredIsSearchable
<1>1. Inductive => DeliveredIsSearchable
  BY DEF Inductive
<1> QED BY <1>1, AlwaysSafe, PTL

(* What check_replay reads is what the in-place replay will index: a       *)
(* rebuild never fails after reset_search_tables wiped the index.          *)
THEOREM CheckSuffices ==
  ASSUME SearchAssumption PROVE Spec => []CheckGuardsReplay
<1>1. Inductive => CheckGuardsReplay
  BY DEF Inductive, InPlaceCorrect, CheckGuardsReplay
<1> QED BY <1>1, AlwaysSafe, PTL

(* A replay over reset tables never indexes content that the ledger        *)
(* purged.                                                                 *)
THEOREM ReplayHides ==
  ASSUME SearchAssumption PROVE Spec => []ReplayHidesPurged
<1>1. Inductive => ReplayHidesPurged
  BY DEF Inductive, InPlaceCorrect, PurgedStaysPurged, ReplayHidesPurged
<1> QED BY <1>1, AlwaysSafe, PTL

(* Nor does a scratch or standby graph, whose replay is seeded with every  *)
(* purge of the ledger (seed_purges).                                      *)
THEOREM StandbyHides ==
  ASSUME SearchAssumption PROVE Spec => []StandbyHoldsNoPurged
<1>1. Inductive => StandbyHoldsNoPurged
  BY DEF Inductive
<1> QED BY <1>1, AlwaysSafe, PTL

(* search.py as a whole: every claim about the index at once, for any      *)
(* events, workers, crashes and either mode of the rebuild.                *)
THEOREM SearchIsSound ==
  ASSUME SearchAssumption PROVE Spec => []SearchSound
<1>1. PurgedStaysPurged /\ RowAndVectorAgree /\ DeliveredIsSearchable /\ CheckGuardsReplay /\ ReplayHidesPurged
        /\ StandbyHoldsNoPurged => SearchSound
  BY DEF SearchSound
<1> QED BY <1>1, TombstonesHold, StoresAgree, DeliveryMeansSearchable, CheckSuffices, ReplayHides, StandbyHides, PTL
=============================================================================
