----------------------------- MODULE Candidates ------------------------------
(***************************************************************************)
(* What an answer is gathered from before it is ranked and paged           *)
(* (retrieval/composer.py): context_for_task reads a revision, the current *)
(* graph around its anchors, the failures, and the search hits that a      *)
(* citable event of the revision carries; decision_history closes the      *)
(* decisions a query matched over their supersessions.                     *)
(*                                                                         *)
(* Each read is a transaction of its own: a later index run may be         *)
(* projected, and an event delivered, between two of them.  Distances,     *)
(* matches and scores are small numbers; texts are left out.               *)
(***************************************************************************)
EXTENDS Integers, Sequences, FiniteSets, FiniteSetsExt, Functions

CONSTANTS
  Worlds,     \* what the stores hold: see the fields used below
  Depth,      \* NEIGHBORHOOD_DEPTH
  MinVector,  \* MIN_VECTOR_SCORE
  None        \* no snapshot, no run, no path

VARIABLES
  world,      \* the stores and the request
  later,      \* a later index run is projected
  delivered,  \* events the outbox marks delivered
  stage,      \* the read that comes next
  view,       \* [nodes, pairs, open], the revision's files, symbols, relations
  todo,       \* anchors whose neighbourhood is still to be read
  distances,  \* node -> distance from the nearest anchor
  failures,   \* failures as the answer shows them
  kept,       \* runs whose observations are evidence
  items,      \* content items
  chosen      \* decisions of a decision_history

vars == <<world, later, delivered, stage, view, todo, distances, failures, kept, items, chosen>>

-----------------------------------------------------------------------------
\* Undirected breadth-first distances in a graph [nodes, pairs].
Beside(g, n) == {m \in g.nodes : {m, n} \in g.pairs}
Levels(g, from) ==
  LET L[d \in 0..Depth] ==
        IF d = 0 THEN from \cap g.nodes ELSE L[d - 1] \cup UNION {Beside(g, n) : n \in L[d - 1]}
  IN L
Distances(g, from) ==
  LET L == Levels(g, from)
  IN [n \in L[Depth] |-> CHOOSE d \in 0..Depth : n \in L[d] /\ \A e \in 0..(d - 1) : n \notin L[e]]

Least(a, b) == IF a <= b THEN a ELSE b
Nearer(f, g) ==
  [n \in DOMAIN f \cup DOMAIN g |->
     IF n \notin DOMAIN f THEN g[n] ELSE IF n \notin DOMAIN g THEN f[n] ELSE Least(f[n], g[n])]

\* The graph as projected now: the revision's own, or a later run's.
Current == IF later THEN world.after ELSE world.own

-----------------------------------------------------------------------------
\* The failure's resolution as the temporal read derives it from runs.
Failing(R) == {r \in R : ~r.passed}
Latest(R, job) == CHOOSE r \in Failing(R) : r.job = job /\ \A q \in Failing(R) : q.job = job => q.at <= r.at
PassesOf(R, r) == {p \in R : p.passed /\ p.job = r.job /\ p.at > r.at}
FirstPass(R, r) == CHOOSE p \in PassesOf(R, r) : \A q \in PassesOf(R, r) : p.at <= q.at
Lasts(R) == {Latest(R, j) : j \in {r.job : r \in Failing(R)}}
Resolution(R, sessions) ==
  IF Failing(R) = {} THEN [status |-> "unknown", path |-> None, late |-> {}, names |-> {}]
  ELSE IF \E r \in Lasts(R) : PassesOf(R, r) = {}
  THEN [status |-> "unresolved", path |-> None, late |-> {},
        names |-> {r.id : r \in {q \in Lasts(R) : PassesOf(R, q) = {}}}]
  ELSE LET last == CHOOSE r \in Lasts(R) : \A q \in Lasts(R) : q.at <= r.at
           pass == FirstPass(R, last)
           again == {r \in Failing(R) : r.at > pass.at}
       IN IF again = {} /\ \A t \in sessions : t <= pass.at
          THEN [status |-> "resolved", late |-> {}, names |-> {},
                path |-> [failing |-> last.id, passing |-> pass.id, snapshot |-> pass.snapshot]]
          ELSE [status |-> "unresolved", path |-> None,
                late |-> {r.id : r \in again}, names |-> {pass.id}]

Clean(snapshot) == snapshot \in {None, world.snapshot}
Dirty == [status |-> "unknown", path |-> None, late |-> {}, names |-> {}]

Mut_without_dirty(f) ==
  LET left == {r \in f.seen : Clean(r.snapshot)}
      ids == {r.id : r \in left}
      path == f.resolution.path
      pathKept == path = None \/ path.failing \in ids
      lateDropped == \E r \in f.resolution.late : r \notin ids
  IN IF f.seen # {} /\ left = {} THEN {}
     ELSE IF left = f.seen /\ pathKept /\ ~lateDropped THEN {f}
     ELSE {[f EXCEPT !.seen = left,
                     !.resolution = IF path = None \/ ~pathKept \/ lateDropped THEN Dirty ELSE @]}

\* A failure as seen from a revision: without the runs of other workspace
\* snapshots, and resolved only when what is left shows it.
without_dirty(f) ==
  LET left == {r \in f.seen : Clean(r.snapshot)}
      ids == {r.id : r \in left}
      path == f.resolution.path
      pathKept == path = None \/ (path.failing \in ids /\ Clean(path.snapshot))
      lateDropped == \E r \in f.resolution.late : r \notin ids
  IN IF f.seen # {} /\ left = {} THEN {}
     ELSE IF left = f.seen /\ pathKept /\ ~lateDropped THEN {f}
     ELSE {[f EXCEPT !.seen = left,
                     !.resolution = IF path = None \/ ~pathKept \/ lateDropped THEN Dirty ELSE @]}

\* The session that made the observations outside CI is a run of no snapshot.
Session == [id |-> None, job |-> None, at |-> 0, passed |-> FALSE, snapshot |-> None]
kept_runs(F) == {r.id : r \in {q \in UNION {f.seen : f \in F} : q # Session /\ Clean(q.snapshot)}}

-----------------------------------------------------------------------------
\* What a cited event must satisfy (EvidenceScope.admits) beside delivery.
Admits(e) ==
  LET x == world.events[e] IN
  /\ x.occurred < world.before /\ x.observed < world.before
  /\ x.type = "quality" => Clean(x.snapshot)
  /\ x.type = "failure" => x.runs \subseteq kept

Carriers(row) == {row.event} \cup row.sources
Citable(row) == {e \in Carriers(row) : e \in delivered /\ e <= world.watermark /\ Admits(e)}
Earliest(E) ==
  CHOOSE e \in E : \A o \in E : \/ world.events[e].occurred < world.events[o].occurred
                                \/ world.events[e].occurred = world.events[o].occurred /\ e <= o

\* A row described by its own event when that is citable, else by the
\* earliest citable one.
admitted(row) ==
  [content |-> row.content, cited |-> Citable(row),
   by |-> IF row.event \in Citable(row) THEN row.event ELSE Earliest(Citable(row))]

Hits(rows) == {r \in rows : Citable(r) # {}}
Lexical == Hits({r \in world.rows : r.leg = "lexical"})
Vector == {r \in Hits({q \in world.rows : q.leg = "vector"}) : r.score >= MinVector}
Score(row) ==
  IF row.leg = "vector" THEN 8 * row.score
  ELSE (100 * row.score) \div Max({r.score : r \in Lexical})
\* One hit per content, the best scored.
Best(c) ==
  LET rows == {r \in Lexical \cup Vector : r.content = c}
  IN CHOOSE r \in rows : \A q \in rows : Score(q) <= Score(r)

-----------------------------------------------------------------------------
Init ==
  /\ world \in Worlds /\ later \in BOOLEAN /\ delivered = world.delivered
  /\ stage = IF world.tool = "decisions" THEN "decisions" ELSE "view"
  /\ view = [nodes |-> {}, pairs |-> {}, open |-> FALSE]
  /\ todo = {} /\ distances = <<>> /\ failures = {} /\ kept = {} /\ items = {} /\ chosen = {}

\* The revision's files, symbols and relations, and whether a later run exists.
ReadView ==
  /\ stage = "view"
  /\ view' = [nodes |-> world.own.nodes \ world.modules,
              pairs |-> {p \in world.own.pairs : p \cap world.modules = {}}, open |-> ~later]
  /\ distances' = [a \in world.anchors |-> 0]
  /\ todo' = world.anchors /\ stage' = "near"
  /\ UNCHANGED <<world, later, delivered, failures, kept, items, chosen>>

\* An anchor's neighbourhood in the current graph, of nodes of the revision,
\* when the revision is the latest.
Near(a) ==
  /\ stage = "near" /\ view.open /\ a \in todo
  /\ LET reached == Distances(Current, {a})
     IN distances' = Nearer(distances, [n \in DOMAIN reached \cap view.nodes |-> reached[n]])
  /\ todo' = todo \ {a}
  /\ UNCHANGED <<world, later, delivered, stage, view, failures, kept, items, chosen>>

\* The distances within the revision itself.
Bfs ==
  /\ stage = "near" /\ (view.open => todo = {})
  /\ distances' = Nearer(distances, Distances(view, world.anchors))
  /\ stage' = "failures"
  /\ UNCHANGED <<world, later, delivered, view, todo, failures, kept, items, chosen>>

\* The failures visible at the revision, the runs that stay evidence, and
\* each failure without the others.
ReadFailures ==
  /\ stage = "failures"
  /\ LET seen == Failing(world.runs) \cup {Session : t \in world.sessions}
         found == IF seen = {} THEN {}
                  ELSE {[seen |-> seen, resolution |-> Resolution(world.runs, world.sessions)]}
     IN /\ kept' = kept_runs(found)
        /\ failures' = UNION {without_dirty(f) : f \in found}
  /\ stage' = "search"
  /\ UNCHANGED <<world, later, delivered, view, todo, distances, items, chosen>>

\* The hits whose content a citable event carries; content a decision or a
\* failure item stands for is left to it.
Search ==
  /\ stage = "search"
  /\ LET best == {admitted(Best(c)) : c \in {r.content : r \in Lexical \cup Vector}}
     IN items' = {i \in best : /\ world.events[i.by].type \notin {"decision", "failure"}
                               /\ i.cited \cap world.active = {}
                               /\ failures # {} => \A e \in i.cited : world.events[e].type # "failure"}
  /\ stage' = "done"
  /\ UNCHANGED <<world, later, delivered, view, todo, distances, failures, kept, chosen>>

\* decision_history: the decisions the query matched, or all of them.
MatchDecisions ==
  /\ stage = "decisions"
  /\ chosen' = IF world.matched = {} THEN world.decisions ELSE world.matched
  /\ todo' = chosen' /\ stage' = "close"
  /\ UNCHANGED <<world, later, delivered, view, distances, failures, kept, items>>

\* One round of the closure over supersessions, both ways.
CloseDecisions ==
  /\ stage = "close" /\ todo # {}
  /\ todo' = {d \in world.decisions : \E c \in todo : \/ <<c, d>> \in world.supersedes
                                                      \/ <<d, c>> \in world.supersedes} \ chosen
  /\ chosen' = chosen \cup todo'
  /\ UNCHANGED <<world, later, delivered, stage, view, distances, failures, kept, items>>

Closed ==
  /\ stage = "close" /\ todo = {} /\ stage' = "done"
  /\ UNCHANGED <<world, later, delivered, view, todo, distances, failures, kept, items, chosen>>

\* A later index run is projected.
Project ==
  /\ stage # "done" /\ ~later /\ later' = TRUE
  /\ UNCHANGED <<world, delivered, stage, view, todo, distances, failures, kept, items, chosen>>

\* A worker delivers an event the search index already shows.
Deliver(e) ==
  /\ stage # "done" /\ e \notin delivered /\ delivered' = delivered \cup {e}
  /\ UNCHANGED <<world, later, stage, view, todo, distances, failures, kept, items, chosen>>

Next ==
  \/ ReadView \/ (\E a \in todo : Near(a)) \/ Bfs \/ ReadFailures \/ Search
  \/ MatchDecisions \/ CloseDecisions \/ Closed
  \/ Project \/ \E e \in DOMAIN world.events : Deliver(e)

Spec == Init /\ [][Next]_vars

-----------------------------------------------------------------------------
Done == stage = "done"
Tasked == Done /\ world.tool = "task"

\* Only nodes of the revision are shown, and their distances are the ones in
\* the revision, whatever run is projected later; the one exception is a run
\* that is projected while an open revision is being read.
NearInRevision ==
  Tasked =>
    /\ DOMAIN distances \subseteq view.nodes
    /\ ~view.open => distances = Distances(view, world.anchors)
    /\ view.open /\ ~later =>
         distances = Restrict(Distances(world.own, world.anchors), DOMAIN distances)
         /\ DOMAIN distances = DOMAIN Distances(world.own, world.anchors) \cap view.nodes

\* A failure of one CI target that is shown as resolved is resolved by the
\* runs of the revision's own state alone.
ResolvedByKept ==
  Tasked => \A f \in failures :
    f.resolution.status = "resolved" =>
      Resolution({r \in world.runs : Clean(r.snapshot)}, world.sessions).status = "resolved"

\* Content is shown only through events of the revision: it is described by
\* one of them, the earliest unless the row's own event is one, no output of
\* another workspace among them, and no failure that was made in another run.
ShownIsCitable ==
  Tasked => \A i \in items :
    /\ i.by \in i.cited
    /\ \A e \in i.cited : /\ e <= world.watermark
                          /\ world.events[e].occurred < world.before
                          /\ world.events[e].observed < world.before
                          /\ world.events[e].type = "quality" => Clean(world.events[e].snapshot)
    /\ i.by = Earliest(i.cited) \/ \E r \in world.rows : r.content = i.content /\ r.event = i.by

\* The shown decisions are closed over supersession both ways, and each of
\* them is linked to a matched one.
DecisionsClosed ==
  Done /\ world.tool = "decisions" =>
    /\ \A l \in world.supersedes : l[1] \in chosen <=> l[2] \in chosen
    /\ \A d \in chosen \ world.matched : world.matched = {} \/ \E l \in world.supersedes : d \in {l[1], l[2]}

\* The reason given for an unresolved failure names no run of another
\* workspace snapshot.
NamesNoDirtyRun ==
  Tasked => \A f \in failures : \A r \in world.runs : r.id \in f.resolution.names => Clean(r.snapshot)
=============================================================================
