------------------------------ MODULE GraphWalk ------------------------------
(***************************************************************************)
(* The traversals of the projected code graph (retrieval/graph.py): the    *)
(* neighbourhood, callers and callees of a node, level by level, and the   *)
(* outgoing dependencies of a file or module.                              *)
(*                                                                         *)
(* One request is one read transaction of several statements.  The         *)
(* database isolates at read committed, so a delivered event may change    *)
(* the graph between two of them.  Every statement carries a LIMIT.        *)
(*                                                                         *)
(* A node is a number, its ID; its kind and repository never change.  A    *)
(* graph says which nodes exist and are current, its resolved edges, the   *)
(* assertions that lost and the external dependencies of its files.        *)
(***************************************************************************)
EXTENDS Integers, Sequences, FiniteSets, FiniteSetsExt, Functions

CONSTANTS
  Nodes,       \* node IDs: positive integers
  Kind,        \* node -> "repository", "module", "file" or "symbol"
  Owner,       \* node -> its repository
  Scope,       \* the repository every request is about
  Graphs,      \* the graphs the projection may hold
  Requests,    \* [mode, anchor, depth, alternatives]
  MaxDepth,    \* MAX_DEPTH
  MaxNodes,    \* MAX_NODES
  MaxEdges,    \* MAX_EDGES
  MaxChanges   \* bound: deliveries that change the graph during a request

VARIABLES
  graph,    \* [nodes, current, edges, losers, external]
  req,      \* the request
  pc,       \* the statement that runs next, or how the request ended
  placed,   \* [id, distance] in the order they were reached
  level,    \* IDs reached at the distance being walked
  at,       \* which kind the next statement reads
  answer,   \* [nodes, edges, losers, cut]
  changes   \* how often the graph changed since the request began

vars == <<graph, req, pc, placed, level, at, answer, changes>>

KindOrder == <<"repository", "module", "file", "symbol">>
EdgeSources == <<"module", "file", "symbol">>
Code == {"CALLS", "REFERENCES", "IMPORTS", "DEFINES"}
Modes == {"neighborhood", "callers", "callees", "dependencies"}
EdgeTypes(mode) == IF mode = "neighborhood" THEN Code \cup {"IN_MODULE", "IN_REPOSITORY"} ELSE {"CALLS"}
Predicates(mode) == IF mode = "neighborhood" THEN Code ELSE {"CALLS"}

Lesser(a, b) == IF a < b THEN a ELSE b
Sorted(S, Before(_, _)) ==
  [i \in 1..Cardinality(S) |-> CHOOSE x \in S : Cardinality({y \in S : Before(y, x)}) = i - 1]
Ascending(S) == Sorted(S, <)
Cut(s, n) == SubSeq(s, 1, Lesser(n, Len(s)))
Ids(s) == {s[i].id : i \in DOMAIN s}

Ours(n) == n \in graph.nodes /\ Owner[n] = Scope
CurrentCode(n) == Ours(n) /\ Kind[n] \in {"file", "symbol"} /\ n \in graph.current
Linked(types, a, b) == \E e \in graph.edges : e.type \in types /\ e.from = a /\ e.to = b
Joined(types, a, b) == Linked(types, a, b) \/ Linked(types, b, a)
Populated(m) == \E f \in graph.current : Kind[f] = "file" /\ Ours(f) /\ Linked({"IN_MODULE"}, f, m)

\* A node that can be named: the repository, a module with a current file, a
\* current file or symbol.
Named(n) ==
  /\ Ours(n)
  /\ \/ Kind[n] = "repository"
     \/ Kind[n] = "module" /\ Populated(n)
     \/ CurrentCode(n)

\* The kinds a mode may start from and step through.
Steps(mode) ==
  CASE mode = "neighborhood" -> Range(KindOrder)
    [] mode = "dependencies" -> {"module", "file"}
    [] OTHER -> {"file", "symbol"}

\* One step from the nodes `ids` of one kind.
Stepped(mode, kind, ids) ==
  {n \in Nodes : \E a \in ids :
     /\ Ours(a)
     /\ CASE mode = "callers" -> CurrentCode(n) /\ Linked({"CALLS"}, n, a)
          [] mode = "callees" -> CurrentCode(n) /\ Linked({"CALLS"}, a, n)
          [] kind = "symbol" -> CurrentCode(n) /\ Joined(Code, a, n)
          [] kind = "file" -> /\ Joined(Code \cup {"IN_MODULE"}, a, n)
                              /\ CurrentCode(n) \/ (Ours(n) /\ Kind[n] = "module")
          [] kind = "module" -> CurrentCode(n) /\ Kind[n] = "file" /\ Linked({"IN_MODULE"}, n, a)
          [] kind = "repository" ->
               /\ Linked({"IN_REPOSITORY"}, n, a)
               /\ \/ CurrentCode(n) /\ Kind[n] = "file"
                  \/ Ours(n) /\ Kind[n] = "module" /\ Populated(n)}

\* The file and symbol pairs of an anchor, symbol 0 for a file without one:
\* a module's files are cut first, then the pairs.
AnchorFiles(a) ==
  IF Kind[a] = "file" THEN {f \in {a} : CurrentCode(f)}
  ELSE {f \in Nodes : CurrentCode(f) /\ Kind[f] = "file" /\ Linked({"IN_MODULE"}, f, a)}
Defined(f) == {d \in Nodes : CurrentCode(d) /\ Kind[d] = "symbol" /\ Linked({"DEFINES"}, f, d)}
Members(a, limit) ==
  LET files == Range(Cut(Ascending(AnchorFiles(a)), limit))
      pairs == UNION {{<<f, d>> : d \in IF Defined(f) = {} THEN {0} ELSE Defined(f)} : f \in files}
  IN Cut(Sorted(pairs, LAMBDA p, q : p[1] < q[1] \/ (p[1] = q[1] /\ p[2] < q[2])), limit)
Subjects(a, limit) ==
  LET rows == Range(Members(a, limit)) IN {p[1] : p \in rows} \cup ({p[2] : p \in rows} \ {0})
Imported(subjects) ==
  {e \in graph.edges : e.type = "IMPORTS" /\ e.from \in subjects /\ CurrentCode(e.to)}
ByTarget(E) == Sorted(E, LAMBDA e, g : e.to < g.to \/ (e.to = g.to /\ e.from < g.from))
Externals(a) == {x \in graph.external : x.file \in AnchorFiles(a)}

-----------------------------------------------------------------------------
Empty == [nodes |-> {}, edges |-> {}, losers |-> {}, external |-> {}, cut |-> FALSE]

Init ==
  /\ graph \in Graphs /\ req \in Requests
  /\ pc = "resolve" /\ placed = <<>> /\ level = <<>> /\ at = 1
  /\ answer = Empty /\ changes = 0

Running == pc \notin {"done", "refused", "not_found", "crashed", "expired"}
End(how) == pc' = how /\ UNCHANGED <<graph, req, placed, level, at, answer, changes>>

Resolve ==
  /\ pc = "resolve"
  /\ IF req.depth \notin 1..MaxDepth THEN End("refused")
     ELSE IF ~Named(req.anchor) THEN End("not_found")
     ELSE IF Kind[req.anchor] \notin Steps(req.mode) THEN End("refused")
     ELSE /\ placed' = <<[id |-> req.anchor, distance |-> 0]>>
          /\ pc' = IF req.mode = "dependencies" THEN "imports" ELSE "level"
          /\ UNCHANGED <<graph, req, level, at, answer, changes>>

Distance == placed[Len(placed)].distance + 1
Frontier == {p.id : p \in {q \in Range(placed) : q.distance = Distance - 1}}

Mut_Step ==
  /\ pc = "level" /\ at <= Len(KindOrder)
  /\ LET kind == KindOrder[at]
         ids == {n \in Frontier : Kind[n] = kind}
         room == MaxNodes - Len(placed) - Len(level)
         rows == Cut(Ascending(Stepped(req.mode, kind, ids) \ (Ids(placed) \cup Range(level))), room)
     IN /\ level' = level \o rows
        /\ answer' = [answer EXCEPT !.cut = @ \/ Len(rows) > room]
  /\ at' = at + 1
  /\ UNCHANGED <<graph, req, pc, placed, changes>>

\* One statement of a level: from the frontier's nodes of one kind to nodes
\* not reached before, one more than there is room for.
Step ==
  /\ pc = "level" /\ at <= Len(KindOrder)
  /\ LET kind == KindOrder[at]
         ids == {n \in Frontier : Kind[n] = kind}
         room == MaxNodes - Len(placed) - Len(level)
         rows == Cut(Ascending(Stepped(req.mode, kind, ids) \ (Ids(placed) \cup Range(level))),
                     room + 1)
     IN /\ level' = level \o Cut(rows, room)
        /\ answer' = [answer EXCEPT !.cut = @ \/ Len(rows) > room]
  /\ at' = at + 1
  /\ UNCHANGED <<graph, req, pc, placed, changes>>

\* The end of a level: the walk ends at the depth, at an empty or a cut level.
EndLevel ==
  /\ pc = "level" /\ at > Len(KindOrder)
  /\ placed' = placed \o [i \in DOMAIN level |-> [id |-> level[i], distance |-> Distance]]
  /\ pc' = IF level = <<>> \/ answer.cut \/ Distance = req.depth THEN "nodes" ELSE "level"
  /\ level' = <<>> /\ at' = 1
  /\ UNCHANGED <<graph, req, answer, changes>>

\* The imports of the anchor's files and symbols; anchor and targets together
\* never exceed the node limit.
ReadImports ==
  /\ pc = "imports"
  /\ LET rows == Cut(ByTarget(Imported(Subjects(req.anchor, MaxNodes))), MaxNodes)
         kept == Cut(rows, MaxNodes - 1)
     IN /\ answer' = [answer EXCEPT !.edges = Range(kept), !.cut = Len(rows) >= MaxNodes]
        /\ placed' = placed \o [i \in 1..Cardinality({e.to : e \in Range(kept)}) |->
             [id |-> Ascending({e.to : e \in Range(kept)})[i], distance |-> 1]]
  /\ pc' = "members"
  /\ UNCHANGED <<graph, req, level, at, changes>>

\* The same walk with one row more shows whether subjects were left out.
ReadMembers ==
  /\ pc = "members"
  /\ answer' = [answer EXCEPT !.cut = @ \/ Len(Members(req.anchor, MaxNodes + 1)) > MaxNodes]
  /\ pc' = "nodes"
  /\ UNCHANGED <<graph, req, placed, level, at, changes>>

\* The reached nodes that exist, with their evidence, one statement a kind.
Materialize ==
  /\ pc = "nodes" /\ at <= Len(KindOrder)
  /\ answer' = [answer EXCEPT !.nodes = @ \cup
       {p \in Range(placed) : Kind[p.id] = KindOrder[at] /\ Ours(p.id)}]
  /\ at' = at + 1
  /\ UNCHANGED <<graph, req, pc, placed, level, changes>>

Materialized ==
  /\ pc = "nodes" /\ at > Len(KindOrder)
  /\ pc' = IF req.mode = "dependencies" THEN "external" ELSE "edges"
  /\ at' = 1
  /\ UNCHANGED <<graph, req, placed, level, answer, changes>>

Answered == {p.id : p \in answer.nodes}
Between(E) == {e \in E : e.from \in Answered /\ e.to \in Answered}
\* The first rows in the statement's order, which no property tells apart.
Rows(E, limit) == IF Cardinality(E) <= limit THEN E ELSE CHOOSE R \in kSubset(limit, E) : TRUE

\* The resolved edges between the answer's nodes, one statement a source kind.
ReadEdges ==
  /\ pc = "edges" /\ at <= Len(EdgeSources)
  /\ LET room == MaxEdges - Cardinality(answer.edges)
         rows == Rows({e \in Between(graph.edges) : /\ Kind[e.from] = EdgeSources[at]
                                                    /\ e.type \in EdgeTypes(req.mode)}, room + 1)
     IN answer' = [answer EXCEPT !.edges = @ \cup Rows(rows, room),
                                 !.cut = @ \/ Cardinality(rows) > room]
  /\ at' = at + 1
  /\ UNCHANGED <<graph, req, pc, placed, level, changes>>

\* The assertions that did not become an edge, when they were asked for.
ReadLosers ==
  /\ pc = "edges" /\ at > Len(EdgeSources)
  /\ LET rows == Rows({e \in Between(graph.losers) : e.type \in Predicates(req.mode)}, MaxEdges + 1)
     IN answer' = IF ~req.alternatives THEN answer
                  ELSE [answer EXCEPT !.losers = Rows(rows, MaxEdges),
                                      !.cut = @ \/ Cardinality(rows) > MaxEdges]
  /\ pc' = "reply"
  /\ UNCHANGED <<graph, req, placed, level, at, changes>>

ReadExternal ==
  /\ pc = "external"
  /\ LET rows == Rows(Externals(req.anchor), MaxNodes + 1)
     IN answer' = [answer EXCEPT !.external = Rows(rows, MaxNodes),
                                 !.cut = @ \/ Cardinality(rows) > MaxNodes]
  /\ pc' = "reply"
  /\ UNCHANGED <<graph, req, placed, level, at, changes>>

\* The first node of the answer is taken for the anchor.
Reply == pc = "reply" /\ End(IF answer.nodes = {} THEN "crashed" ELSE "done")

Expire == Running /\ End("expired")

\* A delivery, or a rebuild's wipe, changes the graph between two statements.
Change ==
  /\ Running /\ changes < MaxChanges
  /\ graph' \in Graphs \ {graph} /\ changes' = changes + 1
  /\ UNCHANGED <<req, pc, placed, level, at, answer>>

Next ==
  \/ Resolve \/ Step \/ EndLevel \/ ReadImports \/ ReadMembers \/ Materialize \/ Materialized
  \/ ReadEdges \/ ReadLosers \/ ReadExternal \/ Reply \/ Expire \/ Change

Spec == Init /\ [][Next]_vars

-----------------------------------------------------------------------------
Done == pc = "done"
Still == Done /\ changes = 0
Walked == req.mode # "dependencies"

\* What lies within k steps of the anchor, whatever the limits.
Within ==
  LET W[k \in 0..MaxDepth] ==
        IF k = 0 THEN {req.anchor}
        ELSE W[k - 1] \cup {n \in Nodes : \E a \in W[k - 1] :
                              /\ Kind[a] \in Steps(req.mode)
                              /\ n \in Stepped(req.mode, Kind[a], {a})}
  IN W
TrueDistance(n) == CHOOSE k \in 0..MaxDepth : n \in Within[k] /\ \A j \in 0..(k - 1) : n \notin Within[j]

\* An uncut walk over a graph that did not change found each node within the
\* depth, once, at its least distance, and each edge between them.
WalkExact ==
  Still /\ Walked /\ ~answer.cut =>
    /\ answer.nodes = {[id |-> n, distance |-> TrueDistance(n)] : n \in Within[req.depth]}
    /\ answer.edges = {e \in graph.edges : /\ {e.from, e.to} \subseteq Within[req.depth]
                                           /\ Kind[e.from] # "repository"
                                           /\ e.type \in EdgeTypes(req.mode)}

\* A walk that was cut never kept a node while it left out a nearer one, and
\* its distances are the least ones.
CutKeepsNearest ==
  Still /\ Walked =>
    \A p \in answer.nodes : /\ p.id \in Within[req.depth] /\ p.distance = TrueDistance(p.id)
                            /\ p.distance > 0 => Within[p.distance - 1] \subseteq Answered

\* Dependencies that are not marked truncated show every import of the
\* anchor's files and symbols and every external dependency, although the
\* subjects, the edges and the externals are cut in three different places.
DependenciesWhole ==
  Still /\ ~Walked /\ ~answer.cut =>
    /\ answer.edges = Imported(Subjects(req.anchor, Cardinality(Nodes) * Cardinality(Nodes)))
    /\ answer.external = Externals(req.anchor)

\* Whatever happens to the graph meanwhile, an answer stays in its repository
\* and its bounds, names no node twice, and its edges join its nodes.
AnswerClosed ==
  Done =>
    /\ Cardinality(answer.nodes) <= MaxNodes /\ Cardinality(answer.edges) <= MaxEdges
    /\ Cardinality(Answered) = Cardinality(answer.nodes)
    /\ \A n \in Answered : Owner[n] = Scope
    /\ Walked => \A e \in answer.edges \cup answer.losers : {e.from, e.to} \subseteq Answered

\* The answer's first node is the anchor (only a rebuild's wipe removes nodes).
AnchorFirst == Done => req.anchor \in Answered
=============================================================================
