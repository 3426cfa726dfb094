--------------------------- MODULE GraphProjectors ---------------------------
(***************************************************************************)
(* The projectors of agent activity, Git state, portfolio, quality and     *)
(* knowledge (projection/projectors).  Each delivery of an event is one    *)
(* transaction that first locks every node the event touches and then runs *)
(* every projector that handles it; events come in any order and more than *)
(* once.  All immutable facts of a node are one number (the smallest       *)
(* wins), all fields of a current pointer one value.                       *)
(***************************************************************************)
EXTENDS Integers, Sequences, FiniteSets, FiniteSetsExt, Functions, TLC

CONSTANTS
  Histories,   \* sequences of events that may be delivered
  MaxRepeats,  \* deliveries beyond the first of an event
  None         \* an absent field

VARIABLES
  events,     \* the history of this behaviour
  delivered,  \* indices of delivered events
  repeats,    \* repeated deliveries so far
  graph       \* nodes: identity -> properties; edges: <<from, type, to>> -> source events

vars == <<events, delivered, repeats, graph>>

-----------------------------------------------------------------------------
(* The write rules the projectors share (projectors/__init__.py) *)

Stub == [fact |-> None, ptr |-> <<>>, rank |-> -1, end |-> None]
node_statement(g, n) == IF n \in DOMAIN g.nodes THEN g ELSE [g EXCEPT !.nodes = (n :> Stub) @@ @]
Update(g, n, rec) == [g EXCEPT !.nodes = (n :> rec) @@ @]

min_non_null(g, n, fact) ==
  LET m == node_statement(g, n) IN
    IF fact = None \/ (m.nodes[n].fact # None /\ m.nodes[n].fact <= fact) THEN m
    ELSE Update(m, n, [m.nodes[n] EXCEPT !.fact = fact])

Stored(g, n, group) ==
  IF n \in DOMAIN g.nodes /\ group \in DOMAIN g.nodes[n].ptr THEN g.nodes[n].ptr[group].order ELSE 0

Mut_newest_wins(g, n, group, order, value) ==
  LET m == node_statement(g, n) IN
    Update(m, n, [m.nodes[n] EXCEPT !.ptr = (group :> [order |-> order, value |-> value]) @@ @])

newest_wins(g, n, group, order, value) ==
  LET m == node_statement(g, n) IN
    IF order <= Stored(m, n, group) THEN m
    ELSE Update(m, n, [m.nodes[n] EXCEPT !.ptr = (group :> [order |-> order, value |-> value]) @@ @])

advance_status(g, n, rank) ==
  LET m == node_statement(g, n) IN
    IF rank <= m.nodes[n].rank THEN m ELSE Update(m, n, [m.nodes[n] EXCEPT !.rank = rank])

assert_link(g, e, a, type, b) ==
  LET m == node_statement(node_statement(g, a), b)
      l == <<a, type, b>> IN
    [m EXCEPT !.edges = (l :> ((IF l \in DOMAIN @ THEN @[l] ELSE {}) \cup {e.order})) @@ @]

drop_edges(g, ls) == [g EXCEPT !.edges = Restrict(@, DOMAIN @ \ ls)]
Touched(g, n) == \E l \in DOMAIN g.edges : l[1] = n \/ l[3] = n
Bare(g, n) == n \in DOMAIN g.nodes /\ g.nodes[n].fact = None /\ g.nodes[n].ptr = <<>> /\ g.nodes[n].rank = -1

\* The identity-only nodes among ns that nothing refers to leave the graph.
drop_stubs(g, ns) ==
  [g EXCEPT !.nodes = Restrict(@, DOMAIN @ \ {n \in ns : Bare(g, n) /\ ~Touched(g, n)})]

-----------------------------------------------------------------------------
(* Agent activity (agent.py) *)

AgentTypes == {"session.started", "session.ended", "turn.started", "turn.stopped", "turn.completed",
               "tool.started", "tool.observed", "tool.completed"}

STATUS_RANKS(type) ==
  CASE type \in {"session.started", "turn.started", "tool.started"} -> 0
    [] type \in {"turn.stopped", "tool.observed"} -> 1
    [] type \in {"session.ended", "turn.completed", "tool.completed"} -> 2

Session(e) == <<"Session", e.session>>
Turn(e) == <<"Turn", e.session, e.turn>>
ToolCall(e) == <<"ToolCall", e.session, e.call>>
Observed(e) ==
  CASE e.type \in {"session.started", "session.ended"} -> Session(e)
    [] e.type \in {"turn.started", "turn.stopped", "turn.completed"} -> Turn(e)
    [] OTHER -> ToolCall(e)

\* The events that move a pointer: each kind its own, so that a hook that cannot
\* see the outcome never touches it.
Moves(e) == e.type \in {"session.ended", "turn.stopped", "turn.completed", "tool.completed"}

AgentNode(g, e) ==
  LET facts == IF e.type = "session.ended" THEN g ELSE min_non_null(g, Observed(e), e.fact)
      moved == IF Moves(e) THEN newest_wins(facts, Observed(e), e.type, e.order, e.value) ELSE facts IN
    advance_status(moved, Observed(e), STATUS_RANKS(e.type))

AgentLink(g, e) ==
  CASE e.type \in {"session.started", "session.ended"} ->
         IF e.checkout = None THEN g ELSE assert_link(g, e, Session(e), "TARGETED", <<"Checkout", e.checkout>>)
    [] e.type \in {"turn.started", "turn.stopped", "turn.completed"} ->
         assert_link(g, e, Session(e), "HAS_TURN", Turn(e))
    [] OTHER -> assert_link(g, e, Turn(e), "INVOKED", ToolCall(e))

AgentProjector(g, e) == IF e.type \in AgentTypes THEN AgentLink(AgentNode(g, e), e) ELSE g

-----------------------------------------------------------------------------
(* Git state (git.py) *)

GitTypes == {"checkout", "commit", "snapshot"}
Repository(e) == <<"Repository", e.repository>>
Commit(e, oid) == <<"Commit", e.repository, oid>>
Checkout(e) == <<"Checkout", e.checkout>>

stub_commit(g, e, oid) == assert_link(g, e, Commit(e, oid), "IN_REPOSITORY", Repository(e))

checkout_observed(g, e) ==
  LET moved == newest_wins(min_non_null(g, Checkout(e), e.fact), Checkout(e), "head", e.order, e.value)
      inRepo == assert_link(moved, e, Checkout(e), "IN_REPOSITORY", Repository(e))
      branch == <<"Branch", e.repository, e.branch>>
      on == IF e.branch = None THEN inRepo
            ELSE assert_link(assert_link(inRepo, e, branch, "IN_REPOSITORY", Repository(e)),
                             e, Checkout(e), "OBSERVED_ON", branch) IN
    IF e.commit = None THEN on
    ELSE assert_link(stub_commit(on, e, e.commit), e, Checkout(e), "OBSERVED_AT", Commit(e, e.commit))

commit_observed(g, e) ==
  LET own == stub_commit(min_non_null(g, Commit(e, e.commit), e.fact), e, e.commit)
      parents == FoldSet(LAMBDA oid, x :
                   assert_link(stub_commit(x, e, oid), e, Commit(e, e.commit), "HAS_PARENT", Commit(e, oid)),
                   own, e.parents) IN
    IF e.session = None THEN parents ELSE assert_link(parents, e, Session(e), "PRODUCED", Commit(e, e.commit))

snapshot_captured(g, e) ==
  LET snapshot == <<"Snapshot", e.snapshot>>
      own == newest_wins(min_non_null(g, snapshot, e.fact), snapshot, "collections", e.order, e.value)
      held == assert_link(own, e, Checkout(e), "HAS_SNAPSHOT", snapshot)
      based == IF e.commit = None THEN held
               ELSE assert_link(stub_commit(held, e, e.commit), e, snapshot, "BASED_ON", Commit(e, e.commit)) IN
    IF e.session = None THEN based ELSE assert_link(based, e, Session(e), "PRODUCED", snapshot)

GitProjector(g, e) ==
  CASE e.type = "checkout" -> checkout_observed(g, e)
    [] e.type = "commit" -> commit_observed(g, e)
    [] e.type = "snapshot" -> snapshot_captured(g, e)
    [] OTHER -> g

-----------------------------------------------------------------------------
(* Portfolio (portfolio.py): nodes for every event, relations for few *)

Linking == {"repository", "checkout", "session.started", "session.ended"}
PortfolioTypes == AgentTypes \cup GitTypes \cup {"repository"}
Named(e, label, id) == IF id = None THEN {} ELSE {<<label, id>>}

PortfolioProjector(g, e) ==
  LET mine == Named(e, "Project", e.project) \cup Named(e, "Workspace", e.workspace)
                \cup Named(e, "Repository", e.repository)
      merged == FoldSet(LAMBDA n, x : node_statement(x, n), g, mine)
      seen == IF e.type # "repository" THEN merged
              ELSE newest_wins(min_non_null(merged, Repository(e), e.fact), Repository(e), "remotes", e.order, e.value)
      held == IF e.type \in Linking /\ e.project # None /\ e.workspace # None
              THEN assert_link(seen, e, <<"Workspace", e.workspace>>, "HAS_PROJECT", <<"Project", e.project>>)
              ELSE seen IN
    IF e.type \notin PortfolioTypes THEN g
    ELSE IF e.type \in Linking /\ e.project # None /\ e.repository # None
    THEN assert_link(held, e, <<"Project", e.project>>, "USES_REPOSITORY", Repository(e))
    ELSE held

-----------------------------------------------------------------------------
(* Quality (quality.py) *)

TestRun(e) == <<"TestRun", e.run>>
Targets(e) ==
  (IF e.snapshot = None THEN {} ELSE {<<"Snapshot", e.snapshot>>})
    \cup (IF e.commit = None \/ e.repository = None THEN {} ELSE {Commit(e, e.commit), Repository(e)})

Validated(g, t) == {l \in DOMAIN g.edges : l[1] = t /\ l[2] = "VALIDATES"}
RepositoryOf(c) == <<"Repository", c[2]>>

\* _replace_validated_targets: the edges of the run, what they alone asserted of a
\* commit's repository, and the nodes only they kept alive.
replace_validated_targets(g, t) ==
  LET old == Validated(g, t)
      ns == {l[3] : l \in old}
      commits == {n \in ns : n[1] = "Commit"}
      sources == UNION {g.edges[l] : l \in old}
      dropped == drop_edges(g, old)
      stripped == [dropped EXCEPT !.edges =
                     [l \in DOMAIN @ |-> IF l[1] \in commits /\ l[2] = "IN_REPOSITORY" THEN @[l] \ sources ELSE @[l]]]
      cleared == drop_edges(stripped, {l \in DOMAIN stripped.edges : stripped.edges[l] = {}}) IN
    drop_stubs(drop_stubs(cleared, ns), {RepositoryOf(c) : c \in commits})

test_run_completed(g, e) ==
  LET newer == e.order > Stored(g, TestRun(e), "result")
      run == min_non_null(newest_wins(g, TestRun(e), "result", e.order, e.value), TestRun(e), e.fact)
      moved == replace_validated_targets(run, TestRun(e))
      shot == IF e.snapshot = None THEN moved
              ELSE assert_link(moved, e, TestRun(e), "VALIDATES", <<"Snapshot", e.snapshot>>) IN
    CASE ~newer -> drop_stubs(drop_stubs(run, {n \in Targets(e) : n[1] # "Repository"}), Targets(e))
      [] newer /\ (e.commit = None \/ e.repository = None) -> shot
      [] OTHER -> assert_link(stub_commit(shot, e, e.commit), e, TestRun(e), "VALIDATES", Commit(e, e.commit))

\* CI runs and findings: a current result without relations.
QualityProjector(g, e) ==
  CASE e.type = "test_run" -> test_run_completed(g, e)
    [] e.type = "ci_run" ->
         min_non_null(newest_wins(g, <<"CIRun", e.run>>, "result", e.order, e.value), <<"CIRun", e.run>>, e.fact)
    [] e.type = "finding" -> newest_wins(g, <<"Finding", e.run>>, "result", e.order, e.value)
    [] OTHER -> g

-----------------------------------------------------------------------------
(* Knowledge (knowledge.py).  The value of a decision is its recording. *)

Superseding == {"accepted", "superseded"}
Decision(d) == <<"Decision", d>>
Supersedes(e) == IF e.status \in Superseding THEN e.supersedes ELSE None
Recording(e) == [status |-> e.status, from |-> e.from, to |-> e.to, supersedes |-> e.supersedes]

Earliest(S) == IF S = {} THEN None ELSE Min(S)
Superseded(g, n) == {l[1] : l \in {x \in DOMAIN g.edges : x[2] = "SUPERSEDES" /\ x[3] = n}}
Current(g, n) == g.nodes[n].ptr["state"].value

\* _CLOSE: the earlier of its own end and the start of what supersedes it.
close(g, n) ==
  IF n \notin DOMAIN g.nodes THEN g
  ELSE LET own == IF g.nodes[n].ptr = <<>> THEN {} ELSE {Current(g, n).to} \ {None}
           by == {Current(g, s).from : s \in Superseded(g, n)} IN
         Update(g, n, [g.nodes[n] EXCEPT !.end = Earliest(own \cup by)])

decision_recorded(g, e) ==
  LET n == Decision(e.decision)
      version == <<"DecisionVersion", e.order>>
      newer == e.order > Stored(g, n, "state")
      rec == min_non_null(newest_wins(g, n, "state", e.order, Recording(e)), n, e.fact)
      kept == assert_link(newest_wins(rec, version, "once", 1, Recording(e)), e, n, "HAS_VERSION", version)
      old == {l \in DOMAIN kept.edges : l[1] = n /\ l[2] = "SUPERSEDES"}
      target == Supersedes(e)
      targets == {l[3] : l \in old} \cup IF target = None THEN {} ELSE {Decision(target)}
      asserted == IF target = None THEN drop_edges(kept, old)
                  ELSE assert_link(drop_edges(kept, old), e, n, "SUPERSEDES", Decision(target)) IN
    IF newer THEN FoldSet(LAMBDA t, x : close(drop_stubs(x, {t}), t), asserted, targets \cup {n})
    ELSE close(drop_stubs(kept, IF target = None THEN {} ELSE {Decision(target)}), n)

failure_observed(g, e) ==
  LET n == <<"Failure", e.run>>
      seen == <<"FailureObservation", e.order>>
      kept == assert_link(newest_wins(min_non_null(g, n, e.fact), seen, "once", 1, e.value),
                          e, n, "HAS_OBSERVATION", seen) IN
    FoldSet(LAMBDA p, x : assert_link(x, e, n, "OBSERVED_IN", p), kept, e.places)

KnowledgeProjector(g, e) ==
  CASE e.type = "decision" -> decision_recorded(g, e)
    [] e.type \in {"constraint", "summary"} -> newest_wins(g, <<e.type, e.run>>, "state", e.order, e.value)
    [] e.type = "failure" -> failure_observed(g, e)
    [] OTHER -> g

-----------------------------------------------------------------------------
\* Nodes the locks of an event create before anything is written (lock_nodes).
LockKeys(e) ==
  CASE e.type = "test_run" -> {TestRun(e)} \cup Targets(e)
    [] e.type = "decision" ->
         {Decision(e.decision)} \cup IF Supersedes(e) = None THEN {} ELSE {Decision(Supersedes(e))}
    [] OTHER -> {}

Project(g, e) ==
  LET locked == FoldSet(LAMBDA n, x : node_statement(x, n), g, LockKeys(e)) IN
    QualityProjector(KnowledgeProjector(GitProjector(PortfolioProjector(AgentProjector(locked, e), e), e), e), e)

Init ==
  /\ events \in Histories /\ delivered = {} /\ repeats = 0
  /\ graph = [nodes |-> <<>>, edges |-> <<>>]

\* One transaction of a worker.
Deliver(i) ==
  /\ i \notin delivered \/ repeats < MaxRepeats
  /\ graph' = Project(graph, events[i])
  /\ delivered' = delivered \cup {i}
  /\ repeats' = IF i \in delivered THEN repeats + 1 ELSE repeats
  /\ UNCHANGED events

Next == \E i \in 1..Len(events) : Deliver(i)

Spec == Init /\ [][Next]_vars

-----------------------------------------------------------------------------
Known == {events[i] : i \in delivered}
InOrder == FoldSet(LAMBDA e, s : Append(s, e), <<>>, Known)
ByOrder == SortSeq(InOrder, LAMBDA a, b : a.order < b.order)

\* What the events say when each is delivered once, in the order it happened.
Replayed[k \in 0..Len(events)] ==
  IF k = 0 THEN [nodes |-> <<>>, edges |-> <<>>]
  ELSE IF k > Len(ByOrder) THEN Replayed[k - 1] ELSE Project(Replayed[k - 1], ByOrder[k])

(***************************************************************************)
(* The graph depends only on which events were delivered: any order and    *)
(* any repetition give the graph of a replay in the order they happened    *)
(* (the promise of the package docstring of the projectors).               *)
(***************************************************************************)
OrderIrrelevant == graph = Replayed[Len(events)]

Newest(d, known) ==
  CHOOSE e \in known : e.decision = d /\ \A f \in known : f.decision = d => f.order <= e.order

\* decision_states: what the recordings known at a time say of a decision.
decision_state(d, known) ==
  LET heads == {Newest(x, known) : x \in {e.decision : e \in known}}
      closing == {e.from : e \in {f \in heads : Supersedes(f) = d}}
      head == Newest(d, known) IN
    [version |-> Recording(head), end |-> Earliest(closing \cup ({head.to} \ {None}))]

Decisions == {e \in Known : e.type = "decision"}

(***************************************************************************)
(* The closure of each decision, maintained edge by edge, is the one the   *)
(* bi-temporal read derives from the recordings: what supersedes it closes *)
(* it, and a superseder recorded anew reopens it.                          *)
(***************************************************************************)
ClosureAgrees ==
  \A d \in {e.decision : e \in Decisions} :
    /\ Current(graph, Decision(d)) = decision_state(d, Decisions).version
    /\ graph.nodes[Decision(d)].end = decision_state(d, Decisions).end

(***************************************************************************)
(* A relation that follows a current record comes from that record alone:  *)
(* a test run validates what its newest observation names.                 *)
(***************************************************************************)
ValidatesCurrent ==
  \A l \in DOMAIN graph.edges : l[2] \in {"VALIDATES", "SUPERSEDES"} =>
    \A s \in graph.edges[l] : s = Stored(graph, l[1], IF l[2] = "VALIDATES" THEN "result" ELSE "state")
=============================================================================
