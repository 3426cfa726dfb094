----------------------------- MODULE FailureFixes -----------------------------
(***************************************************************************)
(* The failures observed by a valid time and recorded by a record time,    *)
(* and whether a later passing CI run fixed them (failures, retrieval/     *)
(* temporal.py).  One request is several statements over a graph that      *)
(* workers extend and that an in-place rebuild may wipe meanwhile; reads   *)
(* are read-committed, not a snapshot.  A CIRun or TestRun node keeps the  *)
(* newest observation of the run and the earliest time at which one was    *)
(* recorded; the graph is the set of events it holds.                      *)
(***************************************************************************)
EXTENDS Integers, Sequences, FiniteSets, SequencesExt

CONSTANTS
  Ledgers,          \* the sets of events that may be projected
  Cuts,             \* [valid, recorded] that a request may name
  MaxObservations,  \* observations read
  MaxFailures,      \* failures answered
  MaxRebuilds,
  Swift,            \* whether a rebuild may end within the deadline of a read
  None

VARIABLES
  ledger,
  delivered,  \* the events projected
  graph,      \* those that the graph holds: fewer, while it is rebuilt
  marker,     \* the projection history marker names the current versions
  rebuild,    \* "idle", "wiping" or "replaying"
  rebuilds,
  reader,     \* pc, the cut and what the statements returned
  moved       \* an event was projected since the request began

vars == <<ledger, delivered, graph, marker, rebuild, rebuilds, reader, moved>>

OfKind(G, k) == {e \in G : e.kind = k}

\* The reports of each run of a kind, the node that they make.
Reports(G, kind) == {{x \in OfKind(G, kind) : x.run = e.run} : e \in OfKind(G, kind)}

\* newest_wins: what the node says is of the newest report ...
Newest(run) ==
  CHOOSE e \in run : \A x \in run : x.completed < e.completed \/ (x.completed = e.completed /\ x.id <= e.id)

\* ... but its record time is of the first one to be recorded (min_non_null).
recorded_at(run) == Min({x.rec : x \in run})

Visible(run, cut) == Newest(run).completed <= cut.valid /\ recorded_at(run) <= cut.recorded

\* The run nodes of a kind that a cut shows.
Nodes(G, kind, cut) == {Newest(run) : run \in {r \in Reports(G, kind) : Visible(r, cut)}}

-----------------------------------------------------------------------------
(* The statements. *)

\* _OBSERVATIONS: newest first.
observations(G, cut) ==
  SetToSortSeq({e \in OfKind(G, "observed") : e.valid <= cut.valid /\ e.rec <= cut.recorded},
               LAMBDA x, y : x.valid > y.valid \/ (x.valid = y.valid /\ x.id > y.id))

\* The observations kept: a failure that the cap goes through is left out.
kept(rows) ==
  LET read == ToSet(SubSeq(rows, 1, IF Len(rows) < MaxObservations THEN Len(rows) ELSE MaxObservations))
      Newer(o, p) == o.valid > p.valid \/ (o.valid = p.valid /\ o.id > p.id)
      Kept(whole) ==
        LET Latest(f) == CHOOSE o \in whole : /\ o.failure = f
                                              /\ \A x \in whole : x.failure = f => ~Newer(x, o)
            order == SetToSortSeq({o.failure : o \in whole}, LAMBDA f, g : Newer(Latest(f), Latest(g)))
        IN  {o \in whole : \E n \in DOMAIN order : n <= MaxFailures /\ order[n] = o.failure}
  IN  Kept(IF Len(rows) <= MaxObservations THEN read
             ELSE {o \in read : o.failure # rows[MaxObservations + 1].failure})

\* _OBSERVATION_TOTALS: the failures with more observations than were read.
capped(G, cut, rows) ==
  LET Of(found, f) == Cardinality({o \in found : o.failure = f})
      Short(shown) == {f \in {o.failure : o \in shown} : Of(ToSet(observations(G, cut)), f) > Of(shown, f)}
  IN  IF Len(rows) <= MaxObservations THEN {} ELSE Short(kept(rows))

named(rows, kind) == {o.run : o \in {x \in kept(rows) : x.in = kind}}
run_nodes(G, cut, rows, kind) == {e \in Nodes(G, kind, cut) : e.run \in named(rows, kind)}

After(p, r) == p.completed > r.completed \/ (p.completed = r.completed /\ p.run > r.run)

\* _NEXT_PASS: for each run the earliest later pass of its target, of the
\* CI runs that are shown.
next_pass(shown, rs) ==
  LET Passes(r) == {p \in shown : /\ p.status = "success" /\ p.validated
                                  /\ p.target = r.target /\ After(p, r)}
      First(found) == CHOOSE p \in found : \A q \in found : q = p \/ After(q, p)
  IN  {[failing |-> r.run, pass |-> First(Passes(r))] :
         r \in {x \in shown : x.run \in {y.run : y \in rs} /\ x.target # None /\ Passes(x) # {}}}

-----------------------------------------------------------------------------
(* _failure_record *)

\* The completion of the visible CI run of an observation, else its own time.
occurrence(o, ci) ==
  IF o.in = "ci" /\ \E r \in ci : r.run = o.run THEN (CHOOSE r \in ci : r.run = o.run).completed ELSE o.valid

\* The latest failing run of each target.
latest(rs) == {r \in rs : \A x \in rs : x.target = r.target => ~After(x, r)}

\* The observations of a failure, whether the cap went through them, and the runs.
resolution(own, cut_short, ci, tests, passes) ==
  LET mine == {r \in ci : \E o \in own : o.in = "ci" /\ o.run = r.run}
      last == latest(mine)
      PassOf(r) == {x.pass : x \in {y \in passes : y.failing = r.run}}
      fixed == last # {} /\ \A r \in last : PassOf(r) # {}
      newest == CHOOSE r \in last : \A x \in last : x = r \/ After(r, x)
      pass == CHOOSE p \in PassOf(newest) : TRUE
  IN  IF cut_short THEN "unknown"
      ELSE IF fixed /\ \A o \in own : occurrence(o, ci) <= pass.completed THEN "resolved"
      ELSE IF mine # {} THEN "unresolved"
      ELSE IF \E o \in own : o.in = "test" /\ \E r \in tests : r.run = o.run THEN "unsupported"
      ELSE "unknown"

\* The answer that the results of the statements give.
answer(q) ==
  LET Of(f, shown) ==
        resolution({o \in shown : o.failure = f}, f \in q.short, q.ci, q.tests, q.passes)
      Over(shown) == [f \in {o.failure : o \in shown} |-> Of(f, shown)]
  IN  Over(kept(q.rows))

\* The same when nothing moves.
failures(G, cut) ==
  LET Given(rows, ci) ==
        answer([rows |-> rows, short |-> capped(G, cut, rows), ci |-> ci,
                tests |-> run_nodes(G, cut, rows, "test"), passes |-> next_pass(Nodes(G, "ci", cut), ci)])
      Over(rows) == Given(rows, run_nodes(G, cut, rows, "ci"))
  IN  Over(observations(G, cut))

-----------------------------------------------------------------------------
Idle == [pc |-> "idle", cut |-> None, rows |-> <<>>, short |-> {}, ci |-> {}, tests |-> {}, passes |-> {}]

Init ==
  /\ ledger \in Ledgers /\ delivered = {} /\ graph = {} /\ marker = TRUE
  /\ rebuild = "idle" /\ rebuilds = 0 /\ reader = Idle /\ moved = FALSE

Reader == <<reader, moved>>
World == <<ledger, delivered, graph, marker, rebuild, rebuilds>>

\* Workers project while no rebuild runs.
Deliver(e) ==
  /\ rebuild = "idle" /\ e \notin delivered
  /\ delivered' = delivered \cup {e} /\ graph' = graph \cup {e} /\ moved' = TRUE
  /\ UNCHANGED <<ledger, marker, rebuild, rebuilds, reader>>

\* An in-place rebuild deletes the marker first, wipes, replays, records it.
StartRebuild ==
  /\ rebuild = "idle" /\ rebuilds < MaxRebuilds
  /\ rebuild' = "wiping" /\ rebuilds' = rebuilds + 1 /\ marker' = FALSE
  /\ UNCHANGED <<ledger, delivered, graph, Reader>>
Wipe(e) ==
  /\ rebuild = "wiping" /\ graph' = graph \ {e}
  /\ rebuild' = IF graph' = {} THEN "replaying" ELSE "wiping"
  /\ UNCHANGED <<ledger, delivered, marker, rebuilds, Reader>>
Replay(e) ==
  /\ rebuild = "replaying" /\ graph' = graph \cup {e}
  /\ UNCHANGED <<ledger, delivered, marker, rebuild, rebuilds, Reader>>
FinishRebuild ==
  /\ rebuild = "replaying" /\ graph = delivered /\ (Swift \/ reader.pc \in {"idle", "served", "refused"})
  /\ rebuild' = "idle" /\ marker' = TRUE
  /\ UNCHANGED <<ledger, delivered, graph, rebuilds, Reader>>

Ask(cut) ==
  /\ reader.pc = "idle" /\ reader' = [Idle EXCEPT !.pc = "check", !.cut = cut] /\ moved' = FALSE
  /\ UNCHANGED World

Require(from, to) ==
  /\ reader.pc = from /\ UNCHANGED <<World, moved>>
  /\ reader' = [reader EXCEPT !.pc = IF marker THEN to ELSE "refused"]

CheckHistory == Require("check", "rows")
ReadObservations ==
  /\ reader.pc = "rows" /\ UNCHANGED <<World, moved>>
  /\ reader' = [reader EXCEPT !.pc = "totals", !.rows = observations(graph, reader.cut)]
ReadTotals ==
  /\ reader.pc = "totals" /\ UNCHANGED <<World, moved>>
  /\ reader' = [reader EXCEPT !.pc = "ci", !.short = capped(graph, reader.cut, reader.rows)]
ReadRuns ==
  /\ reader.pc = "ci" /\ UNCHANGED <<World, moved>>
  /\ reader' = [reader EXCEPT !.pc = "tests", !.ci = run_nodes(graph, reader.cut, reader.rows, "ci")]
ReadTests ==
  /\ reader.pc = "tests" /\ UNCHANGED <<World, moved>>
  /\ reader' = [reader EXCEPT !.pc = "passes", !.tests = run_nodes(graph, reader.cut, reader.rows, "test")]
ReadPasses ==
  /\ reader.pc = "passes" /\ UNCHANGED <<World, moved>>
  /\ reader' = [reader EXCEPT !.pc = "recheck", !.passes = next_pass(Nodes(graph, "ci", reader.cut), reader.ci)]

Mut_CheckAgain ==
  /\ reader.pc = "recheck" /\ UNCHANGED <<World, moved>> /\ reader' = [reader EXCEPT !.pc = "served"]

CheckAgain == Require("recheck", "served")

\* The deadline of the request, on the server or in the client.
Expire ==
  /\ reader.pc \notin {"idle", "served", "refused"} /\ UNCHANGED <<World, moved>>
  /\ reader' = [reader EXCEPT !.pc = "refused"]

Next ==
  \/ \E e \in ledger : Deliver(e) \/ Wipe(e)
  \/ \E e \in delivered : Replay(e)
  \/ StartRebuild \/ FinishRebuild
  \/ \E cut \in Cuts : Ask(cut)
  \/ CheckHistory \/ ReadObservations \/ ReadTotals \/ ReadRuns \/ ReadTests \/ ReadPasses \/ CheckAgain \/ Expire

Spec == Init /\ [][Next]_vars

-----------------------------------------------------------------------------
(***************************************************************************)
(* "The answer is refused rather than served from a partly wiped graph":   *)
(* when no event was projected meanwhile, an answer that is served is the  *)
(* one that all projected events give, whatever a rebuild did between the  *)
(* statements (_read).                                                     *)
(***************************************************************************)
ServedWhole ==
  reader.pc = "served" /\ ~moved => answer(reader) = failures(delivered, reader.cut)

(***************************************************************************)
(* A failure is called resolved only if some visible passing run comes     *)
(* after everything that was seen of it, and each CI target in which it    *)
(* was seen has passed since (_failure_record).                            *)
(***************************************************************************)
ResolvedIsFixed ==
  \A cut \in Cuts :
    LET ci == Nodes(delivered, "ci", cut)
        Passed == {p \in ci : p.status = "success"}
        Resolved(a) == {f \in DOMAIN a : a[f] = "resolved"}
    IN  \A f \in Resolved(failures(delivered, cut)) :
          LET seen == {o \in ToSet(observations(delivered, cut)) : o.failure = f} IN
          /\ \E p \in Passed : \A o \in seen : occurrence(o, ci) <= p.completed
          /\ \A o \in seen, r \in ci : o.in = "ci" /\ o.run = r.run => \E p \in Passed : p.target = r.target /\ After(p, r)

\* The answer without caps, from the CI runs that are shown.
Uncapped(shown, seen, f) ==
  LET own == {o \in seen : o.failure = f}
      ci == {r \in shown : \E o \in own : o.in = "ci" /\ o.run = r.run}
      last == latest(ci)
      passes == next_pass(shown, ci)
      newest == CHOOSE r \in last : \A x \in last : x = r \/ After(r, x)
  IN  /\ last # {} /\ \A r \in last : \E x \in passes : x.failing = r.run
      /\ \E x \in passes : x.failing = newest.run /\ \A o \in own : occurrence(o, ci) <= x.pass.completed

(***************************************************************************)
(* The caps hide, they never mislead: a failure that a capped answer calls *)
(* resolved or unresolved is so by all of its observations.                *)
(***************************************************************************)
CapsHonest ==
  LET Honest(a, cut) ==
        \A f \in DOMAIN a : a[f] \in {"resolved", "unresolved"} =>
                             (a[f] = "resolved" <=>
                                Uncapped(Nodes(delivered, "ci", cut), ToSet(observations(delivered, cut)), f))
  IN  \A cut \in Cuts : Honest(failures(delivered, cut), cut)

(***************************************************************************)
(* What is learned later changes an answer for a past record time only     *)
(* through a run that was reported again: a run node keeps its newest      *)
(* report, which temporal.py says is not versioned, and nothing else does. *)
(***************************************************************************)
PastMovesByRunsOnly ==
  LET Then(cut) == {e \in delivered : e.rec <= cut.recorded}
      ReportedAgain(cut) == \E e \in delivered \ Then(cut), x \in Then(cut) :
                               e.kind # "observed" /\ x.kind = e.kind /\ x.run = e.run
  IN  \A cut \in Cuts :
        ReportedAgain(cut) \/ Cardinality({failures(G, cut) : G \in {delivered, Then(cut)}}) = 1

\* The same without exception: what a run was reported to be later shows.
PastIsFixed ==
  \A cut \in Cuts : failures(delivered, cut) = failures({e \in delivered : e.rec <= cut.recorded}, cut)
=============================================================================
