---------------------------- MODULE DecisionTimes ----------------------------
(***************************************************************************)
(* What decisions were in force at a valid time, as known at a record      *)
(* time, and the supersession chain around one (retrieval/temporal.py and  *)
(* the pure helpers of projectors/knowledge.py).  The projector stores     *)
(* every recording as an immutable version, in any order; the scope        *)
(* filter, the subjects and the events behind a version are left out.      *)
(***************************************************************************)
EXTENDS Integers, Sequences, FiniteSets, SequencesExt

CONSTANTS
  Recorded,          \* the sets of versions that the ledger may hold
  Times,             \* the times that a request may name
  Forever,           \* past all of them: an absent end
  MaxVersions,       \* versions read in one request
  MaxDecisions,      \* decisions answered
  MaxEntryVersions,  \* versions listed per history entry
  MaxChain, MaxDepth

VARIABLES
  ledger,  \* every version of this behaviour
  stored   \* the DecisionVersion nodes

vars == <<ledger, stored>>

\* A version is [d, order, status, from, to, sup, rec]; sup 0 names none.
Decisions(V) == {v.d : v \in V}
OfDecision(V, d) == {v \in V : v.d = d}
Newest(V) == CHOOSE v \in V : \A w \in V : w.order <= v.order

-----------------------------------------------------------------------------
(* The pure helpers of the projector. *)

\* _edges: the version asserts that it supersedes d.
Supersedes(v, d) == v.sup = d /\ v.status \in {"accepted", "superseded"}

\* The decision that closes d first, 0 if none does; current has the newest
\* version of each decision.
closing(current, d) ==
  LET by == {x \in DOMAIN current : Supersedes(current[x], d)}
  IN  IF by = {} THEN 0
      ELSE CHOOSE x \in by : \A y \in by : \/ current[x].from < current[y].from
                                           \/ current[x].from = current[y].from /\ x <= y

StateOf(version, by, closed) ==
  [version |-> version, by |-> by, closed |-> closed,
   end |-> IF closed < version.to THEN closed ELSE version.to]

StatesOf(current) ==
  [d \in DOMAIN current |->
     LET by == closing(current, d)
     IN  StateOf(current[d], by, IF by = 0 THEN Forever ELSE current[by].from)]

\* Each decision as its newest version says, and what closes it.
decision_states(V) == StatesOf([d \in Decisions(V) |-> Newest(OfDecision(V, d))])

asserted(s) == \/ s.version.status = "accepted"
               \/ s.version.status = "superseded" /\ s.end # Forever

ended_by(s, valid) ==
  /\ asserted(s) /\ s.end # Forever
  /\ s.version.from < s.end /\ s.version.from <= valid /\ s.end <= valid

active(s, valid) == asserted(s) /\ s.version.from <= valid /\ valid < s.end

-----------------------------------------------------------------------------
(* decisions *)

\* The versions known at a time; a decision that the cap goes through is left out.
load_versions(V, recorded) ==
  LET rows == SetToSortSeq({v \in V : v.rec <= recorded},
                           LAMBDA v, w : v.d < w.d \/ (v.d = w.d /\ v.order < w.order))
      read == SubSeq(rows, 1, MaxVersions)
  IN  IF Len(rows) <= MaxVersions THEN [versions |-> ToSet(rows), cut |-> FALSE]
      ELSE [versions |-> {v \in ToSet(read) : v.d # rows[MaxVersions + 1].d}, cut |-> TRUE]

\* _classify: why a decision is historical, or "" if it is not shown at all.
reason(s, valid) ==
  IF s.version.status = "superseded" /\ s.end = Forever /\ s.version.from <= valid THEN "undated"
  ELSE IF ~ended_by(s, valid) THEN ""
  ELSE IF s.closed = s.end THEN "superseded" ELSE "expired"

\* The answer: active decisions first, then the ended ones.
Answer(states, cut, valid) ==
  LET Standing(d) == IF active(states[d], valid) THEN "active" ELSE reason(states[d], valid)
      First(d, e) == LET a == Standing(d) = "active"
                         b == Standing(e) = "active"
                     IN  (a /\ ~b) \/ (a = b /\ d < e)
      all == SetToSortSeq({d \in DOMAIN states : Standing(d) # ""}, First)
      kept == SubSeq(all, 1, IF Len(all) < MaxDecisions THEN Len(all) ELSE MaxDecisions)
  IN  [records |-> {[d |-> d, standing |-> Standing(d), version |-> states[d].version,
                     end |-> states[d].end] : d \in ToSet(kept)},
       truncated |-> cut \/ Len(all) > MaxDecisions]

decisions(V, valid, recorded) ==
  LET read == load_versions(V, recorded) IN Answer(decision_states(read.versions), read.cut, valid)

-----------------------------------------------------------------------------
(* decision_history: st is the _Chain, [rows, asked, truncated]. *)

\* _Chain.load: the newest versions of each decision, within the budget.
load(st, V, ds) ==
  LET wanted == {v \in V : v.d \in ds \ Decisions(st.rows)}
      budget == MaxVersions - Cardinality(st.rows)
      Later(v) == {w \in wanted : w.d = v.d /\ w.order > v.order}
      found == SetToSortSeq({v \in wanted : Cardinality(Later(v)) <= MaxEntryVersions},
                            LAMBDA v, w : v.d < w.d \/ (v.d = w.d /\ v.order > w.order))
  IN  IF ds \subseteq Decisions(st.rows) THEN st
      ELSE IF budget <= 0 THEN [st EXCEPT !.truncated = TRUE]
      ELSE [st EXCEPT !.rows = @ \cup ToSet(SubSeq(found, 1, IF Len(found) < budget THEN Len(found) ELSE budget)),
                      !.truncated = @ \/ Len(found) > budget]

\* The decisions that a query may find to supersede one of ds; the first MaxChain.
found_superseders(st, V, ds) ==
  LET all == SetToSortSeq({v.d : v \in {v \in V : \E d \in ds \ st.asked : Supersedes(v, d)}}, <)
  IN  [ds |-> ToSet(SubSeq(all, 1, IF Len(all) < MaxChain THEN Len(all) ELSE MaxChain)),
       cut |-> Len(all) > MaxChain]

\* _Chain.superseders
superseders(st, V, ds) ==
  LET found == found_superseders(st, V, ds)
  IN  load([st EXCEPT !.asked = @ \cup ds, !.truncated = @ \/ found.cut], V, found.ds)

\* _Chain.target: what the current version of d supersedes, 0 if nothing.
target(st, d) ==
  IF OfDecision(st.rows, d) = {} THEN 0
  ELSE LET v == Newest(OfDecision(st.rows, d))
       IN  IF v.sup # 0 /\ Supersedes(v, v.sup) THEN v.sup ELSE 0

\* The walk towards what is superseded; w is [st, seen, earlier, current].
RECURSIVE WalkEarlier(_, _)
WalkEarlier(w, V) ==
  LET t == target(w.st, w.current)
      st == load(w.st, V, {t})
  IN  IF t = 0 \/ t \in w.seen THEN w
      ELSE IF t \notin Decisions(st.rows) THEN [w EXCEPT !.st = st]
      ELSE IF Len(w.earlier) + 1 > MaxDepth \/ Len(w.earlier) + 1 > MaxChain
           THEN [w EXCEPT !.st = [st EXCEPT !.truncated = TRUE]]
      ELSE WalkEarlier([st |-> st, seen |-> w.seen \cup {t}, earlier |-> Append(w.earlier, t), current |-> t], V)

\* One level further, for as many as depth and length leave room for; w is
\* [st, seen, later, frontier].
Widened(w, st, level, distance) ==
  LET room == MaxChain - Cardinality(w.later)
      kept == IF distance > MaxDepth THEN {}
              ELSE IF Cardinality(level) <= room THEN level
              ELSE ToSet(SubSeq(SetToSortSeq(level, <), 1, room))
  IN  [st |-> [st EXCEPT !.truncated = @ \/ kept # level], seen |-> w.seen \cup kept,
       later |-> w.later \cup {[d |-> d, distance |-> distance] : d \in kept}, frontier |-> kept]

\* Those of the decisions found that are new and supersede one of the frontier.
Level(w, st, found) ==
  {d \in found \cap Decisions(st.rows) : d \notin w.seen /\ target(st, d) \in w.frontier}

Step(w, V, st, distance) == Widened(w, st, Level(w, st, found_superseders(w.st, V, w.frontier).ds), distance)

\* The walk towards what supersedes, one level at a time.
RECURSIVE WalkLater(_, _, _)
WalkLater(w, V, distance) ==
  IF w.frontier = {} THEN w
  ELSE WalkLater(Step(w, V, superseders(w.st, V, w.frontier), distance), V, distance + 1)

\* The entries, with what closes each of them.
Entries(d, earlier, later, states) ==
  LET Entry(x, n) == [d |-> x, distance |-> n, version |-> states[x].version,
                      closed |-> states[x].closed, end |-> states[x].end]
  IN  {Entry(d, 0)} \cup {Entry(earlier[n], -n) : n \in DOMAIN earlier}
        \cup {Entry(x.d, x.distance) : x \in later}

Bounded(d, entered, entries, st) ==
  [entries |-> entries,
   truncated |-> st.truncated \/ \E x \in entered \cup {d} :
                                   Cardinality(OfDecision(st.rows, x)) > MaxEntryVersions]

\* Once both walks are done, those who close an entry are read too.
Finish(V, d, earlier, on) ==
  LET entered == ToSet(earlier) \cup {x.d : x \in on.later}
      Read(st) == Bounded(d, entered, Entries(d, earlier, on.later, decision_states(st.rows)), st)
  IN  Read(superseders(on.st, V, entered))

Onwards(V, d, back) ==
  Finish(V, d, back.earlier,
         WalkLater([st |-> back.st, seen |-> back.seen, later |-> {}, frontier |-> {d}], V, 1))

\* _chain_history: the entries around d.
chain_history(V, d) ==
  LET st == load([rows |-> {}, asked |-> {}, truncated |-> FALSE], V, {d})
  IN  Onwards(V, d, WalkEarlier([st |-> st, seen |-> {d}, earlier |-> <<>>, current |-> d], V))

-----------------------------------------------------------------------------
Init == ledger \in Recorded /\ stored = {}

Deliver(v) == stored' = stored \cup {v} /\ UNCHANGED ledger

Next == \E v \in ledger : Deliver(v)

Spec == Init /\ [][Next]_vars

-----------------------------------------------------------------------------
(***************************************************************************)
(* The past is fixed: once everything recorded by a time is projected, the *)
(* answer as known at that time never changes again, whatever is recorded  *)
(* later, in whatever order it is projected.                               *)
(***************************************************************************)
PastIsFixed ==
  \A valid \in Times, recorded \in Times :
    {v \in ledger : v.rec <= recorded} \subseteq stored =>
      decisions(stored, valid, recorded) = decisions({v \in ledger : v.rec <= recorded}, valid, recorded)

Consistent(known, records) ==
  \A x \in records :
    /\ x.version = Newest(OfDecision(known, x.d))
    /\ \A y \in records : x.standing = "active" /\ Supersedes(x.version, y.d) => y.standing # "active"

(***************************************************************************)
(* No answer, capped or not, shows a decision by an older recording than   *)
(* its newest one, or shows as active a decision that another active one   *)
(* of the answer supersedes (_load_versions, decision_states).             *)
(***************************************************************************)
AnswerConsistent ==
  \A valid \in Times, recorded \in Times :
    Consistent({v \in stored : v.rec <= recorded}, decisions(stored, valid, recorded).records)

\* The links that the newest versions assert.
Chain(states) ==
  [d \in DOMAIN states |->
     IF Supersedes(states[d].version, states[d].version.sup) THEN states[d].version.sup ELSE 0]

\* What lies n links before d.
RECURSIVE Back(_, _, _)
Back(chain, d, n) == IF n = 0 THEN d
                     ELSE IF d \notin DOMAIN chain THEN 0 ELSE Back(chain, chain[d], n - 1)

Circular(chain) == \E x \in DOMAIN chain, n \in 1..Cardinality(DOMAIN chain) : Back(chain, x, n) = x
Linked(chain, d) ==
  {d} \cup {x \in DOMAIN chain : \E n \in 1..Cardinality(DOMAIN chain) :
                                   Back(chain, d, n) = x \/ Back(chain, x, n) = d}

Whole(d, h, states, chain) ==
  /\ \A x \in h.entries : x.version = states[x.d].version
  /\ ~h.truncated /\ ~Circular(chain) =>
       /\ {x.d : x \in h.entries} = Linked(chain, d)
       /\ \A x \in h.entries : x.closed = states[x.d].closed /\ x.end = states[x.d].end

(***************************************************************************)
(* A history that does not call itself truncated is complete: its entries  *)
(* are the decisions linked with the one asked about, each with the        *)
(* closure that all recordings give it.  A truncated one still shows every *)
(* entry by its newest recording (_chain_history).  Decisions that         *)
(* supersede each other in a circle have no such order: there the walk     *)
(* stops at the first decision it meets again.                             *)
(***************************************************************************)
HistoryComplete ==
  \A d \in Decisions(stored) :
    Whole(d, chain_history(stored, d), decision_states(stored), Chain(decision_states(stored)))
=============================================================================
