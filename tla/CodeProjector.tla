---------------------------- MODULE CodeProjector ----------------------------
(***************************************************************************)
(* CodeProjector: the temporal code graph that the code.* events of a      *)
(* repository leave behind, delivered in any order and more than once.     *)
(*                                                                         *)
(* Every event merges immutable facts (runs, memberships, coverage, claims *)
(* and assertions: keyed, filled once, times by minimum), so the facts are *)
(* a function of the delivered events.  The derived state is not: an event *)
(* re-derives only the entities it can affect.  Occurred and observed time *)
(* are one clock, the indexer's; the transaction times of an interval      *)
(* follow the same facts and are left out.                                 *)
(*                                                                         *)
(* Beside it, the code graph as it was indexed at one commit or workspace  *)
(* snapshot (retrieval/revision.py), read in one transaction: the reader   *)
(* derives a run from the same stored facts as the projector, but from the *)
(* members of the run inwards, and over the commits alone for a history.   *)
(* An entry keeps what the properties tell apart; the provenance and the   *)
(* descriptive fields are left out.                                        *)
(***************************************************************************)
EXTENDS Integers, Sequences, FiniteSets, SequencesExt

CONSTANTS
  Ledgers,     \* [events, truth]: the events of a repository, and what its runs indexed
  Files, Symbols, Assertions,
  Never,       \* past every time
  CommitTargets,  \* the targets that are commits; the others are snapshots
  MaxRuns, MaxFiles, MaxSymbols, MaxAssertions, MaxHistory  \* caps of a reader

VARIABLES
  ledger,      \* the ledger of this repository
  delivered,   \* the events projected so far
  files,       \* the HAS_REVISION intervals of a File node
  symbols,     \* the same of a Symbol node
  flags,       \* current and valid_intervals of an Assertion node
  edges        \* the resolved relationships

vars == <<ledger, delivered, files, symbols, flags, edges>>

-----------------------------------------------------------------------------
(* Facts, as load_facts reads them; D is the set of delivered events.      *)

OfKind(D, k) == {e \in D : e.kind = k}
RunEvents(D) == {e \in D : e.kind # "relation"}
Earliest(E) == CHOOSE e \in E : \A f \in E : e.at < f.at \/ (e.at = f.at /\ e.id <= f.id)
Latest(E) == CHOOSE e \in E : \A f \in E : e.at > f.at \/ (e.at = f.at /\ e.id >= f.id)
Least(S) == CHOOSE x \in S : \A y \in S : x <= y

\* One index run: its time is the smallest of its events.
RunAt(D, r) == Earliest({e \in RunEvents(D) : e.run = r}).at
Before(D, r, q) == RunAt(D, r) < RunAt(D, q) \/ (RunAt(D, r) = RunAt(D, q) /\ r < q)
Runs(D) == SetToSortSeq({e.run : e \in RunEvents(D)}, LAMBDA r, q : Before(D, r, q))
Horizon(D) == IF RunEvents(D) = {} THEN 0 ELSE RunAt(D, Last(Runs(D)))

\* Run.permits_absence, by the latest outcome of the run.
Permits(D, r) ==
  LET done == {e \in OfKind(D, "completed") : e.run = r}
  IN  done # {} /\ ~Latest(done).blocking

\* The membership of file f in run r: {} or one [rev, path].
Member(D, r, f) ==
  LET here == {e \in OfKind(D, "file") : e.run = r /\ e.file = f}
      rev == Least({e.rev : e \in here})
  IN  IF here = {} THEN {}
      ELSE {[rev |-> rev, path |-> Earliest({e \in here : e.rev = rev}).path]}

Reports(D, r, f) == {e \in OfKind(D, "coverage") : e.run = r /\ e.file = f}
Covered(D, r, f, rev) ==
  LET here == {e \in Reports(D, r, f) : e.rev = rev} IN here # {} /\ Latest(here).complete

\* DEFINED_IN and OBSERVED_IN: who claims an item for which file revision.
Claims(D, item) ==
  {e \in OfKind(D, "symbol") : e.symbol = item}
    \cup {e \in OfKind(D, "observed") : e.assertion = item}
ClaimsOn(D, rev) == {e \in OfKind(D, "symbol") \cup OfKind(D, "observed") : e.rev = rev}
Claim(D, item, rev) == Earliest({e \in Claims(D, item) : e.rev = rev})

\* An observation alone leaves a stub: the assertion itself is not recorded.
Recorded(D, a) == {e \in OfKind(D, "relation") : e.assertion = a}
Assertion(D, a) == Earliest(Recorded(D, a))
Ends(D, item) ==
  IF item \in Assertions
  THEN LET a == Assertion(D, item) IN {a.subject, a.object}
  ELSE {item}

-----------------------------------------------------------------------------
(* Derivation.                                                             *)

\* _symbol_path_bound: named from the path by the structural parser, or by a
\* SCIP symbol that spells the path.
PathBound(D, s, path) ==
  \E e \in OfKind(D, "symbol") : e.symbol = s /\ e.scip \in {"none", path}

\* _path_matches: a revision claimed under several paths holds a path-derived
\* identity only at the path it was claimed at.
PathMatches(D, item, f, m) ==
  LET PathsIn(runs) == {n.path : n \in {n \in UNION {Member(D, r, f) : r \in runs} :
                                          n.rev = m.rev}}
      own == PathsIn({Claim(D, item, m.rev).run})
  IN  \/ Cardinality(PathsIn({e.run : e \in ClaimsOn(D, m.rev)})) <= 1
      \/ own \subseteq {m.path}
      \/ ~\E s \in Ends(D, item), p \in own : PathBound(D, s, p)

\* _live: the revisions whose claim holds in the membership of r.
Live(D, r, item) ==
  {rev \in {e.rev : e \in Claims(D, item)} :
     LET c == Claim(D, item, rev) IN
     \E m \in Member(D, r, c.file) : /\ m.rev = rev
                                     /\ c.at <= RunAt(D, r)
                                     /\ PathMatches(D, item, c.file, m)}

\* An owning file that is degraded, uncovered or seen without being indexed.
Unproven(D, r, item) ==
  \E e \in Claims(D, item) :
    IF Member(D, r, e.file) = {}
    THEN Reports(D, r, e.file) # {}
    ELSE \E m \in Member(D, r, e.file) : ~Covered(D, r, e.file, m.rev)

\* _owner_status
OwnerStatus(D, r, item) ==
  IF Live(D, r, item) # {} THEN "present"
  ELSE IF ~Permits(D, r) \/ Unproven(D, r, item) THEN "unknown" ELSE "absent"

\* _timeline: status[r] is [state, key, path]; unknown leaves the intervals alone.
TimelineOver(D, runs, status) ==
  LET Close(done, t) == IF done # <<>> /\ Last(done).to = Never
                        THEN [done EXCEPT ![Len(done)].to = t] ELSE done
      Same(done, s) == /\ done # <<>> /\ Last(done).to = Never
                       /\ Last(done).key = s.key /\ Last(done).path = s.path
      Step(done, r) ==
        LET s == status[r] IN
        IF s.state = "unknown" \/ (s.state = "present" /\ Same(done, s)) THEN done
        ELSE IF s.state = "absent" THEN Close(done, RunAt(D, r))
        ELSE Append(Close(done, RunAt(D, r)),
                    [key |-> s.key, path |-> s.path, from |-> RunAt(D, r), to |-> Never])
  IN  FoldLeft(Step, <<>>, runs)

Timeline(D, status) == TimelineOver(D, Runs(D), status)

RunSet(D) == {e.run : e \in RunEvents(D)}
Status(state, key, path) == [state |-> state, key |-> key, path |-> path]

derive_file(D, f) ==
  Timeline(D, [r \in RunSet(D) |->
    IF Member(D, r, f) # {}
    THEN LET m == CHOOSE m \in Member(D, r, f) : TRUE IN Status("present", m.rev, m.path)
    ELSE Status(IF Reports(D, r, f) # {} \/ ~Permits(D, r) THEN "unknown" ELSE "absent", 0, "")])

SymbolStatus(D, r, s) ==
  LET held == {e \in Claims(D, s) : e.rev \in Live(D, r, s)}
      In(state) == Status(state, IF state = "present" THEN Least({e.srev : e \in held}) ELSE 0, "")
  IN  In(OwnerStatus(D, r, s))
derive_symbol(D, s) == Timeline(D, [r \in RunSet(D) |-> SymbolStatus(D, r, s)])

\* _clip: nothing is valid outside what the assertion declares.
Clip(intervals, a) ==
  LET in == SelectSeq(intervals, LAMBDA i : i.from < a.valid_to /\ i.to > a.valid_from)
      Larger(x, y) == IF x > y THEN x ELSE y
      Smaller(x, y) == IF x < y THEN x ELSE y
  IN  [n \in DOMAIN in |-> [in[n] EXCEPT !.from = Larger(@, a.valid_from),
                                         !.to = Smaller(@, a.valid_to)]]

\* derive_assertion: bound to its source revisions and to its target, except
\* for a supersession.
derive_assertion(D, a) ==
  LET fact == Assertion(D, a)
      With(own, target) == IF own = "present" THEN target ELSE own
      bound == Timeline(D, [r \in RunSet(D) |->
        Status(With(OwnerStatus(D, r, a), SymbolStatus(D, r, fact.object).state), 0, "")])
      always == <<[key |-> 0, path |-> "", from |-> fact.valid_from, to |-> Never]>>
  IN  Clip(IF fact.predicate = "SUPERSEDES" THEN always ELSE bound, fact)

\* is_current at the horizon; an end declared past it is not a closure yet.
Flags(D, a) ==
  LET Over(i) == [intervals |-> i,
                  current |-> i # <<>> /\ Last(i).from <= Horizon(D) /\ Last(i).to > Horizon(D)]
  IN  Over(derive_assertion(D, a))

-----------------------------------------------------------------------------
(* Nodes, scope and edges.                                                 *)

FileNodes(D) == {e.file : e \in OfKind(D, "file") \cup OfKind(D, "coverage")}
SymbolNodes(D) == {e.symbol : e \in OfKind(D, "symbol")}
AssertionNodes(D) == {e.assertion : e \in OfKind(D, "observed") \cup OfKind(D, "relation")}

\* What an event touches itself.
Touches(e, field, kinds) == IF e.kind \in kinds THEN {e[field]} ELSE {}

\* _ASSERTIONS_OF_SYMBOLS
Reached(D, syms) ==
  {e.assertion : e \in {e \in OfKind(D, "relation") : e.subject \in syms \/ e.object \in syms}}

\* _expand: the entities that e can affect; a run that starts or completes
\* affects all.
Scope(D, e) ==
  LET touched == Touches(e, "file", {"file", "coverage", "symbol", "observed"})
      on == {c \in OfKind(D, "symbol") \cup OfKind(D, "observed") : c.file \in touched}
      syms == Touches(e, "symbol", {"symbol"}) \cup {c.symbol : c \in OfKind(on, "symbol")}
      bounded == {a.assertion : a \in {a \in OfKind(D, "relation") : a.valid_to # Never}}
  IN  IF e.kind \in {"started", "completed"}
      THEN [files |-> FileNodes(D), symbols |-> SymbolNodes(D), assertions |-> AssertionNodes(D)]
      ELSE [files |-> touched, symbols |-> syms,
            assertions |-> bounded \cup Touches(e, "assertion", {"observed", "relation"})
                             \cup {c.assertion : c \in OfKind(on, "observed")}
                             \cup Reached(D, syms)]

\* resolve_edges: one edge per triple of the current assertions, by the best
\* evidence; an edge needs both of its nodes.
Edges(D, flg, subjects) ==
  LET live == {a \in Assertions : flg[a].current /\ Assertion(D, a).subject \in subjects}
      Triple(a) == LET f == Assertion(D, a) IN <<f.subject, f.predicate, f.object>>
      Wins(a, b) == LET x == Assertion(D, a).rank
                        y == Assertion(D, b).rank
                    IN  x > y \/ (x = y /\ Assertion(D, a).id <= Assertion(D, b).id)
      nodes == FileNodes(D) \cup SymbolNodes(D)
  IN  {[triple |-> t,
        winner |-> CHOOSE a \in live : Triple(a) = t
                                        /\ \A b \in live : Triple(b) = t => Wins(a, b),
        all |-> {a \in live : Triple(a) = t}] :
         t \in {t \in {Triple(a) : a \in live} : t[1] \in nodes /\ t[3] \in nodes}}

NotWritten == [intervals |-> <<>>, current |-> FALSE]

\* project: the facts of the event and what _derive rewrites, in one
\* transaction under the lock of the repository.
Project(e) ==
  LET D == delivered \cup {e}
      scope == Scope(D, e)
      written == {a \in scope.assertions : Recorded(D, a) # {}}
      subjects == {Assertion(D, a).subject : a \in written}
  IN  /\ delivered' = D
      /\ files' = [f \in Files |-> IF f \in scope.files \cap FileNodes(D)
                                   THEN derive_file(D, f) ELSE files[f]]
      /\ symbols' = [s \in Symbols |-> IF s \in scope.symbols \cap SymbolNodes(D)
                                       THEN derive_symbol(D, s) ELSE symbols[s]]
      /\ flags' = [a \in Assertions |-> IF a \in written THEN Flags(D, a) ELSE flags[a]]
      /\ edges' = {x \in edges : x.triple[1] \notin subjects} \cup Edges(D, flags', subjects)
      /\ UNCHANGED ledger

Init ==
  /\ ledger \in Ledgers
  /\ delivered = {}
  /\ files = [f \in Files |-> <<>>]
  /\ symbols = [s \in Symbols |-> <<>>]
  /\ flags = [a \in Assertions |-> NotWritten]
  /\ edges = {}

\* The outbox delivers in any order, and an event that is delivered again is
\* projected again.
Next == \E e \in ledger.events : Project(e)

Spec == Init /\ [][Next]_vars

-----------------------------------------------------------------------------
AllDelivered == delivered = ledger.events

\* "Any delivery order, and duplicates, converge on the same graph": once all
\* events are there, every entity is as a derivation of everything would write
\* it, although each event re-derived only a part (_expand).
Convergent ==
  AllDelivered =>
    /\ files = [f \in Files |-> IF f \in FileNodes(delivered)
                                THEN derive_file(delivered, f) ELSE <<>>]
    /\ symbols = [s \in Symbols |-> IF s \in SymbolNodes(delivered)
                                    THEN derive_symbol(delivered, s) ELSE <<>>]
    /\ flags = [a \in Assertions |-> IF Recorded(delivered, a) # {}
                                     THEN Flags(delivered, a) ELSE NotWritten]
    /\ edges = Edges(delivered, flags, UNION {Ends(delivered, a) : a \in
                 {a \in Assertions : Recorded(delivered, a) # {}}})

Ended(intervals, t) == \E n \in DOMAIN intervals : intervals[n].to = t
interval_at(intervals, t) ==
  \E n \in DOMAIN intervals : intervals[n].from <= t /\ t < intervals[n].to

\* Absence is never guessed: a run that ends the interval of a file or of a
\* symbol did not hold it, whatever the run skipped, degraded or renamed
\* (_owner_status, derive_file).
ClosedIsGone ==
  AllDelivered => \A r \in RunSet(delivered) :
    LET t == RunAt(delivered, r) IN
    /\ \A f \in Files : Ended(files[f], t) /\ ~interval_at(files[f], t) => f \notin ledger.truth[r]
    /\ \A s \in Symbols : Ended(symbols[s], t) /\ ~interval_at(symbols[s], t) => s \notin ledger.truth[r]

\* A run that covered every file leaves nothing standing that it did not hold,
\* such as the names of a file under its old path (_path_matches).
CoveredAll(r) ==
  /\ Permits(delivered, r)
  /\ \A e \in OfKind(delivered, "coverage") : e.run = r => e.complete
GoneIsClosed ==
  AllDelivered => \A r \in RunSet(delivered) : CoveredAll(r) =>
    \A s \in Symbols : interval_at(symbols[s], RunAt(delivered, r)) => s \in ledger.truth[r]

-----------------------------------------------------------------------------
(* The reader of one revision. *)

\* What a run indexed, and whether that is a commit.
Target(r) == ledger.target[r]
IsCommit(r) == Target(r) \in CommitTargets

\* LIMIT: what a query returns of S, in an order of identities.
Capped(S, n) == IF Cardinality(S) <= n THEN S ELSE CHOOSE T \in kSubset(n, S) : TRUE

-----------------------------------------------------------------------------
\* The newest runs, oldest first.
read_runs(D) ==
  LET all == Runs(D) IN SubSeq(all, IF Len(all) > MaxRuns THEN Len(all) - MaxRuns + 1 ELSE 1, Len(all))

Complete(D, r) ==
  LET done == {e \in OfKind(D, "completed") : e.run = r} IN done # {} /\ Latest(done).success

\* The latest complete run of a target, else its latest run: {} or one run.
Selected(D, t) ==
  LET mine == SelectSeq(read_runs(D), LAMBDA r : Target(r) = t)
      complete == SelectSeq(mine, LAMBDA r : Complete(D, r))
  IN  IF mine = <<>> THEN {} ELSE {Last(IF complete # <<>> THEN complete ELSE mine)}

\* Every run up to r.
history_runs(D, r) == SelectSeq(read_runs(D), LAMBDA q : ~Before(D, r, q))

\* The commit that a commit is compared with: {} or one run.
previous(D, r) ==
  LET earlier == SelectSeq(read_runs(D), LAMBDA q : Before(D, q, r) /\ IsCommit(q))
  IN  IF earlier = <<>> THEN {} ELSE {Last(earlier)}

\* _members: the MEMBER_OF rows of a run; a retry may have left two for one file.
members(D, r) ==
  Capped({[file |-> e.file, rev |-> e.rev,
           path |-> Earliest({x \in OfKind(D, "file") : x.run = r /\ x.file = e.file /\ x.rev = e.rev}).path] :
            e \in {x \in OfKind(D, "file") : x.run = r}}, MaxFiles)

IntervalAt(intervals, t) == {i \in Range(intervals) : i.from <= t /\ t < i.to}

\* _present_files: the member rows that the derivation agrees with.
present_files(D, r) ==
  {m \in members(D, r) : \E i \in IntervalAt(derive_file(D, m.file), RunAt(D, r)) : i.key = m.rev}

\* Symbols and assertions claimed, by any run, on a member file revision.
candidates(D, r, kind, field, cap) ==
  Capped({e[field] : e \in {x \in OfKind(D, kind) : \E m \in members(D, r) : m.rev = x.rev}}, cap)

\* _symbols: the revision present at the run, if a present file defines it.
view_symbols(D, r) ==
  LET at == RunAt(D, r)
      Defined(s, srev) == \E e \in Claims(D, s), f \in present_files(D, r) :
                            e.srev = srev /\ e.rev = f.rev
  IN  {x \in UNION {{[symbol |-> s, srev |-> i.key] : i \in IntervalAt(derive_symbol(D, s), at)} :
                      s \in candidates(D, r, "symbol", "symbol", MaxSymbols)} :
         Defined(x.symbol, x.srev)}

view_assertions(D, r) ==
  {a \in candidates(D, r, "observed", "assertion", MaxAssertions) :
     Recorded(D, a) # {} /\ IntervalAt(derive_assertion(D, a), RunAt(D, r)) # {}}

\* relations: one winner per triple between members, found in one pass.
relations(D, r) ==
  LET inside == {f.file : f \in present_files(D, r)} \cup {s.symbol : s \in view_symbols(D, r)}
      Triple(a) == <<Assertion(D, a).subject, Assertion(D, a).predicate, Assertion(D, a).object>>
      Better(a, b) == \/ Assertion(D, a).rank > Assertion(D, b).rank
                      \/ /\ Assertion(D, a).rank = Assertion(D, b).rank
                         /\ Assertion(D, b).id > Assertion(D, a).id
      Hold(best, a) ==
        LET t == Triple(a)
            held == {x \in best : x.triple = t}
        IN  IF \/ {t[1], t[3]} \ inside # {}
               \/ \E x \in held : ~Better(a, x.winner)
            THEN best ELSE (best \ held) \cup {[triple |-> t, winner |-> a]}
  IN  FoldLeft(Hold, {}, SetToSeq(view_assertions(D, r)))

\* The intervals that a shown run opened, the newest MaxHistory of them; a later
\* run that ended one is not shown.
Bounded(D, shown, intervals) ==
  LET opened == SelectSeq(intervals, LAMBDA i : \E q \in Range(shown) : RunAt(D, q) = i.from)
      kept == SubSeq(opened, IF Len(opened) > MaxHistory THEN Len(opened) - MaxHistory + 1 ELSE 1,
                     Len(opened))
      To(t) == IF \E q \in Range(shown) : RunAt(D, q) = t THEN t ELSE Never
  IN  [n \in DOMAIN kept |-> [key |-> kept[n].key, from |-> kept[n].from, to |-> To(kept[n].to)]]

Derived(D, over, shown, s) ==
  Bounded(D, shown, TimelineOver(D, over, [q \in RunSet(D) |-> SymbolStatus(D, q, s)]))

\* _history: a commit's history is derived over the commits up to it.
symbol_history(D, r, s) ==
  LET shown == SelectSeq(history_runs(D, r), LAMBDA q : IsCommit(r) => IsCommit(q))
  IN  Derived(D, IF IsCommit(r) THEN shown ELSE Runs(D), shown, s)

-----------------------------------------------------------------------------
Targets == {Target(r) : r \in RunSet(delivered)}
Viewed == UNION {Selected(delivered, t) : t \in Targets}
Shown(r) ==
  {f.file : f \in present_files(delivered, r)} \cup {s.symbol : s \in view_symbols(delivered, r)}

(***************************************************************************)
(* A revision shows nothing that it does not hold: no uncommitted or later *)
(* code, and no name of a file under a path it no longer has, although     *)
(* its symbols are claims that any run made (_view).                       *)
(***************************************************************************)
ViewTrue == AllDelivered => \A r \in Viewed : Shown(r) \subseteq ledger.truth[r]

(***************************************************************************)
(* "What a revision contains agrees with the projector": once a run has    *)
(* covered everything, reading it inwards from its members finds the files *)
(* and symbols whose stored intervals hold at it, and at the last run the  *)
(* relations that the graph serves.                                        *)
(***************************************************************************)
ViewAgrees ==
  AllDelivered => \A r \in {q \in Viewed : CoveredAll(q)} :
    LET at == RunAt(delivered, r) IN
    /\ Shown(r) = {f \in Files : interval_at(files[f], at)} \cup {s \in Symbols : interval_at(symbols[s], at)}
    /\ r = Last(Runs(delivered)) =>
         relations(delivered, r) = {[triple |-> x.triple, winner |-> x.winner] : x \in edges}

Truthful(r, s, h, view) ==
  /\ IsCommit(r) => \A n \in DOMAIN h : \E q \in RunSet(delivered) :
                      RunAt(delivered, q) = h[n].from /\ IsCommit(q) /\ s \in ledger.truth[q]
  /\ \A n \in 1..(Len(h) - 1) : h[n].to <= h[n + 1].from
  /\ CoveredAll(r) => {x.srev : x \in {y \in view : y.symbol = s}}
                        = {h[n].key : n \in {k \in DOMAIN h : h[k].to = Never}}

(***************************************************************************)
(* The history of a symbol at a commit names commits only, each of which   *)
(* held the symbol, in order and without overlap, and ends where the view  *)
(* of the commit says (_history).                                          *)
(***************************************************************************)
HistoryTrue ==
  AllDelivered => \A r \in Viewed, s \in Symbols :
    Truthful(r, s, symbol_history(delivered, r, s), view_symbols(delivered, r))

=============================================================================
