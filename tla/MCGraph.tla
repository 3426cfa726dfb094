------------------------------ MODULE MCGraph -------------------------------
(***************************************************************************)
(* Instances of what is derived from the sources and of what projects and  *)
(* reads the graph: history, names and parsers of an indexing run, the     *)
(* projectors, and the reads and pages of an answer. A behaviour runs one  *)
(* part from its initial states to the end; the slots v1, v2, ... are the  *)
(* variables of that part, and a slot it does not use stays Unused.        *)
(***************************************************************************)
EXTENDS Integers, Sequences, FiniteSets, SequencesExt

CONSTANTS None, Absent, NoGoMod, NoBlob, Link, Unknown, Foreign, Runner, Nobody, NoMarker,
          Unused

VARIABLES part, v1, v2, v3, v4, v5, v6, v7, v8, v9, v10, v11, v12, v13, v14, v15, v16, v17, v18, v19

vars == <<part, v1, v2, v3, v4, v5, v6, v7, v8, v9, v10, v11, v12, v13, v14, v15, v16, v17, v18, v19>>

Py(dir, stem) == [dir |-> dir, stem |-> stem, lang |-> "python", test |-> FALSE, names |-> {}]
Go(dir, stem, test) == [dir |-> dir, stem |-> stem, lang |-> "go", test |-> test, names |-> {}]
Ts(dir, stem, names) == [dir |-> dir, stem |-> stem, lang |-> "script", test |-> FALSE, names |-> names]

MCUniverse ==
  << Py(<<>>, "a"), Go(<<>>, "main", FALSE), Ts(<<>>, "index", {}),
     Go(<<"a">>, "x_test", TRUE), Go(<<"a">>, "y", FALSE), Ts(<<"a">>, "b", {}), Ts(<<"a">>, "index", {"b"}),
     Py(<<"p">>, "__init__"), Py(<<"p">>, "a"), Py(<<"p", "q">>, "c"), Go(<<"p", "a">>, "z", FALSE), Ts(<<"p">>, "u", {}),
     Py(<<"src">>, "a"), Py(<<"src", "p">>, "__init__"), Py(<<"src", "p">>, "a"), Py(<<"src", "p">>, "b"),
     Ts(<<"p", "a">>, "b", {"b"}) >>

Ref(lang, q, n, level, path) == [lang |-> lang, qualifier |-> q, name |-> n, level |-> level, path |-> path]
MCReferences ==
  {Ref("python", q, n, l, <<>>) : q \in {<<>>, <<"p">>, <<"a">>, <<"q">>}, n \in {"a", "b", "c"}, l \in 0..3}
  \cup {Ref("script", q, n, l, <<>>) : q \in {<<>>, <<"a">>, <<"p", "a">>}, n \in {"b", "u"}, l \in 0..3}
  \cup {Ref("go", <<>>, "a", 0, p) : p \in {<<"host.dev">>, <<"host.dev", "a">>, <<"host.dev", "p", "a">>,
                                           <<"other.dev", "a">>, <<"other.dev", "p", "a">>, <<"strings">>, <<"a">>}}
MCGoMods == {NoGoMod, Unknown, <<"host.dev">>}

Def(q, k) == [tokens |-> q, kind |-> k]
Import(lang, name, from, whole, target, alias, at, scope) ==
  [lang |-> lang, name |-> name, from |-> from, whole |-> whole, target |-> target,
   alias |-> alias, at |-> at, scope |-> scope, relative |-> FALSE, qualifier |-> None]
Use(lang, name, at, scope) == [lang |-> lang, name |-> name, at |-> at, scope |-> scope]

\* Python: a user file u with a class q, modules a, b and p.m with a class A;
\* the imports name them, one of them a package outside the repository.
PyFiles == {"u", "a", "b", "pm"}
PyLanguage == [f \in PyFiles |-> "python"]
PyDir == [f \in PyFiles |-> "."]
PyTokens == [f \in PyFiles |-> IF f = "pm" THEN <<"p", "m">> ELSE <<f>>]
PySymbols ==
  [f \in PyFiles |-> IF f = "u" THEN {Def(<<"u">>, "module"), Def(<<"u", "q">>, "class"), Def(<<"u", "q", "f">>, "method")} ELSE
     {Def(PyTokens[f], "module"), Def(PyTokens[f] \o <<"f">>, "function"), Def(PyTokens[f] \o <<"A">>, "class"),
      Def(PyTokens[f] \o <<"A", "f">>, "method"), Def(PyTokens[f] \o <<"A", "run">>, "method")}]
PyItem == <<"u">>
PyPlaces == {<<1, None>>, <<3, "s">>, <<3, "t">>, <<5, "s">>, <<7, None>>}
PyImports ==
  UNION {{Import("python", <<"f">>, TRUE, FALSE, "a", None, p[1], p[2]),
          Import("python", <<"f">>, TRUE, FALSE, "b", None, p[1], p[2]),
          Import("python", <<"run">>, TRUE, FALSE, "b", None, p[1], p[2]),
          Import("python", <<"A">>, TRUE, FALSE, "a", None, p[1], p[2]),
          Import("python", <<"A">>, TRUE, FALSE, "b", "f", p[1], p[2]),
          Import("python", <<"p", "m">>, FALSE, TRUE, "pm", None, p[1], p[2]),
          Import("python", <<"a">>, FALSE, TRUE, "a", "A", p[1], p[2]),
          Import("python", <<"f">>, TRUE, FALSE, None, None, p[1], p[2])} : p \in PyPlaces}
PyUses ==
  UNION {{Use("python", n, p[1], p[2]) : n \in {<<"f">>, <<"A", "run">>, <<"A", "f">>, <<"p", "m", "f">>, <<"q", "f">>}}
           : p \in {<<2, None>>, <<4, "s">>, <<6, "s">>, <<8, None>>}}

\* Go and TypeScript: two packages with test files; a script file.
GoFiles == {"g1", "g2", "g_test", "h1", "h_test", "ts", "mod"}
GoLanguage == [f \in GoFiles |-> IF f \in {"ts", "mod"} THEN "script" ELSE "go"]
GoDir == [f \in GoFiles |-> IF f \in {"h1", "h_test"} THEN "h" ELSE IF f \in {"ts", "mod"} THEN "." ELSE "g"]
GoTests == {"g_test", "h_test"}
GoTokens == [f \in GoFiles |-> <<f>>]
GoHasModule == GoFiles \ {"h1"}
GoSymbols ==
  [f \in GoFiles |->
     CASE f = "g1" -> {Def(<<f>>, "module"), Def(<<f, "F">>, "function"), Def(<<f, "T">>, "class"), Def(<<f, "T", "M">>, "method")}
       [] f = "g2" -> {Def(<<f>>, "module"), Def(<<f, "G">>, "function")}
       [] f = "g_test" -> {Def(<<f>>, "module"), Def(<<f, "G">>, "function"), Def(<<f, "H">>, "function")}
       [] f = "h1" -> {Def(<<"H">>, "function")}
       [] f = "h_test" -> {Def(<<f>>, "module"), Def(<<f, "K">>, "function")}
       [] f = "ts" -> {Def(<<f>>, "module"), Def(<<f, "T">>, "class"), Def(<<f, "T", "M">>, "method")}
       [] OTHER -> {Def(<<f>>, "module"), Def(<<f, "F">>, "function"), Def(<<f, "T">>, "class"), Def(<<f, "T", "F">>, "method")}]
GoItem == <<"g_test", "g1", "h1", "ts">>
GoImports ==
  {Import("go", <<"h">>, TRUE, TRUE, "h1", None, 1, None), Import("go", <<"h">>, TRUE, TRUE, "h1", "x", 1, None),
   Import("script", <<"mod">>, FALSE, TRUE, "mod", "x", 1, None), Import("script", <<"mod">>, FALSE, TRUE, "mod", None, 1, None),
   Import("script", <<"F">>, TRUE, FALSE, "mod", None, 1, None), Import("script", <<"T">>, TRUE, FALSE, "mod", "F", 1, None),
   [Import("go", <<"hh">>, TRUE, TRUE, "h1", None, 1, None) EXCEPT !.qualifier = "h"],
   [Import("script", <<"F">>, TRUE, FALSE, None, None, 1, None) EXCEPT !.relative = TRUE]}
GoUses ==
  {Use("go", n, 4, None) : n \in {<<"F">>, <<"G">>, <<"H">>, <<"M">>, <<"h", "H">>, <<"h", "K">>, <<"x", "T", "M">>}}
  \cup {Use("script", n, 4, None) : n \in {<<"F">>, <<"x", "F">>, <<"T", "M">>, <<"F", "F">>}}

\* Syntax nodes: the units an error can drop, and the sites of names.
Node(type, names, bases, form, owner) == [type |-> type, names |-> names, bases |-> bases, form |-> form, owner |-> owner]
PyUnits ==
  {Node("class", <<"c">>, <<>>, "", ""), Node("function", <<"f">>, <<>>, "", ""),
   Node("decorated", <<>>, <<>>, "property", ""), Node("assign", <<"a", "a">>, <<>>, "", ""), Node("error", <<>>, <<>>, "", "")}
PySites ==
  {Node("class", <<"c">>, <<"x">>, "", ""), Node("function", <<"x">>, <<>>, "", ""), Node("assign", <<"x">>, <<>>, "", ""),
   Node("call", <<"x">>, <<>>, "", ""), Node("call", <<"y">>, <<>>, "", "c"), Node("call", <<"x">>, <<>>, "member", ""),
   Node("import", <<"x", "long">>, <<>>, "", "m"), Node("error", <<>>, <<>>, "", "")}

\* Answers of an adapter over two sources of two words, some of them against the rules.
Declared(name, kind, a, b) == [name |-> name, kind |-> kind, start |-> a, end |-> b]
AnsSymbols ==
  {Declared(<<"m">>, "module", 0, 2), Declared(<<"a">>, "function", 0, 1), Declared(<<"a">>, "function", 0, 2),
   Declared(<<"m", "b">>, "class", 1, 2), Declared(<<"a", "b">>, "method", 1, 2)}
Mentioned(source, name, a, b) == [source |-> source, name |-> name, start |-> a, end |-> b]
AnsReferences ==
  {<<>>, <<Mentioned(0, <<"a">>, 0, 1)>>, <<Mentioned(1, <<"b">>, 1, 2)>>,
   <<Mentioned(0, <<"a">>, 0, 1), Mentioned(0, <<"b">>, 1, 2)>>}
AnsRaw ==
  {[symbols |-> s, relations |-> r, references |-> x, dropped |-> 0] :
     s \in {<<>>} \cup {<<u>> : u \in AnsSymbols} \cup {<<u, v>> : u \in AnsSymbols, v \in AnsSymbols},
     r \in {<<>>, <<[source |-> 1, target |-> 2]>>}, x \in AnsReferences}
AnsContent == <<<<"a", "b">>, <<"a", "b">>>>
AnsPath == <<{"m"}, {"n"}>>

\* SCIP documents: ranges that are inverted or outside, locals declared twice, late declarations.
Span(a, b) == [start |-> <<0, a>>, end |-> <<0, b>>]
Occurs(symbol, range, enclosing, roles) == [symbol |-> symbol, range |-> range, enclosing |-> enclosing, roles |-> roles]
Info(symbol, kind, relationships) == [symbol |-> symbol, kind |-> kind, relationships |-> relationships]
Towards(symbol, kinds) == <<[symbol |-> symbol, kinds |-> kinds]>>
ScipOccurrences ==
  {<<>>, <<Occurs("l", Span(0, 1), None, 0)>>, <<Occurs("g", Span(0, 1), None, -1)>>,
   <<Occurs("g", Span(1, 0), None, 0), Occurs("l", Span(0, 1), Span(0, 2), 0)>>,
   <<Occurs("g", Span(0, 1), Span(1, 2), 0), Occurs("bad", Span(0, 1), None, 0)>>,
   <<Occurs("l", Span(0, 5), None, 0), Occurs("g", Span(0, 1), Span(0, 5), 0)>>}
ScipInfos ==
  {<<>>, <<Info("l", "A", Towards("g", {"reference"}))>>, <<Info("l", "A", <<>>), Info("l", "B", <<>>)>>,
   <<Info("g", "A", Towards("l", {"reference"})), Info("l", "B", <<>>)>>, <<Info("g", "A", Towards("l", {}))>>,
   <<Info("g", "A", Towards("long", {"reference"}))>>, <<Info("bad", "A", <<>>), Info("l", "A", <<>>), Info("g", "B", <<>>)>>}
ScipDocuments ==
  {[path |-> p, encoding |-> "utf8", lines |-> <<2>>, occurrences |-> o, symbols |-> i] :
     p \in {"p", "q"}, o \in ScipOccurrences, i \in ScipInfos}
  \cup {[path |-> p, encoding |-> e, lines |-> l, occurrences |-> <<Occurs("g", Span(0, 5), None, 0)>>,
         symbols |-> <<Info("l", "A", <<>>)>>] : p \in {"p", "r", "unsafe"}, e \in {"unspecified", "unknown"}, l \in {None, <<2>>, <<>>}}
ScipExternals == {Info("g", "A", Towards("l", {"reference"})), Info("l", "A", <<>>), Info("h", "B", Towards("g", {"reference"}))}

\* Events of an index run, and what each run's commit or snapshot holds.
CodeEvent(id, kind, run, at) == [id |-> id, kind |-> kind, run |-> run, at |-> at]
File(id, run, at, f, rev, path) == [file |-> f, rev |-> rev, path |-> path] @@ CodeEvent(id, "file", run, at)
Cov(id, run, at, f, rev, ok) == [file |-> f, rev |-> rev, complete |-> ok] @@ CodeEvent(id, "coverage", run, at)
Sym(id, run, at, s, srev, f, rev, scip) ==
  [symbol |-> s, srev |-> srev, file |-> f, rev |-> rev, scip |-> scip] @@ CodeEvent(id, "symbol", run, at)
Obs(id, run, at, a, f, rev) == [assertion |-> a, file |-> f, rev |-> rev] @@ CodeEvent(id, "observed", run, at)
Rel(id, at, a, s, o, rank, to) ==
  [assertion |-> a, subject |-> s, predicate |-> "CALLS", object |-> o, rank |-> rank,
   valid_from |-> at, valid_to |-> to] @@ CodeEvent(id, "relation", 0, at)
Completed(id, run, at, ok) == [blocking |-> ~ok, success |-> ok] @@ CodeEvent(id, "completed", run, at)
Indexed(events, targets, truth) == [events |-> events, target |-> targets, truth |-> truth]
Found(id, run, at, f, rev, path) == {File(id, run, at, f, rev, path), Cov(id + 1, run, at, f, rev, TRUE)}

CodeLedgers ==
  { \* a dirty snapshot between two commits of the same content
    Indexed(Found(1, 1, 1, "f", 1, "p") \cup Found(5, 2, 2, "f", 2, "p") \cup Found(9, 3, 3, "f", 1, "p")
             \cup {Sym(3, 1, 1, "s", 11, "f", 1, "none"), Completed(4, 1, 1, TRUE)}
             \cup {Completed(8, 2, 2, TRUE), Completed(11, 3, 3, TRUE)},
           <<"c1", "w", "c2">>, <<{"f", "s"}, {"f"}, {"f", "s"}>>),
    \* a rename that changes the structural names in the file
    Indexed(Found(2, 1, 1, "f", 1, "p") \cup Found(6, 2, 2, "f", 1, "q")
             \cup {Sym(4, 1, 1, "s", 11, "f", 1, "none"), Sym(8, 2, 2, "t", 12, "f", 1, "none")}
             \cup {Completed(5, 1, 1, TRUE), Completed(9, 2, 2, TRUE)},
           <<"c1", "c2">>, <<{"f", "s"}, {"f", "t"}>>),
    \* a rename that does not change a package symbol
    Indexed(Found(2, 1, 1, "f", 1, "p") \cup Found(6, 2, 2, "f", 1, "q")
             \cup {CodeEvent(1, "started", 1, 1), Sym(4, 1, 1, "s", 11, "f", 1, "pkg"), Completed(5, 1, 1, TRUE), Completed(9, 2, 2, TRUE)},
           <<"c1", "c2">>, <<{"f", "s"}, {"f", "s"}>>),
    \* two assertions of one relation, and the commit that drops its target
    Indexed(Found(1, 1, 1, "f", 1, "p")
             \cup {Sym(3, 1, 1, "s", 11, "f", 1, "none"), Sym(4, 1, 1, "t", 12, "f", 1, "none")}
             \cup {Rel(5, 1, "a", "s", "t", 2, 9), Obs(6, 1, 1, "a", "f", 1)}
             \cup {Rel(7, 1, "b", "s", "t", 3, 9), Obs(8, 1, 1, "b", "f", 1), Completed(9, 1, 1, TRUE)},
           <<"c1">>, <<{"f", "s", "t"}>>),
    Indexed(Found(1, 1, 1, "f", 1, "p") \cup Found(8, 2, 2, "f", 2, "p")
             \cup {Sym(3, 1, 1, "s", 11, "f", 1, "none"), Sym(4, 1, 1, "t", 12, "f", 1, "none"), Sym(10, 2, 2, "s", 13, "f", 2, "none")}
             \cup {Rel(5, 1, "a", "s", "t", 2, 9), Obs(6, 1, 1, "a", "f", 1), Completed(11, 2, 2, TRUE)},
           <<"c1", "c2">>, <<{"f", "s", "t"}, {"f", "s"}>>),
    \* a relation into another file
    Indexed(Found(1, 1, 1, "f", 1, "p") \cup Found(3, 1, 1, "g", 5, "q")
             \cup {Sym(5, 1, 1, "s", 11, "f", 1, "none"), Sym(6, 1, 1, "u", 51, "g", 5, "none")}
             \cup {Rel(7, 1, "a", "s", "u", 2, 9), Obs(8, 1, 1, "a", "f", 1), Completed(9, 1, 1, TRUE)},
           <<"c1">>, <<{"f", "s", "g", "u"}>>),
    \* a relation that ends by itself between two runs
    Indexed(Found(1, 1, 1, "f", 1, "p") \cup Found(8, 2, 3, "f", 1, "p")
             \cup {Sym(3, 1, 1, "s", 11, "f", 1, "none"), Rel(5, 1, "a", "s", "s", 2, 2), Obs(6, 1, 1, "a", "f", 1)}
             \cup {Completed(7, 1, 1, TRUE), Completed(10, 2, 3, TRUE)},
           <<"c1", "c2">>, <<{"f", "s"}, {"f", "s"}>>),
    \* a file that the next run degrades, only sees, or does not reach
    Indexed(Found(1, 1, 1, "f", 1, "p") \cup {Sym(3, 1, 1, "s", 11, "f", 1, "none"), Completed(4, 1, 1, TRUE)}
             \cup {File(5, 2, 2, "f", 2, "p"), Cov(6, 2, 2, "f", 2, FALSE), Completed(7, 2, 2, TRUE)},
           <<"c1", "c2">>, <<{"f", "s"}, {"f", "s"}>>),
    Indexed(Found(1, 1, 1, "f", 1, "p") \cup {Sym(3, 1, 1, "s", 11, "f", 1, "none"), Completed(4, 1, 1, TRUE)}
             \cup {Cov(6, 2, 2, "f", 0, FALSE), Completed(7, 2, 2, TRUE)},
           <<"c1", "c2">>, <<{"f", "s"}, {"f", "s"}>>),
    Indexed(Found(1, 1, 1, "f", 1, "p") \cup {Sym(3, 1, 1, "s", 11, "f", 1, "none"), Completed(4, 1, 1, TRUE)}
             \cup Found(5, 2, 2, "g", 5, "q") \cup {Sym(7, 2, 2, "u", 51, "g", 5, "none"), Completed(8, 2, 2, FALSE)},
           <<"c1", "c1">>, <<{"f", "s"}, {"f", "s", "g", "u"}>>),
    \* a file that is gone, beside one that stays
    Indexed(Found(1, 1, 1, "f", 1, "p") \cup Found(4, 1, 1, "g", 5, "q") \cup Found(8, 2, 2, "g", 5, "q")
             \cup {Sym(3, 1, 1, "s", 11, "f", 1, "none"), Completed(7, 1, 1, TRUE), Completed(10, 2, 2, TRUE)},
           <<"c1", "w">>, <<{"f", "s", "g"}, {"g"}>>)}

\* A run that was interrupted and claims its symbols when it is retried.
RetriedLedgers ==
  {Indexed(Found(1, 1, 1, "f", 1, "p") \cup Found(6, 2, 3, "f", 2, "p")
            \cup {Sym(3, 1, 1, "s", 11, "f", 1, "none"), Sym(8, 2, 3, "s", 12, "f", 2, "none")}
            \cup {Completed(4, 1, 1, TRUE), CodeEvent(5, "started", 2, 2), Completed(9, 2, 3, TRUE)},
          <<"c1", "c2">>, <<{"f", "s"}, {"f", "s"}>>)}

\* Events of the other projectors: absent fields are None.
BlankEvent ==
  [type |-> None, order |-> 0, fact |-> None, value |-> None, session |-> None, turn |-> None,
   call |-> None, checkout |-> None, repository |-> None, branch |-> None, commit |-> None,
   parents |-> {}, snapshot |-> None, project |-> None, workspace |-> None, run |-> None,
   places |-> {}, decision |-> None, status |-> None, from |-> None, to |-> None, supersedes |-> None]
Fact(type, order, fields) == fields @@ [BlankEvent EXCEPT !.type = type, !.order = order, !.value = order]
Tested(order, fields) == Fact("test_run", order, fields @@ [run |-> "r", repository |-> "repo"])
QualityHistory ==
  <<Tested(1, [commit |-> "c"]), Tested(2, [snapshot |-> "w"]), Tested(3, [commit |-> "d", snapshot |-> "w"]),
    Fact("commit", 4, [repository |-> "repo", commit |-> "d", parents |-> {"c"}, fact |-> 4]),
    Fact("ci_run", 5, [run |-> "r", fact |-> 5])>>
AgentHistory ==
  <<Fact("session.started", 1, [session |-> "s", checkout |-> "k", fact |-> 1, project |-> "p", workspace |-> "w"]),
    Fact("turn.started", 2, [session |-> "s", turn |-> 1, fact |-> 2, repository |-> "repo"]),
    Fact("tool.completed", 3, [session |-> "s", turn |-> 1, call |-> 1, fact |-> 3]),
    Fact("tool.started", 4, [session |-> "s", turn |-> 1, call |-> 1, fact |-> 4]),
    Fact("turn.completed", 5, [session |-> "s", turn |-> 1, fact |-> 5])>>
GitHistory ==
  <<Fact("checkout", 1, [checkout |-> "k", repository |-> "repo", branch |-> "main", commit |-> "c", fact |-> 1]),
    Fact("checkout", 2, [checkout |-> "k", repository |-> "repo", branch |-> "dev", commit |-> "d", fact |-> 2]),
    Fact("commit", 3, [repository |-> "repo", commit |-> "d", parents |-> {"c"}, session |-> "s", fact |-> 3]),
    Fact("snapshot", 4, [checkout |-> "k", repository |-> "repo", snapshot |-> "w", commit |-> "d", session |-> "s", fact |-> 4]),
    Fact("repository", 5, [repository |-> "repo", project |-> "p", workspace |-> "w", fact |-> 5])>>
Decided(order, d, status, from, to, old) ==
  Fact("decision", order, [decision |-> d, status |-> status, from |-> from, to |-> to, supersedes |-> old, fact |-> order])
\* A decision is superseded, and what superseded it is recorded anew.
DecisionHistories ==
  {<<Decided(1, "d", "accepted", 1, end, None), Decided(2, "e", "accepted", 2, None, "d"), Decided(3, "e", again, 3, None, old),
     Decided(4, "x", "accepted", 4, None, "d")>> :
     end \in {None, 3}, again \in {"accepted", "rejected"}, old \in {None, "d", "y"}}

Version(d, order, status, from, to, sup, rec) ==
  [d |-> d, order |-> order, status |-> status, from |-> from, to |-> to, sup |-> sup, rec |-> rec]
\* Three decisions that supersede each other, or none, and one of them recorded again.
Again(d) == {Version(d, 4, x.status, x.from, 9, x.sup, 2) : x \in
               [status : {"accepted", "rejected", "superseded"}, from : {3}, sup : {0, (d % 3) + 1}]}
RecordedDecisions ==
  UNION {{{Version(n, n, "accepted", n, IF n = 2 THEN 3 ELSE 9, s[n], n) : n \in 1..3} \cup {v} : v \in Again(1) \cup Again(2)}
           : s \in {s \in [1..3 -> 0..3] : \A n \in 1..3 : s[n] # n}}

Seen(id, f, valid, in, run) == [kind |-> "observed", id |-> id, failure |-> f, valid |-> valid, rec |-> valid, in |-> in, run |-> run]
Ci(id, run, status, target, at) == [kind |-> "ci", id |-> id, run |-> run, status |-> status, target |-> target,
                                    completed |-> at, rec |-> at, validated |-> TRUE]
Test(id, run, at) == [kind |-> "test", id |-> id, run |-> run, completed |-> at, rec |-> at]
\* An event that was observed at a time other than that of the run.
RecordedAt(e, n) == [e EXCEPT !.rec = n]
\* A pass that is later reported a failure, or known late from its first or
\* its second report.
ReportedAgain ==
  {{Seen(1, 1, 1, "ci", 1), Ci(2, 1, "failure", "j", 1)} \cup s :
     s \in {{Ci(3, 2, "success", "j", 2), RecordedAt(Ci(4, 2, "failure", "j", 2), 4), Seen(5, 1, 3, "ci", 2)},
            {RecordedAt(Ci(3, 2, "failure", "j", 2), 4), RecordedAt(Ci(4, 2, "success", "j", 3), 3)},
            {RecordedAt(Ci(3, 2, "success", "j", 2), 4), Seen(4, 2, 2, "test", 3), RecordedAt(Test(5, 3, 2), 4)},
            {RecordedAt(Seen(3, 1, 3, "session", 0), 4), Ci(4, 2, "success", "j", 2), Test(5, 2, 3)}}}
FixLedgers == ReportedAgain \cup
  {{Seen(1, 1, 1, "ci", 1), Ci(2, 1, "failure", "k", 1), Seen(3, 2, 2, "session", 0), Seen(4, 1, 3, "ci", 3), Ci(5, 3, "failure", "j", 3), Ci(6, 4, "success", "j", 4)}} \cup
  {{Seen(1, 1, 1, "ci", 1), Ci(2, 1, "failure", "j", 1), Ci(3, 2, "success", "j", 3), x} :
     x \in {Seen(4, 1, 2, "session", 0), Seen(4, 1, 4, "session", 0), Seen(4, 2, 2, "test", 3),
            Ci(4, 3, "success", "k", 4), Ci(4, 2, "failure", "j", 4)}}
   \cup {{Seen(1, 1, 1, "ci", 1), Ci(2, 1, "failure", "j", 1), Ci(3, 2, "success", "j", 2), Seen(4, 1, 3, "ci", 3), Ci(5, 3, "failure", t, 3)} : t \in {"j", "k"}}
   \cup {{Seen(1, 2, 1, "test", 3), Test(2, 3, 1), Seen(3, 1, 2, "ci", 1), Ci(4, 1, "failure", "j", 2), Seen(5, 2, 3, "session", 0)}}
RebuiltLedgers ==
  {{Seen(1, 1, 1, "ci", 1), Ci(2, 1, "failure", "j", 1), RecordedAt(Ci(3, 2, "success", "j", 3), 4), Seen(4, 2, 2, "test", 3)}}

\* Repository 1, modules 2 and 3, files 4 and 5, symbols 6 to 8, and 9 of another repository.
NodeKinds == <<"repository", "module", "module", "file", "file", "symbol", "symbol", "symbol", "symbol">>
Edge(t, a, b) == [type |-> t, from |-> a, to |-> b]
EarlierEdges ==
  {Edge("IN_REPOSITORY", n, 1) : n \in 2..8} \cup {Edge("CALLS", n, n + 1) : n \in 6..8}
    \cup {Edge("IN_MODULE", 4, 2), Edge("DEFINES", 4, 6), Edge("DEFINES", 4, 7), Edge("IMPORTS", 4, 8), Edge("IMPORTS", 6, 8)}
LaterEdges ==
  EarlierEdges \cup {Edge("IN_MODULE", 5, 2), Edge("DEFINES", 5, 8), Edge("REFERENCES", 8, 6), Edge("IMPORTS", 5, 7),
                     Edge("IMPORTS", 8, 6)}
Walked(current, edges) ==
  [nodes |-> 1..9, current |-> current, losers |-> {Edge("CALLS", 6, 8)},
   edges |-> {e \in edges : e.type = "IN_REPOSITORY" \/ {e.from, e.to} \subseteq current \cup 1..3},
   external |-> {[file |-> 4, dep |-> 1], [file |-> 5, dep |-> 2]}]
WalkedGraphs == {Walked(4..9, LaterEdges), Walked({4, 6, 7, 9}, EarlierEdges), Walked({4, 5, 7, 8, 9}, LaterEdges),
                 Walked(4..9, LaterEdges \ {Edge("IMPORTS", 4, 8), Edge("IMPORTS", 5, 7)})}
WalkRequests ==
  [mode : {"neighborhood", "callers", "callees"}, anchor : {1, 2, 4, 6, 8, 9}, depth : {1, 2, 3}, alternatives : {TRUE}]
    \cup [mode : {"dependencies"}, anchor : {2, 3, 4, 6}, depth : {1}, alternatives : {FALSE}]

\* What an answer is gathered from: a revision and a later run, CI runs on
\* the commit or on dirty snapshots, events and search rows.
OwnGraph == [nodes |-> {"f", "g", "s", "t", "u", "m"},
         pairs |-> {{"f", "s"}, {"g", "t"}, {"s", "t"}, {"f", "m"}, {"g", "m"}, {"t", "u"}}]
LaterGraph == [nodes |-> {"f", "g", "s", "u", "x", "m"},
           pairs |-> {{"f", "s"}, {"g", "u"}, {"s", "u"}, {"s", "x"}, {"f", "m"}, {"g", "m"}}]
CiRun(id, job, t, ok, snap) == [id |-> id, job |-> job, at |-> t, passed |-> ok, snapshot |-> snap]
CiHistories ==
  {{CiRun(1, "j", 1, FALSE, a), CiRun(2, "j", 2, ok, b), CiRun(3, c[1], 3, c[2], c[3])} :
     a \in {None, "d"}, b \in {None, "d"}, ok \in BOOLEAN,
     c \in {"j"} \X BOOLEAN \X {None, "d"}}
CitedEvent(t, o, r, s, runs) == [type |-> t, occurred |-> o, observed |-> r, snapshot |-> s, runs |-> runs]
CitedEvents == <<CitedEvent("quality", 1, 1, "d", {}), CitedEvent("agent", 2, 2, None, {}), CitedEvent("agent", 1, 5, None, {}),
             CitedEvent("failure", 2, 2, None, {2}), CitedEvent("agent", 2, 2, None, {})>>
SearchRow(c, e, ss, leg, n) == [content |-> c, event |-> e, sources |-> ss, leg |-> leg, score |-> n]
SearchRows == {{SearchRow("a", 1, {2, 5}, "lexical", 2), SearchRow("b", 4, {5}, "vector", 9), SearchRow("a", 1, {2, 5}, "vector", 9)},
          {SearchRow("a", 3, {1, 5}, "lexical", 2), SearchRow("b", 2, {}, "lexical", 4), SearchRow("c", 5, {4}, "vector", 3)}}
GatherTask == [tool |-> "task", own |-> OwnGraph, after |-> LaterGraph, modules |-> {"m"}, anchors |-> {"s"}, snapshot |-> None,
          before |-> 4, watermark |-> 4, delivered |-> {1, 3}, events |-> CitedEvents, rows |-> {}, runs |-> {}, sessions |-> {},
          active |-> {}, decisions |-> {}, matched |-> {}, supersedes |-> {}]
GatherTasks == {[GatherTask EXCEPT !.anchors = a] : a \in {{"s"}, {"f", "u"}, {"g"}}}
  \cup {[GatherTask EXCEPT !.runs = r, !.sessions = t, !.snapshot = n] : r \in CiHistories, t \in {{}, {2}, {4}}, n \in {None, "e"}}
  \cup {[GatherTask EXCEPT !.rows = r, !.runs = q] : r \in SearchRows, q \in {{}} \cup {{CiRun(2, "j", 2, FALSE, a)} : a \in {None, "d"}}}
  \cup {[GatherTask EXCEPT !.rows = r, !.events[2].type = "decision", !.active = d] : r \in SearchRows, d \in {{}, {2}}}
GatherHistories == {[GatherTask EXCEPT !.tool = "decisions", !.decisions = 1..4, !.matched = m, !.supersedes = l, !.delivered = 1..5] :
     m \in SUBSET (1..3), l \in {{<<2, 1>>, <<3, 2>>}, {<<2, 1>>, <<4, 3>>}, {<<2, 1>>, <<1, 2>>}}}

-----------------------------------------------------------------------------
Walk == INSTANCE Lineage WITH
  phase <- v1, length <- v2, n <- v3, tree <- v4, walk <- v5, twin <- v6, private <- v7,
  links <- v8, gone <- v9, Paths <- 1..3, Unsafe <- {}, Blobs <- {"x", "y"}, MaxCommits <- 3,
  Guesses <- {FALSE}
WalkPaired == INSTANCE Lineage WITH
  phase <- v1, length <- v2, n <- v3, tree <- v4, walk <- v5, twin <- v6, private <- v7,
  links <- v8, gone <- v9, Paths <- 1..3, Unsafe <- {3}, Blobs <- {"x", "y"}, MaxCommits <- 3,
  Guesses <- BOOLEAN
Resolve == INSTANCE ImportResolution WITH
  files <- v1, source <- v2, reference <- v3, go_module <- v4, result <- v5,
  Universe <- MCUniverse, References <- MCReferences, GoMods <- MCGoMods, MaxFiles <- 3
Names == INSTANCE NameBinding WITH
  item <- v1, parsed <- v2, next <- v3, bound <- v4, tables <- v5, claims <- v6, diag <- v7,
  Files <- PyFiles, Language <- PyLanguage, Dir <- PyDir, Symbols <- PySymbols, Item <- PyItem,
  Imports <- PyImports, Uses <- PyUses, Tests <- {}, HasModule <- PyFiles,
  ModuleTokens <- PyTokens, MaxImports <- 2, MaxUses <- 1
Packages == INSTANCE NameBinding WITH
  item <- v1, parsed <- v2, next <- v3, bound <- v4, tables <- v5, claims <- v6, diag <- v7,
  Files <- GoFiles, Language <- GoLanguage, Dir <- GoDir, Symbols <- GoSymbols, Item <- GoItem,
  Imports <- GoImports, Uses <- GoUses, Tests <- GoTests, HasModule <- GoHasModule,
  ModuleTokens <- GoTokens, MaxImports <- 1, MaxUses <- 2
Parse == INSTANCE ParsePlan WITH
  size <- v1, nature <- v2, todo <- v3, solo <- v4, out <- v5, retries <- v6, runs <- v7,
  exhausted <- v8, phase <- v9, Lengths <- {1, 3},
  Natures <- {"good", "kills", "flaky", "heavy", "hopeless"}, NumFiles <- 4,
  MaxSourceBytes <- 3, Budget <- 4, MaxInputFiles <- 3, MaxBisection <- 2
Sandboxed == INSTANCE Sandbox WITH
  pc <- v1, state <- v2, parent <- v3, leads <- v4, doomed <- v5, term <- v6, sweeping <- v7,
  live <- v8, lock <- v9, victims <- v10, confirmed <- v11, code <- v12, sent <- v13,
  out <- v14, got <- v15, wrote <- v16, result <- v17, workdir <- v18, late <- v19,
  Runs <- {1, 2}, Payload <- 0, MaxWrites <- 0, OutLimit <- 1, PipeSize <- 1, Forks <- {1},
  Kills <- {1}, Slow <- {}
SandboxSlow == INSTANCE Sandbox WITH
  pc <- v1, state <- v2, parent <- v3, leads <- v4, doomed <- v5, term <- v6, sweeping <- v7,
  live <- v8, lock <- v9, victims <- v10, confirmed <- v11, code <- v12, sent <- v13,
  out <- v14, got <- v15, wrote <- v16, result <- v17, workdir <- v18, late <- v19,
  Runs <- {1, 2}, Payload <- 0, MaxWrites <- 0, OutLimit <- 1, PipeSize <- 1, Forks <- {},
  Kills <- {}, Slow <- {1}
SandboxOutput == INSTANCE Sandbox WITH
  pc <- v1, state <- v2, parent <- v3, leads <- v4, doomed <- v5, term <- v6, sweeping <- v7,
  live <- v8, lock <- v9, victims <- v10, confirmed <- v11, code <- v12, sent <- v13,
  out <- v14, got <- v15, wrote <- v16, result <- v17, workdir <- v18, late <- v19, Runs <- {1},
  Payload <- 2, MaxWrites <- 3, OutLimit <- 2, PipeSize <- 1, Forks <- {1}, Kills <- {1},
  Slow <- {1}
Tree == INSTANCE PythonWalk WITH
  tree <- v1, cursor <- v2, walk <- v3, answer <- v4, phase <- v5, MaxNodes <- 5,
  Long <- "long", Named <- TRUE, MaxSymbols <- 4, MaxName <- 4, NameLimit <- 6, NameTotal <- 9,
  OutputBudget <- 9, SymbolOverhead <- 1, ReferenceOverhead <- 1, MaxBases <- 1,
  MaxCallSites <- 3, MaxCandidates <- 1, MaxRelations <- 1, MaxFileRelations <- 2,
  MaxReferences <- 1, MaxModuleReferences <- 2, MaxFileReferences <- 2, Shapes <- PyUnits
TreeNames == INSTANCE PythonWalk WITH
  tree <- v1, cursor <- v2, walk <- v3, answer <- v4, phase <- v5, MaxNodes <- 4,
  Long <- "long", Named <- FALSE, MaxSymbols <- 4, MaxName <- 4, NameLimit <- 8,
  NameTotal <- 16, OutputBudget <- 30, SymbolOverhead <- 1, ReferenceOverhead <- 1,
  MaxBases <- 1, MaxCallSites <- 3, MaxCandidates <- 1, MaxRelations <- 1,
  MaxFileRelations <- 2, MaxReferences <- 1, MaxModuleReferences <- 2, MaxFileReferences <- 2,
  Shapes <- PySites
Answers == INSTANCE AdapterAnswer WITH
  raw <- v1, charged <- v2, parsed <- v3, files <- v4, total <- v5, phase <- v6, NumFiles <- 2,
  Content <- AnsContent, PathWords <- AnsPath, Raw <- AnsRaw, MaxSymbols <- 2,
  MaxRelations <- 1, MaxReferences <- 1, MaxModuleReferences <- 2, NameTotal <- 5,
  MaxRangeBound <- 1, SymbolSize <- 2, RelationSize <- 1, ReferenceSize <- 1,
  DiagnosticSize <- 1, FileSize <- 1, Estimate <- 2, OutputBudget <- 9, MaxOutput <- 12,
  MaxCount <- 1
Scip == INSTANCE ScipImport WITH
  index <- v1, importer <- v2, documents <- v3, external <- v4, diagnostics <- v5, done <- v6,
  phase <- v7, Documents <- ScipDocuments, Externals <- ScipExternals, NumDocuments <- 2,
  NumExternals <- 1, Safe <- {"p", "q", "r"}, FileIds <- {"p", "q"}, Locals <- {"l"},
  Invalid <- {"bad"}, Overlong <- {"long"}, MaxDocuments <- 2, MaxOccurrences <- 2,
  MaxSymbols <- 2, MaxRelationships <- 1, MaxTotal <- 6, NoText <- None, NoPath <- Nobody
Codes == INSTANCE CodeProjector WITH
  ledger <- v1, delivered <- v2, files <- v3, symbols <- v4, flags <- v5, edges <- v6,
  Files <- {"f", "g"}, Symbols <- {"s", "t", "u"}, Assertions <- {"a", "b"}, Never <- 9,
  Ledgers <- CodeLedgers, CommitTargets <- {"c1", "c2"}, MaxRuns <- 9, MaxFiles <- 9,
  MaxSymbols <- 9, MaxAssertions <- 9, MaxHistory <- 9
Projectors == INSTANCE GraphProjectors WITH
  events <- v1, delivered <- v2, repeats <- v3, graph <- v4,
  Histories <- {QualityHistory, AgentHistory, GitHistory} \cup DecisionHistories,
  MaxRepeats <- 1
Pages == INSTANCE ContextPages WITH
  outbox <- v1, touched <- v2, graph <- v3, checkpoint <- v4, purged <- v5, clock <- v6,
  cursor <- v7, req <- v8, pages <- v9, asked <- v10, Rows <- 1..4, Temporal <- {2, 3},
  Closes <- [r \in 1..4 |-> IF r = 3 THEN {2} ELSE {}], Observed <- <<1, 3, 2, 4>>,
  Recorded <- <<1, 3, 4, 5>>, Order <- <<4, 1, 2, 3>>, Quoted <- <<4, 3, 2, 3>>,
  Bare <- <<2, 3, 2, 3>>, Done <- {1, 2}, Late <- {}, MaxItems <- 2, MaxBytes <- 9,
  MaxCandidates <- 4, Window <- 2, RecentEvents <- 2, Lifetime <- 1, MaxClock <- 0,
  MaxRequests <- 2
PagesExpiry == INSTANCE ContextPages WITH
  outbox <- v1, touched <- v2, graph <- v3, checkpoint <- v4, purged <- v5, clock <- v6,
  cursor <- v7, req <- v8, pages <- v9, asked <- v10, Rows <- 1..4, Temporal <- {2, 3},
  Closes <- [r \in 1..4 |-> {}], Observed <- <<1, 3, 2, 4>>, Recorded <- <<1, 3, 4, 5>>,
  Order <- <<1, 3, 4, 2>>, Quoted <- <<4, 3, 2, 3>>, Bare <- <<2, 3, 2, 3>>, Done <- {1, 2, 3},
  Late <- {}, MaxItems <- 1, MaxBytes <- 9, MaxCandidates <- 4, Window <- 2, RecentEvents <- 2,
  Lifetime <- 1, MaxClock <- 1, MaxRequests <- 2
DecisionReads == INSTANCE DecisionTimes WITH
  ledger <- v1, stored <- v2, Recorded <- RecordedDecisions, Times <- 1..3, Forever <- 9,
  MaxVersions <- 9, MaxDecisions <- 2, MaxEntryVersions <- 2, MaxChain <- 3, MaxDepth <- 2
DecisionCaps == INSTANCE DecisionTimes WITH
  ledger <- v1, stored <- v2, Recorded <- RecordedDecisions, Times <- 1..3, Forever <- 9,
  MaxVersions <- 3, MaxDecisions <- 2, MaxEntryVersions <- 1, MaxChain <- 3, MaxDepth <- 1
Fixes == INSTANCE FailureFixes WITH
  ledger <- v1, delivered <- v2, graph <- v3, marker <- v4, rebuild <- v5, rebuilds <- v6,
  reader <- v7, moved <- v8, Ledgers <- FixLedgers,
  Cuts <- {[valid |-> 4, recorded |-> 4], [valid |-> 3, recorded |-> 4], [valid |-> 4, recorded |-> 3]},
  MaxObservations <- 9, MaxFailures <- 2, MaxRebuilds <- 0, Swift <- FALSE
FixCaps == INSTANCE FailureFixes WITH
  ledger <- v1, delivered <- v2, graph <- v3, marker <- v4, rebuild <- v5, rebuilds <- v6,
  reader <- v7, moved <- v8, Ledgers <- FixLedgers,
  Cuts <- {[valid |-> 4, recorded |-> 4], [valid |-> 4, recorded |-> 3]}, MaxObservations <- 1,
  MaxFailures <- 2, MaxRebuilds <- 0, Swift <- FALSE
FixRebuilt == INSTANCE FailureFixes WITH
  ledger <- v1, delivered <- v2, graph <- v3, marker <- v4, rebuild <- v5, rebuilds <- v6,
  reader <- v7, moved <- v8, Ledgers <- RebuiltLedgers,
  Cuts <- {[valid |-> 4, recorded |-> 4], [valid |-> 3, recorded |-> 4], [valid |-> 4, recorded |-> 3]},
  MaxObservations <- 9, MaxFailures <- 2, MaxRebuilds <- 1, Swift <- FALSE
Walks == INSTANCE GraphWalk WITH
  graph <- v1, req <- v2, pc <- v3, placed <- v4, level <- v5, at <- v6, answer <- v7,
  changes <- v8, Nodes <- 1..9, Kind <- NodeKinds,
  Owner <- [n \in 1..9 |-> IF n = 9 THEN "q" ELSE "r"], Scope <- "r", Graphs <- WalkedGraphs,
  Requests <- WalkRequests, MaxDepth <- 2, MaxNodes <- 9, MaxEdges <- 99, MaxChanges <- 1
WalkCaps == INSTANCE GraphWalk WITH
  graph <- v1, req <- v2, pc <- v3, placed <- v4, level <- v5, at <- v6, answer <- v7,
  changes <- v8, Nodes <- 1..9, Kind <- NodeKinds,
  Owner <- [n \in 1..9 |-> IF n = 9 THEN "q" ELSE "r"], Scope <- "r", Graphs <- WalkedGraphs,
  Requests <- WalkRequests, MaxDepth <- 2, MaxNodes <- 4, MaxEdges <- 99, MaxChanges <- 1
WalkEdges == INSTANCE GraphWalk WITH
  graph <- v1, req <- v2, pc <- v3, placed <- v4, level <- v5, at <- v6, answer <- v7,
  changes <- v8, Nodes <- 1..9, Kind <- NodeKinds,
  Owner <- [n \in 1..9 |-> IF n = 9 THEN "q" ELSE "r"], Scope <- "r", Graphs <- WalkedGraphs,
  Requests <- WalkRequests, MaxDepth <- 2, MaxNodes <- 2, MaxEdges <- 2, MaxChanges <- 1
Gather == INSTANCE Candidates WITH
  world <- v1, later <- v2, delivered <- v3, stage <- v4, view <- v5, todo <- v6,
  distances <- v7, failures <- v8, kept <- v9, items <- v10, chosen <- v11,
  Worlds <- GatherTasks \cup GatherHistories, Depth <- 2, MinVector <- 5

\* What the modules assume of their constants.
ASSUME ConstantsLegal == Walk!LineageAssumption /\ WalkPaired!LineageAssumption /\
         Resolve!ResolutionAssumption /\ Names!BindingAssumption /\
         Packages!BindingAssumption /\ Parse!PlanAssumption /\ Sandboxed!SandboxAssumption /\
         SandboxSlow!SandboxAssumption /\ SandboxOutput!SandboxAssumption

Rest11 == <<v12, v13, v14, v15, v16, v17, v18, v19>>
Idle11 == v12 = Unused /\ v13 = Unused /\ v14 = Unused /\ v15 = Unused /\ v16 = Unused /\
          v17 = Unused /\ v18 = Unused /\ v19 = Unused
Rest10 == <<v11, Rest11>>
Idle10 == v11 = Unused /\ Idle11
Rest9 == <<v10, Rest10>>
Idle9 == v10 = Unused /\ Idle10
Rest8 == <<v9, Rest9>>
Idle8 == v9 = Unused /\ Idle9
Rest7 == <<v8, Rest8>>
Idle7 == v8 = Unused /\ Idle8
Rest6 == <<v7, Rest7>>
Idle6 == v7 = Unused /\ Idle7
Rest5 == <<v6, Rest6>>
Idle5 == v6 = Unused /\ Idle6
Rest4 == <<v5, Rest5>>
Idle4 == v5 = Unused /\ Idle5
Rest2 == <<v3, v4, Rest4>>
Idle2 == v3 = Unused /\ v4 = Unused /\ Idle4

Init ==
  \/ part = "lineage" /\ Walk!Init /\ Idle9
  \/ part = "lineage_pairings" /\ WalkPaired!Init /\ Idle9
  \/ part = "imports" /\ Resolve!Init /\ Idle5
  \/ part = "names" /\ Names!Init /\ Idle7
  \/ part = "packages" /\ Packages!Init /\ Idle7
  \/ part = "parse" /\ Parse!Init /\ Idle9
  \/ part = "sandbox" /\ Sandboxed!Init
  \/ part = "sandbox_slow" /\ SandboxSlow!Init
  \/ part = "sandbox_output" /\ SandboxOutput!Init
  \/ part = "python" /\ Tree!Init /\ Idle5
  \/ part = "python_names" /\ TreeNames!Init /\ Idle5
  \/ part = "answer" /\ Answers!Init /\ Idle6
  \/ part = "scip" /\ Scip!Init /\ Idle7
  \/ part = "code" /\ Codes!Init /\ Idle6
  \/ part = "projectors" /\ Projectors!Init /\ Idle4
  \/ part = "pages" /\ Pages!Init /\ Idle10
  \/ part = "pages_expiry" /\ PagesExpiry!Init /\ Idle10
  \/ part = "decisions" /\ DecisionReads!Init /\ Idle2
  \/ part = "decisions_capped" /\ DecisionCaps!Init /\ Idle2
  \/ part = "fixes" /\ Fixes!Init /\ Idle8
  \/ part = "fixes_capped" /\ FixCaps!Init /\ Idle8
  \/ part = "fixes_rebuilt" /\ FixRebuilt!Init /\ Idle8
  \/ part = "walk" /\ Walks!Init /\ Idle8
  \/ part = "walk_capped" /\ WalkCaps!Init /\ Idle8
  \/ part = "walk_edges" /\ WalkEdges!Init /\ Idle8
  \/ part = "gather" /\ Gather!Init /\ Idle11

WalkNext == part = "lineage" /\ Walk!Next /\ UNCHANGED <<part, Rest9>>
WalkPairedNext == part = "lineage_pairings" /\ WalkPaired!Next /\ UNCHANGED <<part, Rest9>>
ResolveNext == part = "imports" /\ Resolve!Next /\ UNCHANGED <<part, Rest5>>
NamesNext == part = "names" /\ Names!Next /\ UNCHANGED <<part, Rest7>>
PackagesNext == part = "packages" /\ Packages!Next /\ UNCHANGED <<part, Rest7>>
ParseNext == part = "parse" /\ Parse!Next /\ UNCHANGED <<part, Rest9>>
SandboxedNext == part = "sandbox" /\ Sandboxed!Next /\ UNCHANGED part
SandboxSlowNext == part = "sandbox_slow" /\ SandboxSlow!Next /\ UNCHANGED part
SandboxOutputNext == part = "sandbox_output" /\ SandboxOutput!Next /\ UNCHANGED part
TreeNext == part = "python" /\ Tree!Next /\ UNCHANGED <<part, Rest5>>
TreeNamesNext == part = "python_names" /\ TreeNames!Next /\ UNCHANGED <<part, Rest5>>
AnswersNext == part = "answer" /\ Answers!Next /\ UNCHANGED <<part, Rest6>>
ScipNext == part = "scip" /\ Scip!Next /\ UNCHANGED <<part, Rest7>>
CodesNext == part = "code" /\ Codes!Next /\ UNCHANGED <<part, Rest6>>
ProjectorsNext == part = "projectors" /\ Projectors!Next /\ UNCHANGED <<part, Rest4>>
PagesNext == part = "pages" /\ Pages!Next /\ UNCHANGED <<part, Rest10>>
PagesExpiryNext == part = "pages_expiry" /\ PagesExpiry!Next /\ UNCHANGED <<part, Rest10>>
DecisionReadsNext == part = "decisions" /\ DecisionReads!Next /\ UNCHANGED <<part, Rest2>>
DecisionCapsNext == part = "decisions_capped" /\ DecisionCaps!Next /\ UNCHANGED <<part, Rest2>>
FixesNext == part = "fixes" /\ Fixes!Next /\ UNCHANGED <<part, Rest8>>
FixCapsNext == part = "fixes_capped" /\ FixCaps!Next /\ UNCHANGED <<part, Rest8>>
FixRebuiltNext == part = "fixes_rebuilt" /\ FixRebuilt!Next /\ UNCHANGED <<part, Rest8>>
WalksNext == part = "walk" /\ Walks!Next /\ UNCHANGED <<part, Rest8>>
WalkCapsNext == part = "walk_capped" /\ WalkCaps!Next /\ UNCHANGED <<part, Rest8>>
WalkEdgesNext == part = "walk_edges" /\ WalkEdges!Next /\ UNCHANGED <<part, Rest8>>
GatherNext == part = "gather" /\ Gather!Next /\ UNCHANGED <<part, Rest11>>

Next == WalkNext \/ WalkPairedNext \/ ResolveNext \/ NamesNext \/ PackagesNext \/
        ParseNext \/ SandboxedNext \/ SandboxSlowNext \/ SandboxOutputNext \/ TreeNext \/
        TreeNamesNext \/ AnswersNext \/ ScipNext \/ CodesNext \/ ProjectorsNext \/
        PagesNext \/ PagesExpiryNext \/ DecisionReadsNext \/ DecisionCapsNext \/
        FixesNext \/ FixCapsNext \/ FixRebuiltNext \/ WalksNext \/ WalkCapsNext \/
        WalkEdgesNext \/ GatherNext

Spec == Init /\ [][Next]_vars

\* Parts that run alone: the retried index run, the pages, a rebuild.
Retried == INSTANCE CodeProjector WITH
  ledger <- v1, delivered <- v2, files <- v3, symbols <- v4, flags <- v5, edges <- v6,
  Files <- {"f", "g"}, Symbols <- {"s", "t", "u"}, Assertions <- {"a", "b"}, Never <- 9,
  Ledgers <- RetriedLedgers, CommitTargets <- {"c1", "c2"}, MaxRuns <- 9, MaxFiles <- 9,
  MaxSymbols <- 9, MaxAssertions <- 9, MaxHistory <- 9
RetrySpec ==
  /\ part = "code_retry" /\ Retried!Init /\ Idle6
  /\ [][Retried!Next /\ UNCHANGED <<part, Rest6>>]_vars

CursorSpec == part = "pages" /\ Init /\ [][PagesNext]_vars

\* A lost rebuild lock, and rows that the projector does not handle.
Unhandled == INSTANCE Rebuild WITH
  outbox <- v1, checkpoints <- v2, graph <- v3, marker <- v4, worker <- v5, rebuild <- v6,
  shared <- v7, exclusive <- v8, failures <- v9, lost_locks <- v10, Rows <- 1..3,
  Handled <- {1, 3}, Versions <- {"v1"}, Workers <- {"w1"}, Rebuilds <- {"p1"},
  Modes <- {"in_place"}, PageSize <- 2, WipeLimit <- 1, StopFirst <- FALSE,
  KeepStopped <- FALSE, MaxFailures <- 0, MaxLostLocks <- 1
UnhandledSpec ==
  /\ part = "unhandled" /\ Unhandled!Init /\ Idle10
  /\ [][Unhandled!Next /\ UNCHANGED <<part, Rest10>>]_vars

\* "If a delivered event at or below the replay head was missed, the rebuild
\* fails": one that was verified misses none (_finalize_checkpoints,
\* _require_nothing_missed).
MissedEventFails ==
  v6["p1"].pc = "record" => Unhandled!Complete("live", "v1")

\* What is derived as absent at a run was really absent from it, also when
\* the run was interrupted and retried (CodeProjector, _live).
ClosedIsGoneAfterRetry == Retried!ClosedIsGone

\* A cursor that is accepted continues the same answer: no item comes twice
\* (_snapshot_token, CursorCodec.decode).
NoItemTwice == Pages!NoItemTwice

-----------------------------------------------------------------------------
\* What a file, an import and a name resolve to: one identity per file of a
\* history, and the module or symbol that is meant.
\* - The lineages alive after a commit are the paths of its tree.
\* - A supersession names an older lineage.
\* - A lineage that ended never comes back.
\* - Two gits that pair renames differently derive the same ids.
\* - The records of a diff never contradict the walked tree.
\* - The private GIT_DIR is removed however the walk ends.
\* - A relative import never leaves the package tree.
\* - An import of a whole module names exactly that module.
\* - A Go import without a known module path is not guessed.
\* - A script import resolves to the file its path names.
\* - An import relation names a module or a module-level symbol.
\* - A production file never refers to a symbol of a test file.
ResolutionSound ==
  /\ part = "lineage" => /\ Walk!LiveIsTree
                         /\ Walk!SupersessionsGoBack
                         /\ Walk!NeverResurrected
  /\ part = "lineage_pairings" => /\ WalkPaired!SameIdsForEveryGit
                                  /\ WalkPaired!NeverInconsistent
                                  /\ WalkPaired!PrivateRemoved
  /\ part = "imports" => /\ Resolve!RelativeStaysInTree
                         /\ Resolve!WholeIsExact
                         /\ Resolve!GoNeverGuesses
                         /\ Resolve!ScriptPathIsExact
  /\ part = "names" => Names!ImportsAreModuleLevel
  /\ part = "packages" => Packages!ProductionNeverSeesTests

\* A relation is claimed, and an ambiguity reported, only where the program
\* has it.
\* - A claimed relation is meant by every execution that reaches it through
\*   an import of a repository file; an import from outside, or a definition
\*   of the file itself, that takes the name is not seen (bind_import returns
\*   before bind_names).
\* - An ambiguity of repository imports is reported only where there is one.
ClaimsAreMeant == [][
  /\ part = "names" => /\ Names!ClaimIsMeant
                       /\ Names!TwoMeanings]_vars

\* Parsers in processes that die lose no file but their own, and leave
\* nothing behind.
\* - Every source comes back exactly once from the parser processes.
\* - A bad file degrades alone while the bisection budget lasts.
\* - No corpus makes the indexer spawn unbounded children.
\* - Every request respects the limits of the adapter.
\* - When a run returned no process of it is left, also after its
\*   supervisor was killed or was slow (_reap, _sweep_orphans).
\* - An adapter never starts beside the orphans of an earlier supervisor.
\* - The cleanup of one run kills no process of another run or of the
\*   worker.
\* - An answer that is taken is the whole output of an adapter that
\*   confined itself and ended well (_communicate).
\* - Malformed declarations never starve valid ones.
\* - The answer for a file dangles nowhere and respects every cap.
\* - No name of the file is a reference, and no reference is left out
\*   silently.
\* - The parent never refuses the answer for a whole request.
\* - What was found and is not answered shows as a diagnostic.
\* - A refused file costs the next ones nothing.
\* - No two symbols of an accepted file share an identity.
\* - A SCIP symbol has one id for all its uses, and no other symbol has it.
\* - What the SCIP import leaves out has a diagnostic.
\* - What the SCIP import keeps lies in the text and says something.
\* - The scan of the wire bounds an index before it is built.
ParseSound ==
  /\ part = "parse" => /\ Parse!EveryFileOnce
                       /\ Parse!InnocentParsed
                       /\ Parse!RunsBounded
                       /\ Parse!RequestsFit
  /\ part = "sandbox" => /\ Sandboxed!NothingSurvives
                         /\ Sandboxed!SweptBeforeSpawn
                         /\ Sandboxed!OthersUntouched
  /\ part = "sandbox_slow" => /\ SandboxSlow!NothingSurvives
                              /\ SandboxSlow!SweptBeforeSpawn
                              /\ SandboxSlow!OthersUntouched
  /\ part = "sandbox_output" => /\ SandboxOutput!NothingSurvives
                                /\ SandboxOutput!AnswerWhole
  /\ part = "python" => /\ Tree!NoStarvation
                        /\ Tree!AnswerAccepted
  /\ part = "python_names" => /\ TreeNames!AnswerAccepted
                              /\ TreeNames!NothingSilent
  /\ part = "answer" => /\ Answers!BatchAccepted
                        /\ Answers!NeverSilent
                        /\ Answers!ChargeReturned
                        /\ Answers!IdentitiesDistinct
  /\ part = "scip" => /\ Scip!OneIdPerSymbol
                      /\ Scip!DropsReported
                      /\ Scip!NothingFabricated
                      /\ Scip!BoundedFirst

\* The projected graph is what the delivered events say.
\* - The derived code graph depends only on which events were delivered
\*   (CodeProjector).
\* - What is derived as absent at a run was really absent from it.
\* - What a complete run did not hold is derived as absent.
\* - The graph of the other projectors depends on the events alone, in any
\*   order and repeated.
\* - The closure of a decision is the one its recordings say (_CLOSE,
\*   decision_states).
\* - Relations that follow a current record come from that record
\*   (_replace_validated_targets).
ProjectorsSound ==
  /\ part = "code" => /\ Codes!Convergent
                      /\ Codes!ClosedIsGone
                      /\ Codes!GoneIsClosed
  /\ part = "projectors" => /\ Projectors!OrderIrrelevant
                            /\ Projectors!ClosureAgrees
                            /\ Projectors!ValidatesCurrent

\* Reads of the graph, at a revision, around a node or as of a time, show
\* what it holds, whatever is delivered, capped or rebuilt meanwhile.
\* - A revision shows the files and symbols its commit or snapshot holds
\*   (_view).
\* - The view of the latest run agrees with the current flags and edges of
\*   the projector.
\* - A symbol history lists the revisions of commits, and ends them where
\*   they ended (_history).
\* - An uncut walk finds each node in reach at its least distance and every
\*   edge between them (_walk).
\* - A cut walk leaves out no node nearer than one it keeps.
\* - Dependencies not marked truncated are all there (_outgoing).
\* - While the graph changes, an answer stays in its repository, its bounds
\*   and its own nodes.
\* - The decisions answered for a past record time do not change when more
\*   is delivered; the failures change only through a run that was reported
\*   again, whose newest report shows at each time since its first.
\* - Decisions answered under the caps are answered by their newest known
\*   recordings, and none is active that another active one of the answer
\*   supersedes; a superseder that a cap left out may leave one active that
\*   an uncapped read does not answer (_load_versions).
\* - A chain that is not marked truncated holds every link around its
\*   decision (_chain_history).
\* - No answer is taken from a graph that a rebuild is wiping or replaying
\*   (_read).
\* - A failure is resolved only when every target passed after its last
\*   failure (_failure_record).
\* - A capped read calls a failure resolved or unresolved only if an
\*   uncapped one would.
ReadsSound ==
  /\ part = "code" => /\ Codes!ViewTrue
                      /\ Codes!ViewAgrees
                      /\ Codes!HistoryTrue
  /\ part = "walk" => /\ Walks!WalkExact
                      /\ Walks!DependenciesWhole
                      /\ Walks!AnswerClosed
  /\ part = "walk_capped" => /\ WalkCaps!WalkExact
                             /\ WalkCaps!CutKeepsNearest
                             /\ WalkCaps!DependenciesWhole
                             /\ WalkCaps!AnswerClosed
  /\ part = "walk_edges" => /\ WalkEdges!CutKeepsNearest
                            /\ WalkEdges!DependenciesWhole
                            /\ WalkEdges!AnswerClosed
  /\ part = "decisions" => /\ DecisionReads!PastIsFixed
                           /\ DecisionReads!AnswerConsistent
                           /\ DecisionReads!HistoryComplete
  /\ part = "decisions_capped" => /\ DecisionCaps!AnswerConsistent
                                  /\ DecisionCaps!HistoryComplete
  /\ part = "fixes_rebuilt" => FixRebuilt!ServedWhole
  /\ part = "fixes" => /\ Fixes!ResolvedIsFixed
                       /\ Fixes!PastMovesByRunsOnly
  /\ part = "fixes_capped" => /\ FixCaps!ResolvedIsFixed
                              /\ FixCaps!PastMovesByRunsOnly
                              /\ FixCaps!CapsHonest

\* What an answer gathers is evidence for the revision, and its pages hold
\* together while the projection moves.
\* - Only nodes of the revision are shown, at distances the revision has
\*   (_task_candidates).
\* - A failure shown as resolved is resolved by the runs that are kept
\*   (_without_dirty).
\* - Search content is shown and described through citable events only
\*   (_search_hits).
\* - A decision history is closed over supersessions
\*   (_decision_candidates).
\* - The pages of one snapshot follow each other without a gap (_page,
\*   CursorCodec).
\* - A page never exceeds its items and bytes, and ends only for a reason.
\* - No item cites a row beyond the watermark of its answer
\*   (FreshnessReader.read).
\* - A temporal fact recorded after the oldest waiting row is not shown.
\* - Content purged before it is loaded is never quoted
\*   (EvidenceLedger.snippets).
AnswersSound ==
  /\ part = "gather" => /\ Gather!NearInRevision
                        /\ Gather!ResolvedByKept
                        /\ Gather!ShownIsCitable
                        /\ Gather!DecisionsClosed
  /\ part = "pages" => /\ Pages!PagesContiguous
                       /\ Pages!BudgetExact
                       /\ Pages!WatermarkHolds
                       /\ Pages!BacklogHidden
                       /\ Pages!PurgeWins
  /\ part = "pages_expiry" => /\ PagesExpiry!PagesContiguous
                              /\ PagesExpiry!BudgetExact

=============================================================================
