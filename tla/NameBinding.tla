----------------------------- MODULE NameBinding -----------------------------
(***************************************************************************)
(* How the indexer binds the names of ONE file (the emitter's bind_import, *)
(* bind_names, bind_symbol_reference, pick_binding, owned and              *)
(* package_candidates).  A file is parsed into imports and into calls or   *)
(* inheritances; the imports introduce local names, and a reference is     *)
(* resolved only through a name the file binds.  A name is a token, a      *)
(* dotted name a sequence of tokens, a position a number.                  *)
(***************************************************************************)
EXTENDS Integers, Sequences, FiniteSets, SequencesExt

CONSTANTS
  Files,        \* the indexed files of the repository
  Language,     \* Files -> {"python", "script", "go"}
  Dir,          \* Files -> the directory of a file
  Tests,        \* the Go files named *_test.go
  Symbols,      \* Files -> set of [tokens, kind], the parsed symbols
  HasModule,    \* the files with a symbol of kind "module"
  ModuleTokens, \* Files -> the tokens of that symbol's qualified name
  Item,         \* the files whose references are resolved, in order
  Imports,      \* the import references a file may contain
  Uses,         \* the calls and inheritances it may contain
  MaxImports,   \* bound: imports in a file
  MaxUses,      \* bound: references resolved in a run
  None          \* no file, no symbol, no scope

BindingAssumption ==
  /\ MaxImports \in Nat /\ MaxUses \in Nat
  /\ Tests \subseteq Files /\ HasModule \subseteq Files

VARIABLES
  item,      \* the file being resolved
  parsed,    \* its imports, in textual order
  next,      \* the next import to bind
  bound,     \* name -> set of bindings
  tables,    \* package_names: the name tables built so far, by key
  claims,    \* relation claims: [item, use, target] and imports
  diag       \* what was counted: [item, use, code]

vars == <<item, parsed, next, bound, tables, claims, diag>>

-----------------------------------------------------------------------------
(* The index of one file's symbols. *)

Owner(s) == Front(s.tokens)

ModuleLevel(f) ==
  IF f \in HasModule
  THEN {Last(s.tokens) : s \in {t \in Symbols[f] : t.kind # "module" /\ Owner(t) = ModuleTokens[f]}}
  ELSE {}

Sym(f, s) == [file |-> f, tokens |-> s.tokens]

\* owned: symbols whose owner chain is exactly `chain` under the module (a
\* suffix of the owners when the file has no module symbol).
owned(f, wanted, chain) ==
  {Sym(f, s) : s \in {t \in Symbols[f] :
     /\ t.kind # "module" /\ Last(t.tokens) = wanted
     /\ IF f \in HasModule THEN Owner(t) = ModuleTokens[f] \o chain
                           ELSE IsSuffix(chain, Owner(t))}}

\* scope_files: the files whose top-level names f's namespace shares.
scope_files(f) ==
  IF Language[f] # "go" THEN {f}
  ELSE {g \in Files : Language[g] = "go" /\ Dir[g] = Dir[f] /\ (f \in Tests \/ g \notin Tests)}

TableKey(f) == <<f \in Tests, Dir[f]>>

TableOf(f) ==
  UNION {{Sym(g, s) : s \in {t \in Symbols[g] :
            /\ t.kind # "module"
            /\ g \in HasModule => Last(t.tokens) \in ModuleLevel(g)}} : g \in scope_files(f)}

\* The name table of f's package: the one built first under its key.
Table(f) == IF tables[TableKey(f)] = None THEN TableOf(f) ELSE tables[TableKey(f)]

package_candidates(f, wanted) == {s \in Table(f) : Last(s.tokens) = wanted}

-----------------------------------------------------------------------------
(* Imports. *)

Binding(r, symbol, consumed) ==
  [file |-> r.target, symbol |-> symbol, consumed |-> consumed, at |-> r.at, scope |-> r.scope]

\* bind_names: the local name an import introduces and what it stands for.
bind_names(r) ==
  CASE Language[item] = "go" ->
         {<<n, Binding(r, None, <<>>)>> :
            n \in IF r.alias # None THEN {r.alias} ELSE {Last(r.name), r.qualifier} \ {None}}
    [] Language[item] = "script" ->
         IF r.whole THEN IF r.alias = None THEN {} ELSE {<<r.alias, Binding(r, None, <<>>)>>}
         ELSE {<<IF r.alias # None THEN r.alias ELSE Last(r.name), Binding(r, Last(r.name), <<>>)>>}
    [] OTHER ->
         IF r.from THEN {<<IF r.alias # None THEN r.alias ELSE Last(r.name),
                           Binding(r, IF r.whole THEN None ELSE Last(r.name), <<>>)>>}
         ELSE IF ~r.whole THEN {}
         ELSE IF r.alias # None THEN {<<r.alias, Binding(r, None, <<>>)>>}
         ELSE {<<Head(r.name), Binding(r, None, Tail(r.name))>>}

Module(f) == [file |-> f, tokens |-> IF f \in HasModule THEN ModuleTokens[f] ELSE <<>>]

Bindings(name) == {b[2] : b \in {c \in bound : c[1] = name}}

Mut_ImportedNames(r) == {Sym(r.target, s) : s \in {t \in Symbols[r.target] : Last(t.tokens) = Last(r.name)}}

\* The symbols an import of a name may stand for: the module-level ones.
ImportedNames(r) == owned(r.target, Last(r.name), <<>>)

\* bind_import: an import of a file outside the repository is a dependency;
\* otherwise it binds its names and asserts an import relation.
BindImport ==
  /\ next <= Len(parsed)
  /\ next' = next + 1
  /\ LET r == parsed[next] IN
       IF r.target = None
       THEN /\ diag' = diag \cup {<<item, r, IF r.relative THEN "unresolved_relative_import" ELSE "dependency">>}
            /\ UNCHANGED <<bound, claims>>
       ELSE /\ bound' = bound \cup bind_names(r)
            /\ claims' = claims \cup
                 IF r.whole THEN {[item |-> item, use |-> None, target |-> Module(r.target)]}
                 ELSE IF ImportedNames(r) = {} THEN {}
                 ELSE {[item |-> item, use |-> None, target |-> CHOOSE s \in ImportedNames(r) : TRUE]}
            /\ UNCHANGED diag
  /\ UNCHANGED <<item, parsed, tables>>

-----------------------------------------------------------------------------
(* References. *)

Thing(b) == <<b.file, b.symbol>>
Latest(bs) == CHOOSE b \in bs : \A c \in bs : c.at <= b.at
Ambiguous == [picked |-> None, ambiguous |-> TRUE]
Unbound == [picked |-> None, ambiguous |-> FALSE]
Picked(b) == [picked |-> b, ambiguous |-> FALSE]

Fitting(options, rest, u) ==
  LET seen == {b \in options : IsPrefix(b.consumed, rest) /\ b.scope \in {None, u.scope}} IN
  {b \in seen : \A c \in seen : Len(c.consumed) <= Len(b.consumed)}

Mut_pick_binding(options, rest, u) ==
  LET fit    == Fitting(options, rest, u)
      local  == {b \in fit : b.scope # None /\ b.at < u.at}
      before == {b \in fit : b.scope = None /\ b.at < u.at}
  IN CASE fit = {} -> Unbound
       [] Cardinality({Thing(b) : b \in fit}) = 1 -> Picked(CHOOSE b \in fit : TRUE)
       [] local # {} -> Picked(Latest(local))
       [] before = {} -> Ambiguous
       [] OTHER -> Picked(Latest(before))

\* pick_binding: the binding a reference sees, or that rebinding makes it
\* ambiguous.
pick_binding(options, rest, u) ==
  LET fit    == Fitting(options, rest, u)
      local  == {b \in fit : b.scope # None /\ b.at < u.at}
      module == {b \in fit : b.scope = None}
      before == {b \in module : b.at < u.at}
  IN CASE fit = {} -> Unbound
       [] Cardinality({Thing(b) : b \in fit}) = 1 -> Picked(CHOOSE b \in fit : TRUE)
       [] local # {} -> Picked(Latest(local))
       [] before = {} -> Ambiguous
       [] u.scope # None /\ (\E b \in module : b.at > u.at /\ Thing(b) # Thing(Latest(before))) -> Ambiguous
       [] OTHER -> Picked(Latest(before))

Wanted(u) == Last(u.name)
Parts(u) == Front(u.name)

Pick(u) == IF Parts(u) = <<>> THEN pick_binding(Bindings(Wanted(u)), <<>>, u)
                              ELSE pick_binding(Bindings(Head(Parts(u))), Tail(Parts(u)), u)

InPackage(f) == Language[f] = "go" /\ f # item

\* The owner chain the rest of a qualifier spells after its binding.
Chain(b, u) ==
  IF Parts(u) = <<>> THEN <<>>
  ELSE (IF b.symbol = None THEN <<>> ELSE <<b.symbol>>)
       \o SubSeq(Parts(u), 2 + Len(b.consumed), Len(Parts(u)))

\* The symbols the target of a bound reference may be.
Through(b, u) ==
  LET name  == IF Parts(u) = <<>> /\ b.symbol # None THEN b.symbol ELSE Wanted(u)
      chain == Chain(b, u)
  IN IF InPackage(b.file) THEN IF chain # <<>> THEN {} ELSE package_candidates(b.file, name)
     ELSE owned(b.file, name, chain)

\* bind_symbol_reference: the candidates of a use, or why there are none.
Candidates(u) ==
  LET p == Pick(u) IN
  CASE p.ambiguous -> [of |-> {}, code |-> "ambiguous_reference"]
    [] p.picked # None -> [of |-> Through(p.picked, u), code |-> "unresolved_reference"]
    [] Parts(u) = <<>> -> [of |-> IF Language[item] = "go" THEN package_candidates(item, Wanted(u)) ELSE {},
                           code |-> "unresolved_reference"]
    [] Head(Parts(u)) \in ModuleLevel(item) -> [of |-> owned(item, Wanted(u), Parts(u)), code |-> "unresolved_reference"]
    [] OTHER -> [of |-> {}, code |-> "unbound_qualifier"]

\* The package table a use consults, which it builds on first use.
Consulted(u) ==
  LET p == Pick(u) IN
  CASE p.ambiguous -> None
    [] p.picked # None -> IF InPackage(p.picked.file) /\ Chain(p.picked, u) = <<>> THEN p.picked.file ELSE None
    [] Parts(u) = <<>> /\ Language[item] = "go" -> item
    [] OTHER -> None

BindReference(u) ==
  /\ next > Len(parsed)
  /\ Cardinality({c \in claims : c.use # None}) + Cardinality({d \in diag : d[2] \in Uses}) < MaxUses
  /\ \A b \in 1..Len(parsed) : parsed[b].at # u.at
  /\ LET c == Candidates(u) IN
       IF Cardinality(c.of) = 1
       THEN claims' = claims \cup {[item |-> item, use |-> u, target |-> CHOOSE s \in c.of : TRUE]} /\ UNCHANGED diag
       ELSE diag' = diag \cup {<<item, u, IF c.of = {} THEN c.code ELSE "ambiguous_reference">>} /\ UNCHANGED claims
  /\ tables' = IF Consulted(u) = None THEN tables
               ELSE [tables EXCEPT ![TableKey(Consulted(u))] = Table(Consulted(u))]
  /\ UNCHANGED <<item, parsed, next, bound>>

-----------------------------------------------------------------------------
(* The run over the files, in path order (resolve_references). *)

TextOrder(s) == \A i \in 1..(Len(s) - 1) : s[i].at < s[i + 1].at

\* What the parser may report of a file: its imports in textual order.
Parses(f) ==
  {s \in UNION {[1..n -> {r \in Imports : r.lang = Language[f]}] : n \in 0..MaxImports} : TextOrder(s)}

Init ==
  /\ item = Item[1]
  /\ parsed \in Parses(Item[1])
  /\ next = 1 /\ bound = {} /\ claims = {} /\ diag = {}
  /\ tables = [k \in {TableKey(f) : f \in Files} |-> None]

\* resolve_references goes on to the next file; the package tables stay.
NextFile ==
  /\ next > Len(parsed)
  /\ \E i \in 1..(Len(Item) - 1) : item = Item[i] /\ item' = Item[i + 1]
  /\ parsed' \in Parses(item')
  /\ next' = 1 /\ bound' = {}
  /\ UNCHANGED <<tables, claims, diag>>

Next == BindImport \/ NextFile \/ \E u \in {v \in Uses : v.lang = Language[item]} : BindReference(u)

Spec == Init /\ [][Next]_vars

-----------------------------------------------------------------------------
(* What the language does: the meanings a use can have at run time. *)

\* An import of a package outside the repository binds its name like any
\* other when the file runs, although bind_names is not called for it.
Introduces(r, name) ==
  IF r.target # None THEN \E b \in bind_names(r) : b[1] = name
  ELSE name = IF r.alias # None THEN r.alias ELSE IF r.from THEN Last(r.name) ELSE Head(r.name)

\* The import whose binding a use of `name` reads: in a function with an
\* import of that name, the latest one above it; at module level, the latest
\* one above it; otherwise the latest above, or any one below that ran before
\* the function was called.
RunTimeImports(u, name) ==
  LET all    == {r \in {parsed[i] : i \in 1..Len(parsed)} : Introduces(r, name)}
      local  == {r \in all : r.scope # None /\ r.scope = u.scope}
      module == {r \in all : r.scope = None}
      above  == {r \in module : r.at < u.at}
      below  == {r \in module : r.at > u.at}
  IN IF local # {} THEN {r \in local : r.at < u.at /\ \A q \in local : q.at < u.at => q.at <= r.at}
     ELSE {r \in above : \A q \in above : q.at <= r.at} \cup IF u.scope = None THEN {} ELSE below

\* What an import means to a use: the symbols of the repository it reaches.
Meaning(r, u) ==
  IF r.target = None THEN {}
  ELSE UNION {Through(b[2], u) :
                b \in {c \in bind_names(r) : c[1] = Head(u.name) /\ IsPrefix(c[2].consumed, Tail(u.name))}}

\* A use that reads an import of a file of the repository; where the file
\* also defines the name itself, or the import is of another package, the
\* binder does not know what the use reads.
ReadsInside(r, u) == r.target # None /\ Head(u.name) \notin ModuleLevel(item)

(***************************************************************************)
(* A call or an inheritance is claimed only if every execution that        *)
(* reaches it through an import of a repository file means that symbol: of *)
(* such imports, one that shadows another, one in another function and one *)
(* further down never yield a wrong relation.  Nothing is said of a name   *)
(* that is rebound by an import from outside or by the file itself, which  *)
(* bind_names never sees.  The claim is made once and stays in the ledger. *)
(***************************************************************************)
ClaimIsMeant ==
  \A c \in claims' \ claims :
    c.use # None =>
      \A r \in RunTimeImports(c.use, Head(c.use.name)) :
         ReadsInside(r, c.use) => c.target \in Meaning(r, c.use)
ClaimsAreMeant == [][ClaimIsMeant]_vars

\* The same of every import: `from a import f; from requests import f; f()`
\* is claimed to call a.f, which no execution of the file does.
ClaimIsAlwaysMeant ==
  \A c \in claims' \ claims :
    c.use # None =>
      \A r \in RunTimeImports(c.use, Head(c.use.name)) :
         c.target \in Meaning(r, c.use)

(***************************************************************************)
(* An ambiguity is reported only where the name really has two meanings,   *)
(* no import above the use, two symbols of the same name, or is bound to a *)
(* package outside the repository.                                         *)
(***************************************************************************)
TwoMeanings ==
  \A d \in diag' \ diag :
    d[3] = "ambiguous_reference" =>
      LET rs == RunTimeImports(d[2], Head(d[2].name)) IN
      \/ \E r \in rs : r.target = None
      \/ Cardinality({Thing(b[2]) : b \in UNION {bind_names(r) : r \in rs}}) # 1
      \/ Cardinality(Candidates(d[2]).of) > 1
AmbiguityIsReal == [][TwoMeanings]_vars

(***************************************************************************)
(* A production file of a Go package never refers to a symbol of a test    *)
(* file, whichever file of the package built the shared name table.        *)
(***************************************************************************)
ProductionNeverSeesTests ==
  \A c \in claims : c.item \notin Tests => c.target.file \notin Tests

(***************************************************************************)
(* An import relation names a module or a module-level symbol, never a     *)
(* method that shares the imported name.                                   *)
(***************************************************************************)
ImportsAreModuleLevel ==
  \A c \in claims : (c.use = None /\ c.target.file \in HasModule) =>
     \/ c.target = Module(c.target.file)
     \/ Front(c.target.tokens) = ModuleTokens[c.target.file]
=============================================================================
