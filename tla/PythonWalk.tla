----------------------------- MODULE PythonWalk -----------------------------
(***************************************************************************)
(* The Python adapter's walk of one syntax tree (tree_sitter/python.py):   *)
(* one pass over the nodes with a stack of frames, one of scopes and a     *)
(* budget.  tree-sitter recovers from syntax errors, so the tree may have  *)
(* an ERROR node anywhere; the error drops the innermost frame with all    *)
(* that was found inside it.  The tree is chosen node by node while it is  *)
(* walked.  A name has length 1, a qualified name one per segment; tokens  *)
(* and digests are left out.                                               *)
(***************************************************************************)
EXTENDS Integers, Sequences, FiniteSets, SequencesExt

CONSTANTS
  Shapes,      \* the nodes a tree may have: [type, names, bases, form, owner]
  MaxNodes,    \* bound on the tree
  Long,        \* a name the contract cannot carry
  Named,       \* the path gives the module a name
  MaxSymbols, MaxName, NameLimit, NameTotal, OutputBudget, SymbolOverhead, ReferenceOverhead,
  MaxBases, MaxCallSites, MaxCandidates,
  MaxRelations, MaxFileRelations, MaxReferences, MaxModuleReferences, MaxFileReferences

VARIABLES
  tree,    \* the nodes met so far, in the order of the walk: [shape, parent]
  cursor,  \* the nodes that are open, outermost first
  walk,    \* _Walk and its Budget
  answer,  \* the ParsedFile
  phase    \* "walk", "done", "degraded" or "exceeded"

vars == <<tree, cursor, walk, answer, phase>>

Root == 0      \* the module, as the parent of a node and as a scope
NoScope == -1  \* the scope of what is inside a definition that is no symbol

Definitions == {"class", "function"}

-----------------------------------------------------------------------------
(* _Walk and Budget *)

\* Budget._cost: the bytes of the name and what the symbol costs in the answer.
Cost(path) == Len(path) + SymbolOverhead

\* Budget.take fits.
Fits(w, path) ==
  /\ Len(path) <= MaxName /\ w.names + Len(path) <= NameLimit
  /\ w.output + Cost(path) <= OutputBudget

\* _Walk.add: one construct, one symbol, if the limits allow.
Add(w, sym) ==
  IF Len(w.syms) >= MaxSymbols THEN [w EXCEPT !.dropped = @ + 1]
  ELSE IF sym \in w.seen THEN w
  ELSE IF ~Fits(w, sym.path) THEN [w EXCEPT !.dropped = @ + 1]
  ELSE [w EXCEPT !.seen = @ \cup {sym}, !.syms = Append(@, sym),
                 !.names = @ + Len(sym.path), !.output = @ + Cost(sym.path)]

Symbol(w, n) == CHOOSE s \in ToSet(w.syms) : s.node = n
KindOf(w, n) == IF n = Root THEN "module" ELSE Symbol(w, n).kind
PathOf(w, n) == IF n # Root THEN Symbol(w, n).path ELSE IF Named THEN <<"module">> ELSE <<>>

\* _qualified under the scope it is found in.
Candidate(w, n, name, kind) ==
  LET scope == Last(w.scopes)
  IN  [node |-> n, name |-> name, path |-> Append(PathOf(w, scope), name), kind |-> kind, parent |-> scope]

\* _open_frame
Frame(w, n, definition) ==
  [node |-> n, definition |-> definition, tainted |-> FALSE, first_sym |-> Len(w.syms),
   first_site |-> Len(w.sites), first_import |-> Len(w.imports)]

Cap(w, number) == [w EXCEPT !.capped = @ + number]

\* _name_site: a name that is too long is not silently ignored.
Site(w, scope, kind, name, owner, n) ==
  IF Long \in {name, owner} THEN Cap(w, 1)
  ELSE [w EXCEPT !.sites = Append(@, [scope |-> scope, kind |-> kind, name |-> name, owner |-> owner, node |-> n])]

\* _enter_bases
Bases(w, n, bases) ==
  LET kept == SubSeq(bases, 1, IF Len(bases) < MaxBases THEN Len(bases) ELSE MaxBases)
  IN  FoldLeft(LAMBDA v, b : Site(v, n, "base", b, "", n), Cap(w, Len(bases) - Len(kept)), kept)

\* The kind of a definition: a function of a class is a method, or a property if so decorated.
DefinitionKind(w, shape, above) ==
  IF shape.type = "class" THEN "class"
  ELSE IF KindOf(w, Last(w.scopes)) # "class" THEN "function"
  ELSE IF above.type = "decorated" /\ above.form = "property" THEN "property"
  ELSE "method"

\* _enter_definition: the frame is opened before the symbol is added.
EnterDefinition(w, n, shape, above) ==
  LET name == shape.names[1]
      known == Last(w.scopes) # NoScope
      sym == Candidate(w, n, name, DefinitionKind(w, shape, above))
      added == IF ~known THEN w ELSE IF name = Long THEN [w EXCEPT !.dropped = @ + 1] ELSE Add(w, sym)
      kept == Len(added.syms) > Len(w.syms)
      opened == [added EXCEPT !.frames = Append(@, Frame(w, n, TRUE)),
                              !.scopes = Append(@, IF kept THEN n ELSE NoScope)]
  IN  IF kept THEN Bases(opened, n, shape.bases) ELSE opened

\* _enter_statement: an assignment binds in the module or the class it sits in.
EnterStatement(w, n, shape) ==
  LET scope == Last(w.scopes)
      Bind(v, name) == IF name = Long THEN [v EXCEPT !.dropped = @ + 1]
                       ELSE Add(v, Candidate(w, n, name, IF scope = Root THEN "variable" ELSE "field"))
      Binds == scope # NoScope /\ KindOf(w, scope) \in {"module", "class"}
  IN  IF ~Binds THEN w
      ELSE [FoldLeft(Bind, w, shape.names) EXCEPT !.frames = Append(@, Frame(w, n, FALSE))]

\* _enter_call: self.f() is a member site, a.b.f() has an owner, f() neither.
EnterCall(w, n, shape) ==
  IF Last(w.scopes) = NoScope THEN w
  ELSE IF Len(w.sites) >= MaxCallSites THEN Cap(w, 1)
  ELSE Site(w, Last(w.scopes), IF shape.form = "member" THEN "member" ELSE "name",
            shape.names[1], shape.owner, n)

\* _enter_import: a recovered statement names nothing reliably; what cannot be said is counted.
EnterImport(w, n, shape) ==
  LET Take(v, name) ==
        IF name = Long THEN Cap(v, 1)
        ELSE IF Long = shape.owner \/ shape.form = "deep" THEN v
        ELSE [v EXCEPT !.imports = Append(@, [scope |-> Last(w.scopes), kind |-> "import", name |-> name,
                                              owner |-> shape.owner, node |-> n])]
  IN  IF Last(w.scopes) = NoScope \/ shape.form = "error" THEN w
      ELSE Cap(FoldLeft(Take, w, shape.names), IF Long = shape.owner \/ shape.form = "deep" THEN 1 ELSE 0)

Taint(w) == IF w.frames = <<>> THEN w ELSE [w EXCEPT !.frames[Len(w.frames)].tainted = TRUE]

\* _enter: an error taints the innermost open frame, then the node is looked at.
EnterNode(w, n, shape, above) ==
  LET v == IF shape.type = "error" \/ shape.form = "error" THEN [Taint(w) EXCEPT !.errors = @ + 1] ELSE w
  IN  CASE shape.type = "decorated" -> [v EXCEPT !.frames = Append(@, Frame(v, n, FALSE))]
        [] shape.type \in Definitions -> EnterDefinition(v, n, shape, above)
        [] shape.type = "assign" -> EnterStatement(v, n, shape)
        [] shape.type = "call" -> EnterCall(v, n, shape)
        [] shape.type = "import" -> EnterImport(v, n, shape)
        [] OTHER -> v

Charge(syms) == FoldLeft(LAMBDA a, s : a + Cost(s.path), 0, syms)
NamesIn(syms) == FoldLeft(LAMBDA a, s : a + Len(s.path), 0, syms)

\* _finish_frame: a tainted frame gives back all that was found, and charged, inside it.
FinishFrame(w, f) ==
  IF ~f.tainted THEN w
  ELSE LET gone == SubSeq(w.syms, f.first_sym + 1, Len(w.syms)) IN
       [w EXCEPT !.syms = SubSeq(@, 1, f.first_sym), !.sites = SubSeq(@, 1, f.first_site),
                 !.imports = SubSeq(@, 1, f.first_import), !.dropped = @ + Len(gone),
                 !.names = @ - NamesIn(gone), !.output = @ - Charge(gone)]

\* _exit: the frame of the node, if it has one, ends with it.
ExitNode(w, n) ==
  IF w.frames = <<>> \/ Last(w.frames).node # n THEN w
  ELSE LET f == Last(w.frames) IN
       FinishFrame([w EXCEPT !.frames = Front(@), !.scopes = IF f.definition THEN Front(@) ELSE @], f)

-----------------------------------------------------------------------------
(* _resolve, _link and _references *)

AnyKind == {"function", "method", "class", "variable", "field", "property"}
Callable == {"function", "method", "class"}

Members(syms, scope, name, kinds) ==
  SelectSeq(syms, LAMBDA s : s.parent = scope /\ s.node # Root /\ s.name = name /\ s.kind \in kinds)

\* The scopes a scope is nested in, itself first.
Chain(w, scope) ==
  LET Up[i \in 0..MaxNodes] ==
        IF i = 0 THEN <<scope>>
        ELSE IF Last(Up[i - 1]) \in {Root, NoScope} THEN Up[i - 1]
        ELSE Append(Up[i - 1], Symbol(w, Last(Up[i - 1])).parent)
  IN  Up[MaxNodes]

\* _resolve: in lexical order; a class body is visible only from itself.
Resolve(w, scope, kind, name, kinds) ==
  LET chain == IF kind = "base" THEN Tail(Chain(w, scope)) ELSE Chain(w, scope)
      Classes == SelectSeq(chain, LAMBDA s : s # NoScope /\ KindOf(w, s) = "class")
      Binding == SelectSeq([i \in 1..Len(chain) |-> i],
                   LAMBDA i : /\ i = 1 \/ KindOf(w, chain[i]) # "class"
                              /\ Members(w.syms, chain[i], name, kinds) # <<>>)
  IN  IF kind = "member"
      THEN IF Classes = <<>> THEN <<>> ELSE Members(w.syms, Classes[1], name, {"method"})
      ELSE IF Binding = <<>> THEN <<>> ELSE Members(w.syms, chain[Binding[1]], name, kinds)

Live(w, scope) == \E i \in 1..Len(w.syms) : w.syms[i].node = scope

Of(items, source) == Len(SelectSeq(items, LAMBDA i : i.source = source))

\* The relations of a site: one per target, the first site wins, capped per source.
Relate(link, site, target) ==
  LET rel == [source |-> site.scope, target |-> target.node, name |-> target.name,
              kind |-> IF site.kind = "base" THEN "inherits" ELSE "calls"]
  IN  IF rel \in ToSet(link.relations) THEN link
      ELSE IF Of(link.relations, site.scope) >= MaxRelations \/ Len(link.relations) >= MaxFileRelations THEN Cap(link, 1)
      ELSE [link EXCEPT !.relations = Append(@, rel)]

\* Whether any symbol binds the name, as memoized per scope and name: a base and a call of one
\* class share the entry, though a base is looked up from outside the class.
Memoized(w, link, site) ==
  LET known == {e \in link.memo : e.scope = site.scope /\ e.name = site.name}
      found == Resolve(w, site.scope, site.kind, site.name, AnyKind)
  IN  IF known # {} THEN (CHOOSE e \in known : TRUE).bound
      ELSE found # <<>> /\ Len(found) <= MaxCandidates

\* _link of one site: a same-file target is a relation, an unbound name a reference.
LinkSite(w, link, site) ==
  LET qualified == site.owner # ""
      looked == ~qualified /\ site.kind # "member"
      Noted(bound) ==
        IF looked THEN [link EXCEPT !.memo = @ \cup {[scope |-> site.scope, name |-> site.name, bound |-> bound]}]
        ELSE link
      Unbound(bound) ==
        IF site.kind = "member" \/ (looked /\ bound) THEN Noted(bound)
        ELSE [Noted(bound) EXCEPT !.candidates = Append(@, [site EXCEPT !.kind = IF @ = "base" THEN "inherit" ELSE "call"])]
      To(found) ==
        IF Len(found) > MaxCandidates THEN Cap(link, 1)
        ELSE IF found = <<>> THEN Unbound(Memoized(w, link, site))
        ELSE IF qualified \/ ~Live(w, site.scope) THEN link
        ELSE FoldLeft(LAMBDA l, t : Relate(l, site, t), link, found)
  IN  IF site.scope # Root /\ ~Live(w, site.scope) THEN link
      ELSE To(IF qualified THEN Resolve(w, site.scope, "name", site.owner, AnyKind)
              ELSE Resolve(w, site.scope, site.kind, site.name, IF site.kind = "base" THEN {"class"} ELSE Callable))

IsBase(site) == site.kind = "base"
IsCall(site) == site.kind # "base"

\* _link: the bases first.
Linked(w) ==
  FoldLeft(LAMBDA l, s : LinkSite(w, l, s), [relations |-> <<>>, candidates |-> <<>>, memo |-> {}, capped |-> w.capped],
           SelectSeq(w.sites, IsBase) \o SelectSeq(w.sites, IsCall))

\* Budget.take_reference: references get what the live symbols left of the names.
TakesReference(r, size, names) ==
  /\ names + r.names + size <= NameTotal /\ r.output + size + ReferenceOverhead <= OutputBudget

\* _references: capped and deduplicated, what is dropped is counted.
Reference(w, r, item) ==
  LET ref == [source |-> item.scope, kind |-> item.kind, name |-> item.name, owner |-> item.owner]
      size == IF item.owner = "" THEN 1 ELSE 2
      limit == IF item.scope = Root THEN MaxModuleReferences ELSE MaxReferences
  IN  IF (item.scope # Root /\ ~Live(w, item.scope)) \/ ref \in ToSet(r.references) THEN r
      ELSE IF \/ Of(r.references, item.scope) >= limit \/ Len(r.references) >= MaxFileReferences
              \/ ~TakesReference(r, size, w.names) THEN Cap(r, 1)
      ELSE [r EXCEPT !.references = Append(@, ref), !.names = @ + size, !.output = @ + size + ReferenceOverhead]

References(w, link) ==
  FoldLeft(LAMBDA r, c : Reference(w, r, c),
           [references |-> <<>>, names |-> 0, output |-> w.output, capped |-> link.capped],
           w.imports \o link.candidates)

-----------------------------------------------------------------------------
(* The walk of one file *)

Started ==
  [frames |-> <<>>, scopes |-> <<Root>>, syms |-> <<>>, seen |-> {}, sites |-> <<>>, imports |-> <<>>,
   errors |-> 0, dropped |-> 0, capped |-> 0, names |-> 0, output |-> 0]

Module == [node |-> Root, name |-> "module", path |-> <<"module">>, kind |-> "module", parent |-> NoScope]

Nothing == [symbols |-> <<>>, relations |-> <<>>, references |-> <<>>, dropped |-> 0, capped |-> 0]

\* _parse_file until the walk: a module that does not fit degrades the file.
Init ==
  /\ tree = <<>> /\ cursor = <<>> /\ answer = Nothing
  /\ walk = IF Named THEN Add(Started, Module) ELSE Started
  /\ phase = IF Named /\ walk.syms = <<>> THEN "degraded" ELSE "walk"

Top == IF cursor = <<>> THEN Root ELSE Last(cursor)
TypeOf(n) == IF n = Root THEN "module" ELSE tree[n].shape.type
ChildrenOf(n) == {i \in 1..Len(tree) : tree[i].parent = n}
Defines(n) == \E i \in ChildrenOf(n) : TypeOf(i) \in Definitions

\* What the grammar nests, with errors anywhere.
MayHold(outer, inner) ==
  CASE outer \in Definitions \cup {"module"} -> TRUE
    [] outer = "decorated" -> inner \in Definitions \cup {"call", "error"} /\ ~Defines(Top)
    [] outer \in {"assign", "call"} -> inner \in {"call", "error"}
    [] outer = "error" -> inner \in Definitions \cup {"call"}
    [] OTHER -> FALSE

\* Decorated nodes whose definition is still to come.
Pending == {n \in ToSet(cursor) : TypeOf(n) = "decorated" /\ ~Defines(n)}

Closes(shape) == IF Top \in Pending /\ shape.type \in Definitions THEN {Top} ELSE {}
Opens(shape) == IF shape.type = "decorated" THEN 1 ELSE 0

Enter ==
  /\ phase = "walk"
  /\ \E shape \in Shapes :
       /\ MayHold(TypeOf(Top), shape.type)
       /\ Len(tree) + 1 + Cardinality(Pending \ Closes(shape)) + Opens(shape) <= MaxNodes
       /\ LET n == Len(tree) + 1 IN
            /\ tree' = Append(tree, [shape |-> shape, parent |-> Top])
            /\ cursor' = Append(cursor, n)
            /\ walk' = EnterNode(walk, n, shape, IF Top = Root THEN shape ELSE tree[Top].shape)
  /\ UNCHANGED <<answer, phase>>

Exit ==
  /\ phase = "walk" /\ cursor # <<>> /\ Top \notin Pending
  /\ cursor' = Front(cursor) /\ walk' = ExitNode(walk, Top)
  /\ UNCHANGED <<tree, answer, phase>>

\* Budget.node: too many nodes, or the CPU backstop: the file degrades alone.
Exceed ==
  /\ phase = "walk" /\ cursor # <<>> /\ phase' = "exceeded"
  /\ UNCHANGED <<tree, cursor, walk, answer>>

\* _parse_file after the walk.
Answer ==
  /\ phase = "walk" /\ cursor = <<>> /\ tree # <<>> /\ phase' = "done"
  /\ LET Told(link, refs) ==
           /\ answer' = [symbols |-> walk.syms, relations |-> link.relations, references |-> refs.references,
                         dropped |-> walk.dropped, capped |-> refs.capped]
           /\ walk' = [walk EXCEPT !.output = refs.output]
         Linking(link) == Told(link, References(walk, link))
     IN  Linking(Linked(walk))
  /\ UNCHANGED <<tree, cursor>>

Next == Enter \/ Exit \/ Exceed \/ Answer

Spec == Init /\ [][Next]_vars

-----------------------------------------------------------------------------
(* Reference definitions: the tree without what its errors drop *)

RECURSIVE AncestorsOf(_)
AncestorsOf(n) == IF n = Root THEN {} ELSE {n} \cup AncestorsOf(tree[n].parent)

\* The definition a node sits in, itself not counted.
Enclosing(n) ==
  LET around == {a \in AncestorsOf(n) \ {n} : TypeOf(a) \in Definitions}
  IN  IF around = {} THEN Root ELSE CHOOSE a \in around : \A b \in around : b <= a

\* What an error can take down: a definition with its decorators, or an assignment that binds.
Unit(n) == TypeOf(n) \in Definitions \cup {"decorated"} \/ (TypeOf(n) = "assign" /\ TypeOf(Enclosing(n)) # "function")

Erroneous(n) == tree[n].shape.type = "error" \/ tree[n].shape.form = "error"

\* The innermost unit around each error.
Hit == {u \in 1..Len(tree) : Unit(u) /\ \E e \in 1..Len(tree) :
          /\ Erroneous(e) /\ u \in AncestorsOf(e) \ {e}
          /\ ~\E v \in AncestorsOf(e) \ {e} : Unit(v) /\ v > u}

Clean(n) == AncestorsOf(n) \cap Hit = {}

\* The declarations of the clean nodes, in the order of the text.
Declarations ==
  LET Of1(n) == IF ~Clean(n) \/ ~Unit(n) THEN <<>>
                ELSE [i \in 1..Len(tree[n].shape.names) |-> [node |-> n, name |-> tree[n].shape.names[i]]]
  IN  FoldLeft(LAMBDA s, n : s \o Of1(n), <<>>, [i \in 1..Len(tree) |-> i])

\* What the limits allow when nothing but the clean declarations is charged.
Greedy ==
  LET PathIn(kept, n) == IF n # Root THEN (CHOOSE s \in ToSet(kept) : s.node = n).path
                         ELSE IF Named THEN <<"module">> ELSE <<>>
      Step(kept, d) ==
        LET scope == Enclosing(d.node)
            there == scope = Root \/ \E i \in 1..Len(kept) : kept[i].node = scope
            sym == [node |-> d.node, name |-> d.name, path |-> Append(PathIn(kept, scope), d.name)]
        IN  IF ~there \/ d.name = Long \/ sym \in ToSet(kept) THEN kept
            ELSE IF /\ Len(kept) < MaxSymbols /\ Len(sym.path) <= MaxName
                    /\ NamesIn(kept) + Len(sym.path) <= NameLimit
                    /\ Charge(kept) + Cost(sym.path) <= OutputBudget
                 THEN Append(kept, sym) ELSE kept
      first == IF Named THEN <<[node |-> Root, name |-> "module", path |-> <<"module">>]>> ELSE <<>>
  IN  FoldLeft(Step, first, Declarations)

Plain(s) == [node |-> s.node, name |-> s.name, path |-> s.path]

(***************************************************************************)
(* "Malformed declarations never starve valid ones": the symbols of the    *)
(* answer are exactly those the limits allow when the declarations that an *)
(* error drops were never there (_finish_frame gives back names, output    *)
(* and slots; an error drops its innermost unit and nothing around it).    *)
(***************************************************************************)
NoStarvation ==
  phase = "done" => [i \in 1..Len(answer.symbols) |-> Plain(answer.symbols[i])] = Greedy

(***************************************************************************)
(* The parent accepts the answer (base._validate_file): no reference or    *)
(* relation dangles or comes from a dropped unit, declarations differ,     *)
(* the caps per source and the common budget of names are respected.       *)
(***************************************************************************)
AnswerAccepted ==
  phase = "done" =>
    LET live == {s.node : s \in ToSet(answer.symbols)}
        sized == [i \in 1..Len(answer.references) |-> IF answer.references[i].owner = "" THEN 1 ELSE 2]
    IN  /\ Cardinality(ToSet(answer.symbols)) = Len(answer.symbols)
        /\ \A r \in ToSet(answer.relations) : {r.source, r.target} \subseteq live
        /\ \A r \in ToSet(answer.references) : r.source = Root \/ r.source \in live
        /\ \A s \in live : Of(answer.relations, s) <= MaxRelations
        /\ \A s \in live \ {Root} : Of(answer.references, s) <= MaxReferences
        /\ NamesIn(answer.symbols) + FoldLeft(LAMBDA a, b : a + b, 0, sized) <= NameTotal
        /\ walk.output <= OutputBudget

SiteOf(n) == [source |-> Enclosing(n), name |-> tree[n].shape.names[1], owner |-> tree[n].shape.owner]

Head1(site) == IF site.owner = "" THEN site.name ELSE site.owner

(***************************************************************************)
(* A name the module binds, and no scope binds too often, is never a       *)
(* reference to something elsewhere, and a call that no symbol of the file *)
(* can mean is one unless references_capped says that some were left out.  *)
(***************************************************************************)
NothingSilent ==
  phase = "done" =>
    LET names == {s.name : s \in ToSet(answer.symbols) \ {Module}}
        live == {s.node : s \in ToSet(answer.symbols)} \cup {Root}
        Times(m, scope) == Len(Members(answer.symbols, scope, m, AnyKind))
        top == {m \in names : Times(m, Root) > 0 /\ \A s \in live : Times(m, s) <= MaxCandidates}
        made == {[source |-> r.source, name |-> r.name, owner |-> r.owner] : r \in ToSet(answer.references)}
    IN  /\ \A r \in ToSet(answer.references) : r.kind # "import" => Head1(r) \notin top
        /\ answer.capped = 0 =>
             \A n \in 1..Len(tree) :
               (/\ TypeOf(n) = "call" /\ tree[n].shape.form # "member" /\ Clean(n)
                /\ Enclosing(n) \in live /\ Head1(SiteOf(n)) \notin names)
               => SiteOf(n) \in made
=============================================================================
