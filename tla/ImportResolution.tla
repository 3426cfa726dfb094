-------------------------- MODULE ImportResolution --------------------------
(***************************************************************************)
(* The repository file an import names (the emitter's resolve_import and   *)
(* what it calls): Python by dotted names of the root and the src layout,  *)
(* Go by the module path of go.mod, scripts by relative paths.  A path is  *)
(* the sequence of its directories and its stem; an import is resolved     *)
(* against the files that were admitted to the index.                      *)
(***************************************************************************)
EXTENDS Integers, Sequences, FiniteSets, SequencesExt

CONSTANTS
  Universe,     \* the files there can be: sequence in path order, each a
                \* record [dir, stem, lang, test, names]
  References,   \* the imports: records [lang, qualifier, name, level, path]
  GoMods,       \* what reading go.mod may give: NoGoMod, Unknown or a path
  NoGoMod,      \* there is no go.mod
  Unknown,      \* a go.mod that cannot be read, is too large or names nothing
  MaxFiles,     \* bound: files in the index
  None

ResolutionAssumption == MaxFiles \in Nat /\ None \notin {Universe[i] : i \in 1..Len(Universe)}

VARIABLES
  files,      \* the indexed files, in path order
  source,     \* the importing file
  reference,  \* the import being resolved
  go_module,  \* what read_go_module returned
  result      \* <<file or None, whole, external package or None>>, <<>> before

vars == <<files, source, reference, go_module, result>>

-----------------------------------------------------------------------------
Nothing == <<None, FALSE>>
InOrder(P(_)) == SelectSeq(files, P)
FirstOf(s) == IF s = <<>> THEN None ELSE s[1]

\* The dotted name a Python path spells: __init__ stands for its directory.
Dotted(f) == IF f.stem = "__init__" THEN f.dir ELSE f.dir \o <<f.stem>>

\* python_modules: the first file that has this name from the root or below src.
python_modules(name) ==
  LET Named(f) == f.lang = "python" /\ name # <<>> /\ (Dotted(f) = name \/ Dotted(f) = <<"src">> \o name)
  IN FirstOf(InOrder(Named))

\* path_modules: by repository path only, for relative imports.
path_modules(name) ==
  LET Named(f) == f.lang = "python" /\ Dotted(f) = name
  IN FirstOf(InOrder(Named))

Base(f, level) == SubSeq(f.dir, 1, Len(f.dir) - (level - 1))

\* The table a relative import looks its candidates up in.
RelativeModule(name) == path_modules(name)

RelativePython(r) ==
  LET base  == Base(source, r.level)
      whole == RelativeModule(base \o r.qualifier \o <<r.name>>)
      other == IF r.qualifier = <<>> /\ base = <<>> THEN None ELSE RelativeModule(base \o r.qualifier)
  IN CASE r.level - 1 > Len(source.dir) -> Nothing
       [] whole # None -> <<whole, TRUE>>
       [] other # None -> <<other, FALSE>>
       [] OTHER -> Nothing

\* The longest prefix of the dotted name that is a module.
AbsolutePython(r) ==
  LET parts == r.qualifier \o <<r.name>>
      hits  == {n \in 1..Len(parts) : python_modules(SubSeq(parts, 1, n)) # None}
      best  == CHOOSE n \in hits : \A k \in hits : k <= n
  IN IF hits = {} THEN Nothing ELSE <<python_modules(SubSeq(parts, 1, best)), best = Len(parts)>>

resolve_python(r) == IF r.level > 0 THEN RelativePython(r) ELSE AbsolutePython(r)

-----------------------------------------------------------------------------
(* Go: an import path is a sequence of elements. *)

go_directories == {f.dir : f \in {g \in ToSet(files) : g.lang = "go"}}

\* A standard-library path: its first element has no dot.
Hosted(path) == path[1] \in {"host.dev", "other.dev"}

\* The repository directory an import path names, if any.
GoDirectory(path) ==
  LET fits == {d \in go_directories : d # <<>> /\ IsSuffix(d, path)} IN
  CASE go_module = Unknown -> None
    [] go_module # NoGoMod /\ IsPrefix(go_module, path) -> SubSeq(path, Len(go_module) + 1, Len(path))
    [] go_module = NoGoMod /\ Hosted(path) /\ fits # {} -> CHOOSE d \in fits : \A e \in fits : Len(e) <= Len(d)
    [] OTHER -> None

resolve_go(r) ==
  LET d == GoDirectory(r.path)
      Importable(f) == f.lang = "go" /\ f.dir = d /\ ~f.test
  IN IF d = None THEN None ELSE FirstOf(InOrder(Importable))

-----------------------------------------------------------------------------
(* TypeScript and JavaScript. *)

\* script_file: the file with that stem, else the index of that directory.
script_file(joined) ==
  LET Stem(f)  == f.lang = "script" /\ f.dir \o <<f.stem>> = joined
      Index(f) == f.lang = "script" /\ f.dir = joined /\ f.stem = "index"
  IN IF InOrder(Stem) # <<>> THEN InOrder(Stem)[1] ELSE FirstOf(InOrder(Index))

\* The directory a relative specifier starts from: one up per level after the first.
Climb(level) == SubSeq(source.dir, 1, Len(source.dir) - (level - 1))

resolve_script(r) ==
  LET base   == Climb(r.level)
      module == IF r.qualifier = <<>> THEN None ELSE script_file(base \o r.qualifier)
      whole  == script_file(base \o r.qualifier \o <<r.name>>)
  IN CASE r.level = 0 \/ r.level - 1 > Len(source.dir) -> Nothing
       [] module # None /\ r.name \in module.names -> <<module, FALSE>>
       [] whole # None -> <<whole, TRUE>>
       [] module # None -> <<module, FALSE>>
       [] r.qualifier = <<>> -> <<script_file(base), FALSE>>
       [] OTHER -> Nothing

resolve_import(r) ==
  CASE source.lang = "python" -> resolve_python(r)
    [] source.lang = "go" -> <<resolve_go(r), TRUE>>
    [] OTHER -> resolve_script(r)

\* _external_name: the package an unresolved import names; a relative one has none.
external_name(r) ==
  CASE r.level > 0 -> None
    [] source.lang = "go" -> r.path
    [] OTHER -> (r.qualifier \o <<r.name>>)[1]

-----------------------------------------------------------------------------
Present(chosen) == SelectSeq(Universe, LAMBDA f : f \in chosen)

Init ==
  /\ \E chosen \in {c \in SUBSET ToSet(Universe) : Cardinality(c) <= MaxFiles} :
        /\ files = Present(chosen)
        /\ source \in chosen
  /\ reference \in {r \in References : r.lang = source.lang}
  /\ go_module = Unknown
  /\ result = <<>>

\* read_go_module: the root go.mod, read only when there are Go files.
ReadGoModule ==
  /\ result = <<>> /\ source.lang = "go" /\ go_module = Unknown
  /\ go_module' \in GoMods
  /\ UNCHANGED <<files, source, reference, result>>

ResolveImport ==
  /\ result = <<>>
  /\ LET found == resolve_import(reference) IN
       result' = found \o <<IF found[1] = None THEN external_name(reference) ELSE None>>
  /\ UNCHANGED <<files, source, reference, go_module>>

Next == ReadGoModule \/ ResolveImport

Spec == Init /\ [][Next]_vars

-----------------------------------------------------------------------------
Resolved == result # <<>> /\ result[1] # None

(***************************************************************************)
(* A relative Python import stays in its own tree: the file it names is    *)
(* spelled by the importing directory, climbed once per extra dot, and the *)
(* name as written, or is the module that name is taken from.  A twin of   *)
(* the package under the other layout (src/pkg beside pkg) is never taken. *)
(***************************************************************************)
RelativeStaysInTree ==
  (Resolved /\ source.lang = "python" /\ reference.level > 0) =>
    LET written == Base(source, reference.level) \o reference.qualifier IN
    Dotted(result[1]) = IF result[2] THEN written \o <<reference.name>> ELSE written

(***************************************************************************)
(* "whole" tells a module from a name of a module: it is TRUE exactly when *)
(* the file spells the complete dotted name, so that the last token is not *)
(* then looked up as a symbol, and FALSE when a token is left over.        *)
(***************************************************************************)
WholeIsExact ==
  (Resolved /\ source.lang = "python" /\ reference.level = 0) =>
    LET full == reference.qualifier \o <<reference.name>>
        d    == Dotted(result[1])
        len  == IF d[1] = "src" /\ ~IsPrefix(d, full) THEN Len(d) - 1 ELSE Len(d)
    IN result[2] <=> len = Len(full)

(***************************************************************************)
(* A Go import under another module, or under one that is not known, is    *)
(* never guessed to be a directory of this repository by its last          *)
(* elements; and only a package with a production file is imported.        *)
(***************************************************************************)
GoNeverGuesses ==
  (Resolved /\ source.lang = "go" /\ go_module # NoGoMod) =>
    /\ go_module # Unknown
    /\ reference.path = go_module \o result[1].dir
    /\ ~result[1].test

(***************************************************************************)
(* A relative script import names the file at the written path from the    *)
(* importing directory, its directory index, or the module that exports    *)
(* the name: never a file of another directory.                            *)
(***************************************************************************)
ScriptPathIsExact ==
  (Resolved /\ source.lang = "script") =>
    LET base == SubSeq(source.dir, 1, Len(source.dir) + 1 - reference.level)
        at   == base \o reference.qualifier
        here == {at, at \o <<reference.name>>}
    IN result[1].dir \o <<result[1].stem>> \in here \/ (result[1].stem = "index" /\ result[1].dir \in here)
=============================================================================
