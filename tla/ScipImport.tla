----------------------------- MODULE ScipImport -----------------------------
(***************************************************************************)
(* The import of an untrusted SCIP index (indexing/scip.py): the wire scan *)
(* that bounds it before anything is built, then one document after the    *)
(* other, then the external symbols, all through one importer that keeps   *)
(* state between them.  The index is chosen message by message as it is    *)
(* read.  A symbol is local to its file or global; whether it follows the  *)
(* grammar is part of it.  A position is a pair of a line and a character. *)
(***************************************************************************)
EXTENDS Integers, Sequences, FiniteSets, SequencesExt

CONSTANTS
  Documents,   \* the documents an index may have: [path, encoding, lines, occurrences, symbols]
  Externals,   \* the external symbols it may have: [symbol, kind, relationships]
  NumDocuments, NumExternals, \* bounds on the index
  Safe,        \* the paths is_safe_repo_path accepts
  FileIds,     \* the paths that have a file logical id
  Locals, Invalid, Overlong, \* symbols: file-scoped, against the grammar, over the length limit
  MaxDocuments, MaxOccurrences, MaxSymbols, MaxRelationships, MaxTotal,
  NoText, NoPath

VARIABLES
  index,      \* the index: [wire, metadata, documents, externals]
  importer,   \* _Importer: [conflicting, declared, ids]
  documents,  \* the SemanticDocuments kept
  external,   \* the external symbols kept
  diagnostics,
  done,       \* how many messages of each kind are imported
  phase       \* "scan", "run", "import", "done" or the reason of a ScipImportError

vars == <<index, importer, documents, external, diagnostics, done, phase>>

-----------------------------------------------------------------------------
(* The pre-scan *)

Items(doc) == Len(doc.occurrences) + Len(doc.symbols)
Elements(i) == FoldLeft(LAMBDA n, doc : n + Items(doc), 0, i.documents) + Len(i.externals)

\* _field_plans: the caps of the repeated fields, per message.
PlanRefuses(i) ==
  \/ Len(i.documents) > MaxDocuments
  \/ \E k \in 1..Len(i.documents) :
       LET d == i.documents[k] IN
         \/ Len(d.occurrences) > MaxOccurrences \/ Len(d.symbols) > MaxSymbols
         \/ \E n \in 1..Len(d.symbols) : Len(d.symbols[n].relationships) > MaxRelationships
  \/ \E k \in 1..Len(i.externals) : Len(i.externals[k].relationships) > MaxRelationships

\* _PreScan: the caps, the totals, and what must appear at most once.
Scanned(i) ==
  IF i.wire # "sound" THEN i.wire
  ELSE IF i.metadata > 1 THEN "duplicate_message_field"
  ELSE IF PlanRefuses(i) THEN "too_many"
  ELSE IF Elements(i) > MaxTotal THEN "too_many_elements"
  ELSE "run"

-----------------------------------------------------------------------------
(* Ranges *)

Before(a, b) == a[1] < b[1] \/ (a[1] = b[1] /\ a[2] <= b[2])

\* _checked: no negative number, and the start is not after the end.
Checked(r) == (\A p \in {r.start, r.end} : p[1] >= 0 /\ p[2] >= 0) /\ Before(r.start, r.end)

Encloses(outer, inner) == Before(outer.start, inner.start) /\ Before(inner.end, outer.end)

\* _Bounds.contains: a line of the text and, if the encoding says how to count, a place on it.
InText(doc, r) ==
  doc.lines = NoText \/ \A p \in {r.start, r.end} :
    p[1] < Len(doc.lines) /\ (doc.encoding = "unspecified" \/ p[2] <= doc.lines[p[1] + 1])

-----------------------------------------------------------------------------
(* _Importer *)

Declaring(doc, s) == SelectSeq(doc.symbols, LAMBDA i : i.symbol = s)
KindsOf(doc, s) == {i.kind : i \in ToSet(Declaring(doc, s))}

\* _conflicting_locals: declared with different kinds.
ConflictingLocals(doc) == {s \in Locals : Cardinality(KindsOf(doc, s)) > 1}

\* The kinds the document declares, known before any occurrence is looked at.
DeclaredKinds(doc) ==
  [s \in {i.symbol : i \in ToSet(doc.symbols)} \ ConflictingLocals(doc) |-> Last(Declaring(doc, s)).kind]

Diagnostic(code, path, position) == [code |-> code, path |-> path, position |-> position]
Nowhere == 0

KindFor(imp, s) == IF s \in DOMAIN imp.declared THEN imp.declared[s] ELSE "unknown"
FileOf(path) == IF path \in FileIds THEN path ELSE NoPath

\* symbol_logical_id: a global symbol is its own identity, a local one falls back to its file.
LogicalId(s, file, kind) == IF s \in Locals THEN <<"local", file, s, kind>> ELSE <<"global", s>>

Key(s, file, kind) == <<s, IF s \in Locals THEN file ELSE NoPath, kind>>

\* _identify: the id, or None and the diagnostic that says why.
Identify(imp, s, path, position) ==
  LET file == FileOf(path)
      kind == KindFor(imp, s)
      key == Key(s, file, kind)
      No(why) == [id |-> <<>>, why |-> why, imp |-> imp]
      id == IF key \in DOMAIN imp.ids THEN imp.ids[key] ELSE LogicalId(s, file, kind)
  IN  IF s \in Invalid THEN No(<<Diagnostic("invalid_symbol", path, position)>>)
      ELSE IF s \in imp.conflicting THEN No(<<>>)
      ELSE IF s \in Locals /\ file = NoPath
      THEN No(<<Diagnostic(IF path = NoPath THEN "invalid_symbol" ELSE "local_symbol_without_file_identity", path, position)>>)
      ELSE [id |-> id, why |-> <<>>, imp |-> [imp EXCEPT !.ids = [k \in DOMAIN @ \cup {key} |-> IF k = key THEN id ELSE @[k]]]]

\* What one item adds to a document: the state it is folded over.
Fold(imp) == [imp |-> imp, kept |-> <<>>, diagnostics |-> <<>>]
Say(acc, why) == [acc EXCEPT !.diagnostics = @ \o why]

\* The enclosing range is dropped alone when it is wrong.
EnclosingWhy(doc, o) ==
  IF o.enclosing = NoText THEN "" ELSE IF ~Checked(o.enclosing) \/ ~Encloses(o.enclosing, o.range) THEN "invalid_range"
  ELSE IF ~InText(doc, o.enclosing) THEN "out_of_document_range" ELSE ""

\* _occurrence
Occurrence(acc, doc, k) ==
  LET o == doc.occurrences[k]
      Diag(code) == <<Diagnostic(code, doc.path, k)>>
      why == EnclosingWhy(doc, o)
      first == IF why = "" THEN acc ELSE Say(acc, Diag(why))
      found == Identify(acc.imp, o.symbol, doc.path, k)
      item == [position |-> k, symbol |-> o.symbol, id |-> found.id, range |-> o.range,
               enclosing |-> IF why = "" THEN o.enclosing ELSE NoText]
  IN  IF ~Checked(o.range) THEN Say(acc, Diag("invalid_range"))
      ELSE IF ~InText(doc, o.range) THEN Say(acc, Diag("out_of_document_range"))
      ELSE IF o.roles < 0 THEN Say(first, Diag("invalid_roles"))
      ELSE IF found.id = <<>> THEN Say(first, found.why)
      ELSE [first EXCEPT !.imp = found.imp, !.kept = Append(@, item)]

\* A relationship of a symbol: identified, and it must say something.
Relationship(acc, r, path) ==
  LET found == Identify(acc.imp, r.symbol, path, Nowhere) IN
  IF found.id = <<>> THEN Say(acc, found.why)
  ELSE IF r.kinds = {} THEN Say([acc EXCEPT !.imp = found.imp], <<Diagnostic("empty_relationship", path, Nowhere)>>)
  ELSE [acc EXCEPT !.imp = found.imp, !.kept = Append(@, [symbol |-> r.symbol, id |-> found.id, kinds |-> r.kinds])]

\* symbol
SymbolOf(acc, info, path) ==
  LET Related(found) == FoldLeft(LAMBDA a, r : Relationship(a, r, path), Fold(found.imp), info.relationships)
      Keep(id, related) ==
        Say([acc EXCEPT !.imp = related.imp,
                        !.kept = Append(@, [symbol |-> info.symbol, id |-> id, relationships |-> related.kept])],
            related.diagnostics)
      Found(found) == IF found.id = <<>> THEN Say(acc, found.why) ELSE Keep(found.id, Related(found))
  IN  Found(Identify(acc.imp, info.symbol, path, Nowhere))

\* The importer as a document sets it up, and the diagnostics of its conflicts.
SetUp(imp, doc) == [imp EXCEPT !.conflicting = ConflictingLocals(doc), !.declared = DeclaredKinds(doc)]
Conflicts(doc) ==
  [k \in 1..Cardinality(ConflictingLocals(doc)) |-> Diagnostic("conflicting_local_declaration", doc.path, Nowhere)]

Numbers(seq) == [k \in 1..Len(seq) |-> k]

\* document: positions that cannot be interpreted are not kept, symbols are.
Imported(imp, doc) ==
  LET start == Say(Fold(SetUp(imp, doc)), Conflicts(doc))
      Placed == IF doc.encoding = "unknown"
                THEN Say(start, <<Diagnostic("unknown_position_encoding", doc.path, Nowhere)>>)
                ELSE FoldLeft(LAMBDA a, k : Occurrence(a, doc, k), start, Numbers(doc.occurrences))
      Named(occs) == FoldLeft(LAMBDA a, i : SymbolOf(a, i, doc.path), [occs EXCEPT !.kept = <<>>], doc.symbols)
      Result(occs, syms) ==
        [imp |-> syms.imp, diagnostics |-> syms.diagnostics,
         document |-> [path |-> doc.path, number |-> done.documents + 1, occurrences |-> occs.kept, symbols |-> syms.kept]]
      Finished(occs) == Result(occs, Named(occs))
  IN  Finished(Placed)

-----------------------------------------------------------------------------
(* import_scip *)

Empty == [conflicting |-> {}, declared |-> [s \in {} |-> ""], ids |-> [k \in {} |-> <<>>]]

Init ==
  /\ \E wire \in {"sound", "malformed", "too_deeply_nested"}, metadata \in 0..2,
        docs \in 0..NumDocuments, exts \in 0..NumExternals :
       \E ds \in [1..docs -> Documents], es \in [1..exts -> Externals] :
         /\ (wire # "sound" \/ metadata # 1) => exts = 0
         /\ index = [wire |-> wire, metadata |-> metadata, documents |-> ds, externals |-> es]
  /\ importer = Empty /\ documents = <<>> /\ external = <<>> /\ diagnostics = <<>>
  /\ done = [documents |-> 0, externals |-> 0] /\ phase = "scan"

Prescan ==
  /\ phase = "scan" /\ phase' = Scanned(index)
  /\ UNCHANGED <<index, importer, documents, external, diagnostics, done>>

\* _run: what produced the index must be named.
Run ==
  /\ phase = "run" /\ phase' = IF index.metadata = 0 THEN "missing_metadata" ELSE "import"
  /\ UNCHANGED <<index, importer, documents, external, diagnostics, done>>

Document == index.documents[done.documents + 1]
Kept == {d.path : d \in ToSet(documents)}

\* An unsafe or repeated path is reported and left out.
SkipDocument ==
  /\ phase = "import" /\ done.documents < Len(index.documents)
  /\ Document.path \notin Safe \/ Document.path \in Kept
  /\ diagnostics' = Append(diagnostics, IF Document.path \notin Safe THEN Diagnostic("unsafe_path", NoPath, Nowhere)
                                        ELSE Diagnostic("duplicate_document", Document.path, Nowhere))
  /\ done' = [done EXCEPT !.documents = @ + 1]
  /\ UNCHANGED <<index, importer, documents, external, phase>>

Symbols(infos) == UNION {{i.symbol} \cup {r.symbol : r \in ToSet(i.relationships)} : i \in ToSet(infos)}
TooMany(doc) ==
  \/ Len(doc.occurrences) > MaxOccurrences \/ Len(doc.symbols) > MaxSymbols
  \/ \E k \in 1..Len(doc.symbols) : Len(doc.symbols[k].relationships) > MaxRelationships

\* document: the counts are checked again, an overlong symbol makes the index unusable.
ImportDocument ==
  /\ phase = "import" /\ done.documents < Len(index.documents)
  /\ Document.path \in Safe \ Kept
  /\ IF TooMany(Document) THEN phase' = "late_count" /\ UNCHANGED <<importer, documents, diagnostics, done>>
     ELSE IF Overlong \cap (Symbols(Document.symbols) \cup {o.symbol : o \in ToSet(Document.occurrences)}) # {}
     THEN phase' = "symbol_too_long" /\ UNCHANGED <<importer, documents, diagnostics, done>>
     ELSE LET Take(got) == /\ importer' = got.imp /\ documents' = Append(documents, got.document)
                           /\ diagnostics' = diagnostics \o got.diagnostics
          IN  /\ Take(Imported(importer, Document))
              /\ done' = [done EXCEPT !.documents = @ + 1] /\ UNCHANGED phase
  /\ UNCHANGED <<index, external>>

\* External symbols are imported last, by the importer the last document left.
ImportExternal ==
  /\ phase = "import" /\ done.documents = Len(index.documents) /\ done.externals < Len(index.externals)
  /\ LET info == index.externals[done.externals + 1]
         Take(got) == /\ importer' = got.imp /\ external' = external \o got.kept
                      /\ diagnostics' = diagnostics \o got.diagnostics
     IN  IF Len(info.relationships) > MaxRelationships \/ Overlong \cap Symbols(<<info>>) # {}
         THEN /\ phase' = IF Len(info.relationships) > MaxRelationships THEN "late_count" ELSE "symbol_too_long"
              /\ UNCHANGED <<importer, external, diagnostics, done>>
         ELSE /\ Take(SymbolOf(Fold(importer), info, NoPath))
              /\ done' = [done EXCEPT !.externals = @ + 1] /\ UNCHANGED phase
  /\ UNCHANGED <<index, documents>>

Finish ==
  /\ phase = "import" /\ done.documents = Len(index.documents) /\ done.externals = Len(index.externals)
  /\ phase' = "done"
  /\ UNCHANGED <<index, importer, documents, external, diagnostics, done>>

Next == Prescan \/ Run \/ SkipDocument \/ ImportDocument \/ ImportExternal \/ Finish

Spec == Init /\ [][Next]_vars

-----------------------------------------------------------------------------
(* Every use of a symbol that was kept: where, and the id it got. *)

UsesIn(d) ==
  {[path |-> d.path, symbol |-> o.symbol, id |-> o.id] : o \in ToSet(d.occurrences)}
  \cup {[path |-> d.path, symbol |-> s.symbol, id |-> s.id] : s \in ToSet(d.symbols)}
  \cup UNION {{[path |-> d.path, symbol |-> r.symbol, id |-> r.id] : r \in ToSet(s.relationships)} : s \in ToSet(d.symbols)}

Uses ==
  UNION {UsesIn(d) : d \in ToSet(documents)}
  \cup {[path |-> NoPath, symbol |-> s.symbol, id |-> s.id] : s \in ToSet(external)}

(***************************************************************************)
(* One symbol, one id: a global symbol has the same id wherever it is      *)
(* used; a local one has one id for all its uses in a file, whichever of   *)
(* declaration, occurrence and relationship comes first, and never that of *)
(* another symbol or of the same name in another file.                     *)
(***************************************************************************)
OneIdPerSymbol ==
  \A a, b \in Uses :
    a.id = b.id <=> a.symbol = b.symbol /\ (a.symbol \in Locals => a.path = b.path)

Reported(path, position) ==
  \E k \in 1..Len(diagnostics) : diagnostics[k].path = path /\ diagnostics[k].position = position

Conflicted(d, s) == s \in ConflictingLocals(index.documents[d.number])

(***************************************************************************)
(* Nothing is left out silently: an occurrence or an enclosing range that  *)
(* is missing has a diagnostic at its index, or its local symbol has       *)
(* conflicting declarations, and a symbol or a relationship that is        *)
(* missing has one at its document.                                        *)
(***************************************************************************)
DropsReported ==
  \A d \in ToSet(documents) : LET doc == index.documents[d.number] IN
    /\ \A k \in 1..Len(doc.occurrences) :
         LET item == {o \in ToSet(d.occurrences) : o.position = k} IN
           (item = {} \/ \E o \in item : o.enclosing # doc.occurrences[k].enclosing)
           => \/ Reported(d.path, k)
              \/ (doc.encoding = "unknown" \/ Conflicted(d, doc.occurrences[k].symbol)) /\ Reported(d.path, Nowhere)
    /\ (\/ Len(d.symbols) < Len(doc.symbols)
        \/ \E k \in 1..Len(d.symbols) : Len(d.symbols[k].relationships) < Len(doc.symbols[k].relationships))
       => Reported(d.path, Nowhere)

(***************************************************************************)
(* Nothing is fabricated: each path is imported once and is safe, a range  *)
(* that is kept lies in the known text and its enclosing range around it,  *)
(* a relationship says what it is, and no conflicting local has an id.     *)
(***************************************************************************)
NothingFabricated ==
  /\ Cardinality(Kept) = Len(documents) /\ Kept \subseteq Safe
  /\ \A d \in ToSet(documents) : LET doc == index.documents[d.number] IN
       /\ \A o \in ToSet(d.occurrences) :
            /\ InText(doc, o.range)
            /\ o.enclosing # NoText => Encloses(o.enclosing, o.range) /\ InText(doc, o.enclosing)
       /\ \A u \in UsesIn(d) : u.symbol \notin Invalid /\ ~Conflicted(d, u.symbol)
       /\ \A s \in ToSet(d.symbols) : \A r \in ToSet(s.relationships) : r.kinds # {}

(***************************************************************************)
(* The scan of the wire bounds everything before it is built: no count is  *)
(* found too large after it.                                               *)
(***************************************************************************)
BoundedFirst == phase # "late_count"
=============================================================================
