---------------------------- MODULE AdapterAnswer ----------------------------
(***************************************************************************)
(* The answer of a language adapter and the gate it passes: the child      *)
(* builds one answer for all files of a request (_common.safe_module), the *)
(* parent refuses the whole answer for one defect (base.validate_module).  *)
(* A source is a sequence of words, a range is a pair of positions, a name *)
(* a sequence of words; signatures, digests, qualifiers and aliases, which *)
(* are checked the way names are, are left out.                            *)
(***************************************************************************)
EXTENDS Integers, Sequences, FiniteSets, SequencesExt

CONSTANTS
  NumFiles,      \* the files of the request, 1..NumFiles
  Content,       \* Content[f]: the words of the source
  PathWords,     \* PathWords[f]: the words of the path
  Raw,           \* what parse_file may find: [symbols, relations, references, dropped]
  MaxSymbols, MaxRelations, MaxReferences, MaxModuleReferences, NameTotal, MaxRangeBound,
  SymbolSize, RelationSize, ReferenceSize, DiagnosticSize, FileSize,
  Estimate,      \* what the budget charges for a symbol
  OutputBudget, MaxOutput, MaxCount

VARIABLES
  raw,      \* raw[f]: what the adapter found in the file
  charged,  \* Budget's output counter, and its value when the file began
  parsed,   \* the ParsedFile in hand
  files,    \* the answer so far
  total,    \* its size
  phase     \* "parse", "check", "reduce", "accepted", "refused" or "too_large"

vars == <<raw, charged, parsed, files, total, phase>>

Files == 1..NumFiles
Codes == {"work_budget_exceeded", "syntax_recovered", "symbols_dropped", "references_capped", "file_degraded"}

\* The file in hand.
Current == Len(files) + 1

-----------------------------------------------------------------------------
(* base.validate_module *)

Words(f, start, end) == {Content[f][i] : i \in (start + 1)..end}

\* _SourceText.final_ok
FinalOk(f, s) ==
  \/ Last(s.name) \in Words(f, s.start, s.end)
  \/ s.kind = "module" /\ Last(s.name) \in PathWords[f]

\* _SourceText.prefix_ok: a path component, another symbol's name, or a few words of the range.
PrefixOk(f, s, finals, paths) ==
  LET loose == SelectSeq(Front(s.name), LAMBDA w : w \notin paths \cup finals)
  IN  ToSet(loose) \subseteq Words(f, s.start, s.end) /\ Len(loose) <= MaxRangeBound

\* _SourceText.path_ok: the name of a reference is exactly the words of its range.
PathOk(f, r) == r.name = SubSeq(Content[f], r.start + 1, r.end)

Declaration(s) == <<s.name, s.kind, s.start, s.end>>
Written(r) == <<r.name, r.start, r.end>>
Distinct(seq) == Cardinality(ToSet(seq)) = Len(seq)
Map(Op(_), seq) == [i \in 1..Len(seq) |-> Op(seq[i])]
NamesOf(items) == FoldLeft(LAMBDA a, i : a + Len(i.name), 0, items)
OfSource(items, source) == Len(SelectSeq(items, LAMBDA i : i.source = source))

\* _validate_references
ReferencesOk(f, p) ==
  /\ Distinct(Map(Written, p.references))
  /\ \A i \in 1..Len(p.references) : LET r == p.references[i] IN
       /\ r.source \in 0..Len(p.symbols)
       /\ OfSource(p.references, r.source) <= (IF r.source = 0 THEN MaxModuleReferences ELSE MaxReferences)
       /\ LET low == IF r.source = 0 THEN 0 ELSE p.symbols[r.source].start
              high == IF r.source = 0 THEN Len(Content[f]) ELSE p.symbols[r.source].end
          IN  low <= r.start /\ r.start < r.end /\ r.end <= high
       /\ PathOk(f, r)

\* _validate_file
FileOk(f, p) ==
  /\ Len(p.symbols) <= MaxSymbols
  /\ Distinct(Map(Declaration, p.symbols))
  /\ \A i \in 1..Len(p.symbols) : LET s == p.symbols[i] IN
       s.start < s.end /\ s.end <= Len(Content[f]) /\ FinalOk(f, s)
  /\ \A i \in 1..Len(p.relations) : LET r == p.relations[i] IN
       {r.source, r.target} \subseteq 1..Len(p.symbols) /\ OfSource(p.relations, r.source) <= MaxRelations
  /\ ReferencesOk(f, p)
  /\ NamesOf(p.symbols) + NamesOf(p.references) <= NameTotal

\* ParsedFile._diagnostics_consistent
Consistent(p) ==
  p.diagnostics["file_degraded"] > 0 =>
    /\ \E c \in Codes \ {"file_degraded"} : p.diagnostics[c] > 0
    /\ p.symbols = <<>> /\ p.relations = <<>> /\ p.references = <<>>

FinalsOf(p) == {Last(s.name) : s \in ToSet(p.symbols)}

\* validate_module of some files of the request, in any order.
Validates(request, answer) ==
  /\ Distinct(Map(LAMBDA p : p.file, answer)) /\ {p.file : p \in ToSet(answer)} = request
  /\ LET finals == UNION {FinalsOf(p) : p \in ToSet(answer)}
         paths == UNION {PathWords[f] : f \in request}
     IN  \A p \in ToSet(answer) :
           FileOk(p.file, p) /\ \A s \in ToSet(p.symbols) : PrefixOk(p.file, s, finals, paths)

\* _finish: the ordinal of a declaration among those of its name and kind, by position.
Ordinal(p, i) ==
  LET s == p.symbols[i]
      Before(t) == t.start < s.start \/ (t.start = s.start /\ t.end < s.end)
  IN  Cardinality({j \in 1..Len(p.symbols) : p.symbols[j].name = s.name /\ p.symbols[j].kind = s.kind /\ Before(p.symbols[j])})

Identities(p) == {<<p.symbols[i].name, p.symbols[i].kind, Ordinal(p, i)>> : i \in 1..Len(p.symbols)}

-----------------------------------------------------------------------------
(* _common.safe_module *)

\* diagnostics: counts saturate.
Diagnostics(counts) == [c \in Codes |-> IF counts[c] > MaxCount THEN MaxCount ELSE counts[c]]
NoCounts == [c \in Codes |-> 0]

\* degraded_file
Degraded(f, reason) ==
  [file |-> f, symbols |-> <<>>, relations |-> <<>>, references |-> <<>>,
   diagnostics |-> Diagnostics([NoCounts EXCEPT !["file_degraded"] = 1, ![reason] = 1])]

Size(p) ==
  FileSize + SymbolSize * Len(p.symbols) + RelationSize * Len(p.relations) + ReferenceSize * Len(p.references)
    + DiagnosticSize * Cardinality({c \in Codes : p.diagnostics[c] > 0})

\* _shed
Shed(p, lost) == Diagnostics([p.diagnostics EXCEPT !["references_capped"] = @ + lost])
WithoutReferences(p) == [p EXCEPT !.references = <<>>, !.diagnostics = Shed(p, Len(p.references))]
WithoutRelations(p) == [p EXCEPT !.relations = <<>>, !.diagnostics = Shed(p, Len(p.relations))]

\* _reductions: as it is, without references, without relations, with no structure.
Reductions(p) ==
  LET shed == IF p.references = <<>> THEN p ELSE WithoutReferences(p)
  IN  <<p>> \o (IF p.references = <<>> THEN <<>> ELSE <<shed>>)
      \o (IF shed.relations = <<>> THEN <<>> ELSE <<WithoutRelations(shed)>>)
      \o <<Degraded(p.file, "symbols_dropped")>>

\* The symbols the budget admits, and what refers to them only.
Taken(f, found, room) ==
  LET kept == IF Estimate * Len(found.symbols) <= room THEN Len(found.symbols) ELSE room \div Estimate
      lost == Len(found.symbols) - kept
  IN  [file |-> f, symbols |-> SubSeq(found.symbols, 1, kept),
       relations |-> SelectSeq(found.relations, LAMBDA r : lost = 0 \/ (r.source <= kept /\ r.target <= kept)),
       references |-> SelectSeq(found.references, LAMBDA r : lost = 0 \/ r.source <= kept),
       diagnostics |-> Diagnostics([NoCounts EXCEPT !["symbols_dropped"] = found.dropped + lost])]

Nothing == [symbols |-> <<>>, relations |-> <<>>, references |-> <<>>, dropped |-> 0]

Init ==
  /\ raw = [f \in Files |-> Nothing] /\ charged = [now |-> 0, mark |-> 0]
  /\ parsed = Degraded(1, "symbols_dropped") /\ files = <<>> /\ total = 0 /\ phase = "parse"

\* parse_file answers, charging the budget as it goes.
Parse ==
  /\ phase = "parse" /\ Current \in Files /\ phase' = "check"
  /\ \E found \in Raw :
       /\ raw' = [raw EXCEPT ![Current] = found]
       /\ parsed' = Taken(Current, found, OutputBudget - charged.now)
  /\ charged' = [now |-> charged.now + Estimate * Len(parsed'.symbols), mark |-> charged.now]
  /\ UNCHANGED <<files, total>>

\* WorkBudgetExceeded: what the file was charged is returned, whatever part of it was taken.
Exceed ==
  /\ phase = "parse" /\ Current \in Files /\ phase' = "reduce"
  /\ parsed' = Degraded(Current, "work_budget_exceeded")
  /\ UNCHANGED <<raw, charged, files, total>>

Structured(p) == p.symbols # <<>> \/ p.relations # <<>> \/ p.references # <<>>

\* A file with structure is checked as the parent will; a refused one returns its charge.
Check ==
  /\ phase = "check" /\ phase' = "reduce"
  /\ IF Structured(parsed) /\ ~Validates({Current}, <<parsed>>)
     THEN parsed' = Degraded(Current, "symbols_dropped") /\ charged' = [charged EXCEPT !.now = charged.mark]
     ELSE UNCHANGED <<parsed, charged>>
  /\ UNCHANGED <<raw, files, total>>

\* The real size decides: the first reduction that fits, or the last.
Reduce ==
  /\ phase = "reduce" /\ phase' = "parse"
  /\ LET options == Reductions(parsed)
         fitting == {i \in 1..Len(options) : total + Size(options[i]) <= OutputBudget}
         chosen == IF fitting = {} THEN Len(options) ELSE CHOOSE i \in fitting : \A j \in fitting : i <= j
     IN  files' = Append(files, options[chosen]) /\ total' = total + Size(options[chosen])
  /\ UNCHANGED <<raw, charged, parsed>>

\* SandboxedAdapter.parse: the size, the schema of every file, then the whole answer.
Receive ==
  /\ phase = "parse" /\ Current \notin Files
  /\ phase' = IF total > MaxOutput THEN "too_large"
              ELSE IF (\A p \in ToSet(files) : Consistent(p)) /\ Validates(Files, files) THEN "accepted"
              ELSE "refused"
  /\ UNCHANGED <<raw, charged, parsed, files, total>>

Next == Parse \/ Exceed \/ Check \/ Reduce \/ Receive

Spec == Init /\ [][Next]_vars

-----------------------------------------------------------------------------
(***************************************************************************)
(* "Passing validate_module per file implies passing it for the batch, so  *)
(* one pathological file cannot take down the others": the parent neither  *)
(* refuses the answer nor finds it too large, whatever the files are.      *)
(***************************************************************************)
BatchAccepted == phase \notin {"refused", "too_large"}

\* A file of the answer says less than what was found in it.
Poorer(p, found) ==
  \/ Len(p.symbols) < Len(found.symbols) \/ Len(p.relations) < Len(found.relations)
  \/ Len(p.references) < Len(found.references)

(***************************************************************************)
(* A degraded file is never silent: what was found and is not in the       *)
(* answer, for whatever reason, shows as a diagnostic of that file.        *)
(***************************************************************************)
NeverSilent ==
  \A i \in 1..Len(files) :
    Poorer(files[i], raw[i]) => \E c \in Codes : files[i].diagnostics[c] > 0

\* What the files before the current one may have charged: those that are valid alone.
ValidCharge ==
  FoldLeft(LAMBDA sum, f : LET t == Taken(f, raw[f], OutputBudget - sum)
                           IN  IF Validates({f}, <<t>>) THEN sum + Estimate * Len(t.symbols) ELSE sum,
           0, [i \in 1..Len(files) |-> i])

(***************************************************************************)
(* A file that is refused or exceeds its work costs the next ones nothing: *)
(* between two files the budget holds the charge of the valid ones alone.  *)
(***************************************************************************)
ChargeReturned == phase = "parse" => charged.now = ValidCharge

(***************************************************************************)
(* No two symbols of an accepted file get the same identity, although the  *)
(* adapter chooses the order and may declare a name twice (_finish).       *)
(***************************************************************************)
IdentitiesDistinct ==
  phase = "accepted" => \A p \in ToSet(files) : Cardinality(Identities(p)) = Len(p.symbols)
=============================================================================
