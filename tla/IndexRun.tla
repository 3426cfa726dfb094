------------------------------ MODULE IndexRun ------------------------------
(***************************************************************************)
(* One indexing run over a checkout that keeps changing: the scan, the     *)
(* re-read of the sources, the parse and the evidence the emitter builds   *)
(* (pipeline._build and emitter._Run).  The scan is one step here (Scanner *)
(* has its own interleavings); what it saw and what is read later differ.  *)
(* A content is a model value; the facts a file yields are those of its    *)
(* content, all of them or only some.                                      *)
(***************************************************************************)
EXTENDS Integers, FiniteSets

CONSTANTS
  Paths,       \* repository paths
  Registered,  \* the paths with a registered language
  Contents,    \* file contents
  Big,         \* the contents above the source cap
  Truncated,   \* what a bounded read of a big file returns
  Absent,      \* no file, no blob
  MaxEdits,    \* bound: edits of the worktree during a run
  None

\* The error classes a run may end with.
ErrorClasses == {"scan_incomplete", "files_skipped", "files_degraded"}

IndexRunAssumption ==
  /\ Registered \subseteq Paths /\ Big \subseteq Contents /\ MaxEdits \in Nat
  /\ None \notin ErrorClasses

VARIABLES
  phase,     \* "scan", "read", "parse", "build" or "done"
  work,      \* the worktree
  repo,      \* [head, index]: the commit and the index, per path
  scan,      \* what the scan recorded
  scip,      \* the SCIP import: [documents, dropped, invalid]
  sources,   \* path -> bytes read back
  left,      \* paths read_sources has still to read
  parsed,    \* path -> "none", "ok" or "lossy"
  out,       \* the evidence of the run
  edits      \* edits so far

vars == <<phase, work, repo, scan, scip, sources, left, parsed, out, edits>>

States == [Paths -> Contents \cup {Absent}]
NoScan == [at |-> [p \in Paths |-> Absent]]
NoOut == [indexed |-> {}, complete |-> {}, not_indexed |-> {}, facts |-> {}, error |-> "none"]

-----------------------------------------------------------------------------
(* The scan: per listed path its status, its digest and its index blob. *)

Listed == {p \in Paths : p \notin scan.omitted /\ (repo.index[p] # Absent \/ scan.at[p] # Absent)}
Tracked == {p \in Listed : repo.index[p] # Absent}

\* scanned_digest: none for a path that is missing or was skipped.
scanned_digest(p) == IF p \in Listed \ scan.skipped /\ scan.at[p] # Absent THEN scan.at[p] ELSE None

\* A path git status reports against HEAD.
Changed(p) == p \in scan.changed

\* modified_paths: the scanner compares contents, whatever the status says.
Modified(p) == Changed(p) \/ scan.at[p] # repo.index[p]

\* The status misses a racy edit of a file whose index entry is clean.
Scan(skipped, omitted, missed) ==
  /\ phase = "scan" /\ phase' = "read"
  /\ scan' = [at |-> work, skipped |-> skipped, omitted |-> omitted,
              changed |-> {p \in Paths : repo.index[p] # Absent /\
                             (repo.index[p] # repo.head[p] \/ (work[p] # repo.index[p] /\ p \notin missed))}]
  /\ left' = {p \in Registered : p \notin omitted \cup skipped /\ work[p] # Absent}
  /\ UNCHANGED <<work, repo, scip, sources, parsed, out, edits>>

-----------------------------------------------------------------------------
(* read_sources: each file is opened again and must still match the scan. *)

Bytes(p) == CASE work[p] = Absent -> None [] work[p] \in Big -> Truncated [] OTHER -> work[p]

\* A file above the cap is kept unchecked and counted later.
Matches(p) == scan.at[p] \in Big \/ Bytes(p) = scan.at[p]

ReadSource(p) ==
  /\ phase = "read" /\ p \in left /\ left' = left \ {p}
  /\ sources' = [sources EXCEPT ![p] = IF Bytes(p) # None /\ Matches(p) THEN Bytes(p) ELSE None]
  /\ UNCHANGED <<phase, work, repo, scan, scip, parsed, out, edits>>

SourcesRead ==
  /\ phase = "read" /\ left = {} /\ phase' = "parse"
  /\ UNCHANGED <<work, repo, scan, scip, sources, left, parsed, out, edits>>

\* parse_structural: a file is parsed, degraded, or too large to be sent.
Parse(outcome) ==
  /\ phase = "parse" /\ phase' = "build"
  /\ parsed' = [p \in Paths |-> IF sources[p] \in {None, Truncated} THEN "none" ELSE outcome[p]]
  /\ UNCHANGED <<work, repo, scan, scip, sources, left, out, edits>>

Edit(p, c) ==
  /\ phase \in {"read", "parse"} /\ edits < MaxEdits /\ work[p] # c
  /\ work' = [work EXCEPT ![p] = c] /\ edits' = edits + 1
  /\ UNCHANGED <<phase, repo, scan, scip, sources, left, parsed, out>>

-----------------------------------------------------------------------------
(* The evidence: _Run.build and what it calls. *)

Mut_at_commit(p) == TRUE

\* at_commit: decided by content, never by status.
at_commit(p) == ~Modified(p) \/ (sources[p] # None /\ sources[p] = repo.index[p])

scip_applies(p) == p \in Tracked /\ ~Changed(p) /\ at_commit(p)

Documents == {p \in scip.documents : scip_applies(p)}

\* file_identity: the committed lineage, or a provisional id for a dirty file.
HasIdentity(p) == repo.head[p] # Absent \/ p \in Listed \ Tracked \/ Changed(p)

\* admit: the bytes are those the scan digested and the file has an identity.
admit(p) == sources[p] # None /\ sources[p] = scanned_digest(p) /\ HasIdentity(p)

index_structural(p) == parsed[p] # "none" /\ admit(p)
index_scip_only(p) == parsed[p] = "none" /\ p \in Documents /\ admit(p)
Indexed == {p \in Paths : index_structural(p) \/ index_scip_only(p)}

\* match_scip and scip_relations: a position that is not in the bytes yields nothing.
scip_facts(p) == IF p \notin Documents THEN {} ELSE IF p \in scip.invalid THEN {<<p, "scip", "some">>} ELSE {<<p, "scip", "all">>}
parsed_facts(p) == IF parsed[p] = "none" THEN {} ELSE {<<p, "tree_sitter", IF parsed[p] = "ok" THEN "all" ELSE "some">>}

\* lose: what a file lost on the way.
losses(p) ==
  (IF parsed[p] = "lossy" THEN {"adapter"} ELSE {}) \cup
  (IF p \in scip.dropped \/ p \in scip.documents \ Documents THEN {"scip_evidence_dropped"} ELSE {}) \cup
  (IF p \in Documents \cap scip.invalid THEN {"invalid_position"} ELSE {})

\* unindexed_coverage: a clean tracked file that never reached emission.
unindexed_coverage == {p \in (Tracked \cap Registered) \ Indexed : repo.head[p] # Absent /\ ~Changed(p) /\ ~Modified(p)}

scan_hides_sources == scan.omitted # {}

Skipped == \E p \in Listed \cap Registered : p \notin Indexed

\* Evidence that was dropped rather than emitted: every loss code counts.
Degraded == \E p \in Paths : losses(p) # {}

\* outcome_error_class: success must never hide a file or a loss.  Left out is
\* snapshot_incomplete, which the code tests before files_skipped: a dirty file
\* that cannot be hashed was not admitted either, so it only renames that class;
\* for a rejected path of no registered language it replaces success.
outcome_error_class ==
  CASE scan_hides_sources -> "scan_incomplete"
    [] Skipped -> "files_skipped"
    [] Degraded -> "files_degraded"
    [] OTHER -> None

\* emit_file: the revision of an indexed file is of the bytes that were read.
emit_file == {<<p, sources[p]>> : p \in Indexed}

\* coverage_drafts: complete, or the losses of its revision.
coverage_drafts == {p \in Indexed : losses(p) = {}}

Build ==
  /\ phase = "build" /\ phase' = "done"
  /\ out' = [indexed |-> emit_file,
             complete |-> coverage_drafts,
             not_indexed |-> unindexed_coverage,
             facts |-> UNION {scip_facts(p) \cup parsed_facts(p) : p \in Indexed},
             error |-> outcome_error_class]
  /\ UNCHANGED <<work, repo, scan, scip, sources, left, parsed, edits>>

-----------------------------------------------------------------------------
Init ==
  /\ phase = "scan" /\ edits = 0 /\ left = {} /\ out = NoOut
  /\ work \in States
  /\ \E h, i \in States : repo = [head |-> h, index |-> i]
  /\ scan = NoScan
  /\ \E d, x, y \in SUBSET Paths :
        /\ x \subseteq d /\ y \subseteq d /\ \A p \in d : repo.head[p] # Absent
        /\ scip = [documents |-> d, dropped |-> x, invalid |-> y]
  /\ sources = [p \in Paths |-> None] /\ parsed = [p \in Paths |-> "none"]

Next ==
  \/ \E s, o, m \in SUBSET Paths : Scan(s, o, m)
  \/ \E p \in Paths : ReadSource(p)
  \/ SourcesRead
  \/ \E f \in [Paths -> {"ok", "lossy"}] : Parse(f)
  \/ \E p \in Paths, c \in Contents \cup {Absent} : Edit(p, c)
  \/ Build

Spec == Init /\ [][Next]_vars

-----------------------------------------------------------------------------
Done == phase = "done"

(***************************************************************************)
(* SCIP evidence describes the commit; it is attached to a file revision   *)
(* only if the bytes of that revision are the commit's, even when git      *)
(* status missed an edit.                                                  *)
(***************************************************************************)
ScipIsOfTheCommit ==
  Done => \A f \in out.facts : f[2] = "scip" => <<f[1], repo.head[f[1]]>> \in out.indexed

(***************************************************************************)
(* A file revision is of the bytes the scan digested, not of what the file *)
(* became while the run went on: the target and its files agree.           *)
(***************************************************************************)
IndexedIsScanned == Done => \A f \in out.indexed : f[2] = scan.at[f[1]]

(***************************************************************************)
(* A file reported complete lost nothing: all facts of its parse and, if   *)
(* it has a SCIP document, all of that document's.  Readers infer absence  *)
(* from it.                                                                *)
(***************************************************************************)
CompleteIsWhole ==
  Done => \A p \in out.complete :
            /\ parsed[p] # "none" => <<p, "tree_sitter", "all">> \in out.facts
            /\ p \in scip.documents => <<p, "scip", "all">> \in out.facts

(***************************************************************************)
(* A run that reports success indexed every source file of the checkout it *)
(* scanned, completely.                                                    *)
(***************************************************************************)
SuccessHidesNothing ==
  (Done /\ out.error = None) =>
    \A p \in Registered : scan.at[p] # Absent => <<p, scan.at[p]>> \in out.indexed /\ p \in out.complete

(***************************************************************************)
(* A revision reported not indexed is that of the committed blob: the      *)
(* worktree held that very content when it was scanned, and the file is    *)
(* not also indexed.                                                       *)
(***************************************************************************)
NotIndexedIsCommitted ==
  Done => \A p \in out.not_indexed : scan.at[p] = repo.head[p] /\ \A f \in out.indexed : f[1] # p
=============================================================================
