------------------------------- MODULE Lineage -------------------------------
(***************************************************************************)
(* File lineage from first-parent history (indexing/lineage.py and         *)
(* indexing/identity.py).  A walk reads the diff of every commit of the    *)
(* chain and keeps, for each path of the tree, the logical id of the file: *)
(* the path and the commit at which its lineage began.  Git's pairing of   *)
(* removals with additions is a guess that depends on its version; here it *)
(* is chosen freely, twice, to compare the two walks.                      *)
(***************************************************************************)
EXTENDS Integers, FiniteSets, Functions, TLC

CONSTANTS
  Paths,        \* repository paths (numbers, in path order)
  Unsafe,       \* paths the safe-path check refuses
  Blobs,        \* blob ids
  Link,         \* a submodule pointer in a tree
  Absent,       \* no entry in a tree
  NoBlob,       \* the zero object id of a deleted lineage
  MaxCommits,   \* the indexer's max_commits
  Guesses,      \* BOOLEAN to let git pair removals with additions, {FALSE} not to
  None

LineageAssumption ==
  /\ Paths \subseteq Nat /\ Unsafe \subseteq Paths
  /\ MaxCommits \in Nat \ {0} /\ NoBlob \notin Blobs

VARIABLES
  phase,      \* "start", "walk", "linked" or the error that ended the run
  length,     \* commits of the first-parent chain
  n,          \* commits walked
  tree,       \* the tree of the last commit walked
  walk,       \* the walk: [live, dead, sup]
  twin,       \* the walk of another git, with its own pairing
  private,    \* the private GIT_DIR exists
  links,      \* the links of provisional files
  gone        \* ids whose lineage ended (history variable)

vars == <<phase, length, n, tree, walk, twin, private, links, gone>>

Trees == [Paths -> Blobs \cup {Link, Absent}]
Ids == Paths \X (1..MaxCommits)

-----------------------------------------------------------------------------
(* git diff-tree --raw -M, external: one record per changed path, or one per *)
(* pair of a removed and an added path.                                      *)

Status(old, new) == CASE old = Absent -> "A" [] new = Absent -> "D" [] (old = Link) # (new = Link) -> "T" [] OTHER -> "M"

Removals(t, u) == {p \in Paths : t[p] # Absent /\ u[p] = Absent}
Additions(t, u) == {p \in Paths : t[p] = Absent /\ u[p] # Absent}

\* One removal paired with one addition, a submodule only with a submodule.
Pairings(t, u) ==
  IF Guesses = {FALSE} THEN {{}}
  ELSE {{}} \cup {{<<p, q>>} : p \in Removals(t, u), q \in Additions(t, u)}

Fits(t, u, pairing) == \A r \in pairing : (t[r[1]] = Link) = (u[r[2]] = Link)

Decoded(p) == IF p \in Unsafe THEN None ELSE p

Records(t, u, pairing) ==
  {[status |-> Status(t[p], u[p]), old |-> t[p], new |-> u[p], path |-> Decoded(p), new_path |-> None]
     : p \in {q \in Paths : t[q] # u[q] /\ \A r \in pairing : q # r[1] /\ q # r[2]}}
  \cup {[status |-> "R", old |-> t[r[1]], new |-> u[r[2]], path |-> Decoded(r[1]), new_path |-> Decoded(r[2])] : r \in pairing}

-----------------------------------------------------------------------------
(* identity.resolve_rename *)

\* The id of a lineage: its origin path and the commit that introduced it.
file_logical_id(path, commit) == <<path, commit>>

\* One removed and one added path with the identical blob: an exact rename.
Rename(removed, added, p) ==
  \E r \in removed :
    /\ r.blob = added[p] /\ r.path # p
    /\ \A s \in removed : s.blob = added[p] => s = r
    /\ \A q \in DOMAIN added : added[q] = added[p] => q = p

Source(removed, added, p) == CHOOSE r \in removed : r.blob = added[p]

ResolvedId(removed, added, commit, p) ==
  IF Rename(removed, added, p) THEN Source(removed, added, p).id ELSE file_logical_id(p, commit)

\* The later basis wins where one pair of ids is linked in several ways.
Basis(removed, added, guesses, p, r) ==
  CASE r.path = p -> "path_reuse"
    [] <<r.path, p>> \in guesses -> "similarity"
    [] OTHER -> "ambiguous_blob_match"

Supersessions(removed, added, guesses, commit) ==
  UNION {{[old |-> r.id, new |-> file_logical_id(p, commit), basis |-> Basis(removed, added, guesses, p, r)]
            : r \in {s \in removed : s.blob = added[p] \/ <<s.path, p>> \in guesses \/ s.path = p}}
         : p \in {q \in DOMAIN added : ~Rename(removed, added, q)}}

\* The inputs resolve_rename refuses with ValueError.
Refused(removed) ==
  \E r, s \in removed : r # s /\ (r.path = s.path \/ r.id = s.id)

-----------------------------------------------------------------------------
(* lineage._State.apply *)

Mut_RemovedPaths(records) == {r.path : r \in {x \in records : x.path # None /\ x.status \in {"R", "D"} /\ x.old # Link}}

\* The paths a diff removes and those it adds with their blobs.
RemovedPaths(records) ==
  {r.path : r \in {x \in records : x.path # None /\
     (x.status = "R" \/ (x.status # "A" /\ x.old # Link /\ (x.status = "D" \/ x.new = Link)))}}

AddedRecords(records) ==
  {<<r.new_path, r.new>> : r \in {x \in records : x.status = "R" /\ x.new_path # None /\ x.new # Link}}
  \cup {<<r.path, r.new>> : r \in {x \in records : x.path # None /\ x.status # "R" /\
          x.status # "D" /\ x.new # Link /\ (x.status = "A" \/ x.old = Link)}}

Added(records) ==
  [p \in {a[1] : a \in AddedRecords(records)} |-> (CHOOSE a \in AddedRecords(records) : a[1] = p)[2]]

Edited(live, records) ==
  [p \in DOMAIN live |->
     IF \E r \in records : r.path = p /\ r.status \in {"M", "T"} /\ r.old # Link /\ r.new # Link
     THEN [live[p] EXCEPT !.blob = (CHOOSE r \in records : r.path = p /\ r.status \in {"M", "T"}).new]
     ELSE live[p]]

Priors(live, records) == {[path |-> p, id |-> live[p].id, blob |-> live[p].blob] : p \in RemovedPaths(records) \cap DOMAIN live}

\* A deleted lineage carries no usable blob: it is never a rename source.
DeadBlob(records) == NoBlob

Reused(dead, priors, records) ==
  {[path |-> p, id |-> dead[p], blob |-> DeadBlob(records)]
     : p \in {q \in DOMAIN Added(records) \cap DOMAIN dead : \A r \in priors : r.path # q}}

\* Git's pairs are guesses only; an exact pair is not even that.
SimilarPairs(live, records) ==
  {<<r.path, r.new_path>> : r \in {x \in records :
     x.status = "R" /\ x.path \in DOMAIN live /\ x.new_path # None /\ x.new # Link /\ x.old # x.new}}

\* A renamed file keeps the origin of its lineage.
Origin(carried, id, p, commit, blob) ==
  IF id \in DOMAIN carried THEN carried[id] ELSE [path |-> p, commit |-> commit, blob |-> blob]

apply(w, commit, records) ==
  LET live    == Edited(w.live, records)
      priors  == Priors(live, records)
      added   == Added(records)
      removed == priors \cup Reused(w.dead, priors, records)
      newId(p) == ResolvedId(removed, added, commit, p)
      carried == [i \in {r.id : r \in priors} |-> (CHOOSE e \in Range(live) : e.id = i).origin]
      left    == [p \in DOMAIN live \ {r.path : r \in priors} |-> live[p]]
      moved   == {newId(p) : p \in DOMAIN added}
      kept    == {r \in priors : r.id \notin moved}
  IN [live |-> [p \in DOMAIN added |->
                  [id |-> newId(p), blob |-> added[p], origin |-> Origin(carried, newId(p), p, commit, added[p])]] @@ left,
      dead |-> [p \in (DOMAIN w.dead \ DOMAIN added) \cup {r.path : r \in kept} |->
                  IF \E r \in kept : r.path = p THEN (CHOOSE r \in kept : r.path = p).id ELSE w.dead[p]],
      sup  |-> w.sup \cup Supersessions(removed, added, SimilarPairs(live, records), commit),
      refused |-> w.refused \/ Refused(removed)]

LiveIds(w) == {w.live[p].id : p \in DOMAIN w.live}

\* _State.result: only claims whose new id is live in the target tree.
Result(w) == {s \in w.sup : s.new \in LiveIds(w)}

-----------------------------------------------------------------------------
Empty == [live |-> <<>>, dead |-> <<>>, sup |-> {}, refused |-> FALSE]

Init ==
  /\ phase = "start" /\ n = 0 /\ private = FALSE
  /\ length \in 1..(MaxCommits + 1)
  /\ tree = [p \in Paths |-> Absent]
  /\ walk = Empty /\ twin = Empty /\ links = {} /\ gone = {}

\* derive_lineage and the listing of the chain: a shallow clone or a chain
\* that is too long is refused before a single diff is read.
Begin ==
  /\ phase = "start"
  /\ \/ phase' = "shallow_history" /\ UNCHANGED private
     \/ phase' = (IF length > MaxCommits THEN "history_too_large" ELSE "walk") /\ private' = (length <= MaxCommits)
  /\ UNCHANGED <<length, n, tree, walk, twin, links, gone>>

WalkCommit(u, a, b) ==
  /\ phase = "walk" /\ n < length
  /\ Fits(tree, u, a) /\ Fits(tree, u, b)
  /\ n' = n + 1 /\ tree' = u
  /\ walk' = apply(walk, n + 1, Records(tree, u, a))
  /\ twin' = apply(twin, n + 1, Records(tree, u, b))
  /\ gone' = gone \cup (LiveIds(walk) \ LiveIds(walk'))
  /\ UNCHANGED <<phase, length, private, links>>

\* A diff that git cannot produce or that is too large ends the run.
DiffFails ==
  /\ phase = "walk" /\ n < length
  /\ phase' \in {"commit_diff_too_large", "scan_failed"} /\ private' = FALSE
  /\ UNCHANGED <<length, n, tree, walk, twin, links, gone>>

\* The lineage whose origin path is p: the last one by its current path.
OriginAt(p) ==
  LET at == {q \in DOMAIN walk.live : walk.live[q].origin.path = p} IN
  IF at = {} THEN None ELSE CHOOSE q \in at : \A r \in at : r <= q

\* resolve_committed: the committed id, sure when the blob is the one committed.
resolve_committed(origin, blob) ==
  [new |-> file_logical_id(origin.path, origin.commit), sure |-> origin.blob = blob]

\* link_provisional: an uncommitted file seen earlier at an origin path is
\* linked to that lineage.
Finish(provisional) ==
  /\ phase = "walk" /\ n = length /\ private' = FALSE
  /\ LET found == {p \in DOMAIN provisional : OriginAt(p) # None}
         at(p) == walk.live[OriginAt(p)]
     IN /\ phase' = IF \A p \in found : resolve_committed(at(p).origin, provisional[p]).new = at(p).id
                    THEN "linked" ELSE "lineage_inconsistent"
        /\ links' = {<<p, resolve_committed(at(p).origin, provisional[p])>> : p \in found}
  /\ UNCHANGED <<length, n, tree, walk, twin, gone>>

Provisional == UNION {[d -> Blobs] : d \in {{}} \cup {{p} : p \in Paths \ Unsafe}}

Next ==
  \/ Begin \/ DiffFails
  \/ \E u \in Trees : \E a, b \in Pairings(tree, u) : WalkCommit(u, a, b)
  \/ \E f \in Provisional : Finish(f)

Spec == Init /\ [][Next]_vars

-----------------------------------------------------------------------------
(***************************************************************************)
(* The walk knows exactly the files of the commit's tree with their blobs, *)
(* through any mix of edits, renames, deletions, recreations and changes   *)
(* between file and submodule; every file has an id of its own.            *)
(***************************************************************************)
LiveIsTree ==
  /\ DOMAIN walk.live = {p \in Paths \ Unsafe : tree[p] \in Blobs}
  /\ \A p \in DOMAIN walk.live : walk.live[p].blob = tree[p]
  /\ \A p, q \in DOMAIN walk.live : walk.live[p].id = walk.live[q].id => p = q
  /\ ~walk.refused

(***************************************************************************)
(* Logical ids do not depend on how git pairs removals with additions (its *)
(* version, its rename limit, its similarity score).                       *)
(***************************************************************************)
SameIdsForEveryGit ==
  /\ DOMAIN walk.live = DOMAIN twin.live
  /\ \A p \in DOMAIN walk.live : walk.live[p].id = twin.live[p].id

(***************************************************************************)
(* A lineage that ended never comes back: a file that is deleted and later *)
(* recreated, or restored elsewhere, is a new lineage.                     *)
(***************************************************************************)
NeverResurrected == gone \cap LiveIds(walk) = {}

(***************************************************************************)
(* The id of a file names the path and the commit its lineage began with,  *)
(* so the link of a provisional file never meets "lineage_inconsistent",   *)
(* which the code holds to be impossible.                                  *)
(***************************************************************************)
NeverInconsistent == phase # "lineage_inconsistent"

(***************************************************************************)
(* The private git directory does not outlive the run.                     *)
(***************************************************************************)
PrivateRemoved == private => phase = "walk"

(***************************************************************************)
(* A supersession leads from a newer lineage to an older one, never to     *)
(* itself, so following supersessions always ends.                         *)
(***************************************************************************)
SupersessionsGoBack == \A s \in Result(walk) : s.old[2] < s.new[2]
=============================================================================
