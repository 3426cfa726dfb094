-------------------------------- MODULE Scanner --------------------------------
(***************************************************************************)
(* A scan of a Git checkout (indexing/scanner.py) while its owner keeps      *)
(* working in it.  The root is pinned by descriptor; HEAD is resolved, the   *)
(* index copied and the git commands run one after another; then every path  *)
(* is observed in canonical order: lstat, open, read, within a cap per file, *)
(* a total budget and a number of files.  Files are edited in place,         *)
(* replaced, deleted and committed between any two of these steps, and the   *)
(* root directory itself may be swapped.                                     *)
(*                                                                         *)
(* A content stands for its bytes and for its Git blob; SizeOf is its        *)
(* length.  Paths are numbered in canonical order.                           *)
(***************************************************************************)
EXTENDS Naturals

CONSTANTS Paths, Contents, SizeOf, Absent, Torn, None,
          Tracked,   \* content of each path in the index and HEAD at first (Absent: untracked)
          Flagged,   \* paths marked assume-unchanged or skip-worktree
          MaxFileBytes, MaxTotalBytes, MaxFiles,
          MaxEdits, MaxFailures

ScannerAssumption ==
  /\ Paths \subseteq Nat /\ SizeOf \in [Contents -> Nat]
  /\ Absent \notin Contents /\ Tracked \in [Paths -> Contents \cup {Absent}]
  /\ {MaxFileBytes, MaxTotalBytes, MaxFiles, MaxEdits, MaxFailures} \subseteq Nat

VARIABLES tree, ino,      \* the worktree: content and inode of each path
          index, head,
          rootGen,        \* which directory the root path names
          edits, failures,
          pc, fds, pinned,
          sHead, sIndex,  \* what the scan took
          changes, untracked,
          left,           \* paths still to observe
          cur,            \* the path under observation: [path, ino, size, open]
          bytesRead, processed, files, raced, reasons, omitted,
          later           \* a read after the scan: [gen, val] or None

worktree == <<tree, ino, index, head, rootGen, edits>>
taken == <<sHead, sIndex, changes, untracked>>
seen == <<bytesRead, processed, files, raced, reasons, omitted>>
vars == <<worktree, failures, pc, fds, pinned, taken, left, cur, seen, later>>

Init == /\ tree = Tracked /\ index = Tracked /\ head = Tracked
        /\ ino = [p \in Paths |-> 0] /\ rootGen = 0 /\ edits = 0 /\ failures = 0
        /\ pc = "start" /\ fds = 0 /\ pinned = None
        /\ sHead = Tracked /\ sIndex = Tracked /\ changes = {} /\ untracked = {}
        /\ left = {} /\ cur = None
        /\ bytesRead = 0 /\ processed = 0 /\ files = [p \in {} |-> 0]
        /\ raced = {} /\ reasons = {} /\ omitted = {} /\ later = None

-----------------------------------------------------------------------------
(* Meanwhile, in the checkout.                                             *)

Editing == edits < MaxEdits /\ edits' = edits + 1
Others == UNCHANGED <<failures, pc, fds, pinned, taken, left, cur, seen, later>>

Edit(p, c) == /\ Editing /\ tree[p] \notin {c, Absent}
              /\ tree' = [tree EXCEPT ![p] = c]
              /\ UNCHANGED <<ino, index, head, rootGen>> /\ Others

Replace(p, c) == /\ Editing /\ c # Absent
                 /\ tree' = [tree EXCEPT ![p] = c]
                 /\ ino' = [ino EXCEPT ![p] = @ + 1]
                 /\ UNCHANGED <<index, head, rootGen>> /\ Others

Commit == /\ Editing /\ head # tree
          /\ index' = tree /\ head' = tree
          /\ UNCHANGED <<tree, ino, rootGen>> /\ Others

SwapRoot == /\ Editing /\ rootGen' = rootGen + 1
            /\ UNCHANGED <<tree, ino, index, head>> /\ Others

-----------------------------------------------------------------------------
(* Bootstrap and the git commands.                                         *)

(* Root, git dir, common dir and object store are opened and pinned.       *)
Bootstrap == /\ pc = "start"
             /\ fds' = 4 /\ pinned' = rootGen /\ pc' = "pinned"
             /\ UNCHANGED <<worktree, failures, taken, left, cur, seen, later>>

ReadHead == /\ pc = "pinned"
            /\ sHead' = head /\ pc' = "head"
            /\ UNCHANGED <<worktree, failures, fds, pinned, sIndex, changes, untracked,
                           left, cur, seen, later>>

(* git works on a private copy of the index from here on.                  *)
CopyIndex == /\ pc = "head"
             /\ sIndex' = index /\ pc' = "index"
             /\ UNCHANGED <<worktree, failures, fds, pinned, sHead, changes, untracked,
                            left, cur, seen, later>>

TrackedPaths(i) == {p \in Paths : i[p] # Absent}

(* status: staged against HEAD, and the worktree against the index unless   *)
(* the entry's flag tells git not to look.                                  *)
Status ==
  /\ pc = "index"
  /\ changes' = {p \in Paths : \/ sIndex[p] # sHead[p]
                               \/ sIndex[p] # Absent /\ p \notin Flagged /\ tree[p] # sIndex[p]}
  /\ untracked' = {p \in Paths : sIndex[p] = Absent /\ tree[p] # Absent}
  /\ left' = TrackedPaths(sIndex) \cup untracked'
  /\ pc' = "observe"
  /\ UNCHANGED <<worktree, failures, fds, pinned, sHead, sIndex, cur, seen, later>>

(* Every error closes the pinned descriptors.                              *)
Failed == pc' = "failed" /\ fds' = 0

(* A git command fails, times out or prints too much.                      *)
GitFails == /\ pc \in {"pinned", "head", "index"} /\ failures < MaxFailures
            /\ failures' = failures + 1
            /\ Failed
            /\ UNCHANGED <<worktree, pinned, taken, left, cur, seen, later>>

-----------------------------------------------------------------------------
(* observe: one path at a time, in canonical order.                        *)

(* Tracked paths come first, then untracked ones, each in order.           *)
First(S) == CHOOSE p \in S : \A q \in S : p <= q
P == IF left \subseteq untracked THEN First(left) ELSE First(left \ untracked)
Budget == MaxTotalBytes - bytesRead
Cap == IF MaxFileBytes < Budget THEN MaxFileBytes ELSE Budget

Omit == /\ pc = "observe" /\ left # {} /\ cur = None /\ processed >= MaxFiles
        /\ omitted' = omitted \cup {P} /\ left' = left \ {P}
        /\ UNCHANGED <<worktree, failures, pc, fds, pinned, taken, cur, bytesRead, processed,
                       files, raced, reasons, later>>

Mut_Race(p, skipped, val) == raced

(* Bytes that are not the index's although status called the path clean.   *)
Race(p, skipped, val) ==
  IF /\ sIndex[p] # Absent /\ p \notin changes /\ p \notin Flagged
     /\ IF skipped = None THEN val # sIndex[p] ELSE skipped \in {"missing", "escapes"}
  THEN raced \cup {p} ELSE raced

Reason(skipped) == CASE skipped = "too_large" -> reasons \cup {"max_file_bytes"}
                     [] skipped = "budget" -> reasons \cup {"max_total_bytes"}
                     [] OTHER -> reasons

(* The file's record; what was read is charged, used or not.               *)
Observed(p, skipped, val, consumed) ==
  /\ files' = [q \in DOMAIN files \cup {p} |->
                 IF q = p THEN [skipped |-> skipped, val |-> val] ELSE files[q]]
  /\ raced' = Race(p, skipped, val)
  /\ reasons' = Reason(skipped)
  /\ bytesRead' = bytesRead + consumed
  /\ left' = left \ {P} /\ cur' = None
  /\ UNCHANGED <<worktree, failures, pc, fds, pinned, taken, omitted, later>>

OverCap(size) == IF size > MaxFileBytes THEN "too_large" ELSE "budget"

(* lstat: absent, or over a cap already: no read is issued.                *)
Stat ==
  /\ pc = "observe" /\ left # {} /\ cur = None /\ processed < MaxFiles
  /\ processed' = processed + 1
  /\ IF tree[P] = Absent THEN Observed(P, "missing", None, 0)
     ELSE IF Budget = 0 THEN Observed(P, "budget", None, 0)
     ELSE IF SizeOf[tree[P]] > Cap THEN Observed(P, OverCap(SizeOf[tree[P]]), None, 0)
     ELSE /\ cur' = [path |-> P, ino |-> ino[P], size |-> 0, val |-> None, open |-> FALSE]
          /\ UNCHANGED <<worktree, failures, pc, fds, pinned, taken, left, bytesRead,
                         files, raced, reasons, omitted, later>>

(* open and fstat: the same file as lstat saw, or it escapes.              *)
Open ==
  /\ cur # None /\ ~cur.open
  /\ IF tree[P] = Absent \/ ino[P] # cur.ino
     THEN Observed(P, IF tree[P] = Absent THEN "missing" ELSE "escapes", None, 0)
          /\ UNCHANGED processed
     ELSE /\ cur' = [cur EXCEPT !.open = TRUE, !.size = SizeOf[tree[P]], !.val = tree[P]]
          /\ UNCHANGED <<worktree, failures, pc, fds, pinned, taken, left, seen, later>>

(* The byte that detects growth past the allowance is not charged.         *)
Charge(total) == IF total > Budget THEN Budget ELSE total

(* read: the bytes as they are now, or torn by a concurrent edit.  A file   *)
(* that grew past its allowance is skipped, and one whose length changed    *)
(* has no blob.                                                             *)
Read ==
  /\ cur # None /\ cur.open
  /\ LET there == tree[P] # Absent /\ ino[P] = cur.ino
         now == IF there THEN tree[P] ELSE cur.val   \* a removed file is still open
         size == SizeOf[now]
     IN  IF size > Cap THEN Observed(P, OverCap(Cap + 1), None, Charge(Cap + 1))
         ELSE \/ Observed(P, None, IF size = cur.size THEN now ELSE Torn, size)
              \/ now # cur.val /\ Observed(P, None, Torn, size)
  /\ UNCHANGED processed

(* The pins must still sit at their paths; then everything is closed.      *)
Recheck == /\ pc = "observe" /\ left = {}
           /\ IF rootGen = pinned THEN pc' = "done" /\ fds' = 0 ELSE Failed
           /\ reasons' = IF omitted # {} THEN reasons \cup {"max_files"} ELSE reasons
           /\ UNCHANGED <<worktree, failures, pinned, taken, left, cur, bytesRead, processed,
                          files, raced, omitted, later>>

(* read_worktree_file, hash_worktree_file: by path, after the scan.        *)
LaterRead(p) == /\ pc = "done" /\ later = None /\ tree[p] # Absent
                /\ rootGen = pinned
                /\ later' = rootGen
                /\ UNCHANGED <<worktree, failures, pc, fds, pinned, taken, left, cur, seen>>

Scan == \/ Bootstrap \/ ReadHead \/ CopyIndex \/ Status \/ GitFails
        \/ Omit \/ Stat \/ Open \/ Read \/ Recheck
        \/ \E p \in Paths : LaterRead(p)

Next == \/ Scan
        \/ \E p \in Paths, c \in Contents \cup {Absent} : Edit(p, c) \/ Replace(p, c)
        \/ Commit \/ SwapRoot

Spec == Init /\ [][Next]_vars

-----------------------------------------------------------------------------
(* is_dirty of the result.                                                 *)
Dirty == changes # {} \/ raced # {} \/ untracked # {}

(* A scan that calls the workspace clean read, for every file it reports,    *)
(* exactly the bytes its HEAD commit records, although files were edited,    *)
(* replaced and committed between the git commands and the reads.            *)
CleanIsHead ==
  pc = "done" /\ ~Dirty =>
    \A p \in DOMAIN files : files[p].skipped = None /\ p \notin Flagged => files[p].val = sHead[p]

(* Nothing is lost silently: each path git listed is reported or counted as  *)
(* omitted, and a cap that bit anywhere marks the scan truncated.            *)
CapsReported ==
  pc = "done" =>
    /\ TrackedPaths(sIndex) \cup untracked = DOMAIN files \cup omitted
    /\ reasons # {} <=> omitted # {} \/ \E p \in DOMAIN files :
                                          files[p].skipped \in {"too_large", "budget"}

(* The total budget is hard: no growing file makes the scan read past it.    *)
BudgetHard == bytesRead <= MaxTotalBytes

(* Every way out of a scan closes the pinned descriptors.                    *)
DescriptorsClosed == pc \in {"done", "failed"} => fds = 0

(* Bytes read after the scan come from the directory that was scanned.       *)
LaterReadSameRoot == later # None => later = pinned

(* What a scan promises together.                                            *)
ScanFaithful == CleanIsHead /\ CapsReported /\ BudgetHard /\ DescriptorsClosed /\ LaterReadSameRoot
=============================================================================
