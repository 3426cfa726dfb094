------------------------------ MODULE Provisioning ------------------------------
(***************************************************************************)
(* Issuing and revoking credentials (operations/provisioning.py and the     *)
(* producer and mcp-token commands of cli.py).  A token is generated and    *)
(* hashed, its row is written in a transaction, the plaintext is handed     *)
(* over INSIDE that transaction (to a new private file or to standard       *)
(* output), and only then does the transaction commit.  Commands for the    *)
(* same producer run concurrently; deliveries and commits fail; commands    *)
(* are interrupted or killed between any two steps; and the output file may *)
(* be replaced by somebody else meanwhile.                                  *)
(*                                                                         *)
(* A token is named by the command that generates it.  A producer id is a   *)
(* row key; the row of an MCP token has a fresh key of its own, so a        *)
(* "create" is a "register" whose key no other command issues for.          *)
(***************************************************************************)
EXTENDS Naturals, FiniteSets

CONSTANTS Commands,
          Kind,      \* "register" | "rotate" | "create" | "revoke" | "revoke_token"
          Granted,   \* commands whose connection has the grants it needs
          KeyOf,     \* the producer id, or the identity of the MCP token
          PathOf,    \* --output, or Stdout
          Life,      \* the days until its token expires
          Keys, Paths, Stdout, None, Never,
          MaxTime, MaxFaults, MaxSwaps

Row == [cred : Commands, created : Nat, expires : Nat, revoked : Nat \cup {Never}]
File == [owner : Commands \cup {"other"}, token : Commands \cup {None}]

\* Every command names a key, a path and a lifetime; values that are absent,
\* and other programs, can be told apart from rows, files and commands.
CommandsAssumption ==
  /\ KeyOf \in [Commands -> Keys] /\ Life \in [Commands -> Nat]
  /\ PathOf \in [Commands -> Paths \cup {Stdout}] /\ Stdout \notin Paths
  /\ None \notin Commands \cup Row \cup File /\ "other" \notin Commands

VARIABLES now,
          row,       \* committed rows: [cred, created, expires, revoked] or None
          lock,      \* the transaction that holds the row or its index entry
          pc, moment,
          file,      \* what each path names: [owner, token] or None
          printed,   \* tokens written to standard output
          handed,    \* tokens whose delivery succeeded
          committed, \* tokens whose commit took effect
          faults, swaps

vars == <<now, row, lock, pc, moment, file, printed, handed, committed, faults, swaps>>

database == <<row, lock, committed>>
outside == <<file, printed, handed>>

K(c) == KeyOf[c]
Issues(c) == Kind[c] \in {"register", "rotate", "create"}
Ended == {"usage", "ungranted", "refused", "conflict", "undelivered", "ambiguous", "interrupted", "killed",
          "ok", "unchanged"}

Init == /\ now = 0
        /\ row = [k \in Keys |-> None] /\ lock = [k \in Keys |-> None]
        /\ pc = [c \in Commands |-> "new"] /\ moment = [c \in Commands |-> 0]
        /\ file = [p \in Paths |-> None] /\ printed = {} /\ handed = {} /\ committed = {}
        /\ faults = 0 /\ swaps = 0

Goto(c, place) == pc' = [pc EXCEPT ![c] = place]
Unlock(c) == lock' = [k \in Keys |-> IF lock[k] = c THEN None ELSE lock[k]]

-----------------------------------------------------------------------------
(* The output file.                                                        *)

Ours(c) == PathOf[c] \in Paths /\ file[PathOf[c]] # None /\ file[PathOf[c]].owner = c

(* create: a new file only, before any credential is issued.               *)
CreateFile(c) ==
  /\ pc[c] = "new" /\ Issues(c)
  /\ IF PathOf[c] = Stdout THEN Goto(c, "opened") /\ UNCHANGED file
     ELSE IF file[PathOf[c]] # None THEN Goto(c, "usage") /\ UNCHANGED file
     ELSE /\ file' = [file EXCEPT ![PathOf[c]] = [owner |-> c, token |-> None]]
          /\ Goto(c, "opened")
  /\ UNCHANGED <<now, database, moment, printed, handed, faults, swaps>>

(* abandon: remove the file if the path still names the one we created.    *)
Abandon(c) == file' = IF Ours(c) THEN [file EXCEPT ![PathOf[c]] = None] ELSE file

(* A command that fails rolls back and abandons its file.                  *)
Fail(c, exit) == /\ Goto(c, exit) /\ Unlock(c) /\ Abandon(c)
                 /\ UNCHANGED <<now, moment, printed, handed, swaps>>

-----------------------------------------------------------------------------
(* register_producer and create_mcp_token.                                 *)

(* The grants are checked before anything is written.                      *)
CheckGrants(c) ==
  /\ pc[c] = IF Issues(c) THEN "opened" ELSE "new"
  /\ IF c \in Granted
     THEN Goto(c, "granted") /\ UNCHANGED <<now, lock, moment, outside, swaps>>
     ELSE Fail(c, "ungranted")
  /\ UNCHANGED <<row, committed, faults>>

(* The clock is read and the token hashed before the transaction begins.   *)
Hash(c) == /\ pc[c] = "granted"
           /\ moment' = [moment EXCEPT ![c] = now]
           /\ Goto(c, "hashed")
           /\ UNCHANGED <<now, database, outside, faults, swaps>>

Mut_Lockable(c) == TRUE

(* SELECT ... FOR UPDATE waits for the transaction that holds the row.     *)
Lockable(c) == lock[K(c)] = None

(* No visible row: nothing is locked, and an insert will follow.           *)
ReadAbsent(c) == /\ pc[c] = "hashed" /\ Kind[c] \in {"register", "rotate"} /\ row[K(c)] = None
                 /\ Goto(c, "add")
                 /\ UNCHANGED <<now, database, moment, outside, faults, swaps>>

(* An MCP token always has a row of its own: nothing is read.              *)
AddToken(c) == /\ pc[c] = "hashed" /\ Kind[c] = "create"
               /\ Goto(c, "add")
               /\ UNCHANGED <<now, database, moment, outside, faults, swaps>>

Displaceable(c) == \/ Kind[c] = "rotate"
                   \/ row[K(c)].revoked = Never /\ row[K(c)].expires <= moment[c]

ReadRow(c) ==
  /\ pc[c] = "hashed" /\ Kind[c] \in {"register", "rotate"} /\ row[K(c)] # None /\ Lockable(c)
  /\ IF Displaceable(c)
     THEN /\ lock' = [lock EXCEPT ![K(c)] = c] /\ Goto(c, "deliver")
          /\ UNCHANGED <<now, moment, outside, swaps>>
     ELSE Fail(c, "refused")
  /\ UNCHANGED <<row, committed, faults>>

(* flush of an insert waits for a concurrent one and fails if that won.    *)
FlushInsert(c) ==
  /\ pc[c] = "add" /\ lock[K(c)] = None
  /\ IF row[K(c)] # None THEN Fail(c, "conflict")
     ELSE /\ lock' = [lock EXCEPT ![K(c)] = c] /\ Goto(c, "deliver")
          /\ UNCHANGED <<now, moment, outside, swaps>>
  /\ UNCHANGED <<row, committed, faults>>

(* _hand_over: through the held descriptor, whatever the path names by now. *)
Deliver(c) ==
  /\ pc[c] = "deliver"
  /\ IF PathOf[c] = Stdout THEN printed' = printed \cup {c} /\ UNCHANGED file
     ELSE /\ file' = IF Ours(c) THEN [file EXCEPT ![PathOf[c]].token = c] ELSE file
          /\ UNCHANGED printed
  /\ handed' = handed \cup {c}
  /\ Goto(c, "commit")
  /\ UNCHANGED <<now, database, moment, faults, swaps>>

Mut_DeliveryFails(c) ==
  /\ pc[c] = "deliver" /\ faults < MaxFaults
  /\ faults' = faults + 1 /\ Goto(c, "commit")
  /\ UNCHANGED <<now, database, moment, outside, swaps>>

(* An OSError in the hand-over rolls the transaction back.                 *)
DeliveryFails(c) ==
  /\ pc[c] = "deliver" /\ faults < MaxFaults
  /\ faults' = faults + 1
  /\ Fail(c, "undelivered")
  /\ UNCHANGED <<row, committed>>

Created(c) == IF row[K(c)] = None THEN moment[c] ELSE row[K(c)].created

(* What a commit makes durable; a rotation keeps created_at.               *)
Apply(c) ==
  /\ row' = [row EXCEPT ![K(c)] = [cred |-> c, created |-> Created(c),
                                   expires |-> moment[c] + Life[c], revoked |-> Never]]
  /\ committed' = committed \cup {c}

Commit(c) ==
  /\ pc[c] = "commit"
  /\ Apply(c) /\ Unlock(c) /\ Goto(c, "closing")
  /\ UNCHANGED <<now, moment, outside, faults, swaps>>

(* The commit fails after the delivery: whether it took effect is unknown. *)
CommitFails(c) ==
  /\ pc[c] = "commit" /\ faults < MaxFaults
  /\ faults' = faults + 1
  /\ Apply(c) \/ UNCHANGED <<row, committed>>
  /\ Fail(c, "ambiguous")

(* The connection is closed and the credential reported.                   *)
Report(c) == /\ pc[c] = "closing"
             /\ Goto(c, "ok")
             /\ UNCHANGED <<now, database, moment, outside, faults, swaps>>

(* A signal cancels the command at an await; the file is abandoned.        *)
Interrupt(c) ==
  /\ pc[c] \in {"opened", "granted", "hashed", "add", "commit", "closing"} /\ Issues(c)
  /\ faults < MaxFaults /\ faults' = faults + 1
  /\ \/ pc[c] = "commit" /\ Apply(c)
     \/ UNCHANGED <<row, committed>>
  /\ Fail(c, "interrupted")

(* The process dies: the server rolls back, and nothing is cleaned up.     *)
Kill(c) == /\ pc[c] \notin Ended \cup {"new"} /\ faults < MaxFaults
           /\ faults' = faults + 1
           /\ Unlock(c) /\ Goto(c, "killed")
           /\ UNCHANGED <<now, row, committed, moment, outside, swaps>>

-----------------------------------------------------------------------------
(* revoke_producer and revoke_mcp_token: one transaction each.             *)
Later(a, b) == IF a > b THEN a ELSE b

(* Already revoked at the command's moment, or never issued: no change.    *)
Revocation(c) ==
  /\ lock[K(c)] = None
  /\ IF row[K(c)] = None THEN Goto(c, "refused") /\ UNCHANGED row
     ELSE IF row[K(c)].revoked # Never /\ row[K(c)].revoked <= moment[c]
     THEN Goto(c, "unchanged") /\ UNCHANGED row
     ELSE /\ row' = [row EXCEPT ![K(c)].revoked = Later(moment[c], row[K(c)].created)]
          /\ Goto(c, "ok")
  /\ UNCHANGED <<now, lock, committed, moment, outside, faults, swaps>>

RevokeProducer(c) == pc[c] = "hashed" /\ Kind[c] = "revoke" /\ Revocation(c)
RevokeMcpToken(c) == pc[c] = "hashed" /\ Kind[c] = "revoke_token" /\ Revocation(c)

(* Another program replaces the file a path names.                         *)
Swap(p) == /\ swaps < MaxSwaps /\ file[p] # None
           /\ swaps' = swaps + 1
           /\ file' = [file EXCEPT ![p] = [owner |-> "other", token |-> None]]
           /\ UNCHANGED <<now, database, pc, moment, printed, handed, faults>>

Tick == /\ now < MaxTime /\ now' = now + 1
        /\ UNCHANGED <<database, pc, moment, outside, faults, swaps>>

IssueCommand(c) == \/ CreateFile(c) \/ CheckGrants(c) \/ Hash(c)
                   \/ ReadAbsent(c) \/ AddToken(c) \/ ReadRow(c) \/ FlushInsert(c)
                   \/ Deliver(c) \/ DeliveryFails(c) \/ Commit(c) \/ CommitFails(c)
                   \/ Report(c) \/ Interrupt(c)

RevokeCommand(c) == RevokeProducer(c) \/ RevokeMcpToken(c)

Next == \/ \E c \in Commands : IssueCommand(c) \/ RevokeCommand(c) \/ Kill(c)
        \/ \E p \in Paths : Swap(p)
        \/ Tick

Spec == Init /\ [][Next]_vars

-----------------------------------------------------------------------------
(* The credential of command c authenticates now (_state says "active").   *)
Valid(c) == /\ row[K(c)] # None /\ row[K(c)].cred = c
            /\ row[K(c)].revoked = Never \/ row[K(c)].revoked > now
            /\ row[K(c)].expires > now

(* No row ever holds a credential nobody was given: the hand-over happens   *)
(* before the commit, and a failed one rolls back, so a rotated producer    *)
(* keeps the credential it has.                                             *)
NoUndelivered == \A k \in Keys : row[k] # None => row[k].cred \in handed

(* A credential that is live, or that an operator revoked, is displaced     *)
(* only by a command that asked for the rotation, however commands for the  *)
(* same producer interleave with its expiry.                                *)
Displaced ==
  \A k \in Keys :
    (row[k] # None /\ row'[k].cred # row[k].cred
     /\ (row[k].revoked # Never \/ row[k].expires > now))
    => Kind[row'[k].cred] = "rotate"
OnlyRotateDisplaces == [][Displaced]_vars

(* A command that reports success has committed its credential, and the     *)
(* file it names, unless somebody replaced it, holds that token.            *)
SuccessIsTrue ==
  \A c \in Commands : pc[c] = "ok" /\ Issues(c) =>
    /\ c \in committed
    /\ Ours(c) => file[PathOf[c]].token = c

(* A command that fails leaves no file of its own behind, written or empty, *)
(* at whatever step it failed.                                              *)
NoLeftover == \A c \in Commands : pc[c] \in Ended \ {"ok", "killed"} => ~Ours(c)

(* A file somebody else put at the path is never removed or written.        *)
ForeignKept == \A p \in Paths : (file[p] # None /\ file[p].owner = "other") => file'[p] = file[p]
ForeignFileKept == [][ForeignKept]_vars

(* A credential, its row and its file agree, whatever step fails (_issue,   *)
(* abandon).                                                                *)
CredentialsSound == NoUndelivered /\ SuccessIsTrue /\ NoLeftover

(* A provisioning step destroys nothing it does not own: neither the        *)
(* credential in a row nor the file at a path.                              *)
NothingDestroyed == Displaced /\ ForeignKept
CredentialsKept == [][NothingDestroyed]_vars

(* "If the commit fails afterwards the delivered file is removed; the token *)
(* is unusable" (_issue).                                                   *)
AmbiguousIsUnusable == \A c \in Commands : pc[c] = "ambiguous" => ~Valid(c)

=============================================================================
