-------------------------------- MODULE Migrate --------------------------------
(***************************************************************************)
(* Schema migrations (operations/migrate.py, `db upgrade` of cli.py): jobs  *)
(* of images with different heads share one session-level advisory lock,    *)
(* wait for it at most a timeout, and move the database forward to their    *)
(* own head in one transaction of the connection that holds the lock.  A    *)
(* migration may fail, a signal may cancel a job at any step, and the       *)
(* server may end its session.  Revisions are numbered along the one chain  *)
(* of scripts; 0 is an empty database.                                      *)
(***************************************************************************)
EXTENDS Naturals, Sequences

CONSTANTS Jobs,
          HeadOf,    \* the head of each job's image
          Expected,  \* jobs whose --expect-head matches (or is absent)
          Empty,     \* the revision the database starts at
          None,
          MaxFaults

(* A chain of scripts has at least one revision.                            *)
MigrateAssumption == /\ HeadOf \in [Jobs -> Nat \ {0}] /\ Empty \in Nat /\ MaxFaults \in Nat
                     /\ None \notin Jobs /\ None \notin BOOLEAN

VARIABLES db,       \* the committed revision
          ran,      \* history: <<revision, job>> of every committed migration, in order
          lock, pc,
          before,   \* the revision a job read under the lock
          work,     \* the revision its open transaction has reached
          report,   \* applied, as reported, or None
          faults

vars == <<db, ran, lock, pc, before, work, report, faults>>

Ended == {"mismatch", "lock_timeout", "unknown", "failed", "interrupted", "done"}

Init == /\ db = Empty /\ ran = <<>> /\ lock = None
        /\ pc = [j \in Jobs |-> "new"]
        /\ before = [j \in Jobs |-> 0] /\ work = [j \in Jobs |-> 0]
        /\ report = [j \in Jobs |-> None] /\ faults = 0

Goto(j, place) == pc' = [pc EXCEPT ![j] = place]

(* image_head against --expect-head, before any connection.                *)
Begin(j) == /\ pc[j] = "new"
            /\ Goto(j, IF j \in Expected THEN "wait" ELSE "mismatch")
            /\ UNCHANGED <<db, ran, lock, before, work, report, faults>>

Mut_Acquire(j) == /\ pc[j] = "wait"
                  /\ lock' = j /\ Goto(j, "locked")
                  /\ UNCHANGED <<db, ran, before, work, report, faults>>

Acquire(j) == /\ pc[j] = "wait" /\ lock = None
              /\ lock' = j /\ Goto(j, "locked")
              /\ UNCHANGED <<db, ran, before, work, report, faults>>

LockTimeout(j) == /\ pc[j] = "wait" /\ lock # None
                  /\ Goto(j, "lock_timeout")
                  /\ UNCHANGED <<db, ran, lock, before, work, report, faults>>

(* _known_revisions: those from base to the image's head.                  *)
Known(head) == 1..head

(* _state of the database against an image's head.                         *)
State(revision, head) == CASE revision = 0 -> "empty"
                           [] revision \notin Known(head) -> "unknown"
                           [] revision = head -> "at_head"
                           [] OTHER -> "behind"

(* _release, on every path out: rolls back and gives the lock back.        *)
Release(j, exit) == /\ Goto(j, exit)
                    /\ lock' = IF lock = j THEN None ELSE lock

ReadState(j) ==
  /\ pc[j] = "locked"
  /\ before' = [before EXCEPT ![j] = db] /\ work' = [work EXCEPT ![j] = db]
  /\ CASE State(db, HeadOf[j]) = "unknown" -> Release(j, "unknown")
       [] State(db, HeadOf[j]) = "at_head" -> Goto(j, "check") /\ UNCHANGED lock
       [] OTHER -> Goto(j, "upgrade") /\ UNCHANGED lock
  /\ UNCHANGED <<db, ran, report, faults>>

(* command.upgrade: the scripts one after another, in one transaction.     *)
RunScript(j) == /\ pc[j] = "upgrade" /\ work[j] < HeadOf[j]
                /\ work' = [work EXCEPT ![j] = @ + 1]
                /\ UNCHANGED <<db, ran, lock, pc, before, report, faults>>

Applied(j) == /\ db' = HeadOf[j]
              /\ ran' = ran \o [i \in 1..(HeadOf[j] - before[j]) |-> <<before[j] + i, j>>]

Commit(j) == /\ pc[j] = "upgrade" /\ work[j] >= HeadOf[j]
             /\ Applied(j) /\ Goto(j, "check")
             /\ UNCHANGED <<lock, before, work, report, faults>>

(* The revision is read again and asserted to be exactly the head.         *)
Finish(j) == /\ pc[j] = "check"
             /\ IF db = HeadOf[j]
                THEN /\ report' = [report EXCEPT ![j] = State(before[j], HeadOf[j]) # "at_head"]
                     /\ Release(j, "done")
                ELSE Release(j, "failed") /\ UNCHANGED report
             /\ UNCHANGED <<db, ran, before, work, faults>>

(* A script fails, or the server ends the session and its transaction.     *)
Fails(j) == /\ pc[j] \in {"locked", "upgrade", "check"} /\ faults < MaxFaults
            /\ faults' = faults + 1
            /\ Release(j, "failed")
            /\ UNCHANGED <<db, ran, before, work, report>>

(* SIGTERM cancels the task: the connection is closed, whatever it awaits. *)
Interrupt(j) == /\ pc[j] \notin Ended \cup {"new"} /\ faults < MaxFaults
                /\ faults' = faults + 1
                /\ \/ pc[j] = "upgrade" /\ work[j] >= HeadOf[j] /\ Applied(j)
                   \/ UNCHANGED <<db, ran>>
                /\ Release(j, "interrupted")
                /\ UNCHANGED <<before, work, report>>

Step(j) == \/ Begin(j) \/ Acquire(j) \/ LockTimeout(j) \/ ReadState(j) \/ RunScript(j)
           \/ Commit(j) \/ Finish(j)

Next == \E j \in Jobs : Step(j) \/ Fails(j) \/ Interrupt(j)

Spec == Init /\ [][Next]_vars

(* A job runs on by itself, and its wait for the lock ends by the timeout. *)
FairSpec == Spec /\ \A j \in Jobs : WF_vars(Step(j))

-----------------------------------------------------------------------------
(* Every migration ran once and in the order of the chain, whatever jobs   *)
(* of other images ran, failed or were stopped: the committed revision is  *)
(* exactly what ran, so no image ever takes the database back.              *)
EachOnceInOrder == /\ Len(ran) = db - Empty
                   /\ \A i \in DOMAIN ran : ran[i][1] = Empty + i

(* A job that reports an upgrade ran every migration from the revision it   *)
(* names to its head itself, and one that reports none ran nothing.         *)
ReportTrue ==
  \A j \in Jobs : report[j] # None =>
    LET mine == {r \in 1..HeadOf[j] : \E i \in DOMAIN ran : ran[i] = <<r, j>>}
    IN  /\ report[j] <=> mine # {}
        /\ mine # {} => mine = {r \in 1..HeadOf[j] : r > before[j]}

(* Every job ends, and the lock is free for the next image once all have.   *)
AllOver == lock = None /\ \A j \in Jobs : pc[j] \in Ended
AllEnd == <>[]AllOver
=============================================================================
