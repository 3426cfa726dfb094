------------------------------- MODULE Readiness -------------------------------
(***************************************************************************)
(* GET /health/ready (operations/readiness.py): requests share one          *)
(* in-flight probe while it is younger than the timeout; a probe runs its   *)
(* checks concurrently, each in a task of its own bounded by the timeout.   *)
(* A check that does not answer is cancelled but never awaited, kept until  *)
(* it ends, and no longer started once too many of it are kept.  The event  *)
(* loop serves a due timer at most Lag late.                                *)
(***************************************************************************)
EXTENDS Naturals, FiniteSets

CONSTANTS Requests, Probes, Checks, None,
          Timeout, Lag, MaxAbandoned, MaxTime

\* The event loop is late by less than the timeout of a check.
ReadinessAssumption ==
  /\ Probes \subseteq Nat /\ IsFiniteSet(Probes) /\ IsFiniteSet(Checks)
  /\ None \notin Nat /\ None \notin {"ready", "not_ready", "gone"}
  /\ Timeout \in Nat /\ Lag \in Nat /\ Lag < Timeout
  /\ MaxAbandoned \in Nat /\ MaxTime \in Nat

VARIABLES now,
          up,        \* components that would answer "ok" now
          inFlight,  \* the probe requests join, or None
          started,   \* when each probe began, or None
          task,      \* per probe and check: "idle" | "running" | a result
          seen,      \* when a check that answered "ok" saw its component
          orphans,   \* <<probe, check>> of timed-out tasks that have not ended
          joined,    \* the probe each request awaits, or None
          arrived,
          answer     \* None | "ready" | "not_ready" | "gone"

vars == <<now, up, inFlight, started, task, seen, orphans, joined, arrived, answer>>

Abandoned(c) == {o \in orphans : o[2] = c}
Results == {"ok", "failed", "timeout"}
Done(p) == \A c \in Checks : task[p][c] \in Results

Init == /\ now = 0 /\ up = Checks /\ inFlight = None
        /\ started = [p \in Probes |-> None]
        /\ task = [p \in Probes |-> [c \in Checks |-> "idle"]]
        /\ seen = [p \in Probes |-> [c \in Checks |-> 0]]
        /\ orphans = {} /\ joined = [r \in Requests |-> None]
        /\ arrived = [r \in Requests |-> 0]
        /\ answer = [r \in Requests |-> None]

(* The in-flight probe is over, or no longer younger than the timeout.     *)
Stale == \/ inFlight = None
         \/ inFlight # None /\ (Done(inFlight) \/ now - started[inFlight] >= Timeout)

(* _bounded: beyond the limit the check reports without starting.          *)
Begin(c) == IF Cardinality(Abandoned(c)) >= MaxAbandoned THEN "timeout" ELSE "running"

(* probe: the request joins the in-flight probe or starts the next one.    *)
Request(r) ==
  /\ joined[r] = None /\ answer[r] = None /\ now + Timeout <= MaxTime
  /\ arrived' = [arrived EXCEPT ![r] = now]
  /\ IF Stale
     THEN LET free == {p \in Probes : started[p] = None}
          IN  /\ free # {}
              /\ LET p == CHOOSE q \in free : \A s \in free : q <= s
                 IN  /\ inFlight' = p
                     /\ started' = [started EXCEPT ![p] = now]
                     /\ task' = [task EXCEPT ![p] = [c \in Checks |-> Begin(c)]]
                     /\ joined' = [joined EXCEPT ![r] = p]
     ELSE /\ joined' = [joined EXCEPT ![r] = inFlight]
          /\ UNCHANGED <<inFlight, started, task>>
  /\ UNCHANGED <<now, up, seen, orphans, answer>>

(* A check sees its component.  One that hangs is simply never finished.   *)
Answers(p, c) ==
  /\ task[p][c] = "running"
  /\ task' = [task EXCEPT ![p][c] = IF c \in up THEN "ok" ELSE "failed"]
  /\ seen' = [seen EXCEPT ![p][c] = now]
  /\ UNCHANGED <<now, up, inFlight, started, orphans, joined, arrived, answer>>

(* The wait ends first: cancelled, kept, and reported as a timeout.        *)
TimesOut(p, c) ==
  /\ task[p][c] = "running" /\ now - started[p] >= Timeout
  /\ task' = [task EXCEPT ![p][c] = "timeout"]
  /\ orphans' = orphans \cup {<<p, c>>}
  /\ UNCHANGED <<now, up, inFlight, started, seen, joined, arrived, answer>>

(* reap: a cancelled check ends at last.                                   *)
Reap(o) == /\ o \in orphans
           /\ orphans' = orphans \ {o}
           /\ UNCHANGED <<now, up, inFlight, started, task, seen, joined, arrived, answer>>

(* ReadinessReport.ready: every component ok, and at least one checked.    *)
Ready(p) == Checks # {} /\ \A c \in Checks : task[p][c] = "ok"

(* The probe's result reaches everybody who awaits it.                     *)
Respond(r) == /\ joined[r] # None /\ answer[r] = None /\ Done(joined[r])
              /\ answer' = [answer EXCEPT ![r] = IF Ready(joined[r]) THEN "ready" ELSE "not_ready"]
              /\ UNCHANGED <<now, up, inFlight, started, task, seen, orphans, joined, arrived>>

(* A client leaves: the probe it awaited is shielded.                      *)
Disconnect(r) == /\ joined[r] # None /\ answer[r] = None
                 /\ answer' = [answer EXCEPT ![r] = "gone"]
                 /\ UNCHANGED <<now, up, inFlight, started, task, seen, orphans, joined, arrived>>

Overdue == \E p \in Probes, c \in Checks :
             task[p][c] = "running" /\ now - started[p] >= Timeout + Lag

Tick == /\ now < MaxTime /\ ~Overdue
        /\ \A r \in Requests : ~(joined[r] # None /\ answer[r] = None /\ Done(joined[r]))
        /\ now' = now + 1
        /\ UNCHANGED <<up, inFlight, started, task, seen, orphans, joined, arrived, answer>>

Flip(c) == /\ up' = IF c \in up THEN up \ {c} ELSE up \cup {c}
           /\ UNCHANGED <<now, inFlight, started, task, seen, orphans, joined, arrived, answer>>

Next == \/ \E r \in Requests : Request(r) \/ Respond(r) \/ Disconnect(r)
        \/ \E p \in Probes, c \in Checks : Answers(p, c) \/ TimesOut(p, c)
        \/ \E o \in orphans : Reap(o)
        \/ \E c \in Checks : Flip(c)
        \/ Tick

Spec == Init /\ [][Next]_vars

(* Timers and wake-ups are served by the event loop; nothing makes a check  *)
(* answer, a component come back or a client wait.                          *)
FairSpec == /\ Spec /\ WF_vars(Tick)
            /\ \A r \in Requests : WF_vars(Respond(r))
            /\ \A p \in Probes, c \in Checks : WF_vars(TimesOut(p, c))

-----------------------------------------------------------------------------
(* A replica that answers "ready" saw every component answer at most one    *)
(* timeout before the request arrived: sharing a probe never hands out an   *)
(* older observation.                                                       *)
ReadyIsFresh ==
  \A r \in Requests : answer[r] = "ready" =>
    \A c \in Checks : seen[joined[r]][c] + Timeout > arrived[r]

(* Tasks that ignore their cancellation do not pile up: at most one more    *)
(* than the limit, however probes overlap (Lag < Timeout).                  *)
OrphansBounded == \A c \in Checks : Cardinality(Abandoned(c)) <= MaxAbandoned + 1

(* "at most MAX_ABANDONED_PER_CHECK of them are kept per check"             *)
(* (ReadinessProbe).                                                        *)
OrphansAtMost == \A c \in Checks : Cardinality(Abandoned(c)) <= MaxAbandoned

(* Every request whose client stays is answered, although checks hang and   *)
(* other clients of the same probe leave.                                   *)
Waits(r) == joined[r] # None
Replied(r) == answer[r] # None
Answered == \A r \in Requests : Waits(r) ~> Replied(r)
=============================================================================
