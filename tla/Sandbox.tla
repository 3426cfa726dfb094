------------------------------- MODULE Sandbox -------------------------------
(***************************************************************************)
(* Structural adapters in sandboxed child processes (tree_sitter/runner).  *)
(* Each thread of the indexer runs one adapter under a supervisor process, *)
(* feeds it a request, collects a bounded answer before a deadline, and    *)
(* then stops every process of the run: the supervisor kills its           *)
(* descendants, the runner kills the process group and sweeps the orphans  *)
(* of supervisors that died first.  A daemon is a process an adapter       *)
(* forked; it may leave the session.  A kill takes effect when the kernel  *)
(* gets to it.                                                             *)
(***************************************************************************)
EXTENDS Integers, FiniteSets

CONSTANTS
  Runs,        \* threads of the worker, each with one adapter run
  Foreign,     \* another child process of the worker (a git command)
  Runner,      \* the worker process: parent of the supervisors
  Nobody,      \* no holder of the lock
  Payload,     \* chunks of the request
  MaxWrites,   \* chunks an adapter writes
  OutLimit,    \* max_output_bytes, in chunks
  PipeSize,    \* chunks a pipe holds
  Forks,       \* runs whose adapter forks a daemon
  Kills,       \* runs whose supervisor may be killed by its own adapter
  Slow         \* runs whose supervisor may miss the grace period of SIGTERM

SandboxAssumption ==
  /\ Payload \in Nat /\ MaxWrites \in Nat /\ OutLimit \in Nat \ {0} /\ PipeSize \in Nat \ {0}
  /\ Forks \cup Kills \cup Slow \subseteq Runs

Sup(r) == <<r, "sup">>
Main(r) == <<r, "main">>
Dmn(r) == <<r, "daemon">>
OfRun(r) == {Sup(r), Main(r), Dmn(r)}
Procs == UNION {OfRun(r) : r \in Runs} \cup {Foreign}

VARIABLES
  pc,       \* per run: where its thread is
  state,    \* per process: "none", "live", "zombie" or "gone"
  parent,   \* per process: its parent
  leads,    \* processes that lead a session of their own
  doomed,   \* processes with a SIGKILL pending
  term,     \* supervisors with a SIGTERM pending
  sweeping, \* supervisors that stop their descendants
  live,     \* _LIVE_SUPERVISORS
  lock,     \* holder of _LIVE_LOCK
  victims,  \* what the sweep of the lock's holder is killing
  confirmed,\* runs whose adapter confined itself and said so
  code,     \* per run: how its adapter ended: "none", "zero" or "bad"
  sent, out, got, wrote,  \* per run: request written, output in the pipe, collected, written
  result,   \* per run: "none", "answer" or the error it raises
  workdir,  \* runs whose temporary directory exists
  late      \* runs whose supervisor missed its grace period

vars == <<pc, state, parent, leads, doomed, term, sweeping, live, lock, victims, confirmed, code,
          sent, out, got, wrote, result, workdir, late>>
procs == <<state, parent, leads, doomed, term, sweeping, confirmed, code, sent, out, wrote>>
thread == <<pc, live, lock, victims, got, result, workdir, late>>

Alive(p) == state[p] = "live"
Children(p) == {q \in Procs : parent[q] = p /\ state[q] \in {"live", "zombie"}}

Init ==
  /\ pc = [r \in Runs |-> "start"]
  /\ state = [p \in Procs |-> IF p = Foreign THEN "live" ELSE "none"]
  /\ parent = [p \in Procs |-> Runner] /\ leads = {Sup(r) : r \in Runs}
  /\ doomed = {} /\ term = {} /\ sweeping = {} /\ live = {} /\ lock = Nobody /\ victims = {}
  /\ confirmed = {} /\ code = [r \in Runs |-> "none"]
  /\ sent = [r \in Runs |-> 0] /\ out = [r \in Runs |-> 0]
  /\ got = [r \in Runs |-> 0] /\ wrote = [r \in Runs |-> 0]
  /\ result = [r \in Runs |-> "none"] /\ workdir = {} /\ late = {}

-----------------------------------------------------------------------------
(* Processes.  The orphans of a dead process go to the closest living      *)
(* subreaper among its ancestors: the supervisor, else the runner.         *)

Reaper(r, p) == IF p # Sup(r) /\ Alive(Sup(r)) THEN Sup(r) ELSE Runner

\* The process ends: it is a zombie until its parent reaps it.
Die(r, p) ==
  /\ state' = [state EXCEPT ![p] = "zombie"]
  /\ parent' = [q \in Procs |-> IF parent[q] = p THEN Reaper(r, p) ELSE parent[q]]
  /\ doomed' = doomed \ {p}

Killed(r, p) ==
  /\ p \in doomed /\ Alive(p) /\ Die(r, p)
  /\ code' = IF p = Main(r) /\ code[r] = "none" THEN [code EXCEPT ![r] = "bad"] ELSE code
  /\ sweeping' = sweeping \ {p}
  /\ UNCHANGED <<leads, term, confirmed, sent, out, wrote, thread>>

\* The supervisor forks the adapter with its limits.
Fork(r) ==
  /\ Alive(Sup(r)) /\ Sup(r) \notin sweeping /\ state[Main(r)] = "none"
  /\ state' = [state EXCEPT ![Main(r)] = "live"] /\ parent' = [parent EXCEPT ![Main(r)] = Sup(r)]
  /\ UNCHANGED <<leads, doomed, term, sweeping, confirmed, code, sent, out, wrote, thread>>

\* The trampoline is confined and says so on the status pipe.
Confirm(r) ==
  /\ Alive(Main(r)) /\ r \notin confirmed /\ confirmed' = confirmed \cup {r}
  /\ UNCHANGED <<state, parent, leads, doomed, term, sweeping, code, sent, out, wrote, thread>>

\* The kernel refuses the ruleset: the adapter never runs.  The status is not
\* read as the result of the confinement.
Refused(r) ==
  /\ Alive(Main(r)) /\ r \notin confirmed /\ Die(r, Main(r))
  /\ code' = [code EXCEPT ![r] = "bad"]
  /\ UNCHANGED <<leads, term, sweeping, confirmed, sent, out, wrote, thread>>

Runnable(r) == Alive(Main(r)) /\ r \in confirmed

\* The adapter forks a daemon, which may lead a session of its own.
ForkDaemon(r) ==
  /\ r \in Forks /\ Runnable(r) /\ state[Dmn(r)] = "none"
  /\ state' = [state EXCEPT ![Dmn(r)] = "live"] /\ parent' = [parent EXCEPT ![Dmn(r)] = Main(r)]
  /\ \E away \in BOOLEAN : leads' = IF away THEN leads \cup {Dmn(r)} ELSE leads
  /\ UNCHANGED <<doomed, term, sweeping, confirmed, code, sent, out, wrote, thread>>

\* The adapter, of the same user, signals the supervisor.
KillSupervisor(r) ==
  /\ r \in Kills /\ Runnable(r) /\ Alive(Sup(r)) /\ Sup(r) \notin doomed
  /\ doomed' = doomed \cup {Sup(r)}
  /\ UNCHANGED <<state, parent, leads, term, sweeping, confirmed, code, sent, out, wrote, thread>>

Write(r) ==
  /\ Runnable(r) /\ wrote[r] < MaxWrites /\ out[r] < PipeSize
  /\ wrote' = [wrote EXCEPT ![r] = @ + 1] /\ out' = [out EXCEPT ![r] = @ + 1]
  /\ UNCHANGED <<state, parent, leads, doomed, term, sweeping, confirmed, code, sent, thread>>

\* serve: the adapter answers once it has read the whole request, or fails.
Exit(r) ==
  /\ Runnable(r) /\ Die(r, Main(r))
  /\ \E c \in {"zero", "bad"} : (c = "zero" => sent[r] = Payload) /\ code' = [code EXCEPT ![r] = c]
  /\ UNCHANGED <<leads, term, sweeping, confirmed, sent, out, wrote, thread>>

DaemonExit(r) ==
  /\ Alive(Dmn(r)) /\ Die(r, Dmn(r))
  /\ UNCHANGED <<leads, term, sweeping, confirmed, code, sent, out, wrote, thread>>

\* The supervisor starts to sweep: the adapter ended, or SIGTERM came.
SweepStarts(r) ==
  /\ Alive(Sup(r)) /\ Sup(r) \notin sweeping
  /\ state[Main(r)] = "zombie" \/ r \in term
  /\ sweeping' = sweeping \cup {Sup(r)}
  /\ UNCHANGED <<state, parent, leads, doomed, term, confirmed, code, sent, out, wrote, thread>>

\* sweep: kill every child, reap every zombie.
SupervisorSweep(r) ==
  /\ Alive(Sup(r)) /\ Sup(r) \in sweeping /\ Children(Sup(r)) # {}
  /\ doomed' = doomed \cup {p \in Children(Sup(r)) : Alive(p)}
  /\ state' = [p \in Procs |-> IF p \in Children(Sup(r)) /\ ~Alive(p) THEN "gone" ELSE state[p]]
  /\ UNCHANGED <<parent, leads, term, sweeping, confirmed, code, sent, out, wrote, thread>>

\* It has no children left and exits with the status of the adapter.
SupervisorExit(r) ==
  /\ Alive(Sup(r)) /\ Sup(r) \in sweeping /\ Children(Sup(r)) = {}
  /\ Die(r, Sup(r))
  /\ UNCHANGED <<leads, term, sweeping, confirmed, code, sent, out, wrote, thread>>

\* The other child of the worker ends, and its owner reaps it.  Only a sweep
\* looks at it, so that it may happen during sweeps is enough.
ForeignExit ==
  /\ state[Foreign] \in {"live", "zombie"} /\ lock # Nobody
  /\ state' = [state EXCEPT ![Foreign] = IF @ = "live" THEN "zombie" ELSE "gone"]
  /\ UNCHANGED <<parent, leads, doomed, term, sweeping, confirmed, code, sent, out, wrote, thread>>

-----------------------------------------------------------------------------
(* _run *)

\* No confinement, an unsafe read set, no subreaper: nothing was started.
Refuse(r) ==
  /\ pc[r] = "start" /\ pc' = [pc EXCEPT ![r] = "done"]
  /\ result' = [result EXCEPT ![r] = "unavailable"]
  /\ UNCHANGED <<live, lock, victims, got, workdir, late, procs>>

\* The temporary directory of the run, then the lock.
Prepare(r) ==
  /\ pc[r] = "start" /\ lock = Nobody /\ lock' = r /\ pc' = [pc EXCEPT ![r] = "sweep_first"]
  /\ workdir' = workdir \cup {r}
  /\ victims' = {}
  /\ UNCHANGED <<live, got, result, late, procs>>

\* Supervisors a sweep of run r leaves alone: those of live runs and its own.
Spared(r) == {Sup(q) : q \in live} \cup {Sup(r)}

SessionOf(p) ==
  IF p \in leads THEN p ELSE IF p = Foreign THEN Runner ELSE CHOOSE s \in {Sup(q) : q \in Runs} : s[1] = p[1]

\* _sweep_orphans: children of the worker that carry the run key, and zombies
\* that led a session or sat in one that no live supervisor owns.
Orphans(r) ==
  {p \in Children(Runner) \ Spared(r) :
     IF Alive(p) THEN p # Foreign
     ELSE p \in leads \/ SessionOf(p) \notin ({Sup(q) : q \in live} \ {Sup(r)}) \cup {Runner}}

Sweep(r) ==
  /\ pc[r] \in {"sweep_first", "sweep_last"} /\ lock = r /\ victims = {} /\ Orphans(r) # {}
  /\ victims' = Orphans(r)
  /\ doomed' = doomed \cup {p \in Orphans(r) : Alive(p)}
  /\ UNCHANGED <<pc, live, lock, got, result, workdir, late>>
  /\ UNCHANGED <<state, parent, leads, term, sweeping, confirmed, code, sent, out, wrote>>

Reap(r) ==
  /\ lock = r /\ victims # {} /\ \A p \in victims : ~Alive(p)
  /\ state' = [p \in Procs |-> IF p \in victims THEN "gone" ELSE state[p]]
  /\ victims' = {}
  /\ UNCHANGED <<pc, live, lock, got, result, workdir, late>>
  /\ UNCHANGED <<parent, leads, doomed, term, sweeping, confirmed, code, sent, out, wrote>>

Swept(r) == lock = r /\ victims = {} /\ Orphans(r) = {}

\* The supervisor is spawned and registered under the lock of the sweep.
Spawn(r) ==
  /\ pc[r] = "sweep_first" /\ Swept(r) /\ lock' = Nobody
  /\ \/ /\ state' = [state EXCEPT ![Sup(r)] = "live"] /\ live' = live \cup {r}
        /\ pc' = [pc EXCEPT ![r] = "talk"] /\ UNCHANGED <<result, workdir>>
     \/ /\ result' = [result EXCEPT ![r] = "spawn_failed"] /\ pc' = [pc EXCEPT ![r] = "done"]
        /\ workdir' = workdir \ {r} /\ UNCHANGED <<state, live>>
  /\ UNCHANGED <<victims, got, late, parent, leads, doomed, term, sweeping, confirmed, code, sent, out, wrote>>

\* Some process still holds the pipes of the run.
PipesHeld(r) == \E p \in OfRun(r) : Alive(p)

\* _feed: what the pipe accepts; all of it when the child hung up.
Feed(r) ==
  /\ pc[r] = "talk" /\ sent[r] < Payload
  /\ sent' = [sent EXCEPT ![r] = IF PipesHeld(r) THEN @ + 1 ELSE Payload]
  /\ UNCHANGED <<thread, state, parent, leads, doomed, term, sweeping, confirmed, code, out, wrote>>

Collect(r) ==
  /\ pc[r] = "talk" /\ out[r] > 0
  /\ out' = [out EXCEPT ![r] = @ - 1] /\ got' = [got EXCEPT ![r] = @ + 1]
  /\ IF got[r] + 1 > OutLimit
     THEN result' = [result EXCEPT ![r] = "too_large"] /\ pc' = [pc EXCEPT ![r] = "stop"]
     ELSE UNCHANGED <<pc, result>>
  /\ UNCHANGED <<live, lock, victims, workdir, late>>
  /\ UNCHANGED <<state, parent, leads, doomed, term, sweeping, confirmed, code, sent, wrote>>

\* Request sent, end of file on the output: wait for the supervisor's exit.
Eof(r) ==
  /\ pc[r] = "talk" /\ sent[r] = Payload /\ out[r] = 0 /\ ~PipesHeld(r)
  /\ pc' = [pc EXCEPT ![r] = "wait"]
  /\ UNCHANGED <<live, lock, victims, got, result, workdir, late, procs>>

\* _exited: the supervisor is a zombie, not reaped yet.
Exited(r) ==
  /\ pc[r] = "wait" /\ ~Alive(Sup(r)) /\ pc' = [pc EXCEPT ![r] = "stop"]
  /\ UNCHANGED <<live, lock, victims, got, result, workdir, late, procs>>

\* The deadline passes.
Timeout(r) ==
  /\ pc[r] = "talk" \/ (pc[r] = "wait" /\ Alive(Sup(r)))
  /\ pc' = [pc EXCEPT ![r] = "stop"] /\ result' = [result EXCEPT ![r] = "timeout"]
  /\ UNCHANGED <<live, lock, victims, got, workdir, late, procs>>

-----------------------------------------------------------------------------
(* _reap *)

\* SIGTERM to the supervisor alone, unless it already exited.
Stop(r) ==
  /\ pc[r] = "stop" /\ pc' = [pc EXCEPT ![r] = "grace"]
  /\ term' = IF Alive(Sup(r)) THEN term \cup {r} ELSE term
  /\ UNCHANGED <<live, lock, victims, got, result, workdir, late>>
  /\ UNCHANGED <<state, parent, leads, doomed, sweeping, confirmed, code, sent, out, wrote>>

InGroup(r) == {p \in OfRun(r) : Alive(p) /\ (p = Sup(r) \/ p \notin leads)}

\* The supervisor ended, or the grace period did: SIGKILL to the group.
KillGroup(r) ==
  /\ pc[r] = "grace" /\ (Alive(Sup(r)) => r \in Slow)
  /\ late' = IF Alive(Sup(r)) THEN late \cup {r} ELSE late
  /\ doomed' = doomed \cup InGroup(r) /\ pc' = [pc EXCEPT ![r] = "lock_last"]
  /\ UNCHANGED <<live, lock, victims, got, result, workdir>>
  /\ UNCHANGED <<state, parent, leads, term, sweeping, confirmed, code, sent, out, wrote>>

LockLast(r) ==
  /\ pc[r] = "lock_last" /\ lock = Nobody /\ lock' = r /\ victims' = {}
  /\ pc' = [pc EXCEPT ![r] = "sweep_last"]
  /\ UNCHANGED <<live, got, result, workdir, late, procs>>

UnlockLast(r) ==
  /\ pc[r] = "sweep_last" /\ Swept(r) /\ lock' = Nobody /\ pc' = [pc EXCEPT ![r] = "reap"]
  /\ UNCHANGED <<live, victims, got, result, workdir, late, procs>>

\* process.wait(): the supervisor is reaped.
Wait(r) ==
  /\ pc[r] = "reap" /\ state[Sup(r)] \in {"zombie", "gone"} /\ pc' = [pc EXCEPT ![r] = "discard"]
  /\ state' = [state EXCEPT ![Sup(r)] = "gone"]
  /\ UNCHANGED <<live, lock, victims, got, result, workdir, late>>
  /\ UNCHANGED <<parent, leads, doomed, term, sweeping, confirmed, code, sent, out, wrote>>

\* The supervisor returns the status of its adapter unless it was stopped or killed.
Returned(r) == IF Sup(r) \in sweeping /\ r \notin term THEN code[r] ELSE "bad"

Outcome(r) ==
  CASE result[r] # "none" -> result[r]
    [] result[r] = "none" /\ r \notin confirmed -> "unavailable"
    [] result[r] = "none" /\ r \in confirmed /\ Returned(r) # "zero" -> "nonzero"
    [] OTHER -> "answer"

Discard(r) ==
  /\ pc[r] = "discard" /\ lock = Nobody /\ live' = live \ {r}
  /\ result' = [result EXCEPT ![r] = Outcome(r)]
  /\ workdir' = workdir \ {r} /\ pc' = [pc EXCEPT ![r] = "done"]
  /\ UNCHANGED <<lock, victims, got, late, procs>>

ThreadStep(r) ==
  \/ Refuse(r) \/ Prepare(r) \/ Sweep(r) \/ Reap(r) \/ Spawn(r) \/ Feed(r) \/ Collect(r) \/ Eof(r)
  \/ Exited(r) \/ Timeout(r) \/ Stop(r) \/ KillGroup(r) \/ LockLast(r) \/ UnlockLast(r) \/ Wait(r) \/ Discard(r)
KernelStep(r) == \/ \E p \in OfRun(r) : Killed(r, p)
                 \/ Fork(r) \/ SweepStarts(r) \/ SupervisorSweep(r) \/ SupervisorExit(r)
AdapterStep(r) ==
  Confirm(r) \/ Refused(r) \/ ForkDaemon(r) \/ KillSupervisor(r) \/ Write(r) \/ Exit(r) \/ DaemonExit(r)

Next == ForeignExit \/ \E r \in Runs : ThreadStep(r) \/ KernelStep(r) \/ AdapterStep(r)

Spec == Init /\ [][Next]_vars

-----------------------------------------------------------------------------
Finished(r) == pc[r] = "done"

(***************************************************************************)
(* When _run returns no process of the run is left, whether its adapter    *)
(* exited, hung, forked daemons or killed its supervisor.  The exception   *)
(* is a supervisor that misses its grace period: it may die after the last *)
(* sweep looked, and its orphans wait for the first sweep of a later run.  *)
(***************************************************************************)
NothingSurvives ==
  \A r \in Runs : Finished(r) =>
    /\ \A p \in OfRun(r) : Alive(p) => p # Sup(r) /\ r \in late
    /\ r \notin workdir

(***************************************************************************)
(* A run that starts its adapter has first removed what earlier runs left. *)
(***************************************************************************)
SweptBeforeSpawn ==
  \A r \in Runs : pc[r] = "sweep_first" /\ Swept(r) =>
    \A q \in Runs : Finished(q) => \A p \in OfRun(q) : ~Alive(p)

(***************************************************************************)
(* A sweep never kills or reaps the supervisor of a concurrent run, nor a  *)
(* process below it, nor any other child of the worker.                    *)
(***************************************************************************)
OthersUntouched ==
  /\ Foreign \notin doomed \cup victims
  /\ lock # Nobody => \A q \in Runs \ {lock} : q \in live /\ Alive(Sup(q)) => victims \cap OfRun(q) = {}
  /\ \A r \in Runs : pc[r] \in {"talk", "wait", "stop", "grace"} => state[Sup(r)] # "gone"

(***************************************************************************)
(* An answer comes from an adapter that was confined, exited with zero and *)
(* whose whole output was collected within the limit.                      *)
(***************************************************************************)
AnswerWhole ==
  \A r \in Runs : result[r] = "answer" =>
    r \in confirmed /\ code[r] = "zero" /\ got[r] = wrote[r] /\ got[r] <= OutLimit

=============================================================================
