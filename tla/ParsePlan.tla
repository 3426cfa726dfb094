------------------------------ MODULE ParsePlan ------------------------------
(***************************************************************************)
(* How the sources of a run are parsed in sandboxed child processes        *)
(* (emitter.parse_structural): requests of several files, bisection when a *)
(* file brings a child down, one solo retry for a file that another one    *)
(* left without CPU.  A file is good, kills its child, may kill it, is so  *)
(* heavy that what follows it in a request gets no CPU, or is hopeless     *)
(* even alone.                                                             *)
(***************************************************************************)
EXTENDS Integers, Sequences, FiniteSets, SequencesExt

CONSTANTS
  Lengths,        \* sizes a source may have
  Natures,        \* subset of {"good", "kills", "flaky", "heavy", "hopeless"}
  NumFiles,       \* files of the language
  MaxSourceBytes, \* above it a source is skipped
  Budget,         \* the per-request source budget of the language
  MaxInputFiles,  \* files in one request
  MaxBisection    \* MAX_BISECTION_RUNS

PlanAssumption ==
  /\ NumFiles \in Nat /\ Lengths \subseteq Nat \ {0} /\ MaxInputFiles \in Nat \ {0}
  /\ Natures \subseteq {"good", "kills", "flaky", "heavy", "hopeless"} /\ MaxBisection \in Nat

VARIABLES
  size, nature,  \* the files: 1..NumFiles in path order
  todo,          \* stack of requests still to run
  solo,          \* the solo retries of the request that just ended
  out,           \* the parsed files: [file, degraded]
  retries,       \* bisection runs left
  runs,          \* child runs so far
  exhausted,     \* the bisection budget ran out
  phase          \* "plan", "run", "done" or "error"

vars == <<size, nature, todo, solo, out, retries, runs, exhausted, phase>>

-----------------------------------------------------------------------------
Total(chunk) == FoldLeft(LAMBDA a, f : a + size[f], 0, chunk)

\* A request is full: the next file would exceed the number or the budget.
Full(chunk, f) == chunk # <<>> /\ (Len(chunk) >= MaxInputFiles \/ Total(chunk) + size[f] > Budget)

\* _chunks: requests in file order; a file over the budget goes alone.
Chunks(files) ==
  FoldLeft(LAMBDA cs, f :
             IF cs = <<>> \/ Full(cs[Len(cs)], f) THEN Append(cs, <<f>>)
             ELSE [cs EXCEPT ![Len(cs)] = Append(@, f)],
           <<>>, files)

Admitted == SelectSeq([i \in 1..NumFiles |-> i], LAMBDA f : size[f] <= MaxSourceBytes)

Init ==
  /\ size \in [1..NumFiles -> Lengths] /\ nature \in [1..NumFiles -> Natures]
  /\ todo = <<>> /\ solo = <<>> /\ out = <<>>
  /\ retries = MaxBisection /\ runs = 0 /\ exhausted = FALSE /\ phase = "plan"

Plan ==
  /\ phase = "plan" /\ phase' = "run"
  /\ todo' = Chunks(Admitted)
  /\ UNCHANGED <<size, nature, solo, out, retries, runs, exhausted>>

Result(f, degraded) == [file |-> f, degraded |-> degraded]
degraded(files) == [i \in 1..Len(files) |-> Result(files[i], TRUE)]

-----------------------------------------------------------------------------
(* _parse_bisecting *)

MayFail(files) == \E i \in 1..Len(files) : nature[files[i]] \in {"kills", "flaky"}
MayPass(files) == \A i \in 1..Len(files) : nature[files[i]] # "kills"

\* Files of a request the adapter's CPU budget no longer reached.
Starved(files) ==
  {i \in 1..Len(files) : nature[files[i]] = "hopeless" \/ \E k \in 1..i : nature[files[k]] = "heavy"}

Mut_Halves(files) ==
  <<SubSeq(files, 1, Len(files) \div 2), SubSeq(files, Len(files) \div 2 + 2, Len(files))>>

\* The two halves of a failed request.
Halves(files) ==
  <<SubSeq(files, 1, Len(files) \div 2), SubSeq(files, Len(files) \div 2 + 1, Len(files))>>

CanBisect(files) == Len(files) > 1 /\ retries >= 2

\* The child died, timed out or answered nonsense: bisect, or degrade the group.
RequestFails ==
  /\ phase = "run" /\ solo = <<>> /\ todo # <<>>
  /\ LET files == Head(todo) IN
       /\ MayFail(files)
       /\ runs' = runs + 1
       /\ IF CanBisect(files)
          THEN todo' = Halves(files) \o Tail(todo) /\ retries' = retries - 2 /\ UNCHANGED <<out, exhausted>>
          ELSE /\ todo' = Tail(todo) /\ out' = out \o degraded(files)
               /\ exhausted' = (exhausted \/ Len(files) > 1) /\ UNCHANGED retries
  /\ UNCHANGED <<size, nature, solo, phase>>

\* The child answered: the files it starved are run again alone, in order.
RequestPasses ==
  /\ phase = "run" /\ solo = <<>> /\ todo # <<>>
  /\ LET files == Head(todo) IN
       /\ MayPass(files)
       /\ runs' = runs + 1 /\ todo' = Tail(todo)
       /\ IF Len(files) = 1
          THEN out' = out \o <<Result(files[1], nature[files[1]] = "hopeless")>> /\ UNCHANGED solo
          ELSE /\ solo' = [i \in 1..Len(files) |-> <<files[i], i \in Starved(files)>>]
               /\ UNCHANGED out
  /\ UNCHANGED <<size, nature, retries, exhausted, phase>>

\* A file of the answer that was not starved is kept.
Keep ==
  /\ phase = "run" /\ solo # <<>> /\ ~Head(solo)[2]
  /\ out' = Append(out, Result(Head(solo)[1], FALSE)) /\ solo' = Tail(solo)
  /\ UNCHANGED <<size, nature, todo, retries, runs, exhausted, phase>>

\* _parse_solo: the only retry of a starved file.
SoloRetry ==
  /\ phase = "run" /\ solo # <<>> /\ Head(solo)[2]
  /\ runs' = runs + 1 /\ solo' = Tail(solo)
  /\ \E failed \in IF nature[Head(solo)[1]] = "flaky" THEN BOOLEAN ELSE {nature[Head(solo)[1]] \in {"kills", "hopeless"}} :
        out' = Append(out, Result(Head(solo)[1], failed))
  /\ UNCHANGED <<size, nature, todo, retries, exhausted, phase>>

\* The environment is at fault: nothing is bisected, the run stops.
Environmental ==
  /\ phase = "run" /\ (todo # <<>> \/ solo # <<>>)
  /\ phase' = "error"
  /\ UNCHANGED <<size, nature, todo, solo, out, retries, runs, exhausted>>

Finish ==
  /\ phase = "run" /\ todo = <<>> /\ solo = <<>> /\ phase' = "done"
  /\ UNCHANGED <<size, nature, todo, solo, out, retries, runs, exhausted>>

Progress == Plan \/ RequestFails \/ RequestPasses \/ Keep \/ SoloRetry \/ Finish

Next == Progress \/ Environmental

Spec == Init /\ [][Next]_vars

FairSpec == Spec /\ WF_vars(Progress)

-----------------------------------------------------------------------------
Times(f) == Cardinality({i \in 1..Len(out) : out[i].file = f})

(***************************************************************************)
(* Every source that is not too large comes back exactly once, parsed or   *)
(* degraded, however requests were split and retried.                      *)
(***************************************************************************)
EveryFileOnce == phase = "done" => \A f \in ToSet(Admitted) : Times(f) = 1

(***************************************************************************)
(* A good file is degraded by its neighbours only when the bisection       *)
(* budget ran out: one bad file degrades alone.                            *)
(***************************************************************************)
InnocentParsed ==
  ~exhausted => \A i \in 1..Len(out) : out[i].degraded => nature[out[i].file] \notin {"good", "heavy"}

(***************************************************************************)
(* No corpus makes the indexer spawn unbounded children: at most one run   *)
(* per request, the bisection bound, and one solo retry per file when some *)
(* file uses up the CPU of its request.                                    *)
(***************************************************************************)
RunsBounded ==
  runs <= Len(Chunks(Admitted)) + MaxBisection
            + (IF \E f \in 1..NumFiles : nature[f] \in {"heavy", "hopeless"} THEN NumFiles ELSE 0)

(***************************************************************************)
(* Every request respects the limits of the adapter: a request above the   *)
(* byte budget holds one file.                                             *)
(***************************************************************************)
RequestsFit ==
  \A i \in 1..Len(todo) : Len(todo[i]) <= MaxInputFiles /\ (Total(todo[i]) > Budget => Len(todo[i]) = 1)

(***************************************************************************)
(* The parse ends: every source is answered for, or the environment failed.*)
(***************************************************************************)
Over == phase \in {"done", "error"}
ParseEnds == <>Over
=============================================================================
