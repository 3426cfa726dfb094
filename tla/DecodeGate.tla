------------------------------ MODULE DecodeGate ------------------------------
(***************************************************************************)
(* The admission gate in front of the OTLP decoder (ledger/otlp_api.py): a *)
(* bounded number of worker threads and waiting places, shared fairly      *)
(* between producers by a per-producer turn lock that lives only while the *)
(* producer has a place.  A request may be cancelled at every await, and a *)
(* running thread cannot be stopped.  The turn locks are objects of their  *)
(* own: a producer's lock is named by the request that created it.         *)
(***************************************************************************)
EXTENDS Naturals, FiniteSets

CONSTANTS Requests, Producers, ProducerOf, None,
          Workers, QueueDepth, PerProducer, MaxCancels

GateIsUsable == {Workers, PerProducer} \subseteq Nat \ {0} /\ QueueDepth \in Nat

\* Lock objects can be told apart from their absence.
GateAssumption == /\ GateIsUsable /\ ProducerOf \in [Requests -> Producers]
                  /\ None \notin Requests /\ MaxCancels \in Nat

VARIABLES pc,          \* where each request is
          admitted,    \* _admitted
          byProducer,  \* _by_producer
          turns,       \* _turns: producer -> the lock object, or None
          lock,        \* the lock object each admitted request waits on
          holder,      \* lock object -> the request that holds it
          slots,       \* free slots of the semaphore
          cancels

vars == <<pc, admitted, byProducer, turns, lock, holder, slots, cancels>>

Capacity == Workers + QueueDepth
P(r) == ProducerOf[r]

Init == /\ pc = [r \in Requests |-> "new"]
        /\ admitted = 0 /\ byProducer = [p \in Producers |-> 0]
        /\ turns = [p \in Producers |-> None]
        /\ lock = [r \in Requests |-> None]
        /\ holder = [r \in Requests |-> None]
        /\ slots = Workers /\ cancels = 0

Goto(r, place) == pc' = [pc EXCEPT ![r] = place]

-----------------------------------------------------------------------------
(* run's first test: anything beyond capacity or share is a 503 at once.   *)
Refuse(r) == /\ pc[r] = "new"
             /\ admitted >= Capacity \/ byProducer[P(r)] >= PerProducer
             /\ Goto(r, "busy")
             /\ UNCHANGED <<admitted, byProducer, turns, lock, holder, slots, cancels>>

(* _admit: no await between the test and the counts.                       *)
Admit(r) == /\ pc[r] = "new"
            /\ admitted < Capacity /\ byProducer[P(r)] < PerProducer
            /\ admitted' = admitted + 1
            /\ byProducer' = [byProducer EXCEPT ![P(r)] = @ + 1]
            /\ turns' = [turns EXCEPT ![P(r)] = IF @ = None THEN r ELSE @]
            /\ lock' = [lock EXCEPT ![r] = turns'[P(r)]]
            /\ Goto(r, "turn")
            /\ UNCHANGED <<holder, slots, cancels>>

TakeTurn(r) == /\ pc[r] = "turn" /\ holder[lock[r]] = None
               /\ holder' = [holder EXCEPT ![lock[r]] = r]
               /\ Goto(r, "slot")
               /\ UNCHANGED <<admitted, byProducer, turns, lock, slots, cancels>>

TakeSlot(r) == /\ pc[r] = "slot" /\ slots > 0
               /\ slots' = slots - 1
               /\ Goto(r, "check")
               /\ UNCHANGED <<admitted, byProducer, turns, lock, holder, cancels>>

(* The last place of a producer takes its turn lock away with it.          *)
DropTurns(p) == IF byProducer[p] = 1 THEN [turns EXCEPT ![p] = None] ELSE turns

(* _release, with the turn.release() of a cancelled wait for a slot: the   *)
(* slot and the turn go back together, then the place.                     *)
Release(r, holdsSlot) ==
  /\ IF holdsSlot THEN slots' = slots + 1 ELSE UNCHANGED slots
  /\ holder' = [holder EXCEPT ![lock[r]] = IF @ = r THEN None ELSE @]
  /\ admitted' = admitted - 1
  /\ byProducer' = [byProducer EXCEPT ![P(r)] = @ - 1]
  /\ turns' = DropTurns(P(r))
  /\ lock' = [lock EXCEPT ![r] = None]

(* The client is gone before the decode starts, or the thread starts.      *)
Disconnected(r) == /\ pc[r] = "check"
                   /\ Release(r, TRUE) /\ Goto(r, "gone") /\ UNCHANGED cancels

StartThread(r) ==
  /\ pc[r] = "check" /\ Goto(r, "running")
  /\ UNCHANGED <<admitted, byProducer, turns, lock, holder, slots, cancels>>

(* The thread finishes; a handed-over place is released by its callback.   *)
ThreadDone(r) == /\ pc[r] \in {"running", "detached"}
                 /\ Release(r, TRUE) /\ Goto(r, "done") /\ UNCHANGED cancels

Mut_Cancelled(r) ==
  IF pc[r] = "running"
  THEN /\ Goto(r, "detached") /\ slots' = slots + 1
       /\ UNCHANGED <<admitted, byProducer, turns, lock, holder>>
  ELSE Release(r, pc[r] = "check") /\ Goto(r, "gone")

(* A cancelled wait gives everything back; a cancelled decode hands its    *)
(* place over to the thread's completion.                                  *)
Cancelled(r) ==
  IF pc[r] = "running"
  THEN /\ Goto(r, "detached")
       /\ UNCHANGED <<admitted, byProducer, turns, lock, holder, slots>>
  ELSE Release(r, pc[r] = "check") /\ Goto(r, "gone")

Cancel(r) == /\ pc[r] \in {"turn", "slot", "check", "running"} /\ cancels < MaxCancels
             /\ cancels' = cancels + 1
             /\ Cancelled(r)

Next == \E r \in Requests : \/ Refuse(r) \/ Admit(r) \/ TakeTurn(r) \/ TakeSlot(r)
                            \/ Disconnected(r) \/ StartThread(r) \/ ThreadDone(r)
                            \/ Cancel(r)

Spec == Init /\ [][Next]_vars

(* asyncio's Lock and Semaphore wake their waiters in order, and a decode  *)
(* is bounded work.                                                        *)
FairSpec == /\ Spec
            /\ \A r \in Requests : /\ SF_vars(TakeTurn(r)) /\ SF_vars(TakeSlot(r))
                                   /\ WF_vars(StartThread(r) \/ Disconnected(r))
                                   /\ WF_vars(ThreadDone(r))

-----------------------------------------------------------------------------
Decoding == {r \in Requests : pc[r] \in {"running", "detached"}}
Placed == {r \in Requests : pc[r] \in {"turn", "slot", "check", "running", "detached"}}

(* Never more than `workers` threads decode, cancelled requests included:  *)
(* a cancelled request's decode keeps its slot until the thread is done.   *)
ThreadsBounded == Cardinality(Decoding) <= Workers

(* A producer holds at most one worker at a time, although its turn lock   *)
(* is dropped and created anew as its requests come and go.                *)
OneDecodePerProducer ==
  \A r, s \in Decoding : P(r) = P(s) => r = s

(* No place leaks and none is returned twice, whatever is cancelled where: *)
(* the counters equal the requests that hold a place.                      *)
PlacesBalance == /\ admitted = Cardinality(Placed)
                 /\ \A p \in Producers :
                      byProducer[p] = Cardinality({r \in Placed : P(r) = p})

(* Every admitted request leaves the gate: no turn is waited for forever,  *)
(* in particular not the turn of a cancelled request.                      *)
Waits(r) == pc[r] = "turn"
Left(r) == pc[r] \in {"gone", "done"}
AdmittedLeaves == \A r \in Requests : Waits(r) ~> Left(r)

-----------------------------------------------------------------------------
(* The proofs: places, slots, turn locks and their holders agree, and from *)
(* that every safety property above follows for any requests and bounds.   *)

HasTurn == {"slot", "check", "running", "detached"}
HasSlot == {"check", "running", "detached"}
HasPlace == {"turn"} \cup HasTurn
Threads == {r \in Requests : pc[r] \in HasSlot}
Of(p) == {r \in Placed : P(r) = p}

TypeOK ==
  /\ pc \in [Requests -> {"new", "busy", "gone", "done"} \cup HasPlace]
  /\ admitted \in Nat /\ byProducer \in [Producers -> Nat] /\ slots \in Nat
  /\ turns \in [Producers -> Requests \cup {None}]
  /\ lock \in [Requests -> Requests \cup {None}]
  /\ holder \in [Requests -> Requests \cup {None}]
  /\ cancels \in 0 .. MaxCancels

\* Every slot that is not free is held by a request that may start a thread.
SlotsBalance == IsFiniteSet(Threads) /\ slots + Cardinality(Threads) = Workers

\* Who has a place waits for the lock its producer has at the moment: the lock
\* is dropped with the last place only.  A lock object belongs to one producer.
TurnsShared ==
  /\ \A r \in Placed : lock[r] # None /\ lock[r] = turns[P(r)]
  /\ \A p \in Producers : turns[p] # None => P(turns[p]) = p
  /\ \A r \in Requests : r \notin Placed => lock[r] = None
  /\ \A p \in Producers : turns[p] # None => pc[turns[p]] # "new"

\* A lock object is held by the request whose turn it is, and by nobody else.
TurnsHeld ==
  /\ \A r \in Requests : pc[r] \in HasTurn => holder[lock[r]] = r
  /\ \A l \in Requests : holder[l] # None => pc[holder[l]] \in HasTurn /\ lock[holder[l]] = l

GateInv ==
  /\ TypeOK /\ SlotsBalance /\ IsFiniteSet(Placed) /\ PlacesBalance /\ TurnsShared /\ TurnsHeld

=============================================================================
