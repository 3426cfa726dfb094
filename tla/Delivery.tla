------------------------------ MODULE Delivery ------------------------------
(***************************************************************************)
(* What the projection runtime promises of the outbox, with no workers,    *)
(* leases, clocks or retries: every effect of an item may be applied       *)
(* again and again, but the item is settled once, never before its effects *)
(* are in place when it is settled as delivered, and the books of each     *)
(* consumer (how many items, how far) change exactly with deliveries.      *)
(***************************************************************************)
EXTENDS Integers

CONSTANTS Items, Consumers, Needs   \* Needs[i]: the consumers item i is for

VARIABLES queued, delivered, given_up, effects, count, position

vars == <<queued, delivered, given_up, effects, count, position>>

Known == queued \cup delivered \cup given_up

Init ==
  /\ queued = {} /\ delivered = {} /\ given_up = {} /\ effects = {}
  /\ count = [p \in Consumers |-> 0]
  /\ position = [p \in Consumers |-> 0]

Enqueue(i) ==
  /\ i \notin Known
  /\ queued' = queued \cup {i}
  /\ UNCHANGED <<delivered, given_up, effects, count, position>>

\* Idempotent, at least once, even after the item was settled.
Apply(i) ==
  /\ i \in Known
  /\ effects' = effects \cup ({i} \X Needs[i])
  /\ UNCHANGED <<queued, delivered, given_up, count, position>>

Deliver(i) ==
  /\ i \in queued
  /\ {i} \X Needs[i] \subseteq effects
  /\ queued' = queued \ {i}
  /\ delivered' = delivered \cup {i}
  /\ count' = [p \in Consumers |-> IF p \in Needs[i] THEN count[p] + 1 ELSE count[p]]
  /\ position' = [p \in Consumers |-> IF p \in Needs[i] /\ i > position[p]
                                      THEN i ELSE position[p]]
  /\ UNCHANGED <<given_up, effects>>

GiveUp(i) ==
  /\ i \in queued
  /\ queued' = queued \ {i}
  /\ given_up' = given_up \cup {i}
  /\ UNCHANGED <<delivered, effects, count, position>>

Next == \E i \in Items : Enqueue(i) \/ Apply(i) \/ Deliver(i) \/ GiveUp(i)

Spec == Init /\ [][Next]_vars

=============================================================================
