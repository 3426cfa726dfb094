------------------------ MODULE MCProjectionRuntime ------------------------
(***************************************************************************)
(* Instances of ProjectionRuntime for TLC.                                 *)
(***************************************************************************)
EXTENDS ProjectionRuntime, TLC

CONSTANTS w1, w2, p1, p2

MCWorkers == {w1, w2}
MCProjectors == {p1, p2}

\* Row 1 is handled by both projectors, row 2 by one, row 3 by none.
MCHandles == [r \in Rows |-> CASE r = 1 -> {p1, p2} [] r = 2 -> {p1} [] OTHER -> {}]

\* p1 and p2 differ in what they handle; the workers are alike.
WorkerSymmetry == Permutations(MCWorkers)

=============================================================================
