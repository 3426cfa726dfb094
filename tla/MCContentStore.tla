--------------------------- MODULE MCContentStore ---------------------------
(***************************************************************************)
(* Instances of ContentStore: two requests, served by processes with       *)
(* different settings, that share an object and one inline content, beside *)
(* two overlapping sweeps.                                                 *)
(***************************************************************************)
EXTENDS ContentStore, TLC

CONSTANTS q1, q2, s1, s2

MCRequests == {q1, q2}
MCSweepers == {s1, s2}
MCObjects == {1, 2}
MCInline == {3}
MCWants == (q1 :> {1, 3}) @@ (q2 :> {1, 2, 3})
MCWriteMode == (q1 :> "content_addressed") @@ (q2 :> "if_none_match")

MCOne == [q \in {q1} |-> {1}]
MCDefaultMode == [q \in {q1} |-> "content_addressed"]

\* The sweeps are alike.
SweeperSymmetry == Permutations(MCSweepers)

=============================================================================
