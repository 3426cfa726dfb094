------------------------------ MODULE MCLedger ------------------------------
(***************************************************************************)
(* Instances of Ledger.                                                    *)
(***************************************************************************)
EXTENDS Ledger, TLC

CONSTANTS b1, b2, b3, b4

MCBatches == {b1, b2, b3, b4}
MCStreams == {1, 2, 3}

\* Keys 1 and 3 share a lock, and lock keys are not in the order of the keys.
MCLockKey == <<2, 1, 2, 3, 4>>

D(id, key, stream, body) == [id |-> id, key |-> key, stream |-> stream, body |-> body]

\* b2 repeats b1 in another order, one of its drafts under a fresh id; b3
\* stores something new and then clashes with b1; b4 uses the event ids of b1
\* under other keys and on another stream, in the other order.
MCDrafts == (b1 :> <<D(1, 1, 1, 7), D(2, 2, 2, 8)>>)
         @@ (b2 :> <<D(2, 2, 2, 8), D(3, 1, 1, 7)>>)
         @@ (b3 :> <<D(4, 3, 2, 9), D(5, 1, 1, 0)>>)
         @@ (b4 :> <<D(2, 4, 3, 8), D(1, 5, 3, 7)>>)

=============================================================================
