----------------------------- MODULE MCAsymTotp -----------------------------
(***************************************************************************)
(* An instance of AsymTotp for TLC: durations of 0 (the contract panics),  *)
(* 2 and 3 seconds, blocks one or two seconds apart.                       *)
(***************************************************************************)
EXTENDS AsymTotp

MCTx(id, otp) == [id |-> id, signed |-> TRUE, otp |-> otp]

\* Two transactions for each count, and one the account key did not sign.
MCTxs ==
    {MCTx(id, otp) : id \in {1, 2}, otp \in 1..3}
        \cup {[id |-> 3, signed |-> FALSE, otp |-> 1]}
MCDurations == {0, 2, 3}
MCTicks == {1, 2}
=============================================================================
