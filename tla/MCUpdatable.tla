---------------------------- MODULE MCUpdatable -----------------------------
(***************************************************************************)
(* An instance of Updatable for TLC: an account with two good keys and a   *)
(* bad one, and a contract that calls back.                                *)
(***************************************************************************)
EXTENDS Updatable

CONSTANTS k1, k2, bad, other

MCTx(n, k, msgs) == [sequence |-> n, credential |-> k, msgs |-> msgs]
Rotate(k) == [caller |-> Self, new_pubkey |-> k]
CallBack(k) == [caller |-> other, new_pubkey |-> k]
Something == [caller |-> Self, new_pubkey |-> Nil]

\* For each sequence and key: a rotation followed by another message, a rotation to
\* the bad key, a transaction without one. Besides them a rotation in two steps, one
\* through another contract, and a transaction without a signature.
MCTxs ==
    {MCTx(n, k, msgs) : n \in 0..2, k \in {k1, k2},
        msgs \in {<<Rotate(k2), Something>>, <<Rotate(bad)>>, <<Something>>}}
  \cup {MCTx(1, k2, <<Rotate(k2), Rotate(k1)>>), MCTx(0, k1, <<CallBack(k2)>>),
         MCTx(0, Nil, <<Something>>)}

MCKeys == {k1, k2}
MCBad == {bad}
MCOthers == {other}
=============================================================================
