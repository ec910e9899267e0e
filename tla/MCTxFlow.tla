------------------------------ MODULE MCTxFlow ------------------------------
(***************************************************************************)
(* Instances of TxFlow for TLC: two AbstractAccounts acc1 and acc2, and an *)
(* external account ext, also the authority of the parameters.             *)
(***************************************************************************)
EXTENDS TxFlowLedger

CONSTANTS acc1, acc2, ext

MCSig(n) == [sequence |-> n, data |-> "single", valid |-> TRUE]

\* The transaction of signer x, with the given sequence.
Single(x, n) == [signers |-> <<x>>, sigs |-> <<MCSig(n)>>]

\* One with a multi signature, or a signature that does not verify.
Multisig(x, n) ==
    [signers |-> <<x>>, sigs |-> <<[MCSig(n) EXCEPT !.data = "other"]>>]
Invalid(x, n) ==
    [signers |-> <<x>>, sigs |-> <<[MCSig(n) EXCEPT !.valid = FALSE]>>]
Unsigned(x) == [signers |-> <<x>>, sigs |-> <<>>]

\* Two signers, the external one first: the abstract one's key is asked last.
Joint(x, y) == [signers |-> <<x, y>>, sigs |-> <<MCSig(0), MCSig(0)>>]

\* Parameters: gas for every hook, and gas for the cheap ones only.
Generous == NewParams(TRUE, <<>>, 2, 2)
Tight == NewParams(TRUE, <<>>, 1, 1)
Malformed == NewParams(TRUE, <<>>, 0, 2)

Updates == {Tight, Malformed}
NoUpdates == {}

DeliverTxs ==
    {Single(acc1, 0), Single(acc1, 1), Single(acc2, 0), Single(ext, 0), Single(ext, 1),
     Multisig(acc1, 0), Invalid(ext, 0), Unsigned(acc1), Joint(ext, acc1)}
DeliverModes == {"deliver"}

\* Two transactions of acc1 compete for one sequence: the contract, which is
\* arbitrary, may take either.
PoolTxs ==
    {Single(acc1, 0), Invalid(acc1, 0), Single(ext, 0), Joint(ext, acc1)}
PoolModes == AllModes
=============================================================================
