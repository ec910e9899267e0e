---------------------------- MODULE TxFlowLedger ----------------------------
(***************************************************************************)
(* TxFlow implements Ledger.                                               *)
(***************************************************************************)
EXTENDS TxFlow

\* What a user sees of a store.
View(s) ==
    [seq |-> s.seq, params |-> s.params, done |-> s.done, after |-> s.after]

Signers(t) == {t.signers[i] : i \in DOMAIN t.signers}

\* A transaction as Ledger knows it.
Opened(t) == [id |-> TxId(t), signers |-> Signers(t)]

ASSUME OpenedAssumption ==
    \A t \in Txs : Len(t.sigs) = Len(t.signers) => Opened(t) # Nil

\* A delivered transaction is open from the end of its AnteHandler to its end.
OpenTx ==
    IF mode = "deliver" /\ phase \in {"msgs", "post"} THEN Opened(tx) ELSE Nil

Promise == INSTANCE Ledger WITH
    final <- View(committed), block <- View(deliverState), open <- OpenTx

\* Through every check, recheck, simulation, delivery, failure, commit and crash the
\* deliver state and the committed state change as Ledger says: the two hooks and
\* the messages of a delivered transaction, spread over many steps and a branch
\* that may be dropped, are one step that happens once or not at all, no step of
\* another mode is seen, and the parameters are the authority's.
ImplementsLedger == Promise!Spec
=============================================================================
