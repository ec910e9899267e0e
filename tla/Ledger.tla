------------------------------- MODULE Ledger -------------------------------
(***************************************************************************)
(* What account abstraction promises to the users of a chain, without      *)
(* stores, branches and decorators: a transaction is first authenticated,  *)
(* which uses up a sequence number of its signers for good, and then takes *)
(* effect with everything it contains or with nothing, before the next one *)
(* is looked at. An abstract account signs alone.                          *)
(***************************************************************************)
EXTENDS Naturals

CONSTANTS
    Nil,          \* no transaction
    Abstract,     \* abstract accounts
    External,     \* accounts with a key of their own
    Authority,    \* the account that sets the parameters
    NMsgs,        \* messages per transaction
    Validate(_)   \* the parameters it may set

VARIABLES
    final,  \* the ledger of the last block
    block,  \* the ledger of the block being executed
    open    \* the transaction that is authenticated and has yet to take effect

vars == <<final, block, open>>

\* The ledger: the accounts' sequences, the parameters, the messages that have taken
\* effect and the after_tx calls that have been made.
Init ==
    /\ block = final
    /\ block.seq = [a \in Abstract \cup External |-> 0]
    /\ block.done = {} /\ block.after = {}
    /\ Validate(block.params)
    /\ open = Nil

\* The first signer's sequence names the transaction.
Authenticate ==
    \E S \in {{a} : a \in Abstract} \cup SUBSET External : \E a \in S :
        /\ open = Nil
        /\ open' = [id |-> <<a, block.seq[a]>>, signers |-> S]
        /\ block' = [block EXCEPT !.seq =
                         [b \in DOMAIN @ |-> IF b \in S THEN @[b] + 1 ELSE @[b]]]
        /\ UNCHANGED final

\* Parameters change in a transaction of the authority only, to valid ones. A
\* transaction of an abstract account ends with its own after_tx; one of others
\* may end with the after_tx of an abstract account whose transaction failed.
Execute ==
    /\ open # Nil
    /\ open' = Nil
    /\ block'.params # block.params => Authority \in open.signers /\ Validate(block'.params)
    /\ \E after \in SUBSET (Abstract \X {open.id}) :
          /\ IF open.id[1] \in Abstract THEN after = {<<open.id[1], open.id>>}
             ELSE \A f, g \in after : f = g
          /\ block' = [block EXCEPT !.done = @ \cup ({open.id} \X (1..NMsgs)),
                                    !.after = @ \cup after,
                                    !.params = block'.params]
    /\ UNCHANGED final

\* Nothing of the transaction takes effect.
Drop ==
    /\ open # Nil
    /\ open' = Nil
    /\ UNCHANGED <<block, final>>

Commit ==
    /\ open = Nil
    /\ final' = block
    /\ UNCHANGED <<block, open>>

\* The block is lost.
Restart ==
    /\ block' = final
    /\ open' = Nil
    /\ UNCHANGED final

Next == Authenticate \/ Execute \/ Drop \/ Commit \/ Restart

Spec == Init /\ [][Next]_vars
=============================================================================
