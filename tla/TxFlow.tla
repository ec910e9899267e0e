------------------------------- MODULE TxFlow -------------------------------
(***************************************************************************)
(* How a transaction runs through the state machine once the module's two  *)
(* decorators are installed: the AnteHandler with BeforeTxDecorator, the   *)
(* messages, the PostHandler with AfterTxDecorator, in the four modes of   *)
(* BaseApp (check, recheck, simulate, deliver), over the check state, the  *)
(* deliver state and the committed state.                                  *)
(*                                                                         *)
(* An account contract is arbitrary code here: its sudo call may succeed,  *)
(* return an error or run out of gas. What a contract and the messages     *)
(* write is kept as marks in the store:                                    *)
(*   before[a]  sequences for which a's contract accepted before_tx        *)
(*   after      <<c, id>> when c's contract accepted after_tx in tx id     *)
(*   done       <<id, i>> when message i of tx id took effect              *)
(* so the properties can tell which of a transaction's writes survived.    *)
(***************************************************************************)
EXTENDS Keeper, Integers, FiniteSets

CONSTANTS
    Abstract,       \* addresses whose account is an AbstractAccount
    External,       \* addresses whose account is a BaseAccount with a key
    Txs,            \* the transactions clients may broadcast
    NMsgs,          \* messages per transaction
    GenesisParams,  \* parameters set by InitGenesis
    ParamsChoices,  \* parameters a MsgUpdateParams may carry
    HookGas,        \* gas a sudo call may need
    SigGas,         \* gas the default consumer charges for one signature
    Modes           \* the BaseApp modes this instance exercises

Addr == Abstract \cup External

\* A signature: the sequence its SignerInfo states; whether its data is a single
\* signature in a sign mode the handler supports or something else (a multi
\* signature, an unsupported mode); whether it verifies under the key of an
\* external account.
Sig == [sequence : Nat, data : {"single", "other"}, valid : BOOLEAN]

Tx == [signers : Seq(Addr), sigs : Seq(Sig)]

AllModes == {"check", "recheck", "simulate", "deliver"}

ASSUME TxFlowAssumption ==
    /\ Nil \notin Addr
    /\ Abstract \cap External = {}
    /\ Txs \subseteq Tx
    /\ Nil \notin Txs
    /\ \A t \in Txs : t.signers # <<>>
    /\ \A t \in Txs : \A i, j \in DOMAIN t.signers :
           t.signers[i] = t.signers[j] => i = j
    /\ NMsgs \in Nat \ {0}
    /\ GenesisParams \in Params /\ Validate(GenesisParams)
    /\ ParamsChoices \subseteq Params
    /\ HookGas \subseteq Nat
    /\ SigGas \in Nat
    /\ Modes \subseteq AllModes

VARIABLES
    committed,     \* the store of the last committed block
    deliverState,  \* BaseApp's deliver state
    checkState,    \* BaseApp's check state
    mempool,       \* transactions that passed CheckTx
    recheckQueue,  \* transactions CometBFT has yet to recheck
    phase,         \* where the running transaction is
    mode,          \* its mode
    tx,            \* the transaction
    work,          \* the store branch it runs on
    msgIndex,      \* the next message
    gasMeter,      \* authentication gas charged to the transaction's meter
    hookGas,       \* gas the account contract used in before_tx
    err            \* how the last transaction ended

stores == <<committed, deliverState, checkState>>
pool == <<mempool, recheckQueue>>
run == <<phase, mode, tx, work, msgIndex, gasMeter, hookGas>>
vars == <<stores, pool, run, err>>

TxId(t) == <<t.signers[1], t.sigs[1].sequence>>

Store == [signer : Abstract \cup {Nil},
          params : Params,
          seq    : [Addr -> Nat],
          before : [Abstract -> SUBSET Nat],
          after  : SUBSET (Abstract \X (Addr \X Nat)),
          done   : SUBSET ((Addr \X Nat) \X (1..NMsgs))]

GenesisStore ==
    [signer |-> Nil, params |-> GenesisParams,
     seq    |-> [a \in Addr |-> 0],
     before |-> [a \in Abstract |-> {}],
     after  |-> {}, done |-> {}]

Init ==
    /\ committed = GenesisStore
    /\ deliverState = GenesisStore
    /\ checkState = GenesisStore
    /\ mempool = {}
    /\ recheckQueue = {}
    /\ phase = "idle"
    /\ mode = "none"
    /\ tx = Nil
    /\ work = GenesisStore
    /\ msgIndex = 1
    /\ gasMeter = 0
    /\ hookGas = 0
    /\ err = "ok"

-----------------------------------------------------------------------------
(* BaseApp.runTx (external): branching and writing back the stores *)

\* A run starts on a branch of the state of its mode. CometBFT sends a new
\* CheckTx only after the rechecks of the last commit, and never for a
\* transaction it already holds.
Begin(t, m) ==
    /\ phase = "idle"
    /\ m = "check" => recheckQueue = {} /\ t \notin mempool
    /\ m = "recheck" => t \in recheckQueue
    /\ phase' = "ante"
    /\ mode' = m
    /\ tx' = t
    /\ work' = IF m = "deliver" THEN deliverState ELSE checkState
    /\ recheckQueue' = IF m = "recheck" THEN recheckQueue \ {t} ELSE recheckQueue
    /\ UNCHANGED <<stores, mempool, msgIndex, gasMeter, hookGas, err>>

\* The run is over; its branch is dropped. CometBFT keeps the transactions in
\* pooled; it forgets the others, rechecks still to come included.
EndRun(result, pooled) ==
    /\ err' = result
    /\ mempool' = pooled
    /\ recheckQueue' = recheckQueue \cap pooled
    /\ phase' = "idle"
    /\ mode' = "none"
    /\ tx' = Nil
    /\ work' = GenesisStore
    /\ msgIndex' = 1
    /\ gasMeter' = 0
    /\ hookGas' = 0

\* An error, or a panic that runTx recovers: what the AnteHandler already wrote
\* back stays, everything since is lost.
Abort(reason) ==
    /\ EndRun(reason, IF mode \in {"recheck", "deliver"} THEN mempool \ {tx}
                      ELSE mempool)
    /\ UNCHANGED stores

\* The PostHandler succeeded: only a delivered transaction writes its messages
\* back.
Complete(s) ==
    /\ EndRun("ok", CASE mode = "check"   -> mempool \cup {tx}
                      [] mode = "deliver" -> mempool \ {tx}
                      [] OTHER            -> mempool)
    /\ deliverState' = IF mode = "deliver" THEN s ELSE deliverState
    /\ UNCHANGED <<committed, checkState>>

\* The AnteHandler succeeded and left store s: it is written back at once,
\* except in a simulation, whose whole run is on a branch. CheckTx runs no
\* message but does run the PostHandler.
AntePassed(s) ==
    /\ work' = s
    /\ phase' = IF mode \in {"check", "recheck"} THEN "post" ELSE "msgs"
    /\ deliverState' = IF mode = "deliver" THEN s ELSE deliverState
    /\ checkState' = IF mode \in {"check", "recheck"} THEN s ELSE checkState
    /\ UNCHANGED <<committed, pool, mode, tx, msgIndex, err>>

-----------------------------------------------------------------------------
(* The AnteHandler (simapp/ante.go, ante.go) *)

\* ValidateBasicDecorator (external): a transaction has signatures, one for each
\* signer. A recheck skips it.
ValidateBasic(t, m) ==
    m # "recheck" => Len(t.sigs) > 0 /\ Len(t.sigs) = Len(t.signers)

\* Exactly one signer, exactly one signature, and that signer's account is an
\* AbstractAccount.
IsAbstractAccountTx(t) ==
    /\ Len(t.signers) = 1
    /\ Len(t.sigs) = 1
    /\ t.signers[1] \in Abstract

\* What SigGasConsumeDecorator charges: nothing for a NilPubKey, the default
\* consumer's fee for every other key.
SigVerificationGasConsumer(t) ==
    SigGas * Cardinality({i \in DOMAIN t.sigs : t.signers[i] \notin Abstract})

\* IncrementSequenceDecorator (external): every signer's sequence goes up by one.
IncrementSequence(s, t) ==
    [s EXCEPT !.seq = [a \in Addr |->
        IF \E i \in DOMAIN t.signers : t.signers[i] = a THEN @[a] + 1 ELSE @[a]]]

\* Mutant: the key of an AbstractAccount accepts any signature.
NilPubKeyAcceptsAll == "ok"

\* NilPubKey.VerifySignature, the key of every AbstractAccount, panics.
NilPubKeyVerifySignature == "panic"

\* What the default SigVerificationDecorator (external) makes of signature i: an
\* unsupported kind of signature is an error before any key is asked.
VerifySignature(t, i) ==
    IF t.sigs[i].data # "single" THEN "error"
    ELSE IF t.signers[i] \in Abstract THEN NilPubKeyVerifySignature
    ELSE IF t.sigs[i].valid THEN "ok" ELSE "error"

\* The sequence is always compared; the signature is not verified when
\* simulating or rechecking.
CheckSignature(s, t, m, i) ==
    IF t.sigs[i].sequence # s.seq[t.signers[i]] THEN "error"
    ELSE IF m \in {"simulate", "recheck"} THEN "ok"
    ELSE VerifySignature(t, i)

\* All signatures are accepted, or the first that is not decides.
SignaturesAccepted(s, t, m) ==
    /\ Len(t.sigs) = Len(t.signers)
    /\ \A i \in DOMAIN t.sigs : CheckSignature(s, t, m, i) = "ok"

SignatureFails(s, t, m, verdict) ==
    /\ Len(t.sigs) = Len(t.signers)
    /\ \E i \in DOMAIN t.sigs :
          /\ CheckSignature(s, t, m, i) = verdict
          /\ \A j \in 1..(i - 1) : CheckSignature(s, t, m, j) = "ok"

\* Mutant: the sequence just used is let in again.
SequenceWithinOne(s, t) ==
    s.seq[t.signers[1]] \in t.sigs[1].sequence..(t.sigs[1].sequence + 1)

\* What BeforeTxDecorator requires of an AA transaction before it calls the
\* contract: the account's sequence, and a single signature to pass on as the
\* credential (prepareCredentials).
SequenceMatches(s, t) == t.sigs[1].sequence = s.seq[t.signers[1]]

PreparesCredentials(t) == t.sigs[1].data = "single"

\* sudoWithGasLimit: the call gets a meter of its own, and going past its limit
\* panics.
WithinGasLimit(g, maxGas) == g <= maxGas

\* Mutant: the signer address is saved only if none is there.
BeforeTxKeepsSigner(s, t) ==
    LET a == t.signers[1]
        saved == IF GetSignerAddress(s) = Nil THEN SetSignerAddress(s, a) ELSE s
    IN  IncrementSequence(
            [saved EXCEPT !.before[a] = @ \cup {t.sigs[1].sequence}], t)

\* The store once the AA transaction t has been accepted by its contract and the
\* decorators after it have run.
BeforeTx(s, t) ==
    LET a == t.signers[1]
        accepted == [SetSignerAddress(s, a) EXCEPT
                        !.before[a] = @ \cup {t.sigs[1].sequence}]
    IN  IncrementSequence(accepted, t)

\* A decorator before BeforeTxDecorator refuses (external): timeout height, memo,
\* gas for the size, fees, the number of signatures.
AnteChainRejects ==
    /\ phase = "ante"
    /\ Abort("ante")

ValidateBasicRejects ==
    /\ phase = "ante"
    /\ ~ValidateBasic(tx, mode)
    /\ Abort("signatures")

ReachesBeforeTx ==
    /\ phase = "ante"
    /\ ValidateBasic(tx, mode)

BeforeTxWrongSequence ==
    /\ ReachesBeforeTx
    /\ IsAbstractAccountTx(tx)
    /\ ~SequenceMatches(work, tx)
    /\ Abort("sequence")

BeforeTxNotSingleSignature ==
    /\ ReachesBeforeTx
    /\ IsAbstractAccountTx(tx)
    /\ SequenceMatches(work, tx)
    /\ ~PreparesCredentials(tx)
    /\ Abort("credentials")

\* The contract may accept or refuse whatever it is given.
CallsBeforeTx ==
    /\ ReachesBeforeTx
    /\ IsAbstractAccountTx(tx)
    /\ SequenceMatches(work, tx)
    /\ PreparesCredentials(tx)

BeforeTxFails ==
    /\ CallsBeforeTx
    /\ Abort("contract")

BeforeTxOutOfGas(g) ==
    /\ CallsBeforeTx
    /\ ~WithinGasLimit(g, work.params.maxGasBefore)
    /\ Abort("outOfGas")

BeforeTxAccepts(g) ==
    /\ CallsBeforeTx
    /\ WithinGasLimit(g, work.params.maxGasBefore)
    /\ AntePassed(BeforeTx(work, tx))
    /\ hookGas' = g
    /\ gasMeter' = SigVerificationGasConsumer(tx)

\* Any other transaction is left to the default SigVerificationDecorator.
DefaultSigVerificationAccepts ==
    /\ ReachesBeforeTx
    /\ ~IsAbstractAccountTx(tx)
    /\ SignaturesAccepted(work, tx, mode)
    /\ AntePassed(IncrementSequence(work, tx))
    /\ gasMeter' = SigVerificationGasConsumer(tx)
    /\ UNCHANGED hookGas

DefaultSigVerificationRejects ==
    /\ ReachesBeforeTx
    /\ ~IsAbstractAccountTx(tx)
    /\ \/ Len(tx.sigs) # Len(tx.signers)
       \/ SignatureFails(work, tx, mode, "error")
    /\ Abort("signatures")

NilPubKeyPanics ==
    /\ ReachesBeforeTx
    /\ ~IsAbstractAccountTx(tx)
    /\ SignatureFails(work, tx, mode, "panic")
    /\ Abort("nilPubKeyPanic")

AnteStep ==
    \/ AnteChainRejects
    \/ ValidateBasicRejects
    \/ BeforeTxWrongSequence
    \/ BeforeTxNotSingleSignature
    \/ BeforeTxFails
    \/ \E g \in HookGas : BeforeTxOutOfGas(g)
    \/ \E g \in HookGas : BeforeTxAccepts(g)
    \/ DefaultSigVerificationAccepts
    \/ DefaultSigVerificationRejects
    \/ NilPubKeyPanics

-----------------------------------------------------------------------------
(* The messages: BaseApp.runMsgs (external) and msgServer.UpdateParams *)

\* Message i of the transaction took effect and left store s.
MsgDone(s) ==
    /\ phase = "msgs"
    /\ work' = [s EXCEPT !.done = @ \cup {<<TxId(tx), msgIndex>>}]
    /\ phase' = IF msgIndex = NMsgs THEN "post" ELSE "msgs"
    /\ msgIndex' = IF msgIndex = NMsgs THEN 1 ELSE msgIndex + 1
    /\ UNCHANGED <<stores, pool, mode, tx, gasMeter, hookGas, err>>

MsgSucceeds == MsgDone(work)

UpdateParams(p) ==
    /\ \E i \in DOMAIN tx.signers : CanUpdateParams(tx.signers[i], p)
    /\ MsgDone(SetParams(work, p))

MsgFails ==
    /\ phase = "msgs"
    /\ Abort("message")

MsgStep ==
    \/ MsgSucceeds
    \/ phase = "msgs" /\ \E p \in ParamsChoices : UpdateParams(p)
    \/ MsgFails

-----------------------------------------------------------------------------
(* The PostHandler (ante.go) *)

\* Mutant: the saved address is not deleted.
AfterTxKeepsSigner(s, t) ==
    [s EXCEPT !.after = @ \cup {<<GetSignerAddress(s), TxId(t)>>}]

\* The store once the contract at the saved address has accepted after_tx.
AfterTx(s, t) ==
    LET c == GetSignerAddress(s)
    IN  [DeleteSignerAddress(s) EXCEPT !.after = @ \cup {<<c, TxId(t)>>}]

\* No address saved: "this tx is simply not an AA tx. we skip".
AfterTxSkips ==
    /\ phase = "post"
    /\ GetSignerAddress(work) = Nil
    /\ Complete(work)

\* Mutant: after_tx is called without asking whether an address was saved.
CallsAfterTxAlways == phase = "post"

CallsAfterTx ==
    /\ phase = "post"
    /\ GetSignerAddress(work) # Nil

AfterTxAccepts(g) ==
    /\ CallsAfterTx
    /\ WithinGasLimit(g, work.params.maxGasAfter)
    /\ Complete(AfterTx(work, tx))

\* Mutant: an error of after_tx is not passed on.
AfterTxErrorIgnored ==
    /\ CallsAfterTx
    /\ Complete(DeleteSignerAddress(work))

AfterTxFails ==
    /\ CallsAfterTx
    /\ Abort("contract")

AfterTxOutOfGas(g) ==
    /\ CallsAfterTx
    /\ ~WithinGasLimit(g, work.params.maxGasAfter)
    /\ Abort("outOfGas")

PostStep ==
    \/ AfterTxSkips
    \/ \E g \in HookGas : AfterTxAccepts(g)
    \/ AfterTxFails
    \/ \E g \in HookGas : AfterTxOutOfGas(g)

-----------------------------------------------------------------------------
(* Blocks and restarts (external) *)

\* Commit makes the deliver state the committed one and restarts the check state
\* from it; what is left of the mempool is checked again.
Commit ==
    /\ phase = "idle"
    /\ committed' = deliverState
    /\ checkState' = deliverState
    /\ recheckQueue' = mempool
    /\ UNCHANGED <<deliverState, mempool, run, err>>

\* The node stops at any point and starts again from the last commit, with an
\* empty mempool.
Crash ==
    /\ deliverState' = committed
    /\ checkState' = committed
    /\ mempool' = {}
    /\ recheckQueue' = {}
    /\ phase' = "idle"
    /\ mode' = "none"
    /\ tx' = Nil
    /\ work' = GenesisStore
    /\ msgIndex' = 1
    /\ gasMeter' = 0
    /\ hookGas' = 0
    /\ err' = "ok"
    /\ UNCHANGED committed

-----------------------------------------------------------------------------
RunStep == AnteStep \/ MsgStep \/ PostStep

Next ==
    \/ \E t \in Txs, m \in Modes : Begin(t, m)
    \/ RunStep
    \/ Commit
    \/ Crash

Spec == Init /\ [][Next]_vars

\* A transaction that is running comes to its end; blocks keep being committed;
\* and CometBFT, whose mempool connection serves requests in order, gets to every
\* recheck it has queued.
Fairness ==
    /\ WF_vars(RunStep)
    /\ SF_vars(Commit)
    /\ \A t \in Txs : SF_vars("recheck" \in Modes /\ Begin(t, "recheck"))

LiveSpec == Spec /\ Fairness

-----------------------------------------------------------------------------
(* Type correctness *)

\* Between transactions nothing is running; a transaction past its AnteHandler has
\* a signature for every signer.
TypeOK ==
    /\ committed \in Store
    /\ deliverState \in Store
    /\ checkState \in Store
    /\ mempool \subseteq Txs
    /\ recheckQueue \subseteq mempool
    /\ phase \in {"idle", "ante", "msgs", "post"}
    /\ mode \in IF phase = "idle" THEN {"none"}
                ELSE IF phase = "msgs" THEN {"deliver", "simulate"} ELSE AllModes
    /\ tx \in IF phase = "idle" THEN {Nil} ELSE Txs
    /\ phase \in {"msgs", "post"} => Len(tx.sigs) = Len(tx.signers)
    /\ work \in Store
    /\ msgIndex \in 1..NMsgs
    /\ gasMeter \in Nat
    /\ hookGas \in Nat
    /\ err \in {"ok", "ante", "signatures", "sequence", "credentials", "contract",
                "outOfGas", "nilPubKeyPanic", "message"}

-----------------------------------------------------------------------------
(* Safety *)

Stores == {committed, deliverState, checkState}

SequenceCountsBeforeTx(s) ==
    \A a \in Abstract : s.before[a] = 0..(s.seq[a] - 1)

\* In every state the node keeps, the sequence of an AbstractAccount counts
\* exactly the before_tx calls its contract accepted, one for each number: no
\* transaction uses up a sequence the contract did not authenticate (not even a
\* multi-signer transaction, whose recheck verifies no signature), and none is
\* authenticated for a sequence that is not its turn, so nothing is replayed.
SequenceAuthenticated == \A s \in Stores : SequenceCountsBeforeTx(s)

AllOf(s, id) ==
    id[1] \in Abstract =>
        /\ \A i \in 1..NMsgs : <<id, i>> \in s.done
        /\ id[2] \in s.before[id[1]]
        /\ <<id[1], id>> \in s.after

\* The messages of an AA transaction are atomic with its two hooks: as soon as
\* one of them is in a state the node keeps, so are all the others, the before_tx
\* of the same account for that sequence, and its after_tx ("only if both
\* before_tx and ALL messages were executed successfully").
AbstractTxAtomic == \A s \in Stores : \A d \in s.done : AllOf(s, d[1])

SignerOfFailedTx(s) ==
    s.signer # Nil =>
        /\ s.seq[s.signer] > 0
        /\ \A i \in 1..NMsgs :
               <<<<s.signer, s.seq[s.signer] - 1>>, i>> \notin s.done

\* A signer address that outlives its transaction in the module store is that of
\* an AbstractAccount whose latest transaction passed before_tx and left none of
\* its messages behind.
LeftoverSigner == \A s \in Stores : SignerOfFailedTx(s)

OwnAfterTx(s) == \A f \in s.after : f[2][1] \in Abstract => f[1] = f[2][1]

\* An AA transaction calls no account's after_tx but its own, whatever address
\* earlier transactions left in the store.
AfterTxOfOwnAccount == \A s \in Stores : OwnAfterTx(s)

SignsAlone(t) ==
    \A i \in DOMAIN t.signers : t.signers[i] \in Abstract => IsAbstractAccountTx(t)

\* The mempool never holds a transaction that needs the signature of an
\* AbstractAccount next to others: such a transaction cannot be authenticated, and
\* the rechecks, which verify nothing, would let it use up the account's sequence.
MempoolAuthenticated == \A t \in mempool : SignsAlone(t)

-----------------------------------------------------------------------------
(* Liveness, of LiveSpec *)

Stale(t) == committed.seq[t.signers[1]] > t.sigs[1].sequence

\* A transaction in the mempool whose sequence a committed block has used up is
\* eventually evicted: the recheck runs BeforeTxDecorator, which compares the
\* sequence again.
StaleTxEvicted ==
    \A t \in Txs : t \in mempool /\ Stale(t) ~> t \notin mempool

-----------------------------------------------------------------------------
(* What the code's comments and README say and the code does not do *)

\* README, "the after_tx method is called only if both before_tx and ALL messages
\* were executed successfully", and AfterTxDecorator's "if not found, it means this
\* tx is simply not an AA tx": after_tx is called only in the account's own
\* transaction.
AfterTxOnlyInOwnTx ==
    \A f \in deliverState.after : f[1] = f[2][1]

\* SigVerificationGasConsumer charges nothing for a NilPubKey because "the contract
\* execution consumes it": what before_tx used is on the transaction's meter.
ContractGasIsCharged == phase \in {"msgs", "post"} => gasMeter >= hookGas
=============================================================================
