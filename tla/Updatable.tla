----------------------------- MODULE Updatable ------------------------------
(***************************************************************************)
(* An account of the account-updatable contract on a node: account-base    *)
(* authenticates its transactions with one key, and the account may        *)
(* replace that key while transactions signed with the old one wait in the *)
(* mempool.                                                                *)
(*                                                                         *)
(* Keys are opaque. The contract stores any bytes as its key, so some keys *)
(* are none: the curve library refuses to verify anything with them.       *)
(***************************************************************************)
EXTENDS Integers, Sequences, FiniteSets

CONSTANTS
    Nil,         \* no credential; no new key
    Keys,        \* public keys secp256k1_verify can work with
    BadKeys,     \* byte strings that are no public key
    Self,        \* the account
    Others,      \* whoever else may call it: accounts, contracts
    GenesisKey,  \* the key it was instantiated with
    Txs          \* the transactions of the account

\* A message of a transaction: a call of update_pubkey by caller, or something else
\* (new_pubkey = Nil). The caller is not the account if the account's message goes
\* to a contract that calls back.
Message == [caller : {Self} \cup Others, new_pubkey : Keys \cup BadKeys \cup {Nil}]

\* credential is the key the transaction was signed with; an empty signature is left
\* out of the call of the contract and is Nil.
Tx == [sequence : Nat, credential : Keys \cup {Nil}, msgs : Seq(Message)]

ASSUME UpdatableAssumption ==
    /\ Keys \cap BadKeys = {}
    /\ Nil \notin Keys \cup BadKeys
    /\ Self \notin Others
    /\ GenesisKey \in Keys \cup BadKeys
    /\ Txs \subseteq Tx

VARIABLES
    committed,     \* the account in the last committed block
    deliverState,  \* in the block being executed
    checkState,    \* in the state CheckTx works on
    mempool,
    recheckQueue,  \* transactions CometBFT has yet to recheck
    result         \* how the last call ended

stores == <<committed, deliverState, checkState>>
vars == <<stores, mempool, recheckQueue, result>>

\* history: for every transaction before_tx accepted the key it was signed with and
\* the last key its messages installed, if they took effect.
Store == [PUBKEY : Keys \cup BadKeys, seq : Nat,
          history : Seq([credential : Keys, installs : Keys \cup BadKeys \cup {Nil}])]

-----------------------------------------------------------------------------
(* The contract *)

\* init: the key is not looked at.
Instantiated(pubkey) == [PUBKEY |-> pubkey, seq |-> 0, history |-> <<>>]

\* Api.secp256k1_verify (external): true, false, or an error.
secp256k1_verify(credential, pubkey) ==
    IF pubkey \in BadKeys THEN "error"
    ELSE IF credential = pubkey THEN "true" ELSE "false"

\* Mutant: an error of the curve library passes for a success.
before_tx_IgnoresErrors(pubkey, credential, simulate) ==
    IF simulate THEN "ok"
    ELSE IF credential = Nil THEN "SignatureNotFound"
    ELSE IF secp256k1_verify(credential, pubkey) = "false" THEN "InvalidSignature"
    ELSE "ok"

before_tx(pubkey, credential, simulate) ==
    IF simulate THEN "ok"
    ELSE IF credential = Nil THEN "SignatureNotFound"
    ELSE CASE secp256k1_verify(credential, pubkey) = "error" -> "VerificationError"
           [] secp256k1_verify(credential, pubkey) = "false" -> "InvalidSignature"
           [] secp256k1_verify(credential, pubkey) = "true"  -> "ok"

\* Mutant: whoever calls is taken for the account.
AnybodyIsSelf(sender) == TRUE

assert_self(sender) == sender = Self

\* execute: the key after the call, if the call succeeds. A message for another
\* contract leaves it alone.
CanExecute(m) == m.new_pubkey # Nil => assert_self(m.caller)

\* Mutant: an absent key is saved like any other.
update_pubkey_SavesNil(pubkey, m) == m.new_pubkey

update_pubkey(pubkey, m) == IF m.new_pubkey = Nil THEN pubkey ELSE m.new_pubkey

\* The messages run one after the other.
KeyAfter(pubkey, msgs) ==
    LET after[n \in 0..Len(msgs)] ==
            IF n = 0 THEN pubkey ELSE update_pubkey(after[n - 1], msgs[n])
    IN  after[Len(msgs)]

-----------------------------------------------------------------------------
(* BeforeTxDecorator and BaseApp around it *)

\* Mutant: a recheck does not have the contract verify the signature again, as the
\* default SigVerificationDecorator does not.
RecheckSimulates(mode) == mode \in {"simulate", "recheck"}

\* The simulate flag the contract is given.
Simulates(mode) == mode = "simulate"

\* The AnteHandler accepts t on store s.
Authenticated(s, t, mode) ==
    /\ t.sequence = s.seq
    /\ before_tx(s.PUBKEY, t.credential, Simulates(mode)) = "ok"

\* The store the AnteHandler leaves behind.
AfterAnte(s, t) ==
    [s EXCEPT !.seq = @ + 1,
              !.history = Append(@, [credential |-> t.credential, installs |-> Nil])]

\* And the one the messages and after_tx, which accepts everything, leave.
AfterMsgs(s, t) ==
    LET ante == AfterAnte(s, t)
    IN  [ante EXCEPT !.PUBKEY = KeyAfter(s.PUBKEY, t.msgs),
                     !.history[Len(ante.history)].installs = KeyAfter(Nil, t.msgs)]

Init ==
    /\ committed = Instantiated(GenesisKey)
    /\ deliverState = committed
    /\ checkState = committed
    /\ mempool = {}
    /\ recheckQueue = {}
    /\ result = "ok"

\* CheckTx and its answer: the messages are not run.
CheckTx(t) ==
    /\ recheckQueue = {} /\ t \notin mempool
    /\ IF Authenticated(checkState, t, "check")
       THEN /\ checkState' = AfterAnte(checkState, t)
            /\ mempool' = mempool \cup {t}
            /\ result' = "ok"
       ELSE /\ UNCHANGED <<checkState, mempool>>
            /\ result' = "refused"
    /\ UNCHANGED <<committed, deliverState, recheckQueue>>

Recheck(t) ==
    /\ t \in recheckQueue
    /\ recheckQueue' = recheckQueue \ {t}
    /\ IF Authenticated(checkState, t, "recheck")
       THEN /\ checkState' = AfterAnte(checkState, t)
            /\ UNCHANGED mempool
            /\ result' = "ok"
       ELSE /\ mempool' = mempool \ {t}
            /\ UNCHANGED checkState
            /\ result' = "refused"
    /\ UNCHANGED <<committed, deliverState>>

\* A simulation of the whole transaction, on a branch that is dropped.
Simulate(t) ==
    /\ result' = IF /\ Authenticated(checkState, t, "simulate")
                    /\ \A i \in DOMAIN t.msgs : CanExecute(t.msgs[i])
                 THEN "ok" ELSE "refused"
    /\ UNCHANGED <<stores, mempool, recheckQueue>>

\* The transaction is in a block, whoever proposed it: it need not be in the
\* mempool of this node.
Delivered(t) ==
    /\ mempool' = mempool \ {t}
    /\ recheckQueue' = recheckQueue \ {t}
    /\ UNCHANGED <<committed, checkState>>

DeliverRefused(t) ==
    /\ ~Authenticated(deliverState, t, "deliver")
    /\ result' = "refused"
    /\ UNCHANGED deliverState
    /\ Delivered(t)

\* A message fails, update_pubkey or another one, or gas runs out: all messages are
\* undone, the AnteHandler's work stays.
DeliverFails(t) ==
    /\ Authenticated(deliverState, t, "deliver")
    /\ deliverState' = AfterAnte(deliverState, t)
    /\ result' = "failed"
    /\ Delivered(t)

DeliverSucceeds(t) ==
    /\ Authenticated(deliverState, t, "deliver")
    /\ \A i \in DOMAIN t.msgs : CanExecute(t.msgs[i])
    /\ deliverState' = AfterMsgs(deliverState, t)
    /\ result' = "ok"
    /\ Delivered(t)

\* Somebody else's transaction calls the contract.
OtherExecutes(m) ==
    /\ IF CanExecute(m)
       THEN /\ deliverState' = [deliverState EXCEPT !.PUBKEY = update_pubkey(@, m)]
            /\ result' = "ok"
       ELSE /\ UNCHANGED deliverState
            /\ result' = "Unauthorized"
    /\ UNCHANGED <<committed, checkState, mempool, recheckQueue>>

Commit ==
    /\ committed' = deliverState
    /\ checkState' = deliverState
    /\ recheckQueue' = mempool
    /\ UNCHANGED <<deliverState, mempool, result>>

Crash ==
    /\ deliverState' = committed
    /\ checkState' = committed
    /\ mempool' = {}
    /\ recheckQueue' = {}
    /\ result' = "ok"
    /\ UNCHANGED committed

Next ==
    \/ \E t \in Txs :
          \/ CheckTx(t)
          \/ Recheck(t)
          \/ Simulate(t)
          \/ DeliverRefused(t)
          \/ DeliverFails(t)
          \/ DeliverSucceeds(t)
    \/ \E o \in Others, k \in Keys \cup BadKeys :
          OtherExecutes([caller |-> o, new_pubkey |-> k])
    \/ Commit
    \/ Crash

Spec == Init /\ [][Next]_vars

\* CometBFT serves every recheck it has queued.
LiveSpec == Spec /\ \A t \in Txs : WF_vars(Recheck(t))

-----------------------------------------------------------------------------
(* Properties *)

TypeOK ==
    /\ committed \in Store /\ deliverState \in Store /\ checkState \in Store
    /\ mempool \subseteq Txs
    /\ recheckQueue \subseteq mempool
    /\ result \in {"ok", "refused", "failed", "Unauthorized"}

\* The key the account has after its first n transactions.
KeyInForce(s, n) ==
    LET rotations == {i \in 1..n : s.history[i].installs # Nil}
        last == CHOOSE i \in rotations : \A j \in rotations : j <= i
    IN  IF rotations = {} THEN GenesisKey ELSE s.history[last].installs

RotationsChain(s) ==
    /\ s.seq = Len(s.history)
    /\ s.PUBKEY = KeyInForce(s, s.seq)
    /\ \A n \in 1..s.seq : s.history[n].credential = KeyInForce(s, n - 1)

\* In every state of the node the keys form an unbroken chain: each transaction the
\* account ever accepted was signed with the key that the latest successful
\* update_pubkey before it had installed, and the present key is the last of them.
\* No failed transaction, nobody else's call and no simulation has installed a key.
KeysFormAChain == RotationsChain(committed) /\ RotationsChain(deliverState)
                      /\ RotationsChain(checkState)

\* What the mempool offers after its rechecks is signed with the key of the last
\* block: a transaction signed with a key that has been replaced does not survive.
MempoolSignedWithKey ==
    \A t \in mempool \ recheckQueue : t.credential = committed.PUBKEY

\* An account that has installed bytes that are no key has locked itself out:
\* update_pubkey takes them, and from the block on that commits them no
\* transaction of the account is ever accepted, not even one to repair it.
LockedOut ==
    [][committed.PUBKEY \in BadKeys => committed' = committed]_vars

\* A transaction signed with a key that a block has replaced leaves the mempool,
\* unless the key comes back first (of LiveSpec).
OldKeyTxEvicted ==
    \A t \in Txs :
        t \in mempool /\ t.credential # committed.PUBKEY
            ~> t \notin mempool \/ t.credential = committed.PUBKEY
=============================================================================
