------------------------------ MODULE AsymTotp ------------------------------
(***************************************************************************)
(* The account-asym-totp contract: a transaction needs the signature of    *)
(* the account key and a one-time password, the OTP key's signature of the *)
(* number of durations that have passed on the chain's clock.              *)
(*                                                                         *)
(* The contract runs on two stores with two clocks: CheckTx and the        *)
(* rechecks see the state and the time of the last committed block,        *)
(* DeliverTx those of the block being executed. One account is modelled,   *)
(* without its sequence number (TxFlow): what is said here rests on        *)
(* PREV_COUNT alone.                                                       *)
(***************************************************************************)
EXTENDS Integers, Sequences

CONSTANTS
    Nil,        \* no contract instantiated
    Txs,        \* the transactions clients may broadcast
    Durations,  \* duration_secs an InstantiateMsg may carry
    Ticks,      \* seconds between two blocks
    MaxTime     \* bound on the chain's clock

\* A transaction: whether the account key signed it (it did not if the credential is
\* missing or does not parse), and the count the OTP key signed for it.
Tx == [id : Nat, signed : BOOLEAN, otp : Nat]

Contract == [durationSecs : Nat \ {0}, prevCount : Nat]

ASSUME AsymTotpAssumption ==
    /\ Nil \notin Contract
    /\ Txs \subseteq Tx
    /\ Durations \subseteq Nat
    /\ Ticks \subseteq Nat \ {0}
    /\ MaxTime \in Nat

VARIABLES
    lastTime,      \* time of the last committed block
    blockTime,     \* time of the block being executed, lastTime between blocks
    deliverState,  \* the contract in the deliver state, or Nil
    checkState,    \* the contract in the check state, or Nil
    mempool,       \* transactions that passed CheckTx
    recheckQueue,  \* transactions CometBFT has yet to recheck
    accepted,      \* the delivered transactions before_tx accepted, in order
    simulation     \* what the last simulation returned

vars == <<lastTime, blockTime, deliverState, checkState, mempool, recheckQueue,
          accepted, simulation>>

InBlock == blockTime > lastTime

\* How many durations have passed since the UNIX epoch. The InstantiateMsg's
\* duration cannot be 0 once the contract exists (see Instantiate).
CountAt(c, time) == time \div c.durationSecs

Init ==
    /\ lastTime = 0
    /\ blockTime = 0
    /\ deliverState = Nil
    /\ checkState = Nil
    /\ mempool = {}
    /\ recheckQueue = {}
    /\ accepted = <<>>
    /\ simulation = "none"

-----------------------------------------------------------------------------
(* The contract *)

\* Mutant: the count of the current duration is taken for used.
InitialCountUsed(d, time) == time \div d

InitialCount(d, time) == (time \div d) - 1

\* Mutant: the subtraction is not checked.
DurationNotZero(d, time) == d > 0

\* The division by 0 and the subtraction below 0 panic (the release profile checks
\* overflows).
DurationUsable(d, time) == d > 0 /\ time >= d

\* init, in the transaction that registers the account, which fails on a panic.
Instantiate(d) ==
    /\ InBlock
    /\ deliverState = Nil
    /\ DurationUsable(d, blockTime)
    /\ deliverState' = [durationSecs |-> d, prevCount |-> InitialCount(d, blockTime)]
    /\ UNCHANGED <<lastTime, blockTime, checkState, mempool, recheckQueue,
                   accepted, simulation>>

\* Signature and OTP; a simulation verifies neither.
Verified(c, t, time, simulate) ==
    ~simulate => t.signed /\ t.otp = CountAt(c, time)

\* Mutant: the count last used will do again.
CountNotBelow(c, time) == c.prevCount <= CountAt(c, time)

\* "the count value of each tx must be strictly > prev_count"
CountIsNew(c, time) == c.prevCount < CountAt(c, time)

\* before_tx returns Ok. The store it then leaves is Used(c, time).
BeforeTx(c, t, time, simulate) ==
    /\ Verified(c, t, time, simulate)
    /\ CountIsNew(c, time)

\* Mutant: PREV_COUNT is checked but not saved.
UsedUnsaved(c, time) == c

Used(c, time) == [c EXCEPT !.prevCount = CountAt(c, time)]

-----------------------------------------------------------------------------
(* The chain (external): what BaseApp and CometBFT do around before_tx. A       *)
(* transaction that before_tx accepts has its store written back at once, and   *)
(* the contract has no execute method: whether the messages that follow succeed *)
(* makes no difference to it, and its after_tx always succeeds.                 *)

CheckTx(t) ==
    /\ checkState # Nil
    /\ recheckQueue = {}
    /\ t \notin mempool
    /\ BeforeTx(checkState, t, lastTime, FALSE)
    /\ checkState' = Used(checkState, lastTime)
    /\ mempool' = mempool \cup {t}
    /\ UNCHANGED <<lastTime, blockTime, deliverState, recheckQueue, accepted, simulation>>

Recheck(t) ==
    /\ t \in recheckQueue
    /\ recheckQueue' = recheckQueue \ {t}
    /\ IF BeforeTx(checkState, t, lastTime, FALSE)
       THEN /\ checkState' = Used(checkState, lastTime)
            /\ UNCHANGED mempool
       ELSE /\ mempool' = mempool \ {t}
            /\ UNCHANGED checkState
    /\ UNCHANGED <<lastTime, blockTime, deliverState, accepted, simulation>>

\* A simulation runs on a branch of the check state that is dropped.
Simulate(t) ==
    /\ checkState # Nil
    /\ simulation' = IF BeforeTx(checkState, t, lastTime, TRUE) THEN "ok" ELSE "failed"
    /\ UNCHANGED <<lastTime, blockTime, deliverState, checkState, mempool,
                   recheckQueue, accepted>>

\* A proposer may put any transaction into a block, checked or not.
DeliverAccepted(t) ==
    /\ InBlock
    /\ deliverState # Nil
    /\ BeforeTx(deliverState, t, blockTime, FALSE)
    /\ deliverState' = Used(deliverState, blockTime)
    /\ accepted' = Append(accepted, [tx |-> t, time |-> blockTime])
    /\ mempool' = mempool \ {t}
    /\ recheckQueue' = recheckQueue \ {t}
    /\ UNCHANGED <<lastTime, blockTime, checkState, simulation>>

\* before_tx refuses a transaction taken from the mempool: it is gone all the same.
DeliverRejected(t) ==
    /\ InBlock
    /\ t \in mempool
    /\ deliverState # Nil
    /\ ~BeforeTx(deliverState, t, blockTime, FALSE)
    /\ mempool' = mempool \ {t}
    /\ recheckQueue' = recheckQueue \ {t}
    /\ UNCHANGED <<lastTime, blockTime, deliverState, checkState, accepted, simulation>>

\* Block times grow.
BeginBlock(tick) ==
    /\ ~InBlock
    /\ blockTime + tick <= MaxTime
    /\ blockTime' = blockTime + tick
    /\ UNCHANGED <<lastTime, deliverState, checkState, mempool, recheckQueue,
                   accepted, simulation>>

Commit ==
    /\ InBlock
    /\ lastTime' = blockTime
    /\ checkState' = deliverState
    /\ recheckQueue' = mempool
    /\ UNCHANGED <<blockTime, deliverState, mempool, accepted, simulation>>

-----------------------------------------------------------------------------
Next ==
    \/ \E d \in Durations : Instantiate(d)
    \/ \E t \in Txs : CheckTx(t)
    \/ \E t \in Txs : Recheck(t)
    \/ \E t \in Txs : Simulate(t)
    \/ \E t \in Txs : DeliverAccepted(t)
    \/ \E t \in Txs : DeliverRejected(t)
    \/ \E tick \in Ticks : BeginBlock(tick)
    \/ Commit

Spec == Init /\ [][Next]_vars

-----------------------------------------------------------------------------
(* Properties *)

\* The contract exists in the check state only if it does in the deliver state,
\* and nothing is rechecked that is not in the mempool.
TypeOK ==
    /\ lastTime \in Nat
    /\ blockTime \in Nat
    /\ lastTime <= blockTime
    /\ deliverState \in Contract \cup {Nil}
    /\ checkState \in Contract \cup {Nil}
    /\ deliverState = Nil => checkState = Nil /\ accepted = <<>>
    /\ checkState = Nil => mempool = {}
    /\ mempool \subseteq Txs
    /\ recheckQueue \subseteq mempool
    /\ accepted \in Seq([tx : Txs, time : Nat])
    /\ simulation \in {"none", "ok", "failed"}

\* "To prevent reuse of the OTP, only one tx can be submitted per duration": no OTP
\* is accepted twice, not even for the same transaction, and every OTP is accepted
\* in its own duration only, over any number of blocks.
OTPNeverReused ==
    deliverState # Nil =>
        /\ \A i \in DOMAIN accepted :
               accepted[i].tx.otp = CountAt(deliverState, accepted[i].time)
        /\ \A i, j \in DOMAIN accepted :
               i < j => accepted[i].tx.otp < accepted[j].tx.otp

Current(n) == accepted # <<>> /\ accepted[Len(accepted)].tx.otp = n

\* The account is never locked out: the current duration counts as used only after
\* a transaction was accepted in it, also in the duration in which the contract was
\* instantiated.
NeverLockedOut ==
    deliverState # Nil =>
        LET now == CountAt(deliverState, blockTime)
        IN  /\ deliverState.prevCount <= now
            /\ deliverState.prevCount = now => Current(now)

\* Between the rechecks of one commit and the next commit, the mempool holds at
\* most one transaction of the account, with the OTP of the last committed block's
\* duration: CheckTx and the rechecks save PREV_COUNT as well, on the check state.
MempoolOneOTP ==
    recheckQueue = {} =>
        /\ \A t, u \in mempool : t = u
        /\ \A t \in mempool : t.otp = CountAt(checkState, lastTime)
=============================================================================
