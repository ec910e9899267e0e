--------------------------- MODULE AsymTotpProofs ---------------------------
(***************************************************************************)
(* Proofs about AsymTotp, for any transactions, durations and block times. *)
(***************************************************************************)
EXTENDS AsymTotp, TLAPS

-----------------------------------------------------------------------------
(* The count *)

\* Division of naturals, the way the contract divides seconds.
LEMMA DivNat ==
    ASSUME NEW n \in Nat, NEW d \in Nat \ {0}
    PROVE  /\ n \div d \in Nat
           /\ d * (n \div d) <= n
           /\ n < d * (n \div d) + d
    OBVIOUS

\* The count never goes back as time goes on.
LEMMA DivMonotonic ==
    ASSUME NEW m \in Nat, NEW n \in Nat, m <= n, NEW d \in Nat \ {0}
    PROVE  m \div d <= n \div d
<1> DEFINE q == m \div d
           r == n \div d
<1>1. /\ q \in Nat /\ r \in Nat
      /\ d * q <= m /\ n < d * r + d
    BY DivNat
<1> HIDE DEF q, r
<1>2. ASSUME r < q PROVE FALSE
    <2>1. PICK k \in Nat : q = r + 1 + k
        <3> DEFINE k == q - r - 1
        <3>1. k \in Nat /\ q = r + 1 + k
            BY <1>1, <1>2
        <3> QED
            BY <3>1
    <2>2. d * q = d * r + d + d * k
        BY <1>1, <2>1
    <2>3. d * k \in Nat /\ d * r \in Nat
        BY <1>1, <2>1
    <2> QED
        BY <1>1, <2>2, <2>3
<1>3. q <= r
    BY <1>1, <1>2
<1> QED
    BY <1>3 DEF q, r

\* The count at a time is a number.
LEMMA CountNat ==
    ASSUME NEW c \in Contract, NEW time \in Nat
    PROVE  CountAt(c, time) \in Nat
    BY DivNat DEF CountAt, Contract

\* It does not go down as time goes on.
LEMMA CountMonotonic ==
    ASSUME NEW c \in Contract, NEW m \in Nat, NEW n \in Nat, m <= n
    PROVE  CountAt(c, m) <= CountAt(c, n)
    BY DivMonotonic DEF CountAt, Contract

\* What before_tx leaves behind: the same duration, and the count it accepted.
LEMMA UsedCount ==
    ASSUME NEW c \in Contract, NEW time \in Nat
    PROVE  /\ Used(c, time) \in Contract
           /\ Used(c, time).durationSecs = c.durationSecs
           /\ Used(c, time).prevCount = CountAt(c, time)
           /\ \A n \in Nat : CountAt(Used(c, time), n) = CountAt(c, n)
<1>1. CountAt(c, time) \in Nat
    BY CountNat
<1> QED
    BY <1>1 DEF Used, Contract, CountAt

\* The elements of a sequence over S are in S.
LEMMA ElementOfSeq ==
    ASSUME NEW S, NEW s \in Seq(S)
    PROVE  \A i \in DOMAIN s : s[i] \in S
    OBVIOUS

-----------------------------------------------------------------------------
(* The inductive invariant *)

\* PREV_COUNT is the OTP accepted last, and what was accepted was accepted in its
\* own duration, in order.
AcceptedInv ==
    deliverState # Nil =>
        /\ \A i \in DOMAIN accepted :
               /\ accepted[i].tx.otp = CountAt(deliverState, accepted[i].time)
               /\ accepted[i].tx.otp <= deliverState.prevCount
        /\ \A i, j \in DOMAIN accepted :
               i < j => accepted[i].tx.otp < accepted[j].tx.otp
        /\ deliverState.prevCount <= CountAt(deliverState, blockTime)
        /\ \/ deliverState.prevCount < CountAt(deliverState, blockTime)
           \/ /\ accepted # <<>>
              /\ accepted[Len(accepted)].tx.otp = deliverState.prevCount

\* A checked transaction has the current OTP and has used it up on the check state.
CheckedInv ==
    checkState # Nil =>
        /\ \A t \in mempool \ recheckQueue :
               /\ t.otp = CountAt(checkState, lastTime)
               /\ checkState.prevCount = CountAt(checkState, lastTime)
        /\ \A t, u \in mempool \ recheckQueue : t = u

IInv == TypeOK /\ AcceptedInv /\ CheckedInv

-----------------------------------------------------------------------------
\* instantiate leaves a state of the right type.
LEMMA InitTypeOK == Init => TypeOK
    BY AsymTotpAssumption DEF Init, TypeOK

\* So does every step.
LEMMA NextTypeOK == TypeOK /\ [Next]_vars => TypeOK'
<1> SUFFICES ASSUME TypeOK, [Next]_vars
             PROVE  TypeOK'
    OBVIOUS
<1> USE AsymTotpAssumption DEF TypeOK
<1>1. ASSUME NEW d \in Durations, Instantiate(d)
      PROVE  TypeOK'
    <2>1. d \in Nat \ {0} /\ InitialCount(d, blockTime) \in Nat
        <3>1. d \in Nat \ {0} /\ d <= blockTime
            BY <1>1 DEF Instantiate, DurationUsable
        <3>2. blockTime \div d \in Nat /\ d \div d <= blockTime \div d
            BY <3>1, DivNat, DivMonotonic
        <3>3. d \div d = 1
            BY <3>1
        <3> QED
            BY <3>1, <3>2, <3>3 DEF InitialCount
    <2> QED
        BY <1>1, <2>1 DEF Instantiate, Contract
<1>2. ASSUME NEW t \in Txs, CheckTx(t)
      PROVE  TypeOK'
    BY <1>2, UsedCount DEF CheckTx
<1>3. ASSUME NEW t \in Txs, Recheck(t)
      PROVE  TypeOK'
    <2>1. checkState \in Contract
        BY <1>3 DEF Recheck
    <2> QED
        BY <1>3, <2>1, UsedCount DEF Recheck
<1>4. ASSUME NEW t \in Txs, Simulate(t)
      PROVE  TypeOK'
    BY <1>4 DEF Simulate
<1>5. ASSUME NEW t \in Txs, DeliverAccepted(t)
      PROVE  TypeOK'
    <2>1. Used(deliverState, blockTime) \in Contract
        BY <1>5, UsedCount DEF DeliverAccepted
    <2>2. Append(accepted, [tx |-> t, time |-> blockTime]) \in Seq([tx : Txs, time : Nat])
        OBVIOUS
    <2> QED
        BY <1>5, <2>1, <2>2 DEF DeliverAccepted
<1>6. ASSUME NEW t \in Txs, DeliverRejected(t)
      PROVE  TypeOK'
    BY <1>6 DEF DeliverRejected
<1>7. ASSUME NEW tick \in Ticks, BeginBlock(tick)
      PROVE  TypeOK'
    BY <1>7 DEF BeginBlock
<1>8. CASE Commit
    BY <1>8 DEF Commit
<1>9. CASE UNCHANGED vars
    BY <1>9 DEF vars
<1> QED
    BY <1>1, <1>2, <1>3, <1>4, <1>5, <1>6, <1>7, <1>8, <1>9 DEF Next

\* instantiate establishes the invariant.
LEMMA InitIInv == Init => IInv
    BY InitTypeOK DEF Init, IInv, AcceptedInv, CheckedInv

\* Only a delivered transaction, the instantiation and the clock touch AcceptedInv.
LEMMA NextAccepted == IInv /\ [Next]_vars => AcceptedInv'
<1> SUFFICES ASSUME IInv, [Next]_vars
             PROVE  AcceptedInv'
    OBVIOUS
<1>0. TypeOK /\ TypeOK'
    BY NextTypeOK DEF IInv
<1>1. ASSUME UNCHANGED <<blockTime, deliverState, accepted>>
      PROVE  AcceptedInv'
    BY <1>1 DEF IInv, AcceptedInv, CountAt
<1>2. ASSUME NEW d \in Durations, Instantiate(d)
      PROVE  AcceptedInv'
    <2>1. /\ deliverState' = [durationSecs |-> d, prevCount |-> (blockTime \div d) - 1]
          /\ accepted' = <<>> /\ blockTime' = blockTime
          /\ d \in Nat \ {0}
        BY <1>0, <1>2, AsymTotpAssumption
        DEF Instantiate, InitialCount, DurationUsable, TypeOK
    <2>2. CountAt(deliverState, blockTime)' = blockTime \div d
        BY <2>1 DEF CountAt
    <2>3. blockTime \div d \in Nat
        BY <1>0, <2>1, DivNat DEF TypeOK
    <2> QED
        BY <2>1, <2>2, <2>3 DEF AcceptedInv
<1>3. ASSUME NEW t \in Txs, DeliverAccepted(t)
      PROVE  AcceptedInv'
    <2> DEFINE c == deliverState
               n == CountAt(deliverState, blockTime)
    <2>1. /\ c \in Contract /\ blockTime \in Nat
          /\ accepted \in Seq([tx : Txs, time : Nat])
          /\ deliverState' = Used(c, blockTime)
          /\ accepted' = Append(accepted, [tx |-> t, time |-> blockTime])
          /\ blockTime' = blockTime
          /\ t.otp = n /\ c.prevCount < n /\ c.prevCount \in Nat /\ n \in Nat
        BY <1>0, <1>3, CountNat
        DEF DeliverAccepted, TypeOK, BeforeTx, Verified, CountIsNew, Contract
    <2>2. /\ deliverState'.prevCount = n
          /\ \A k \in Nat : CountAt(deliverState', k) = CountAt(c, k)
        BY <2>1, UsedCount
    <2>3. /\ Len(accepted') = Len(accepted) + 1
          /\ accepted'[Len(accepted) + 1] = [tx |-> t, time |-> blockTime]
          /\ \A i \in DOMAIN accepted : accepted'[i] = accepted[i]
          /\ DOMAIN accepted = 1..Len(accepted)
          /\ DOMAIN accepted' = 1..(Len(accepted) + 1)
          /\ Len(accepted) \in Nat
        BY <2>1
    <2>4. \A i \in DOMAIN accepted :
              /\ accepted[i].time \in Nat
              /\ accepted[i].tx.otp \in Nat
        <3>1. \A i \in DOMAIN accepted : accepted[i] \in [tx : Txs, time : Nat]
            BY <2>1, ElementOfSeq
        <3>2. \A u \in Txs : u.otp \in Nat
            BY AsymTotpAssumption DEF Tx
        <3> QED
            BY <3>1, <3>2
    <2>5. \A i \in DOMAIN accepted' :
              /\ accepted'[i].tx.otp = CountAt(deliverState', accepted'[i].time)
              /\ accepted'[i].tx.otp <= n
        <3>1. ASSUME NEW i \in DOMAIN accepted
              PROVE  /\ accepted'[i].tx.otp = CountAt(deliverState', accepted'[i].time)
                     /\ accepted'[i].tx.otp <= n
            <4>1. /\ accepted[i].tx.otp = CountAt(c, accepted[i].time)
                  /\ accepted[i].tx.otp <= c.prevCount
                BY <2>1, AsymTotpAssumption DEF IInv, AcceptedInv
            <4> QED
                BY <4>1, <2>1, <2>2, <2>3, <2>4
        <3>2. /\ t.otp = CountAt(deliverState', blockTime)
              /\ t.otp <= n
            BY <2>1, <2>2
        <3> QED
            BY <2>3, <3>1, <3>2
    <2>6. \A i, j \in DOMAIN accepted' :
              i < j => accepted'[i].tx.otp < accepted'[j].tx.otp
        <3>1. /\ \A i, j \in DOMAIN accepted :
                     i < j => accepted[i].tx.otp < accepted[j].tx.otp
              /\ \A i \in DOMAIN accepted : accepted[i].tx.otp < n
            BY <2>1, <2>4, AsymTotpAssumption DEF IInv, AcceptedInv
        <3>2. accepted'[Len(accepted) + 1].tx.otp = n
            BY <2>1, <2>3
        <3> QED
            BY <3>1, <3>2, <2>3
    <2>7. CountAt(deliverState, blockTime)' = n
        BY <2>1, <2>2
    <2> QED
        BY <2>1, <2>2, <2>3, <2>5, <2>6, <2>7 DEF AcceptedInv
<1>4. ASSUME NEW tick \in Ticks, BeginBlock(tick)
      PROVE  AcceptedInv'
    <2>1. CASE deliverState = Nil
        BY <1>4, <2>1 DEF BeginBlock, AcceptedInv
    <2>2. CASE deliverState # Nil
        <3>1. /\ deliverState \in Contract /\ blockTime \in Nat /\ blockTime' \in Nat
              /\ blockTime <= blockTime'
              /\ UNCHANGED <<deliverState, accepted>>
            BY <1>0, <1>4, <2>2, AsymTotpAssumption DEF BeginBlock, TypeOK
        <3>2. CountAt(deliverState, blockTime) <= CountAt(deliverState, blockTime')
            BY <3>1, CountMonotonic
        <3>3. /\ CountAt(deliverState, blockTime) \in Nat
              /\ CountAt(deliverState, blockTime') \in Nat
              /\ deliverState.prevCount \in Nat
            BY <3>1, CountNat DEF Contract
        <3>4. /\ CountAt(deliverState, blockTime)' = CountAt(deliverState, blockTime')
              /\ \A k \in Nat : CountAt(deliverState', k) = CountAt(deliverState, k)
            BY <3>1 DEF CountAt
        <3> QED
            BY <2>2, <3>1, <3>2, <3>3, <3>4 DEF IInv, AcceptedInv
    <2> QED
        BY <2>1, <2>2
<1> QED
    BY <1>1, <1>2, <1>3, <1>4
    DEF Next, vars, CheckTx, Recheck, Simulate, DeliverRejected, Commit

\* A new OTP is accepted on the check state only if no checked transaction is left.
LEMMA NextChecked == IInv /\ [Next]_vars => CheckedInv'
<1> SUFFICES ASSUME IInv, [Next]_vars
             PROVE  CheckedInv'
    OBVIOUS
<1>0. TypeOK /\ TypeOK'
    BY NextTypeOK DEF IInv
<1>1. ASSUME UNCHANGED <<lastTime, checkState>>,
             (mempool \ recheckQueue)' \subseteq mempool \ recheckQueue
      PROVE  CheckedInv'
    BY <1>1 DEF IInv, CheckedInv, CountAt
<1>2. ASSUME NEW t \in Txs,
             checkState # Nil,
             BeforeTx(checkState, t, lastTime, FALSE),
             checkState' = Used(checkState, lastTime),
             lastTime' = lastTime,
             (mempool \ recheckQueue)' \subseteq (mempool \ recheckQueue) \cup {t}
      PROVE  CheckedInv'
    <2>1. /\ checkState \in Contract /\ lastTime \in Nat
          /\ checkState.prevCount \in Nat
          /\ CountAt(checkState, lastTime) \in Nat
          /\ t.otp = CountAt(checkState, lastTime)
          /\ checkState.prevCount < CountAt(checkState, lastTime)
        BY <1>0, <1>2, CountNat
        DEF TypeOK, BeforeTx, Verified, CountIsNew, Contract
    <2>2. mempool \ recheckQueue = {}
        BY <1>2, <2>1 DEF IInv, CheckedInv
    <2>3. /\ checkState'.prevCount = CountAt(checkState, lastTime)
          /\ CountAt(checkState, lastTime)' = CountAt(checkState, lastTime)
        BY <1>2, <2>1, UsedCount
    <2> QED
        BY <1>2, <2>1, <2>2, <2>3 DEF CheckedInv
<1>3. ASSUME NEW t \in Txs, Recheck(t)
      PROVE  CheckedInv'
    <2>1. checkState # Nil /\ t \in mempool
        BY <1>0, <1>3 DEF Recheck, TypeOK
    <2> QED
        BY <1>1, <1>2, <1>3, <2>1 DEF Recheck
<1>4. CASE Commit
    BY <1>4 DEF Commit, CheckedInv
<1> QED
    BY <1>1, <1>2, <1>3, <1>4
    DEF Next, vars, Instantiate, CheckTx, Simulate, DeliverAccepted, DeliverRejected,
        BeginBlock

\* Every step keeps it.
LEMMA NextIInv == IInv /\ [Next]_vars => IInv'
    BY NextTypeOK, NextAccepted, NextChecked DEF IInv

-----------------------------------------------------------------------------
(* Theorems *)

\* The inductive invariant holds: TypeOK, together with what PREV_COUNT says of the
\* transactions accepted on the deliver state and on the check state.
THEOREM Invariant == Spec => []IInv
<1>1. Init => IInv
    BY InitIInv
<1>2. IInv /\ [Next]_vars => IInv'
    BY NextIInv
<1> QED
    BY <1>1, <1>2, PTL DEF Spec

\* Type correctness: in particular PREV_COUNT never goes below 0 and no contract
\* state has a duration of 0, whatever InstantiateMsg is sent.
THEOREM TypeCorrect == Spec => []TypeOK
<1>1. IInv => TypeOK
    BY DEF IInv
<1> QED
    BY <1>1, Invariant, PTL

\* No OTP of the asym-totp contract is accepted twice, and each only in its own
\* duration, whatever the durations and block times.
THEOREM OTPNeverReusedHolds == Spec => []OTPNeverReused
<1>1. IInv => OTPNeverReused
    BY DEF IInv, AcceptedInv, OTPNeverReused
<1> QED
    BY <1>1, Invariant, PTL

\* PREV_COUNT says that the current duration is used only if a transaction was
\* accepted in it: the account is not locked out.
THEOREM NeverLockedOutHolds == Spec => []NeverLockedOut
<1>1. IInv => NeverLockedOut
    <2> SUFFICES ASSUME IInv, deliverState # Nil
                 PROVE  LET now == CountAt(deliverState, blockTime)
                        IN  /\ deliverState.prevCount <= now
                            /\ deliverState.prevCount = now => Current(now)
        BY DEF NeverLockedOut
    <2>1. CountAt(deliverState, blockTime) \in Nat
        BY CountNat DEF IInv, TypeOK
    <2> QED
        BY <2>1 DEF IInv, AcceptedInv, Current
<1> QED
    BY <1>1, Invariant, PTL

\* Once the rechecks of a commit are through, at most one transaction of the account
\* is in the mempool, with the OTP of the last committed block's duration.
THEOREM MempoolOneOTPHolds == Spec => []MempoolOneOTP
<1>1. IInv => MempoolOneOTP
    BY DEF IInv, TypeOK, CheckedInv, MempoolOneOTP
<1> QED
    BY <1>1, Invariant, PTL
=============================================================================
