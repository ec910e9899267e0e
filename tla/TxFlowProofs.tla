---------------------------- MODULE TxFlowProofs ----------------------------
(***************************************************************************)
(* Proofs about TxFlow, for any accounts, transactions, parameters and gas *)
(* needs, and the proof that it implements Ledger: every step of a         *)
(* transaction's run is a step of the ledger or is not seen in it.         *)
(***************************************************************************)
EXTENDS TxFlowLedger, FiniteSetTheorems, TLAPS

-----------------------------------------------------------------------------
(* Stores *)

\* InitGenesis leaves a store.
LEMMA GenesisStoreType == GenesisStore \in Store
BY TxFlowAssumption DEF GenesisStore, Store, Addr

\* A transaction that has a signature for each of its signers has an identity.
LEMMA TxIdType ==
    ASSUME NEW t \in Txs, Len(t.sigs) = Len(t.signers)
    PROVE  /\ 1 \in DOMAIN t.signers
           /\ t.signers[1] \in Addr
           /\ t.sigs[1] \in Sig
           /\ TxId(t) \in Addr \X Nat
<1>1. t \in Tx /\ t.signers # <<>>
  BY TxFlowAssumption
<1>2. t.signers \in Seq(Addr) /\ t.sigs \in Seq(Sig)
  BY <1>1 DEF Tx
<1>3. Len(t.signers) \in Nat \ {0}
  BY <1>1, <1>2
<1>4. 1 \in DOMAIN t.signers /\ 1 \in DOMAIN t.sigs
  BY <1>2, <1>3
<1>5. t.signers[1] \in Addr /\ t.sigs[1] \in Sig
  BY <1>2, <1>4
<1> QED
  BY <1>4, <1>5 DEF TxId, Sig

\* IncrementSequenceDecorator leaves a store and touches nothing but sequences.
LEMMA IncrementSequenceType ==
    ASSUME NEW s \in Store, NEW t
    PROVE  IncrementSequence(s, t) \in Store
BY DEF IncrementSequence, Store

\* An accepted before_tx leaves a store.
LEMMA BeforeTxType ==
    ASSUME NEW s \in Store, NEW t \in Txs, IsAbstractAccountTx(t)
    PROVE  BeforeTx(s, t) \in Store
<1> DEFINE a == t.signers[1]
           n == t.sigs[1].sequence
           u == [SetSignerAddress(s, a) EXCEPT !.before[a] = @ \cup {n}]
<1>1. a \in Abstract /\ n \in Nat
  BY TxIdType DEF IsAbstractAccountTx, Sig
<1>2. u \in Store
  BY <1>1 DEF SetSignerAddress, Store, Addr
<1> QED
  BY <1>2, IncrementSequenceType DEF BeforeTx

\* An accepted after_tx leaves a store.
LEMMA AfterTxType ==
    ASSUME NEW s \in Store, NEW t \in Txs, Len(t.sigs) = Len(t.signers),
           GetSignerAddress(s) # Nil
    PROVE  AfterTx(s, t) \in Store
<1>1. GetSignerAddress(s) \in Abstract
  BY DEF GetSignerAddress, Store
<1>2. <<GetSignerAddress(s), TxId(t)>> \in Abstract \X (Addr \X Nat)
  BY <1>1, TxIdType
<1> QED
  BY <1>2 DEF AfterTx, DeleteSignerAddress, Store

\* The fee for the signatures is a natural number.
LEMMA SigGasType ==
    ASSUME NEW t \in Txs
    PROVE  SigVerificationGasConsumer(t) \in Nat
<1> DEFINE S == {i \in DOMAIN t.sigs : t.signers[i] \notin Abstract}
<1>1. t.sigs \in Seq(Sig)
  BY TxFlowAssumption DEF Tx
<1>2. DOMAIN t.sigs = 1..Len(t.sigs) /\ Len(t.sigs) \in Nat
  BY <1>1
<1>3. IsFiniteSet(DOMAIN t.sigs)
  BY <1>2, FS_Interval
<1>4. IsFiniteSet(S)
  BY <1>3, FS_Subset
<1>5. Cardinality(S) \in Nat
  BY <1>4, FS_CardinalityType
<1> QED
  BY <1>5, TxFlowAssumption DEF SigVerificationGasConsumer

-----------------------------------------------------------------------------
(* Type correctness *)

Errors == {"ok", "ante", "signatures", "sequence", "credentials", "contract",
           "outOfGas", "nilPubKeyPanic", "message"}

\* A failed transaction leaves the types alone.
LEMMA AbortType ==
    ASSUME TypeOK, NEW reason \in Errors, Abort(reason)
    PROVE  TypeOK'
BY GenesisStoreType, TxFlowAssumption
   DEF TypeOK, Abort, EndRun, stores, Errors

\* So does a completed one, if what it leaves is a store.
LEMMA CompleteType ==
    ASSUME TypeOK, phase # "idle", NEW s \in Store, Complete(s)
    PROVE  TypeOK'
BY GenesisStoreType, TxFlowAssumption
   DEF TypeOK, Complete, EndRun

\* So does a successful AnteHandler.
LEMMA AntePassedType ==
    ASSUME TypeOK, phase = "ante", NEW s \in Store, AntePassed(s),
           Len(tx.sigs) = Len(tx.signers),
           gasMeter' = SigVerificationGasConsumer(tx), hookGas' \in Nat
    PROVE  TypeOK'
BY SigGasType DEF TypeOK, AntePassed, pool, AllModes

\* Every step keeps the types.
LEMMA TypeStep == TypeOK /\ [Next]_vars => TypeOK'
<1> SUFFICES ASSUME TypeOK, [Next]_vars PROVE TypeOK'
  OBVIOUS
<1>1. ASSUME NEW t \in Txs, NEW m \in Modes, Begin(t, m) PROVE TypeOK'
  BY <1>1, TxFlowAssumption DEF Begin, TypeOK, stores, AllModes
<1>2. CASE AnteStep
  <2>1. CASE AnteChainRejects
    BY <2>1, AbortType DEF AnteChainRejects, Errors
  <2>2. CASE ValidateBasicRejects
    BY <2>2, AbortType DEF ValidateBasicRejects, Errors
  <2>3. CASE BeforeTxWrongSequence
    BY <2>3, AbortType DEF BeforeTxWrongSequence, Errors
  <2>4. CASE BeforeTxNotSingleSignature
    BY <2>4, AbortType DEF BeforeTxNotSingleSignature, Errors
  <2>5. CASE BeforeTxFails
    BY <2>5, AbortType DEF BeforeTxFails, Errors
  <2>6. CASE \E g \in HookGas : BeforeTxOutOfGas(g)
    BY <2>6, AbortType DEF BeforeTxOutOfGas, Errors
  <2>7. ASSUME NEW g \in HookGas, BeforeTxAccepts(g) PROVE TypeOK'
    <3>1. phase = "ante" /\ IsAbstractAccountTx(tx)
      BY <2>7 DEF BeforeTxAccepts, CallsBeforeTx, ReachesBeforeTx
    <3>2. tx \in Txs /\ work \in Store
      BY <3>1 DEF TypeOK
    <3>3. BeforeTx(work, tx) \in Store
      BY <3>1, <3>2, BeforeTxType
    <3>4. Len(tx.sigs) = Len(tx.signers)
      BY <3>1 DEF IsAbstractAccountTx
    <3>5. hookGas' \in Nat
      BY <2>7, TxFlowAssumption DEF BeforeTxAccepts
    <3> QED
      BY <2>7, <3>1, <3>3, <3>4, <3>5, AntePassedType DEF BeforeTxAccepts
  <2>8. CASE DefaultSigVerificationAccepts
    <3>1. phase = "ante" /\ SignaturesAccepted(work, tx, mode)
      BY <2>8 DEF DefaultSigVerificationAccepts, ReachesBeforeTx
    <3>2. IncrementSequence(work, tx) \in Store
      BY IncrementSequenceType DEF TypeOK
    <3>3. Len(tx.sigs) = Len(tx.signers)
      BY <3>1 DEF SignaturesAccepted
    <3>4. hookGas' \in Nat
      BY <2>8 DEF DefaultSigVerificationAccepts, TypeOK
    <3> QED
      BY <2>8, <3>1, <3>2, <3>3, <3>4, AntePassedType
         DEF DefaultSigVerificationAccepts
  <2>9. CASE DefaultSigVerificationRejects
    BY <2>9, AbortType DEF DefaultSigVerificationRejects, Errors
  <2>10. CASE NilPubKeyPanics
    BY <2>10, AbortType DEF NilPubKeyPanics, Errors
  <2> QED
    BY <1>2, <2>1, <2>2, <2>3, <2>4, <2>5, <2>6, <2>7, <2>8, <2>9, <2>10
       DEF AnteStep
<1>3. CASE MsgStep
  <2>1. ASSUME NEW s \in Store, MsgDone(s) PROVE TypeOK'
    <3>1. phase = "msgs" /\ tx \in Txs /\ Len(tx.sigs) = Len(tx.signers)
      BY <2>1 DEF MsgDone, TypeOK
    <3>2. TxId(tx) \in Addr \X Nat /\ msgIndex \in 1..NMsgs
      BY <3>1, TxIdType DEF TypeOK
    <3>3. [s EXCEPT !.done = @ \cup {<<TxId(tx), msgIndex>>}] \in Store
      BY <3>2 DEF Store
    <3>4. msgIndex' \in 1..NMsgs
      BY <2>1, <3>2, TxFlowAssumption DEF MsgDone
    <3> QED
      BY <2>1, <3>1, <3>3, <3>4 DEF MsgDone, TypeOK, stores, pool, AllModes
  <2>2. CASE MsgSucceeds
    BY <2>1, <2>2 DEF MsgSucceeds, TypeOK
  <2>3. ASSUME NEW p \in ParamsChoices, UpdateParams(p) PROVE TypeOK'
    <3>1. SetParams(work, p) \in Store
      BY TxFlowAssumption DEF SetParams, TypeOK, Store
    <3> QED
      BY <2>1, <2>3, <3>1 DEF UpdateParams
  <2>4. CASE MsgFails
    BY <2>4, AbortType DEF MsgFails, Errors
  <2> QED
    BY <1>3, <2>2, <2>3, <2>4 DEF MsgStep
<1>4. CASE PostStep
  <2>1. CASE AfterTxSkips
    BY <2>1, CompleteType DEF AfterTxSkips, TypeOK
  <2>2. ASSUME NEW g \in HookGas, AfterTxAccepts(g) PROVE TypeOK'
    <3>1. phase = "post" /\ GetSignerAddress(work) # Nil
      BY <2>2 DEF AfterTxAccepts, CallsAfterTx
    <3>2. AfterTx(work, tx) \in Store
      BY <3>1, AfterTxType DEF TypeOK
    <3> QED
      BY <2>2, <3>1, <3>2, CompleteType DEF AfterTxAccepts
  <2>3. CASE AfterTxFails
    BY <2>3, AbortType DEF AfterTxFails, Errors
  <2>4. CASE \E g \in HookGas : AfterTxOutOfGas(g)
    BY <2>4, AbortType DEF AfterTxOutOfGas, Errors
  <2> QED
    BY <1>4, <2>1, <2>2, <2>3, <2>4 DEF PostStep
<1>5. CASE Commit
  BY <1>5 DEF Commit, TypeOK, run
<1>6. CASE Crash
  BY <1>6, GenesisStoreType, TxFlowAssumption DEF Crash, TypeOK
<1>7. CASE UNCHANGED vars
  BY <1>7 DEF vars, stores, pool, run, TypeOK
<1> QED
  BY <1>1, <1>2, <1>3, <1>4, <1>5, <1>6, <1>7 DEF Next, RunStep

\* The specification is type correct.
THEOREM TypeCorrect == Spec => []TypeOK
<1>1. Init => TypeOK
  BY GenesisStoreType, TxFlowAssumption DEF Init, TypeOK
<1> QED
  BY <1>1, TypeStep, PTL DEF Spec

-----------------------------------------------------------------------------
(* The inductive invariant *)

\* A message leaves its mark only under a sequence that was used up.
DoneBelowSequence(s) == \A d \in s.done : d[1][2] < s.seq[d[1][1]]

\* What holds of every store between transactions.
StoreInv(s) ==
    /\ SequenceCountsBeforeTx(s)
    /\ DoneBelowSequence(s)
    /\ SignerOfFailedTx(s)
    /\ OwnAfterTx(s)
    /\ \A d \in s.done : AllOf(s, d[1])

\* What holds of the branch of a delivered transaction t that is past its
\* AnteHandler and has run k messages. An AA transaction has saved its signer, and
\* it alone may be incomplete; any other one finds the store as it was left.
RunningInv(s, t, k) ==
    /\ SequenceCountsBeforeTx(s)
    /\ DoneBelowSequence(s)
    /\ OwnAfterTx(s)
    /\ s.seq[t.signers[1]] = t.sigs[1].sequence + 1
    /\ IF IsAbstractAccountTx(t)
       THEN /\ s.signer = t.signers[1]
            /\ t.sigs[1].sequence \in s.before[t.signers[1]]
            /\ \A i \in 1..NMsgs : <<TxId(t), i>> \in s.done <=> i <= k
            /\ \A d \in s.done : d[1] # TxId(t) => AllOf(s, d[1])
       ELSE /\ t.signers[1] \notin Abstract
            /\ SignerOfFailedTx(s)
            /\ \A d \in s.done : AllOf(s, d[1])

RunInv ==
    /\ phase \in {"idle", "ante"} => msgIndex = 1
    /\ phase = "ante" => StoreInv(work)
    /\ phase = "msgs" /\ mode = "deliver" => RunningInv(work, tx, msgIndex - 1)
    /\ phase = "post" /\ mode = "deliver" => RunningInv(work, tx, NMsgs)
    /\ phase # "idle" /\ mode = "recheck" => SignsAlone(tx)
    /\ phase = "post" /\ mode = "check" => SignsAlone(tx)

IInv ==
    /\ TypeOK
    /\ StoreInv(committed)
    /\ StoreInv(deliverState)
    /\ StoreInv(checkState)
    /\ MempoolAuthenticated
    /\ RunInv

-----------------------------------------------------------------------------
(* What the operations do to the invariant of a store *)

\* InitGenesis establishes it.
LEMMA GenesisInv == StoreInv(GenesisStore)
<1>1. \A a \in Abstract : GenesisStore.seq[a] = 0 /\ GenesisStore.before[a] = {}
  BY DEF GenesisStore, Addr
<1>2. 0..(0 - 1) = {}
  OBVIOUS
<1>3. SequenceCountsBeforeTx(GenesisStore)
  BY <1>1, <1>2 DEF SequenceCountsBeforeTx
<1> QED
  BY <1>3 DEF StoreInv, GenesisStore, DoneBelowSequence, SignerOfFailedTx, OwnAfterTx

\* What IncrementSequenceDecorator changes, and what it does not.
LEMMA IncrementSequenceEffect ==
    ASSUME NEW s \in Store, NEW t
    PROVE  LET r == IncrementSequence(s, t)
           IN  /\ r.signer = s.signer
               /\ r.before = s.before
               /\ r.after = s.after
               /\ r.done = s.done
               /\ \A x \in Addr : r.seq[x] =
                      IF \E i \in DOMAIN t.signers : t.signers[i] = x
                      THEN s.seq[x] + 1 ELSE s.seq[x]
BY DEF IncrementSequence, Store

\* The default SigVerificationDecorator lets a transaction through only if every
\* sequence is right.
LEMMA AcceptedSequence ==
    ASSUME NEW s \in Store, NEW t \in Txs, NEW m, SignaturesAccepted(s, t, m)
    PROVE  /\ Len(t.sigs) = Len(t.signers)
           /\ DOMAIN t.sigs = DOMAIN t.signers
           /\ s.seq[t.signers[1]] = t.sigs[1].sequence
<1>1. Len(t.sigs) = Len(t.signers)
  BY DEF SignaturesAccepted
<1>2. t.signers \in Seq(Addr) /\ t.sigs \in Seq(Sig)
  BY TxFlowAssumption DEF Tx
<1>3. DOMAIN t.sigs = DOMAIN t.signers
  BY <1>1, <1>2
<1>4. CheckSignature(s, t, m, 1) = "ok"
  BY <1>1, <1>3, TxIdType DEF SignaturesAccepted
<1> QED
  BY <1>1, <1>3, <1>4 DEF CheckSignature

\* When it checks or delivers, no signer is an AbstractAccount: its key would have
\* panicked. A recheck verifies nothing, but rechecks only what the mempool
\* admitted.
LEMMA AcceptedSigners ==
    ASSUME NEW s \in Store, NEW t \in Txs, NEW m, SignaturesAccepted(s, t, m),
           ~IsAbstractAccountTx(t),
           m = "check" \/ m = "deliver" \/ (m = "recheck" /\ SignsAlone(t)),
           NEW i \in DOMAIN t.signers
    PROVE  t.signers[i] \notin Abstract
<1>1. CheckSignature(s, t, m, i) = "ok"
  BY AcceptedSequence DEF SignaturesAccepted
<1>2. CASE m = "check" \/ m = "deliver"
  BY <1>1, <1>2 DEF CheckSignature, VerifySignature, NilPubKeyVerifySignature
<1>3. CASE m = "recheck" /\ SignsAlone(t)
  BY <1>3 DEF SignsAlone
<1> QED
  BY <1>2, <1>3

\* Accepting a transaction without AbstractAccounts keeps the invariant.
LEMMA PlainTxInv ==
    ASSUME NEW s \in Store, NEW t, StoreInv(s),
           \A i \in DOMAIN t.signers : t.signers[i] \notin Abstract
    PROVE  StoreInv(IncrementSequence(s, t))
<1> DEFINE r == IncrementSequence(s, t)
<1>1. /\ r.signer = s.signer
      /\ r.before = s.before
      /\ r.after = s.after
      /\ r.done = s.done
  BY IncrementSequenceEffect
<1>2. \A x \in Abstract : r.seq[x] = s.seq[x]
  BY IncrementSequenceEffect DEF Addr
<1>3. \A x \in Addr : r.seq[x] \in Nat /\ r.seq[x] >= s.seq[x] /\ s.seq[x] \in Nat
  BY IncrementSequenceEffect DEF Store
<1> HIDE DEF r
<1>4. SequenceCountsBeforeTx(r)
  BY <1>1, <1>2 DEF StoreInv, SequenceCountsBeforeTx
<1>5. DoneBelowSequence(r)
  <2> SUFFICES ASSUME NEW d \in s.done PROVE d[1][2] < r.seq[d[1][1]]
    BY <1>1 DEF DoneBelowSequence
  <2>1. d[1][1] \in Addr /\ d[1][2] \in Nat
    BY DEF Store
  <2>2. d[1][2] < s.seq[d[1][1]]
    BY DEF StoreInv, DoneBelowSequence
  <2> QED
    BY <1>3, <2>1, <2>2
<1>6. SignerOfFailedTx(r)
  BY <1>1, <1>2 DEF StoreInv, SignerOfFailedTx, Store
<1>7. OwnAfterTx(r)
  BY <1>1 DEF StoreInv, OwnAfterTx
<1>8. \A d \in r.done : AllOf(r, d[1])
  BY <1>1 DEF StoreInv, AllOf
<1>9. StoreInv(r)
  BY <1>4, <1>5, <1>6, <1>7, <1>8 DEF StoreInv
<1> QED
  BY <1>9 DEF r

\* What an accepted before_tx changes, the decorators after it included.
LEMMA BeforeTxEffect ==
    ASSUME NEW s \in Store, NEW t \in Txs, IsAbstractAccountTx(t)
    PROVE  LET r == BeforeTx(s, t)
               a == t.signers[1]
           IN  /\ r.signer = a
               /\ r.after = s.after
               /\ r.done = s.done
               /\ r.before[a] = s.before[a] \cup {t.sigs[1].sequence}
               /\ r.seq[a] = s.seq[a] + 1
               /\ \A x \in Addr \ {a} : r.seq[x] = s.seq[x]
               /\ \A x \in Abstract \ {a} : r.before[x] = s.before[x]
<1> DEFINE a == t.signers[1]
           n == t.sigs[1].sequence
           u == [SetSignerAddress(s, a) EXCEPT !.before[a] = @ \cup {n}]
<1>1. a \in Abstract /\ a \in Addr /\ n \in Nat /\ DOMAIN t.signers = {1}
  <2>1. t.signers \in Seq(Addr) /\ Len(t.signers) = 1
    BY TxFlowAssumption DEF Tx, IsAbstractAccountTx
  <2> QED
    BY <2>1, TxIdType DEF IsAbstractAccountTx, Sig
<1>2. u \in Store
  BY <1>1 DEF SetSignerAddress, Store, Addr
<1>3. /\ u.signer = a
      /\ u.after = s.after
      /\ u.done = s.done
      /\ u.seq = s.seq
      /\ u.before[a] = s.before[a] \cup {n}
      /\ \A x \in Abstract \ {a} : u.before[x] = s.before[x]
  BY <1>1 DEF SetSignerAddress, Store
<1>4. BeforeTx(s, t) = IncrementSequence(u, t)
  BY DEF BeforeTx
<1> HIDE DEF u
<1> QED
  BY <1>1, <1>2, <1>3, <1>4, IncrementSequenceEffect

\* An accepted before_tx keeps the invariant: the signer it saves has a sequence
\* no message was run under yet.
LEMMA BeforeTxInv ==
    ASSUME NEW s \in Store, NEW t \in Txs, IsAbstractAccountTx(t),
           SequenceMatches(s, t), StoreInv(s)
    PROVE  StoreInv(BeforeTx(s, t))
<1> DEFINE r == BeforeTx(s, t)
           a == t.signers[1]
           n == t.sigs[1].sequence
<1>1. a \in Abstract /\ a \in Addr /\ n \in Nat /\ n = s.seq[a]
  BY TxIdType DEF IsAbstractAccountTx, Sig, SequenceMatches
<1>2. /\ r.signer = a
      /\ r.after = s.after
      /\ r.done = s.done
      /\ r.before[a] = s.before[a] \cup {n}
      /\ r.seq[a] = n + 1
      /\ \A x \in Addr \ {a} : r.seq[x] = s.seq[x]
      /\ \A x \in Abstract \ {a} : r.before[x] = s.before[x]
  BY <1>1, BeforeTxEffect
<1> HIDE DEF r, a, n
<1>3. SequenceCountsBeforeTx(r)
  <2>1. r.before[a] = 0..(r.seq[a] - 1)
    <3>1. s.before[a] = 0..(n - 1)
      BY <1>1 DEF StoreInv, SequenceCountsBeforeTx
    <3>2. 0..(n - 1) \cup {n} = 0..((n + 1) - 1)
      BY <1>1
    <3> QED
      BY <1>2, <3>1, <3>2
  <2>2. ASSUME NEW x \in Abstract \ {a} PROVE r.before[x] = 0..(r.seq[x] - 1)
    BY <1>2 DEF StoreInv, SequenceCountsBeforeTx, Addr
  <2> QED
    BY <2>1, <2>2 DEF SequenceCountsBeforeTx
<1>4. DoneBelowSequence(r)
  <2> SUFFICES ASSUME NEW d \in s.done PROVE d[1][2] < r.seq[d[1][1]]
    BY <1>2 DEF DoneBelowSequence
  <2>1. d[1][1] \in Addr /\ d[1][2] \in Nat
    BY DEF Store
  <2>2. d[1][2] < s.seq[d[1][1]]
    BY DEF StoreInv, DoneBelowSequence
  <2> QED
    BY <1>1, <1>2, <2>1, <2>2
<1>5. \A i \in 1..NMsgs : <<<<a, n>>, i>> \notin s.done
  <2> SUFFICES ASSUME NEW i \in 1..NMsgs, <<<<a, n>>, i>> \in s.done PROVE FALSE
    OBVIOUS
  <2>1. n < s.seq[a]
    BY DEF StoreInv, DoneBelowSequence
  <2> QED
    BY <1>1, <2>1
<1>6. SignerOfFailedTx(r)
  <2>1. r.seq[a] > 0 /\ r.seq[a] - 1 = n
    BY <1>1, <1>2
  <2> QED
    BY <1>2, <1>5, <2>1 DEF SignerOfFailedTx
<1>7. OwnAfterTx(r)
  BY <1>2 DEF StoreInv, OwnAfterTx
<1>8. \A d \in r.done : AllOf(r, d[1])
  <2> SUFFICES ASSUME NEW d \in s.done, d[1][1] \in Abstract
               PROVE  /\ \A i \in 1..NMsgs : <<d[1], i>> \in s.done
                      /\ d[1][2] \in r.before[d[1][1]]
                      /\ <<d[1][1], d[1]>> \in s.after
    BY <1>2 DEF AllOf
  <2>1. AllOf(s, d[1])
    BY DEF StoreInv
  <2>2. s.before[d[1][1]] \subseteq r.before[d[1][1]]
    BY <1>2
  <2> QED
    BY <2>1, <2>2 DEF AllOf
<1>9. StoreInv(r)
  BY <1>3, <1>4, <1>6, <1>7, <1>8 DEF StoreInv
<1> QED
  BY <1>9 DEF r

\* The branch of an AA transaction right after its AnteHandler.
LEMMA BeforeTxRunning ==
    ASSUME NEW s \in Store, NEW t \in Txs, IsAbstractAccountTx(t),
           SequenceMatches(s, t), StoreInv(s)
    PROVE  RunningInv(BeforeTx(s, t), t, 0)
<1> DEFINE r == BeforeTx(s, t)
           a == t.signers[1]
           n == t.sigs[1].sequence
<1>1. a \in Abstract /\ n \in Nat /\ n = s.seq[a]
  BY TxIdType DEF IsAbstractAccountTx, Sig, SequenceMatches
<1>2. r.signer = a /\ r.seq[a] = n + 1 /\ n \in r.before[a] /\ r.done = s.done
  <2>1. /\ r.signer = a
        /\ r.done = s.done
        /\ r.before[a] = s.before[a] \cup {n}
        /\ r.seq[a] = s.seq[a] + 1
    BY BeforeTxEffect
  <2> HIDE DEF r, a, n
  <2> QED
    BY <1>1, <2>1
<1>3. StoreInv(r)
  BY BeforeTxInv
<1> HIDE DEF r
<1>4. \A i \in 1..NMsgs : <<TxId(t), i>> \notin r.done
  <2>1. \A i \in 1..NMsgs : <<<<a, r.seq[a] - 1>>, i>> \notin r.done
    BY <1>1, <1>2, <1>3, TxFlowAssumption DEF StoreInv, SignerOfFailedTx, Addr
  <2>2. TxId(t) = <<a, r.seq[a] - 1>>
    BY <1>1, <1>2 DEF TxId
  <2> QED
    BY <2>1, <2>2
<1>5. \A i \in 1..NMsgs : ~(i <= 0)
  OBVIOUS
<1>6. RunningInv(r, t, 0)
  BY <1>2, <1>3, <1>4, <1>5 DEF RunningInv, StoreInv
<1> QED
  BY <1>6 DEF r

\* The branch of any other delivered transaction right after its AnteHandler.
LEMMA PlainTxRunning ==
    ASSUME NEW s \in Store, NEW t \in Txs, ~IsAbstractAccountTx(t), StoreInv(s),
           SignaturesAccepted(s, t, "deliver"), NEW k
    PROVE  RunningInv(IncrementSequence(s, t), t, k)
<1> DEFINE r == IncrementSequence(s, t)
<1>1. /\ Len(t.sigs) = Len(t.signers)
      /\ s.seq[t.signers[1]] = t.sigs[1].sequence
      /\ \A i \in DOMAIN t.signers : t.signers[i] \notin Abstract
  BY AcceptedSequence, AcceptedSigners
<1>2. 1 \in DOMAIN t.signers /\ t.signers[1] \in Addr
  BY <1>1, TxIdType
<1>3. r.seq[t.signers[1]] = t.sigs[1].sequence + 1
  BY <1>1, <1>2, IncrementSequenceEffect
<1>4. StoreInv(r)
  BY <1>1, PlainTxInv
<1> HIDE DEF r
<1>5. RunningInv(r, t, k)
  BY <1>1, <1>2, <1>3, <1>4 DEF RunningInv, StoreInv
<1> QED
  BY <1>5 DEF r

\* A message that takes effect.
LEMMA MsgRunning ==
    ASSUME NEW s \in Store, NEW t \in Txs, Len(t.sigs) = Len(t.signers),
           NEW k \in 1..NMsgs, RunningInv(s, t, k - 1), NEW r \in Store,
           r.signer = s.signer, r.seq = s.seq, r.before = s.before,
           r.after = s.after, r.done = s.done \cup {<<TxId(t), k>>}
    PROVE  RunningInv(r, t, k)
<1> DEFINE id == TxId(t)
<1>1. /\ id \in Addr \X Nat
      /\ id[1] = t.signers[1]
      /\ id[2] = t.sigs[1].sequence
  BY TxIdType DEF TxId
<1>2. SequenceCountsBeforeTx(r) /\ OwnAfterTx(r)
  BY DEF RunningInv, SequenceCountsBeforeTx, OwnAfterTx
<1>3. r.seq[t.signers[1]] = t.sigs[1].sequence + 1
  BY DEF RunningInv
<1> HIDE DEF id
<1>4. DoneBelowSequence(r)
  <2>1. ASSUME NEW d \in s.done PROVE d[1][2] < r.seq[d[1][1]]
    BY DEF RunningInv, DoneBelowSequence
  <2>2. id[2] < r.seq[id[1]]
    BY <1>1, <1>3
  <2> QED
    BY <2>1, <2>2 DEF DoneBelowSequence, id
<1>5. \A d \in r.done : d[1] # id => d \in s.done
  BY DEF id
<1>6. \A j : s.done \subseteq r.done /\ (AllOf(s, j) => AllOf(r, j))
  BY DEF AllOf
<1>7. CASE IsAbstractAccountTx(t)
  <2>1. \A i \in 1..NMsgs : <<id, i>> \in s.done <=> i <= k - 1
    BY <1>7 DEF RunningInv, id
  <2>2. \A i \in 1..NMsgs : <<id, i>> \in r.done <=> i <= k
    <3>1. \A i \in 1..NMsgs : <<id, i>> \in r.done <=> (<<id, i>> \in s.done \/ i = k)
      BY DEF id
    <3> QED
      BY <2>1, <3>1, TxFlowAssumption
  <2>3. \A d \in r.done : d[1] # id => AllOf(r, d[1])
    BY <1>5, <1>6, <1>7 DEF RunningInv, id
  <2> QED
    BY <1>2, <1>3, <1>4, <1>7, <2>2, <2>3 DEF RunningInv, id
<1>8. CASE ~IsAbstractAccountTx(t)
  <2>1. /\ t.signers[1] \notin Abstract
        /\ SignerOfFailedTx(s)
        /\ \A d \in s.done : AllOf(s, d[1])
    BY <1>8 DEF RunningInv
  <2>2. SignerOfFailedTx(r)
    <3> SUFFICES ASSUME r.signer # Nil, NEW i \in 1..NMsgs
                 PROVE  /\ r.seq[r.signer] > 0
                        /\ <<<<r.signer, r.seq[r.signer] - 1>>, i>> \notin r.done
      BY DEF SignerOfFailedTx
    <3>1. r.signer \in Abstract
      BY DEF Store
    <3>2. id # <<r.signer, r.seq[r.signer] - 1>>
      BY <1>1, <2>1, <3>1
    <3> QED
      BY <2>1, <3>2 DEF SignerOfFailedTx, id
  <2>3. \A d \in r.done : AllOf(r, d[1])
    <3>1. AllOf(r, id)
      BY <1>1, <2>1 DEF AllOf
    <3> QED
      BY <1>5, <1>6, <2>1, <3>1
  <2> QED
    BY <1>2, <1>3, <1>4, <1>8, <2>1, <2>2, <2>3 DEF RunningInv
<1> QED
  BY <1>7, <1>8

\* What an accepted after_tx changes.
LEMMA AfterTxEffect ==
    ASSUME NEW s \in Store, NEW t
    PROVE  LET r == AfterTx(s, t)
           IN  /\ r.signer = Nil
               /\ r.seq = s.seq
               /\ r.before = s.before
               /\ r.done = s.done
               /\ r.after = s.after \cup {<<s.signer, TxId(t)>>}
BY DEF AfterTx, DeleteSignerAddress, GetSignerAddress, Store

\* A delivered transaction whose after_tx was accepted is complete.
LEMMA AfterTxInv ==
    ASSUME NEW s \in Store, NEW t \in Txs, Len(t.sigs) = Len(t.signers),
           RunningInv(s, t, NMsgs)
    PROVE  StoreInv(AfterTx(s, t))
<1> DEFINE r == AfterTx(s, t)
           id == TxId(t)
<1>1. /\ r.signer = Nil
      /\ r.seq = s.seq
      /\ r.before = s.before
      /\ r.done = s.done
      /\ r.after = s.after \cup {<<s.signer, id>>}
  BY AfterTxEffect
<1>2. /\ id \in Addr \X Nat
      /\ id[1] = t.signers[1]
      /\ id[2] = t.sigs[1].sequence
  BY TxIdType DEF TxId
<1> HIDE DEF r, id
<1>3. SequenceCountsBeforeTx(r) /\ DoneBelowSequence(r)
  BY <1>1 DEF RunningInv, SequenceCountsBeforeTx, DoneBelowSequence
<1>4. SignerOfFailedTx(r)
  BY <1>1 DEF SignerOfFailedTx
<1>5. id[1] \in Abstract => IsAbstractAccountTx(t) /\ s.signer = id[1]
  BY <1>2 DEF RunningInv
<1>6. OwnAfterTx(r)
  BY <1>1, <1>5 DEF RunningInv, OwnAfterTx
<1>7. \A j : AllOf(s, j) => AllOf(r, j)
  BY <1>1 DEF AllOf
<1>8. \A d \in r.done : AllOf(r, d[1])
  <2>1. CASE IsAbstractAccountTx(t)
    <3>1. \A i \in 1..NMsgs : <<id, i>> \in r.done
      BY <1>1, <2>1, TxFlowAssumption DEF RunningInv, id
    <3>2. id[2] \in r.before[id[1]]
      BY <1>1, <1>2, <2>1 DEF RunningInv
    <3>3. <<id[1], id>> \in r.after
      BY <1>1, <1>2, <2>1 DEF RunningInv
    <3>4. AllOf(r, id)
      BY <3>1, <3>2, <3>3 DEF AllOf
    <3> QED
      BY <1>1, <1>7, <2>1, <3>4 DEF RunningInv, id
  <2>2. CASE ~IsAbstractAccountTx(t)
    BY <1>1, <1>7, <2>2 DEF RunningInv
  <2> QED
    BY <2>1, <2>2
<1>9. StoreInv(r)
  BY <1>3, <1>4, <1>6, <1>8 DEF StoreInv
<1> QED
  BY <1>9 DEF r

\* So is one that finds no signer address: it is not an AA transaction.
LEMMA AfterTxSkippedInv ==
    ASSUME NEW s \in Store, NEW t \in Txs, RunningInv(s, t, NMsgs), s.signer = Nil
    PROVE  StoreInv(s)
<1>1. ~IsAbstractAccountTx(t)
  BY TxFlowAssumption DEF RunningInv, IsAbstractAccountTx, Addr
<1> QED
  BY <1>1 DEF RunningInv, StoreInv

-----------------------------------------------------------------------------
(* The invariant is inductive *)

\* A failed run leaves what the AnteHandler wrote back.
LEMMA AbortInv ==
    ASSUME IInv, TypeOK', NEW reason, Abort(reason)
    PROVE  IInv'
BY DEF IInv, RunInv, Abort, EndRun, stores, MempoolAuthenticated, TypeOK

\* A completed run leaves a store that satisfies the invariant if it was
\* delivered, and a transaction the mempool may hold if it was checked.
LEMMA CompleteInv ==
    ASSUME IInv, TypeOK', NEW s, Complete(s), phase = "post",
           mode = "deliver" => StoreInv(s)
    PROVE  IInv'
<1>1. /\ StoreInv(committed)'
      /\ StoreInv(deliverState)'
      /\ StoreInv(checkState)'
  BY DEF IInv, Complete
<1>2. MempoolAuthenticated'
  BY DEF IInv, RunInv, Complete, EndRun, MempoolAuthenticated
<1>3. RunInv'
  BY DEF Complete, EndRun, RunInv
<1> QED
  BY <1>1, <1>2, <1>3 DEF IInv

\* So does a successful AnteHandler, whose store is written back at once.
LEMMA AntePassedInv ==
    ASSUME IInv, TypeOK', NEW s, AntePassed(s), phase = "ante",
           mode # "simulate" => StoreInv(s),
           mode = "deliver" => RunningInv(s, tx, 0),
           mode \in {"check", "recheck"} => SignsAlone(tx)
    PROVE  IInv'
<1>1. /\ StoreInv(committed)'
      /\ StoreInv(deliverState)'
      /\ StoreInv(checkState)'
  BY DEF IInv, AntePassed
<1>2. MempoolAuthenticated'
  BY DEF IInv, AntePassed, pool, MempoolAuthenticated
<1>3. RunInv'
  <2>1. msgIndex = 1
    BY DEF IInv, RunInv
  <2>2. CASE mode \in {"check", "recheck"}
    BY <2>2 DEF AntePassed, RunInv
  <2>3. CASE mode = "deliver"
    <3>1. phase' = "msgs" /\ mode' = "deliver" /\ work' = s /\ tx' = tx /\ msgIndex' = 1
      BY <2>1, <2>3 DEF AntePassed
    <3> QED
      BY <2>3, <3>1 DEF RunInv
  <2>4. CASE mode = "simulate"
    BY <2>4 DEF AntePassed, RunInv
  <2> QED
    BY <2>2, <2>3, <2>4 DEF IInv, TypeOK, AllModes
<1> QED
  BY <1>1, <1>2, <1>3 DEF IInv

\* A message that took effect.
LEMMA MsgDoneInv ==
    ASSUME IInv, TypeOK', NEW s \in Store, MsgDone(s),
           s.signer = work.signer, s.seq = work.seq, s.before = work.before,
           s.after = work.after, s.done = work.done
    PROVE  IInv'
<1>1. phase = "msgs" /\ tx \in Txs /\ Len(tx.sigs) = Len(tx.signers)
      /\ work \in Store /\ msgIndex \in 1..NMsgs
  BY DEF IInv, TypeOK, MsgDone
<1>2. /\ work' \in Store
      /\ work'.signer = s.signer /\ work'.seq = s.seq /\ work'.before = s.before
      /\ work'.after = s.after /\ work'.done = s.done \cup {<<TxId(tx), msgIndex>>}
  BY DEF MsgDone, Store, TypeOK
<1>3. mode = "deliver" => RunningInv(work', tx, msgIndex)
  <2> SUFFICES ASSUME mode = "deliver" PROVE RunningInv(work', tx, msgIndex)
    OBVIOUS
  <2>1. RunningInv(work, tx, msgIndex - 1)
    BY <1>1 DEF IInv, RunInv
  <2> QED
    BY <1>1, <1>2, <2>1, MsgRunning
<1>4. RunInv'
  <2>1. CASE msgIndex = NMsgs
    BY <1>1, <1>3, <2>1 DEF MsgDone, RunInv, IInv, TypeOK
  <2>2. CASE msgIndex # NMsgs
    <3>1. phase' = "msgs" /\ mode' = mode /\ tx' = tx /\ msgIndex' - 1 = msgIndex
      BY <1>1, <2>2, TxFlowAssumption DEF MsgDone
    <3> QED
      BY <1>1, <1>3, <3>1 DEF RunInv, IInv, TypeOK
  <2> QED
    BY <2>1, <2>2
<1> QED
  BY <1>4 DEF IInv, MsgDone, stores, pool, MempoolAuthenticated

\* Every step keeps the invariant.
LEMMA InvStep == IInv /\ [Next]_vars => IInv'
<1> SUFFICES ASSUME IInv, [Next]_vars PROVE IInv'
  OBVIOUS
<1>0. TypeOK'
  BY TypeStep DEF IInv
<1>1. ASSUME NEW t \in Txs, NEW m \in Modes, Begin(t, m) PROVE IInv'
  <2>1. m \in AllModes
    BY TxFlowAssumption
  <2>2. recheckQueue \subseteq mempool
    BY DEF IInv, TypeOK
  <2>3. RunInv'
    BY <1>1, <2>1, <2>2 DEF Begin, IInv, RunInv, MempoolAuthenticated
  <2> QED
    BY <1>0, <1>1, <2>3 DEF Begin, IInv, stores, MempoolAuthenticated
<1>2. CASE AnteStep
  <2>1. CASE \/ AnteChainRejects
             \/ ValidateBasicRejects
             \/ BeforeTxWrongSequence
             \/ BeforeTxNotSingleSignature
             \/ BeforeTxFails
             \/ \E g \in HookGas : BeforeTxOutOfGas(g)
             \/ DefaultSigVerificationRejects
             \/ NilPubKeyPanics
    <3>1. \E reason : Abort(reason)
      BY <2>1 DEF AnteChainRejects, ValidateBasicRejects, BeforeTxWrongSequence,
                  BeforeTxNotSingleSignature, BeforeTxFails, BeforeTxOutOfGas,
                  DefaultSigVerificationRejects, NilPubKeyPanics
    <3> QED
      BY <1>0, <3>1, AbortInv
  <2>2. ASSUME NEW g \in HookGas, BeforeTxAccepts(g) PROVE IInv'
    <3>1. /\ phase = "ante" /\ IsAbstractAccountTx(tx) /\ SequenceMatches(work, tx)
          /\ AntePassed(BeforeTx(work, tx))
      BY <2>2 DEF BeforeTxAccepts, CallsBeforeTx, ReachesBeforeTx
    <3>2. tx \in Txs /\ work \in Store /\ StoreInv(work)
      BY <3>1 DEF IInv, TypeOK, RunInv
    <3>3. StoreInv(BeforeTx(work, tx)) /\ RunningInv(BeforeTx(work, tx), tx, 0)
      BY <3>1, <3>2, BeforeTxInv, BeforeTxRunning
    <3>4. SignsAlone(tx)
      BY <3>1 DEF SignsAlone
    <3> QED
      BY <1>0, <3>1, <3>3, <3>4, AntePassedInv
  <2>3. CASE DefaultSigVerificationAccepts
    <3>1. /\ phase = "ante" /\ ~IsAbstractAccountTx(tx)
          /\ SignaturesAccepted(work, tx, mode)
          /\ AntePassed(IncrementSequence(work, tx))
      BY <2>3 DEF DefaultSigVerificationAccepts, ReachesBeforeTx
    <3>2. tx \in Txs /\ work \in Store /\ StoreInv(work) /\ mode \in AllModes
      BY <3>1 DEF IInv, TypeOK, RunInv
    <3>3. mode = "recheck" => SignsAlone(tx)
      BY <3>1 DEF IInv, RunInv
    <3>4. mode # "simulate" =>
              \A i \in DOMAIN tx.signers : tx.signers[i] \notin Abstract
      <4> SUFFICES ASSUME mode # "simulate", NEW i \in DOMAIN tx.signers
                   PROVE  tx.signers[i] \notin Abstract
        OBVIOUS
      <4>1. \/ mode = "check" \/ mode = "deliver"
            \/ mode = "recheck" /\ SignsAlone(tx)
        BY <3>2, <3>3 DEF AllModes
      <4> QED
        BY <3>1, <3>2, <4>1, AcceptedSigners
    <3>5. mode # "simulate" => StoreInv(IncrementSequence(work, tx))
      BY <3>2, <3>4, PlainTxInv
    <3>6. mode = "deliver" => RunningInv(IncrementSequence(work, tx), tx, 0)
      BY <3>1, <3>2, PlainTxRunning
    <3>7. mode \in {"check", "recheck"} => SignsAlone(tx)
      BY <3>4 DEF SignsAlone
    <3> QED
      BY <1>0, <3>1, <3>5, <3>6, <3>7, AntePassedInv
  <2> QED
    BY <1>2, <2>1, <2>2, <2>3 DEF AnteStep
<1>3. CASE MsgStep
  <2>1. CASE MsgSucceeds
    BY <1>0, <2>1, MsgDoneInv DEF MsgSucceeds, IInv, TypeOK
  <2>2. ASSUME NEW p \in ParamsChoices, UpdateParams(p) PROVE IInv'
    <3> DEFINE s == SetParams(work, p)
    <3>1. /\ s \in Store
          /\ s.signer = work.signer /\ s.seq = work.seq /\ s.before = work.before
          /\ s.after = work.after /\ s.done = work.done
      BY TxFlowAssumption DEF SetParams, IInv, TypeOK, Store
    <3>2. MsgDone(s)
      BY <2>2 DEF UpdateParams
    <3> QED
      BY <1>0, <3>1, <3>2, MsgDoneInv
  <2>3. CASE MsgFails
    BY <1>0, <2>3, AbortInv DEF MsgFails
  <2> QED
    BY <1>3, <2>1, <2>2, <2>3 DEF MsgStep
<1>4. CASE PostStep
  <2>1. ASSUME phase = "post"
        PROVE  /\ tx \in Txs /\ Len(tx.sigs) = Len(tx.signers) /\ work \in Store
               /\ mode = "deliver" => RunningInv(work, tx, NMsgs)
    BY <2>1 DEF IInv, TypeOK, RunInv
  <2>2. CASE AfterTxSkips
    <3>1. phase = "post" /\ work.signer = Nil /\ Complete(work)
      BY <2>2 DEF AfterTxSkips, GetSignerAddress
    <3>2. mode = "deliver" => StoreInv(work)
      BY <2>1, <3>1, AfterTxSkippedInv
    <3> QED
      BY <1>0, <3>1, <3>2, CompleteInv
  <2>3. ASSUME NEW g \in HookGas, AfterTxAccepts(g) PROVE IInv'
    <3>1. phase = "post" /\ Complete(AfterTx(work, tx))
      BY <2>3 DEF AfterTxAccepts, CallsAfterTx
    <3>2. mode = "deliver" => StoreInv(AfterTx(work, tx))
      BY <2>1, <3>1, AfterTxInv
    <3> QED
      BY <1>0, <3>1, <3>2, CompleteInv
  <2>4. CASE AfterTxFails \/ \E g \in HookGas : AfterTxOutOfGas(g)
    BY <1>0, <2>4, AbortInv DEF AfterTxFails, AfterTxOutOfGas
  <2> QED
    BY <1>4, <2>2, <2>3, <2>4 DEF PostStep
<1>5. CASE Commit
  BY <1>0, <1>5 DEF Commit, IInv, RunInv, run, MempoolAuthenticated
<1>6. CASE Crash
  BY <1>0, <1>6 DEF Crash, IInv, RunInv, MempoolAuthenticated
<1>7. CASE UNCHANGED vars
  BY <1>0, <1>7 DEF vars, stores, pool, run, IInv, RunInv, MempoolAuthenticated
<1> QED
  BY <1>1, <1>2, <1>3, <1>4, <1>5, <1>6, <1>7 DEF Next, RunStep

\* The invariant holds throughout.
THEOREM Invariant == Spec => []IInv
<1>1. Init => IInv
  BY GenesisStoreType, GenesisInv, TxFlowAssumption
     DEF Init, IInv, TypeOK, RunInv, MempoolAuthenticated
<1> QED
  BY <1>1, InvStep, PTL DEF Spec

-----------------------------------------------------------------------------
(* What follows from it *)

\* No AbstractAccount's sequence is used up without its contract's before_tx, and
\* every number is authenticated once, in order, in every state the node keeps.
THEOREM SequenceAuthenticatedHolds == Spec => []SequenceAuthenticated
<1>1. IInv => SequenceAuthenticated
  BY DEF IInv, StoreInv, SequenceAuthenticated, Stores
<1> QED
  BY <1>1, Invariant, PTL

\* AA transactions are atomic with their hooks.
THEOREM AbstractTxAtomicHolds == Spec => []AbstractTxAtomic
<1>1. IInv => AbstractTxAtomic
  BY DEF IInv, StoreInv, AbstractTxAtomic, Stores
<1> QED
  BY <1>1, Invariant, PTL

\* A signer address left behind is that of a failed transaction.
THEOREM LeftoverSignerHolds == Spec => []LeftoverSigner
<1>1. IInv => LeftoverSigner
  BY DEF IInv, StoreInv, LeftoverSigner, Stores
<1> QED
  BY <1>1, Invariant, PTL

\* An AA transaction calls its own account's after_tx only.
THEOREM AfterTxOfOwnAccountHolds == Spec => []AfterTxOfOwnAccount
<1>1. IInv => AfterTxOfOwnAccount
  BY DEF IInv, StoreInv, AfterTxOfOwnAccount, Stores
<1> QED
  BY <1>1, Invariant, PTL

\* The mempool holds no transaction an AbstractAccount would have to sign jointly.
THEOREM MempoolAuthenticatedHolds == Spec => []MempoolAuthenticated
<1>1. IInv => MempoolAuthenticated
  BY DEF IInv
<1> QED
  BY <1>1, Invariant, PTL

-----------------------------------------------------------------------------
(* What the branch of a delivered transaction has over the deliver state *)

\* The branch s of transaction t, of which k messages have taken effect, next to the
\* store d its AnteHandler left in the deliver state.
Ahead(s, d, t, k) ==
    /\ s.seq = d.seq
    /\ s.after = d.after
    /\ s.done = d.done \cup ({TxId(t)} \X (1..k))
    /\ s.params # d.params => Authority \in Signers(t) /\ Validate(s.params)

\* Nothing else writes to the deliver state while a transaction is delivered.
BranchInv ==
    mode = "deliver" =>
        /\ phase = "ante" => work = deliverState
        /\ phase = "msgs" => Ahead(work, deliverState, tx, msgIndex - 1)
        /\ phase = "post" => Ahead(work, deliverState, tx, NMsgs)

\* The AnteHandler's store is the branch and the deliver state.
LEMMA AheadAtFirst ==
    ASSUME NEW s, NEW t
    PROVE  Ahead(s, s, t, 0)
<1>1. {TxId(t)} \X (1..0) = {}
  OBVIOUS
<1> QED
  BY <1>1 DEF Ahead

\* A message puts the branch one ahead.
LEMMA AheadByOne ==
    ASSUME NEW s, NEW d, NEW t, NEW k \in Nat \ {0}, Ahead(s, d, t, k - 1), NEW r,
           r.seq = s.seq, r.after = s.after, r.done = s.done \cup {<<TxId(t), k>>},
           r.params # s.params => Authority \in Signers(t) /\ Validate(r.params)
    PROVE  Ahead(r, d, t, k)
<1>1. 1..k = (1..(k - 1)) \cup {k}
  OBVIOUS
<1>2. {TxId(t)} \X (1..k) = ({TxId(t)} \X (1..(k - 1))) \cup {<<TxId(t), k>>}
  BY <1>1
<1>3. r.done = d.done \cup ({TxId(t)} \X (1..k))
  BY <1>2 DEF Ahead
<1>4. r.params # d.params => Authority \in Signers(t) /\ Validate(r.params)
  BY DEF Ahead
<1> QED
  BY <1>3, <1>4 DEF Ahead

-----------------------------------------------------------------------------
(* The branch invariant holds *)

\* A message that takes effect keeps it: parameters change in one of the authority.
LEMMA MsgDoneAhead ==
    ASSUME IInv, BranchInv, NEW s \in Store, MsgDone(s),
           s.seq = work.seq, s.after = work.after, s.done = work.done,
           s.params # work.params => Authority \in Signers(tx) /\ Validate(s.params)
    PROVE  BranchInv'
<1> SUFFICES ASSUME mode' = "deliver" PROVE BranchInv'
  BY DEF BranchInv
<1>1. /\ phase = "msgs" /\ mode = "deliver" /\ tx' = tx /\ deliverState' = deliverState
      /\ msgIndex \in 1..NMsgs /\ NMsgs \in Nat
  BY TxFlowAssumption DEF MsgDone, stores, IInv, TypeOK
<1>2. /\ work'.seq = s.seq /\ work'.after = s.after /\ work'.params = s.params
      /\ work'.done = s.done \cup {<<TxId(tx), msgIndex>>}
  BY DEF MsgDone, Store
<1>3. Ahead(work, deliverState, tx, msgIndex - 1)
  BY <1>1 DEF BranchInv
<1>4. Ahead(work', deliverState, tx, msgIndex)
  BY <1>1, <1>2, <1>3, AheadByOne
<1>5. /\ phase' = "msgs" => msgIndex' - 1 = msgIndex
      /\ phase' = "post" => msgIndex = NMsgs
      /\ phase' # "ante"
  BY <1>1 DEF MsgDone
<1>6. /\ phase' = "msgs" => Ahead(work', deliverState', tx', msgIndex' - 1)
      /\ phase' = "post" => Ahead(work', deliverState', tx', NMsgs)
  BY <1>1, <1>4, <1>5
<1> QED
  BY <1>5, <1>6 DEF BranchInv, Ahead

\* A successful AnteHandler writes its branch back at once.
LEMMA AntePassedAhead ==
    ASSUME IInv, NEW s, AntePassed(s), phase = "ante"
    PROVE  BranchInv'
<1> SUFFICES ASSUME mode' = "deliver" PROVE BranchInv'
  BY DEF BranchInv
<1>1. /\ mode = "deliver" /\ phase' = "msgs" /\ work' = s /\ deliverState' = s
      /\ tx' = tx /\ msgIndex' = 1
  BY DEF AntePassed, IInv, RunInv
<1>2. Ahead(work', deliverState', tx', msgIndex' - 1)
  <2>1. Ahead(s, s, tx, 0)
    BY AheadAtFirst
  <2>2. msgIndex' - 1 = 0
    BY <1>1
  <2> QED
    BY <1>1, <2>1, <2>2
<1> QED
  BY <1>1, <1>2 DEF BranchInv, Ahead

\* Between transactions there is no branch.
LEMMA EndedAhead ==
    ASSUME mode' = "none"
    PROVE  BranchInv'
BY DEF BranchInv

\* Every step of a run fails it, passes its AnteHandler, runs a message or
\* completes it.
LEMMA RunSteps ==
    ASSUME IInv, RunStep
    PROVE  \/ \E reason : Abort(reason)
           \/ /\ phase = "ante" /\ IsAbstractAccountTx(tx) /\ SequenceMatches(work, tx)
              /\ AntePassed(BeforeTx(work, tx))
           \/ /\ phase = "ante" /\ ~IsAbstractAccountTx(tx)
              /\ SignaturesAccepted(work, tx, mode)
              /\ AntePassed(IncrementSequence(work, tx))
           \/ MsgDone(work)
           \/ \E p \in ParamsChoices : phase = "msgs" /\ UpdateParams(p)
           \/ phase = "post" /\ work.signer = Nil /\ Complete(work)
           \/ phase = "post" /\ work.signer # Nil /\ Complete(AfterTx(work, tx))
<1>1. CASE AnteStep
  BY <1>1 DEF AnteStep, AnteChainRejects, ValidateBasicRejects, BeforeTxWrongSequence,
              BeforeTxNotSingleSignature, BeforeTxFails, BeforeTxOutOfGas,
              BeforeTxAccepts, DefaultSigVerificationAccepts,
              DefaultSigVerificationRejects, NilPubKeyPanics, CallsBeforeTx,
              ReachesBeforeTx
<1>2. CASE MsgStep
  BY <1>2 DEF MsgStep, MsgSucceeds, MsgFails
<1>3. CASE PostStep
  BY <1>3 DEF PostStep, AfterTxSkips, AfterTxAccepts, AfterTxFails, AfterTxOutOfGas,
              CallsAfterTx, GetSignerAddress
<1> QED
  BY <1>1, <1>2, <1>3 DEF RunStep

\* What a successful MsgUpdateParams hands to MsgDone.
LEMMA UpdateParamsStore ==
    ASSUME IInv, NEW p \in ParamsChoices, UpdateParams(p)
    PROVE  LET s == SetParams(work, p)
           IN  /\ s \in Store /\ MsgDone(s)
               /\ s.seq = work.seq /\ s.after = work.after /\ s.done = work.done
               /\ Authority \in Signers(tx) /\ Validate(s.params)
<1>1. work \in Store
  BY DEF IInv, TypeOK
<1>2. Authority \in Signers(tx) /\ Validate(p)
  BY DEF UpdateParams, CanUpdateParams, Signers
<1> QED
  BY <1>1, <1>2, TxFlowAssumption DEF SetParams, Store, UpdateParams

\* Every step keeps the branch invariant.
LEMMA BranchStep == IInv /\ BranchInv /\ [Next]_vars => BranchInv'
<1> SUFFICES ASSUME IInv, BranchInv, [Next]_vars PROVE BranchInv'
  OBVIOUS
<1>1. ASSUME NEW t \in Txs, NEW m \in Modes, Begin(t, m) PROVE BranchInv'
  BY <1>1 DEF Begin, BranchInv, stores
<1>2. CASE RunStep
  <2>1. ASSUME NEW reason, Abort(reason) PROVE BranchInv'
    BY <2>1, EndedAhead DEF Abort, EndRun
  <2>2. ASSUME NEW s, phase = "ante", AntePassed(s) PROVE BranchInv'
    BY <2>2, AntePassedAhead
  <2>3. CASE MsgDone(work)
    BY <2>3, MsgDoneAhead DEF IInv, TypeOK
  <2>4. ASSUME NEW p \in ParamsChoices, UpdateParams(p) PROVE BranchInv'
    BY <2>4, UpdateParamsStore, MsgDoneAhead
  <2>5. ASSUME NEW s, Complete(s) PROVE BranchInv'
    BY <2>5, EndedAhead DEF Complete, EndRun
  <2> QED
    BY <1>2, <2>1, <2>2, <2>3, <2>4, <2>5, RunSteps
<1>3. CASE Commit
  <2>1. phase' = "idle" /\ phase = "idle"
    BY <1>3 DEF Commit, run
  <2> QED
    BY <2>1 DEF BranchInv
<1>4. CASE Crash
  BY <1>4, EndedAhead DEF Crash
<1>5. CASE UNCHANGED vars
  BY <1>5 DEF vars, stores, pool, run, BranchInv, Ahead
<1> QED
  BY <1>1, <1>2, <1>3, <1>4, <1>5 DEF Next

-----------------------------------------------------------------------------
(* Steps of the run as steps of the ledger *)

\* The ledger once the signers S have used up a sequence.
LEMMA AuthenticatedView ==
    ASSUME NEW s \in Store, NEW r, NEW S,
           r.params = s.params, r.done = s.done, r.after = s.after,
           r.seq = [b \in Addr |-> IF b \in S THEN s.seq[b] + 1 ELSE s.seq[b]]
    PROVE  View(r) = [View(s) EXCEPT !.seq =
                         [b \in DOMAIN @ |-> IF b \in S THEN @[b] + 1 ELSE @[b]]]
<1>1. DOMAIN s.seq = Addr
  BY DEF Store
<1> QED
  BY <1>1 DEF View

\* Ledger v with the messages D and the after_tx calls A, and parameters p.
Executed(v, D, A, p) == [v EXCEPT !.done = @ \cup D, !.after = @ \cup A, !.params = p]

\* The ledger once a transaction has taken effect.
LEMMA ExecutedView ==
    ASSUME NEW s, NEW r, NEW D, NEW A,
           r.seq = s.seq, r.done = s.done \cup D, r.after = s.after \cup A
    PROVE  View(r) = Executed(View(s), D, A, View(r).params)
<1> DEFINE l == Executed(View(s), D, A, View(r).params)
           T == [seq : {s.seq}, params : {r.params},
                 done : {s.done \cup D}, after : {s.after \cup A}]
<1>1. l \in T
  BY DEF View, Executed
<1>2. \A x \in T : x = [seq |-> s.seq, params |-> r.params,
                        done |-> s.done \cup D, after |-> s.after \cup A]
  OBVIOUS
<1> HIDE DEF l, T
<1>3. l = [seq |-> s.seq, params |-> r.params,
           done |-> s.done \cup D, after |-> s.after \cup A]
  BY <1>1, <1>2
<1> QED
  BY <1>3 DEF l, View

\* What the AnteHandler of a delivered transaction makes of the sequences, and whose.
LEMMA AnteView ==
    ASSUME NEW s \in Store, NEW t \in Txs, NEW r,
           \/ IsAbstractAccountTx(t) /\ SequenceMatches(s, t) /\ r = BeforeTx(s, t)
           \/ /\ ~IsAbstractAccountTx(t) /\ SignaturesAccepted(s, t, "deliver")
              /\ r = IncrementSequence(s, t)
    PROVE  /\ r.params = s.params /\ r.done = s.done /\ r.after = s.after
           /\ r.seq = [b \in Addr |-> IF b \in Signers(t) THEN s.seq[b] + 1 ELSE s.seq[b]]
           /\ Signers(t) \in {{a} : a \in Abstract} \cup SUBSET External
           /\ t.signers[1] \in Signers(t)
           /\ TxId(t) = <<t.signers[1], s.seq[t.signers[1]]>>
<1>1. ASSUME NEW u \in Store
      PROVE  LET q == IncrementSequence(u, t)
             IN  /\ q.params = u.params /\ q.done = u.done /\ q.after = u.after
                 /\ q.seq = [b \in Addr |->
                                IF b \in Signers(t) THEN u.seq[b] + 1 ELSE u.seq[b]]
  BY DEF IncrementSequence, Signers, Store
<1>2. t.signers \in Seq(Addr)
  BY TxFlowAssumption DEF Tx
<1>3. CASE IsAbstractAccountTx(t) /\ SequenceMatches(s, t) /\ r = BeforeTx(s, t)
  <2> DEFINE a == t.signers[1]
             n == t.sigs[1].sequence
             u == [SetSignerAddress(s, a) EXCEPT !.before[a] = @ \cup {n}]
  <2>1. a \in Abstract /\ a \in Addr /\ n \in Nat
    BY <1>3, TxIdType DEF IsAbstractAccountTx, Sig
  <2>2. u \in Store
    BY <2>1 DEF SetSignerAddress, Store, Addr
  <2>3. u.params = s.params /\ u.done = s.done /\ u.after = s.after /\ u.seq = s.seq
    BY <2>1 DEF SetSignerAddress, Store
  <2>4. r = IncrementSequence(u, t)
    BY <1>3 DEF BeforeTx
  <2>5. DOMAIN t.signers = {1}
    BY <1>2, <1>3 DEF IsAbstractAccountTx
  <2>6. Signers(t) = {a}
    BY <2>5 DEF Signers
  <2>7. TxId(t) = <<a, s.seq[a]>>
    BY <1>3 DEF TxId, SequenceMatches
  <2> HIDE DEF u
  <2>8. /\ r.params = s.params /\ r.done = s.done /\ r.after = s.after
        /\ r.seq = [b \in Addr |-> IF b \in Signers(t) THEN s.seq[b] + 1 ELSE s.seq[b]]
    BY <1>1, <2>2, <2>3, <2>4
  <2> QED
    BY <2>1, <2>6, <2>7, <2>8
<1>4. CASE /\ ~IsAbstractAccountTx(t) /\ SignaturesAccepted(s, t, "deliver")
           /\ r = IncrementSequence(s, t)
  <2>1. /\ Len(t.sigs) = Len(t.signers)
        /\ s.seq[t.signers[1]] = t.sigs[1].sequence
        /\ \A i \in DOMAIN t.signers : t.signers[i] \notin Abstract
    BY <1>4, AcceptedSequence, AcceptedSigners
  <2>2. 1 \in DOMAIN t.signers
    BY <2>1, TxIdType
  <2>3. \A i \in DOMAIN t.signers : t.signers[i] \in Addr
    BY <1>2
  <2>4. Signers(t) \subseteq External
    BY <2>1, <2>3 DEF Signers, Addr
  <2>5. t.signers[1] \in Signers(t)
    BY <2>2 DEF Signers
  <2>6. TxId(t) = <<t.signers[1], s.seq[t.signers[1]]>>
    BY <2>1 DEF TxId
  <2> QED
    BY <1>1, <1>4, <2>4, <2>5, <2>6
<1> QED
  BY <1>3, <1>4

\* The AnteHandler of a delivered transaction authenticates it; in the other modes
\* the ledger does not see it.
LEMMA AnteRefines ==
    ASSUME IInv, BranchInv, phase = "ante", NEW s, AntePassed(s),
           \/ IsAbstractAccountTx(tx) /\ SequenceMatches(work, tx) /\ s = BeforeTx(work, tx)
           \/ /\ ~IsAbstractAccountTx(tx) /\ SignaturesAccepted(work, tx, mode)
              /\ s = IncrementSequence(work, tx)
    PROVE  Promise!Authenticate \/ UNCHANGED Promise!vars
<1>1. tx \in Txs /\ work \in Store /\ deliverState \in Store /\ mode \in AllModes
  BY DEF IInv, TypeOK
<1>2. View(committed)' = View(committed)
  BY DEF AntePassed, View
<1>3. OpenTx = Nil
  BY DEF OpenTx
<1>4. CASE mode # "deliver"
  <2>1. OpenTx' = Nil /\ View(deliverState)' = View(deliverState)
    BY <1>4 DEF AntePassed, OpenTx, View
  <2> QED
    BY <1>2, <1>3, <2>1 DEF Promise!vars
<1>5. CASE mode = "deliver"
  <2>1. work = deliverState
    BY <1>5 DEF BranchInv
  <2>2. /\ s.params = deliverState.params /\ s.done = deliverState.done
        /\ s.after = deliverState.after
        /\ s.seq = [b \in Addr |-> IF b \in Signers(tx) THEN deliverState.seq[b] + 1
                                   ELSE deliverState.seq[b]]
        /\ Signers(tx) \in {{a} : a \in Abstract} \cup SUBSET External
        /\ tx.signers[1] \in Signers(tx)
        /\ TxId(tx) = <<tx.signers[1], deliverState.seq[tx.signers[1]]>>
    BY <1>1, <1>5, <2>1, AnteView
  <2>3. View(s) = [View(deliverState) EXCEPT !.seq =
                      [b \in DOMAIN @ |-> IF b \in Signers(tx) THEN @[b] + 1 ELSE @[b]]]
    BY <1>1, <2>2, AuthenticatedView
  <2>4. View(deliverState)' = View(s)
    BY <1>5 DEF AntePassed, View
  <2>5. OpenTx' = Opened(tx)
    BY <1>5 DEF AntePassed, OpenTx, Opened, Signers, TxId
  <2>6. Opened(tx) = [id |-> <<tx.signers[1], View(deliverState).seq[tx.signers[1]]>>,
                      signers |-> Signers(tx)]
    BY <2>2 DEF Opened, View
  <2> QED
    BY <1>2, <1>3, <2>2, <2>3, <2>4, <2>5, <2>6 DEF Promise!Authenticate
<1> QED
  BY <1>4, <1>5

\* A transaction that is complete takes effect as a whole, if it is delivered.
LEMMA CompleteRefines ==
    ASSUME IInv, BranchInv, phase = "post", NEW s, Complete(s),
           \/ work.signer = Nil /\ s = work
           \/ work.signer # Nil /\ s = AfterTx(work, tx)
    PROVE  Promise!Execute \/ UNCHANGED Promise!vars
<1>1. tx \in Txs /\ work \in Store /\ Len(tx.sigs) = Len(tx.signers)
  BY DEF IInv, TypeOK
<1>2. View(committed)' = View(committed) /\ OpenTx' = Nil
  BY DEF Complete, EndRun, View, OpenTx
<1>3. CASE mode # "deliver"
  <2>1. OpenTx = Nil /\ View(deliverState)' = View(deliverState)
    BY <1>3 DEF Complete, OpenTx, View
  <2> QED
    BY <1>2, <2>1 DEF Promise!vars
<1>4. CASE mode = "deliver"
  <2> DEFINE id == TxId(tx)
             A == IF work.signer = Nil THEN {} ELSE {<<work.signer, id>>}
             D == {id} \X (1..NMsgs)
             d == View(deliverState)
  <2>1. Ahead(work, deliverState, tx, NMsgs) /\ RunningInv(work, tx, NMsgs)
    BY <1>4 DEF BranchInv, IInv, RunInv
  <2>2. OpenTx = Opened(tx) /\ OpenTx.id = id /\ OpenTx.signers = Signers(tx)
    BY <1>4 DEF OpenTx, Opened
  <2>3. OpenTx # Nil
    BY <1>1, <2>2, OpenedAssumption
  <2>4. View(deliverState)' = View(s)
    BY <1>4 DEF Complete, View
  <2>5. work.signer \in Abstract \cup {Nil} /\ id[1] = tx.signers[1]
    BY <1>1 DEF Store, TxId
  <2>6. A \in SUBSET (Abstract \X {id})
    BY <2>5
  <2>7. IF id[1] \in Abstract THEN A = {<<id[1], id>>} ELSE \A f, g \in A : f = g
    <3>1. ASSUME id[1] \in Abstract PROVE A = {<<id[1], id>>}
      <4>1. work.signer = tx.signers[1]
        BY <2>1, <2>5, <3>1 DEF RunningInv
      <4>2. work.signer # Nil
        BY <2>5, <3>1, <4>1, TxFlowAssumption DEF Addr
      <4> QED
        BY <2>5, <4>1, <4>2
    <3>2. \A f, g \in A : f = g
      OBVIOUS
    <3> QED
      BY <3>1, <3>2
  <2>8. s.params = work.params /\ s.seq = work.seq /\ s.done = work.done
        /\ s.after = work.after \cup A
    BY <1>1 DEF AfterTx, DeleteSignerAddress, GetSignerAddress, Store
  <2> HIDE DEF A, D
  <2>9. s.seq = deliverState.seq /\ s.done = deliverState.done \cup D
        /\ s.after = deliverState.after \cup A
    BY <2>1, <2>8 DEF Ahead, D
  <2>10. View(s) = Executed(d, D, A, View(s).params)
    BY <2>9, ExecutedView
  <2>11. View(s).params # d.params => Authority \in Signers(tx) /\ Validate(View(s).params)
    BY <2>1, <2>8 DEF Ahead, View
  <2>12. View(deliverState)' = Executed(d, D, A, View(deliverState)'.params)
    BY <2>4, <2>10
  <2>13. View(deliverState)'.params # d.params =>
             Authority \in OpenTx.signers /\ Validate(View(deliverState)'.params)
    BY <2>2, <2>4, <2>11
  <2> HIDE DEF id
  <2>14. /\ A \in SUBSET (Abstract \X {OpenTx.id})
         /\ IF OpenTx.id[1] \in Abstract THEN A = {<<OpenTx.id[1], OpenTx.id>>}
            ELSE \A f, g \in A : f = g
         /\ View(deliverState)' = Executed(d, {OpenTx.id} \X (1..NMsgs), A,
                                           View(deliverState)'.params)
    BY <2>2, <2>6, <2>7, <2>12 DEF D
  <2>15. \E after \in SUBSET (Abstract \X {OpenTx.id}) :
             /\ IF OpenTx.id[1] \in Abstract THEN after = {<<OpenTx.id[1], OpenTx.id>>}
                ELSE \A f, g \in after : f = g
             /\ View(deliverState)' =
                    [View(deliverState) EXCEPT
                        !.done = @ \cup ({OpenTx.id} \X (1..NMsgs)),
                        !.after = @ \cup after,
                        !.params = View(deliverState)'.params]
    BY <2>14, Zenon DEF Executed
  <2> QED
    BY <1>2, <2>3, <2>13, <2>15, Zenon DEF Promise!Execute
<1> QED
  BY <1>3, <1>4

\* A run that fails drops the transaction, if it was open; what the AnteHandler
\* used up stays used up.
LEMMA AbortRefines ==
    ASSUME NEW reason, Abort(reason)
    PROVE  Promise!Drop \/ UNCHANGED Promise!vars
<1>1. /\ View(committed)' = View(committed) /\ View(deliverState)' = View(deliverState)
      /\ OpenTx' = Nil
  BY DEF Abort, EndRun, stores, View, OpenTx
<1> QED
  BY <1>1 DEF Promise!Drop, Promise!vars

\* A message is not seen in the ledger before its transaction is complete.
LEMMA MsgDoneRefines ==
    ASSUME NEW s, MsgDone(s)
    PROVE  UNCHANGED Promise!vars
<1>1. View(committed)' = View(committed) /\ View(deliverState)' = View(deliverState)
  BY DEF MsgDone, stores, View
<1>2. OpenTx' = OpenTx
  BY DEF MsgDone, OpenTx, Opened, TxId, Signers
<1> QED
  BY <1>1, <1>2 DEF Promise!vars

\* Every step is one of the ledger's, or is not seen in it.
LEMMA StepRefines == IInv /\ BranchInv /\ [Next]_vars => [Promise!Next]_(Promise!vars)
<1> SUFFICES ASSUME IInv, BranchInv, [Next]_vars
             PROVE  Promise!Next \/ UNCHANGED Promise!vars
  OBVIOUS
<1>1. ASSUME NEW t \in Txs, NEW m \in Modes, Begin(t, m) PROVE UNCHANGED Promise!vars
  <2>1. View(committed)' = View(committed) /\ View(deliverState)' = View(deliverState)
    BY <1>1 DEF Begin, stores, View
  <2>2. OpenTx = Nil /\ OpenTx' = Nil
    BY <1>1 DEF Begin, OpenTx
  <2> QED
    BY <2>1, <2>2 DEF Promise!vars
<1>2. CASE RunStep
  <2>1. CASE \E reason : Abort(reason)
    BY <2>1, AbortRefines DEF Promise!Next
  <2>2. ASSUME NEW s, phase = "ante", AntePassed(s),
               \/ /\ IsAbstractAccountTx(tx) /\ SequenceMatches(work, tx)
                  /\ s = BeforeTx(work, tx)
               \/ /\ ~IsAbstractAccountTx(tx) /\ SignaturesAccepted(work, tx, mode)
                  /\ s = IncrementSequence(work, tx)
        PROVE  Promise!Next \/ UNCHANGED Promise!vars
    BY <2>2, AnteRefines DEF Promise!Next
  <2>3. ASSUME NEW s, MsgDone(s) PROVE UNCHANGED Promise!vars
    BY <2>3, MsgDoneRefines
  <2>4. ASSUME NEW p, UpdateParams(p) PROVE UNCHANGED Promise!vars
    BY <2>3, <2>4 DEF UpdateParams
  <2>5. ASSUME NEW s, phase = "post", Complete(s),
               \/ work.signer = Nil /\ s = work
               \/ work.signer # Nil /\ s = AfterTx(work, tx)
        PROVE  Promise!Next \/ UNCHANGED Promise!vars
    BY <2>5, CompleteRefines DEF Promise!Next
  <2> QED
    BY <1>2, <2>1, <2>2, <2>3, <2>4, <2>5, RunSteps
<1>3. CASE Commit
  <2>1. OpenTx = Nil /\ OpenTx' = Nil
    BY <1>3 DEF Commit, run, OpenTx
  <2>2. View(committed)' = View(deliverState) /\ View(deliverState)' = View(deliverState)
    BY <1>3 DEF Commit, View
  <2> QED
    BY <2>1, <2>2 DEF Promise!Next, Promise!Commit
<1>4. CASE Crash
  <2>1. OpenTx' = Nil
    BY <1>4 DEF Crash, OpenTx
  <2>2. View(committed)' = View(committed) /\ View(deliverState)' = View(committed)
    BY <1>4 DEF Crash, View
  <2> QED
    BY <2>1, <2>2 DEF Promise!Next, Promise!Restart
<1>5. CASE UNCHANGED vars
  BY <1>5 DEF vars, stores, pool, run, View, OpenTx, Opened, TxId, Signers, Promise!vars
<1> QED
  BY <1>1, <1>2, <1>3, <1>4, <1>5 DEF Next

\* Genesis is an initial ledger.
LEMMA InitRefines == Init => Promise!Init
<1> SUFFICES ASSUME Init PROVE Promise!Init
  OBVIOUS
<1>1. OpenTx = Nil
  BY DEF Init, OpenTx
<1>2. View(deliverState) = View(committed)
  BY DEF Init
<1>3. /\ View(deliverState).seq = [a \in Abstract \cup External |-> 0]
      /\ View(deliverState).done = {} /\ View(deliverState).after = {}
      /\ Validate(View(deliverState).params)
  BY TxFlowAssumption DEF Init, View, GenesisStore, Addr
<1> QED
  BY <1>1, <1>2, <1>3 DEF Promise!Init

\* Whatever accounts, transactions, modes, failures and crashes there are, the two
\* hooks and the messages of a delivered transaction (BeforeTxDecorator,
\* AfterTxDecorator) are one authentication and one step that happens once or not
\* at all, and no check, recheck or simulation is ever seen in the ledger.
THEOREM LedgerImplemented == Spec => ImplementsLedger
<1>1. Init => BranchInv
  BY DEF Init, BranchInv
<1>2. Spec => []BranchInv
  BY <1>1, BranchStep, Invariant, PTL DEF Spec
<1> QED
  BY <1>2, InitRefines, StepRefines, Invariant, PTL DEF Spec, ImplementsLedger, Promise!Spec
=============================================================================
