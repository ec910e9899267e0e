----------------------------- MODULE EthProofs ------------------------------
(***************************************************************************)
(* Proofs about accounts of the account-eth contract, for any wallets and  *)
(* addresses of any length, any strings and any credentials.               *)
(***************************************************************************)
EXTENDS Eth, SequenceTheorems, TLAPS

-----------------------------------------------------------------------------
(* Strings *)

\* Anything indexed from 1 to its length is a sequence of what it holds.
LEMMA SequenceIsSeq ==
    ASSUME NEW s, IsSequence(s)
    PROVE  s \in Seq({s[i] : i \in 1..Len(s)})
<1> DEFINE V == {s[i] : i \in 1..Len(s)}
<1>1. s \in [1..Len(s) -> V] /\ Len(s) \in Nat
  BY DEF IsSequence
<1> HIDE DEF V
<1>2. s \in UNION {[1..n -> V] : n \in Nat}
  BY <1>1
<1>3. s \in Seq(V)
  BY <1>2, SeqDef
<1> QED
  BY <1>3 DEF V

\* Cutting off the two characters in front.
LEMMA WithoutPrefixIs ==
    ASSUME NEW str \in Strings, Len(str) >= 2
    PROVE  /\ Len(str) \in Nat
           /\ Len(WithoutPrefix(str)) = Len(str) - 2
           /\ DOMAIN WithoutPrefix(str) = 1..(Len(str) - 2)
           /\ \A i \in 1..(Len(str) - 2) : WithoutPrefix(str)[i] = str[i + 2]
<1> DEFINE V == {str[i] : i \in 1..Len(str)}
<1>1. IsSequence(str) /\ Len(str) \in Nat
  BY EthAssumption DEF IsSequence
<1>2. str \in Seq(V)
  BY <1>1, SequenceIsSeq
<1> HIDE DEF V
<1>3. \A i \in 3..Len(str) : str[i] \in V
  BY <1>1, <1>2
<1>4. PICK n \in Nat : n = Len(str) /\ n >= 2
  BY <1>1
<1>5. /\ WithoutPrefix(str) \in Seq(V)
      /\ Len(WithoutPrefix(str)) = IF 3 <= n THEN n - 3 + 1 ELSE 0
      /\ \A i \in 1..(n - 3 + 1) : WithoutPrefix(str)[i] = str[3 + i - 1]
  BY <1>3, <1>4, SubSeqProperties DEF WithoutPrefix
<1>6. Len(WithoutPrefix(str)) = n - 2
  BY <1>4, <1>5
<1>7. n - 3 + 1 = n - 2 /\ \A i \in 1..(n - 2) : 3 + i - 1 = i + 2
  BY <1>4
<1>8. DOMAIN WithoutPrefix(str) = 1..(n - 2)
  BY <1>5, <1>6
<1>9. \A i \in 1..(n - 2) : WithoutPrefix(str)[i] = str[i + 2]
  BY <1>5, <1>7
<1> QED
  BY <1>1, <1>4, <1>6, <1>8, <1>9

\* A string names a wallet just if before_tx decodes it to the wallet's address.
LEMMA DecodedNames ==
    ASSUME NEW str \in Strings, NEW w \in Wallets
    PROVE  Names(str, w) <=>
               /\ Len(str) >= 2
               /\ IsHex(WithoutPrefix(str))
               /\ Bytes(WithoutPrefix(str)) = AddrOf[w]
<1> DEFINE q == WithoutPrefix(str)
           A == AddrLen
           H == DOMAIN HexDigits
<1>1. /\ A \in Nat /\ AddrOf[w] \in [1..A -> 0..255]
      /\ \A c \in H : HexDigits[c] \in 0..15
      /\ Len(str) \in Nat
  BY EthAssumption DEF IsSequence
<1>2. /\ Len(str) >= 2 =>
             /\ Len(q) = Len(str) - 2
             /\ DOMAIN q = 1..(Len(str) - 2)
             /\ \A i \in 1..(Len(str) - 2) : q[i] = str[i + 2]
  BY WithoutPrefixIs
<1> DEFINE byte(i) == 16 * HexDigits[q[2 * i - 1]] + HexDigits[q[2 * i]]
<1>3. Bytes(q) = [i \in 1..(Len(q) \div 2) |-> byte(i)]
  BY DEF Bytes
<1>4. IsHex(q) <=> Len(q) % 2 = 0 /\ \A j \in DOMAIN q : q[j] \in H
  BY DEF IsHex
<1>5. Names(str, w) <=>
          /\ Len(str) = 2 + 2 * A
          /\ \A i \in 1..A :
                 /\ str[1 + 2 * i] \in H /\ str[2 + 2 * i] \in H
                 /\ AddrOf[w][i] = 16 * HexDigits[str[1 + 2 * i]]
                                   + HexDigits[str[2 + 2 * i]]
  BY DEF Names
<1> HIDE DEF q, H, A
<1>6. ASSUME Len(str) = 2 + 2 * A
      PROVE  /\ Len(q) = 2 * A /\ DOMAIN q = 1..(2 * A) /\ Len(str) >= 2
             /\ Len(q) \div 2 = A /\ Len(q) % 2 = 0
             /\ \A i \in 1..A : /\ 2 * i - 1 \in 1..(2 * A) /\ 2 * i \in 1..(2 * A)
                                /\ q[2 * i - 1] = str[1 + 2 * i]
                                /\ q[2 * i] = str[2 + 2 * i]
             /\ \A j \in 1..(2 * A) : \E i \in 1..A : j = 2 * i \/ j = 2 * i - 1
  <2>1. Len(str) >= 2 /\ Len(str) - 2 = 2 * A
    BY <1>1, <1>6
  <2>2. Len(q) = 2 * A /\ DOMAIN q = 1..(2 * A)
    BY <1>2, <2>1
  <2>3. (2 * A) \div 2 = A /\ (2 * A) % 2 = 0
    BY <1>1
  <2>4. \A i \in 1..A : /\ 2 * i - 1 \in 1..(2 * A) /\ 2 * i \in 1..(2 * A)
                        /\ (2 * i - 1) + 2 = 1 + 2 * i /\ 2 * i + 2 = 2 + 2 * i
    BY <1>1
  <2>5. \A i \in 1..A : q[2 * i - 1] = str[1 + 2 * i] /\ q[2 * i] = str[2 + 2 * i]
    BY <1>2, <2>1, <2>4
  <2>6. ASSUME NEW j \in 1..(2 * A)
        PROVE  \E i \in 1..A : j = 2 * i \/ j = 2 * i - 1
    <3> DEFINE i == (j + 1) \div 2
    <3>1. i \in 1..A /\ (j = 2 * i \/ j = 2 * i - 1)
      BY <1>1
    <3> HIDE DEF i
    <3> QED
      BY <3>1
  <2> QED
    BY <2>1, <2>2, <2>3, <2>4, <2>5, <2>6
<1>7. ASSUME Names(str, w)
      PROVE  Len(str) >= 2 /\ IsHex(q) /\ Bytes(q) = AddrOf[w]
  <2>1. Len(str) = 2 + 2 * A
    BY <1>5, <1>7
  <2>2. ASSUME NEW j \in DOMAIN q PROVE q[j] \in H
    <3>1. PICK i \in 1..A : j = 2 * i \/ j = 2 * i - 1
      BY <1>6, <2>1
    <3>2. q[2 * i - 1] \in H /\ q[2 * i] \in H
      BY <1>5, <1>6, <1>7, <2>1
    <3> QED
      BY <3>1, <3>2
  <2>3. \A i \in 1..A : AddrOf[w][i] = byte(i)
    BY <1>5, <1>6, <1>7, <2>1
  <2>4. AddrOf[w] = [i \in 1..A |-> AddrOf[w][i]]
    BY <1>1
  <2>5. Bytes(q) = AddrOf[w]
    BY <1>3, <1>6, <2>1, <2>3, <2>4
  <2> QED
    BY <1>4, <1>6, <2>1, <2>2, <2>5
<1>8. ASSUME Len(str) >= 2, IsHex(q), Bytes(q) = AddrOf[w]
      PROVE  Names(str, w)
  <2>1. Len(q) \in Nat /\ Len(q) % 2 = 0 /\ Len(q) = Len(str) - 2
    BY <1>1, <1>2, <1>4, <1>8
  <2>2. 1..(Len(q) \div 2) = 1..A
    BY <1>1, <1>3, <1>8
  <2>3. Len(q) \div 2 = A
    <3>1. PICK d \in Nat : d = Len(q) \div 2
      BY <2>1
    <3>2. \A i \in Int : i \in 1..d <=> i \in 1..A
      BY <2>2, <3>1
    <3> QED
      BY <1>1, <3>1, <3>2
  <2>4. Len(str) = 2 + 2 * A
    BY <1>1, <2>1, <2>3
  <2>5. \A i \in 1..A : AddrOf[w][i] = byte(i)
    BY <1>3, <1>8, <2>3
  <2> QED
    BY <1>4, <1>5, <1>6, <1>8, <2>4, <2>5
<1> QED
  BY <1>7, <1>8 DEF q

-----------------------------------------------------------------------------
(* Signatures *)

\* Credential cred starts with the signature by wallet w of the transaction with
\* these bytes, and v is the parity it was made with, in either convention.
SignedBy(cred, w, bytes, parity) ==
    /\ Len(cred) >= 3
    /\ cred[1] = R(w, PersonalMessage(bytes), parity)
    /\ cred[2] = S(w, PersonalMessage(bytes), parity)
    /\ cred[3] \in {parity, parity + 27}

\* The key recovered is the key that signed.
LEMMA RecoverSigner ==
    ASSUME NEW hash, NEW r, NEW s, NEW id
    PROVE  LET k == secp256k1_recover_pubkey(hash, r, s, id)
           IN  /\ k # Nil => /\ k \in Wallets
                             /\ r = R(k, hash, id) /\ s = S(k, hash, id)
               /\ \A w \in Wallets : r = R(w, hash, id) /\ s = S(w, hash, id) => k = w
<1> DEFINE Made(w) == r = R(w, hash, id) /\ s = S(w, hash, id)
           c == CHOOSE w \in Wallets : Made(w)
           k == secp256k1_recover_pubkey(hash, r, s, id)
<1>1. k = IF \E w \in Wallets : Made(w) THEN c ELSE Nil
  BY DEF secp256k1_recover_pubkey
<1>2. (\E w \in Wallets : Made(w)) => c \in Wallets /\ Made(c)
  OBVIOUS
<1>3. \A w, x : Made(w) /\ Made(x) => w = x
  BY DEF R
<1> HIDE DEF Made, c, k
<1>4. /\ k # Nil => k \in Wallets /\ Made(k)
      /\ \A w \in Wallets : Made(w) => k = w
  BY <1>1, <1>2, <1>3
<1> QED
  BY <1>4 DEF Made, k

\* The recovery id is the parity, or the parity and 27.
LEMMA RecoveryIds ==
    ASSUME NEW v
    PROVE  /\ normalize_recovery_id(v) # Nil =>
                  /\ normalize_recovery_id(v) \in {0, 1}
                  /\ v \in {normalize_recovery_id(v), normalize_recovery_id(v) + 27}
           /\ \A parity \in {0, 1} : v \in {parity, parity + 27} =>
                  normalize_recovery_id(v) = parity
BY EthAssumption DEF normalize_recovery_id

\* verify succeeds just on the signature, as a personal message, by the wallet with
\* the stored address.
LEMMA VerifyIs ==
    ASSUME NEW bytes, NEW cred, Len(cred) \in Nat, NEW addr
    PROVE  verify(bytes, cred, addr) = "ok" <=>
               \E w \in Wallets, parity \in {0, 1} :
                   SignedBy(cred, w, bytes, parity) /\ addr = AddrOf[w]
<1> DEFINE id == normalize_recovery_id(cred[3])
           hash == hash_message(bytes)
           k == secp256k1_recover_pubkey(hash, cred[1], cred[2], id)
<1>1. verify(bytes, cred, addr) = "ok" <=>
          Len(cred) >= 3 /\ id # Nil /\ k # Nil /\ addr = AddrOf[k]
  BY DEF verify, SameAddress
<1>2. hash = PersonalMessage(bytes)
  BY DEF hash_message, PersonalMessage
<1>3. /\ id # Nil => id \in {0, 1} /\ cred[3] \in {id, id + 27}
      /\ \A parity \in {0, 1} : cred[3] \in {parity, parity + 27} => id = parity
  BY RecoveryIds
<1>4. /\ k # Nil => /\ k \in Wallets
                    /\ cred[1] = R(k, hash, id) /\ cred[2] = S(k, hash, id)
      /\ \A w \in Wallets :
             cred[1] = R(w, hash, id) /\ cred[2] = S(w, hash, id) => k = w
  BY RecoverSigner
<1>5. 0 # Nil /\ 1 # Nil /\ \A w \in Wallets : w # Nil
  BY EthAssumption
<1> HIDE DEF id, hash, k
<1> QED
  BY <1>1, <1>2, <1>3, <1>4, <1>5 DEF SignedBy

\* before_tx lets a transaction in just if a wallet the stored string names has
\* signed it.
LEMMA BeforeTxIs ==
    ASSUME NEW str \in Strings, NEW bytes, NEW cred, Len(cred) \in Nat, cred # Nil
    PROVE  before_tx(str, bytes, cred, FALSE) = "ok" <=>
               \E w \in Wallets, parity \in {0, 1} :
                   SignedBy(cred, w, bytes, parity) /\ Names(str, w)
<1> DEFINE q == WithoutPrefix(str)
           Verified == verify(bytes, cred, Bytes(q)) = "ok"
<1>1. Len(str) \in Nat
  BY EthAssumption DEF IsSequence
<1>2. before_tx(str, bytes, cred, FALSE) = "ok" <=> Len(str) >= 2 /\ IsHex(q) /\ Verified
  BY <1>1 DEF before_tx
<1>3. Verified <=> \E w \in Wallets, parity \in {0, 1} :
                       SignedBy(cred, w, bytes, parity) /\ Bytes(q) = AddrOf[w]
  BY VerifyIs
<1>4. \A w \in Wallets :
          Names(str, w) <=> Len(str) >= 2 /\ IsHex(q) /\ Bytes(q) = AddrOf[w]
  BY DecodedNames
<1> HIDE DEF Verified, q
<1> QED
  BY <1>2, <1>3, <1>4

\* r and s are the first two parts of the credential.
LEMMA FirstParts ==
    ASSUME NEW cred
    PROVE  SubSeq(cred, 1, 2) = <<cred[1], cred[2]>>
<1> DEFINE V == {cred[1], cred[2]}
           q == SubSeq(cred, 1, 2)
<1>1. \A i \in 1..2 : cred[i] \in V
  BY SMT
<1> HIDE DEF V
<1>2. /\ q \in Seq(V)
      /\ Len(q) = IF 1 <= 2 THEN 2 - 1 + 1 ELSE 0
      /\ \A i \in 1..(2 - 1 + 1) : q[i] = cred[1 + i - 1]
  BY <1>1, SubSeqProperties
<1>3. q \in Seq(V) /\ Len(q) = 2 /\ q[1] = cred[1] /\ q[2] = cred[2]
  BY <1>2
<1> HIDE DEF q
<1>4. q = <<cred[1], cred[2]>>
  BY <1>3
<1> QED
  BY <1>4 DEF q

-----------------------------------------------------------------------------
(* The account *)

\* Each sequence number went, in turn, to a transaction made for it and signed by
\* the owner.
UsedBy(i, h) ==
    /\ h.tx.sequence = i - 1
    /\ \E w \in Owners, parity \in {0, 1} : SignedBy(h.cred, w, h.tx.bytes, parity)

\* The inductive invariant. Without the sequence of every transaction in the history
\* a signature could come back for a later one.
IInv ==
    /\ address \in Strings \cup {Nil}
    /\ seq \in Nat
    /\ history \in Seq([tx : Txs, cred : Creds])
    /\ Len(history) = seq
    /\ address = Nil => seq = 0
    /\ \A i \in 1..seq : UsedBy(i, history[i])

\* Init: no transaction yet.
LEMMA InitIInv == Init => IInv
<1> SUFFICES ASSUME Init PROVE IInv
  OBVIOUS
<1>1. history \in Seq([tx : Txs, cred : Creds]) /\ Len(history) = 0
  BY DEF Init
<1>2. 1..seq = {}
  BY DEF Init
<1> QED
  BY <1>1, <1>2 DEF Init, IInv

\* What a call of the contract that succeeds shows about a transaction.
LEMMA Authenticated ==
    ASSUME IInv, address # Nil, NEW t \in Txs, NEW cred \in Creds,
           Authenticate(t, cred, FALSE) = "ok"
    PROVE  UsedBy(seq + 1, [tx |-> t, cred |-> cred])
<1>1. t.sequence = seq /\ before_tx(address, t.bytes, CredBytes(cred), FALSE) = "ok"
  BY DEF Authenticate, SequenceMatches
<1>2. address \in Strings /\ Len(address) \in Nat
  BY EthAssumption DEF IInv, IsSequence
<1>3. CredBytes(cred) # Nil
  <2> SUFFICES ASSUME CredBytes(cred) = Nil PROVE FALSE
    OBVIOUS
  <2>1. before_tx(address, t.bytes, CredBytes(cred), FALSE) # "ok"
    BY DEF before_tx
  <2> QED
    BY <1>1, <2>1
<1>4. CredBytes(cred) = cred /\ Len(cred) \in Nat
  BY <1>3, EthAssumption DEF CredBytes, IsSequence
<1>5. PICK w \in Wallets, parity \in {0, 1} :
          SignedBy(cred, w, t.bytes, parity) /\ Names(address, w)
  BY <1>1, <1>2, <1>3, <1>4, BeforeTxIs
<1>6. w \in Owners
  BY <1>2, <1>5, EthAssumption DEF Owners
<1>7. seq = (seq + 1) - 1
  BY DEF IInv
<1> QED
  BY <1>1, <1>5, <1>6, <1>7 DEF UsedBy

\* A history stays good while the address does.
LEMMA StepIInv == IInv /\ [Next]_vars => IInv'
<1> SUFFICES ASSUME IInv, [Next]_vars PROVE IInv'
  OBVIOUS
<1>1. ASSUME NEW str \in Strings, Instantiate(str)
      PROVE  IInv'
  <2>1. seq = 0 /\ seq' = 0 /\ history' = history /\ address' = str
    BY <1>1 DEF Instantiate, IInv
  <2>2. 1..seq' = {}
    BY <2>1
  <2> QED
    BY <2>1, <2>2 DEF IInv
<1>2. ASSUME address' = address, seq' = seq, history' = history
      PROVE  IInv'
  BY <1>2 DEF IInv, UsedBy, Owners
<1>3. ASSUME NEW t \in Txs, NEW cred \in Creds, Deliver(t, cred)
      PROVE  IInv'
  <2>1. CASE result' # "ok"
    BY <1>2, <1>3, <2>1 DEF Deliver
  <2>2. CASE result' = "ok"
    <3> DEFINE h == [tx |-> t, cred |-> cred]
    <3>1. /\ seq' = seq + 1 /\ history' = Append(history, h)
          /\ address' = address /\ address # Nil
          /\ Authenticate(t, cred, FALSE) = "ok"
      BY <1>3, <2>2 DEF Deliver
    <3>2. h \in [tx : Txs, cred : Creds]
      OBVIOUS
    <3>3. UsedBy(seq + 1, h)
      BY <3>1, Authenticated
    <3> HIDE DEF h
    <3>4. /\ history' \in Seq([tx : Txs, cred : Creds])
          /\ Len(history') = seq'
          /\ history'[seq + 1] = h
          /\ \A i \in 1..seq : history'[i] = history[i]
      BY <3>1, <3>2 DEF IInv
    <3>5. \A i \in 1..seq' : UsedBy(i, history'[i])
      <4>1. \A i \in 1..seq' : i \in 1..seq \/ i = seq + 1
        BY <3>1 DEF IInv
      <4>2. \A i \in 1..seq : UsedBy(i, history'[i])
        BY <3>4 DEF IInv
      <4> QED
        BY <3>3, <3>4, <4>1, <4>2
    <3>6. Owners' = Owners
      BY <3>1 DEF Owners
    <3>7. \A i \in 1..seq' : UsedBy(i, history[i])'
      BY <3>5, <3>6 DEF UsedBy
    <3> QED
      BY <3>1, <3>4, <3>7 DEF IInv
  <2> QED
    BY <2>1, <2>2
<1>4. ASSUME NEW t \in Txs, NEW cred \in Creds, Simulate(t, cred)
      PROVE  IInv'
  BY <1>2, <1>4 DEF Simulate
<1> QED
  BY <1>1, <1>2, <1>3, <1>4 DEF Next, vars

\* The sequence numbers used up are the owner's signed transactions, in order.
THEOREM HistorySigned == Spec => []IInv
BY InitIInv, StepIInv, PTL DEF Spec

\* Every sequence number of an account was used up by its owner's signature, as a
\* personal message, of the transaction (before_tx, verify), whatever strings and
\* credentials were tried.
THEOREM OwnerSigned == Spec => []SignedByOwner
<1>1. IInv => SignedByOwner
  <2> SUFFICES ASSUME IInv PROVE SignedByOwner
    OBVIOUS
  <2>1. DOMAIN history = 1..seq /\ Len(history) = seq
    BY DEF IInv
  <2>2. ASSUME NEW i \in 1..seq
        PROVE  \E w \in Owners, parity \in {0, 1} :
                   /\ SubSeq(history[i].cred, 1, 2) =
                          <<R(w, PersonalMessage(history[i].tx.bytes), parity),
                            S(w, PersonalMessage(history[i].tx.bytes), parity)>>
                   /\ history[i].cred[3] \in {parity, parity + 27}
    <3>1. PICK w \in Owners, parity \in {0, 1} :
              SignedBy(history[i].cred, w, history[i].tx.bytes, parity)
      BY DEF IInv, UsedBy
    <3>2. SubSeq(history[i].cred, 1, 2) = <<history[i].cred[1], history[i].cred[2]>>
      BY FirstParts
    <3>3. WITNESS w \in Owners, parity \in {0, 1}
    <3> QED
      BY <3>1, <3>2 DEF SignedBy
  <2> QED
    BY <2>1, <2>2 DEF SignedByOwner
<1> QED
  BY <1>1, HistorySigned, PTL

\* No r and s are accepted twice: what they sign names a sequence number, and that
\* is used up once.
THEOREM SignaturesOnce == Spec => []SignatureUsedOnce
<1>1. IInv => SignatureUsedOnce
  <2> SUFFICES ASSUME IInv, NEW i \in DOMAIN history, NEW j \in DOMAIN history,
                      SubSeq(history[i].cred, 1, 2) = SubSeq(history[j].cred, 1, 2)
               PROVE  i = j
    BY DEF SignatureUsedOnce
  <2>1. /\ seq \in Nat /\ i \in 1..seq /\ j \in 1..seq
        /\ UsedBy(i, history[i]) /\ UsedBy(j, history[j])
        /\ history[i].tx \in Txs /\ history[j].tx \in Txs
    <3>1. DOMAIN history = 1..seq /\ seq \in Nat
      BY DEF IInv
    <3>2. \A h \in [tx : Txs, cred : Creds] : h.tx \in Txs
      OBVIOUS
    <3> DEFINE Accepted == [tx : Txs, cred : Creds]
    <3>3. history \in Seq(Accepted)
      BY DEF IInv
    <3> HIDE DEF Accepted
    <3>4. history[i] \in Accepted /\ history[j] \in Accepted
      BY <3>3, ElementOfSeq
    <3> QED
      BY <3>1, <3>2, <3>4 DEF IInv, Accepted
  <2>2. PICK v, p : history[i].cred[1] = R(v, PersonalMessage(history[i].tx.bytes), p)
    BY <2>1 DEF UsedBy, SignedBy
  <2>3. PICK w, o : history[j].cred[1] = R(w, PersonalMessage(history[j].tx.bytes), o)
    BY <2>1 DEF UsedBy, SignedBy
  <2>4. history[i].cred[1] = history[j].cred[1]
    <3>1. <<history[i].cred[1], history[i].cred[2]>> =
              <<history[j].cred[1], history[j].cred[2]>>
      BY FirstParts
    <3> QED
      BY <3>1
  <2>5. PersonalMessage(history[i].tx.bytes) = PersonalMessage(history[j].tx.bytes)
    BY <2>2, <2>3, <2>4 DEF R
  <2>6. history[i].tx.bytes = history[j].tx.bytes
    BY <2>5 DEF PersonalMessage
  <2>7. history[i].tx = history[j].tx
    BY <2>1, <2>6, EthAssumption
  <2>8. i - 1 = j - 1
    BY <2>1, <2>7 DEF UsedBy
  <2> QED
    BY <2>1, <2>8
<1> QED
  BY <1>1, HistorySigned, PTL

\* before_tx accepts the owner's signature of the next transaction in every state,
\* with v in both conventions: nothing sent before can lock the owner out.
THEOREM OwnerLetIn == Spec => []OwnerAuthenticates
<1>1. IInv => OwnerAuthenticates
  <2> SUFFICES ASSUME IInv, NEW w \in Owners, NEW t \in Txs, NEW parity \in {0, 1},
                      NEW offset \in {0, 27}
               PROVE  before_tx(address, t.bytes,
                                <<R(w, PersonalMessage(t.bytes), parity),
                                  S(w, PersonalMessage(t.bytes), parity),
                                  parity + offset>>, FALSE) = "ok"
    BY DEF OwnerAuthenticates
  <2> DEFINE r == R(w, PersonalMessage(t.bytes), parity)
             s == S(w, PersonalMessage(t.bytes), parity)
             v == parity + offset
             cred == <<r, s, v>>
  <2>1. address \in Strings /\ w \in Wallets /\ Names(address, w)
    BY DEF IInv, Owners
  <2>2. v \in {0, 1, 27, 28} /\ v \in {parity, parity + 27}
    OBVIOUS
  <2>3. cred # Nil
    BY <2>1, <2>2, SignatureAssumption DEF hash_message, PersonalMessage
  <2> HIDE DEF v
  <2>4. Len(cred) = 3 /\ cred[1] = r /\ cred[2] = s /\ cred[3] = v
    OBVIOUS
  <2> HIDE DEF cred
  <2>5. SignedBy(cred, w, t.bytes, parity)
    BY <2>2, <2>4 DEF SignedBy
  <2>6. before_tx(address, t.bytes, cred, FALSE) = "ok"
    <3>1. Len(cred) \in Nat
      BY <2>4
    <3> QED
      BY <2>1, <2>3, <2>5, <3>1, BeforeTxIs
  <2> QED
    BY <2>6 DEF cred, v
<1> QED
  BY <1>1, HistorySigned, PTL
=============================================================================
