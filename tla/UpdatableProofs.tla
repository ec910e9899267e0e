--------------------------- MODULE UpdatableProofs ---------------------------
(***************************************************************************)
(* Proofs about accounts of the account-updatable contract, for any keys,  *)
(* any transactions with any number of rotations, and any number of blocks *)
(* and crashes.                                                            *)
(***************************************************************************)
EXTENDS Updatable, SequenceTheorems, WellFoundedInduction, TLAPS

-----------------------------------------------------------------------------
(* Induction over sets of natural numbers *)

\* A set of natural numbers that is not empty has a least element.
LEMMA LeastNumber ==
    ASSUME NEW T, T \subseteq Nat, T # {}
    PROVE  \E m \in T : \A k \in T : m <= k
<1> DEFINE R == OpToRel(<, Nat)
<1>1. IsWellFoundedOn(R, Nat)
  BY NatLessThanWellFounded
<1>2. \A x, y \in Nat : x < y => <<x, y>> \in R
  BY DEF OpToRel
<1> HIDE DEF R
<1>3. PICK m \in T : \A y \in T : ~(<<y, m>> \in R)
  BY <1>1, WFMin
<1>4. \A k \in T : ~(k < m)
  BY <1>2, <1>3
<1>5. \A k \in T : k \in Nat
  OBVIOUS
<1>6. \A k \in T : m <= k
  BY <1>4, <1>5
<1> QED
  BY <1>6

\* A set that has 0, and with every number the next, has all of them.
LEMMA SetInduction ==
    ASSUME NEW P, 0 \in P, \A n \in Nat : n \in P => n + 1 \in P
    PROVE  \A n \in Nat : n \in P
<1> SUFFICES ASSUME NEW n \in Nat, n \notin P PROVE FALSE
  OBVIOUS
<1> DEFINE T == {k \in Nat : k \notin P}
<1>1. PICK m \in T : \A k \in T : m <= k
  BY LeastNumber
<1>2. m \in Nat /\ m # 0 /\ m - 1 \in Nat
  BY <1>1
<1>3. m - 1 \in P
  BY <1>1, <1>2
<1>4. (m - 1) + 1 \in P
  BY <1>2, <1>3
<1> QED
  BY <1>1, <1>2, <1>4

\* One that is bounded, too, has a greatest element.
LEMMA GreatestNumber ==
    ASSUME NEW N \in Nat, NEW T, T \subseteq 1..N, T # {}
    PROVE  \E m \in T : \A k \in T : k <= m
<1> DEFINE B == {b \in Nat : \A k \in T : k <= b}
<1>1. N \in B
  OBVIOUS
<1>2. PICK b \in B : \A c \in B : b <= c
  BY <1>1, LeastNumber
<1>3. b \in Nat /\ \A k \in T : k \in Nat /\ k >= 1 /\ k <= b
  BY <1>2
<1>4. b >= 1 /\ b - 1 \in Nat
  <2>1. PICK k \in T : TRUE
    OBVIOUS
  <2>2. k \in Nat /\ k >= 1 /\ k <= b
    BY <1>3
  <2> QED
    BY <1>3, <2>2
<1>5. b - 1 \notin B
  BY <1>2, <1>3
<1>6. b \in T
  BY <1>3, <1>4, <1>5
<1> QED
  BY <1>3, <1>6

-----------------------------------------------------------------------------
(* The messages of a transaction *)

\* f lists the keys before the first and after each of the messages.
RunsMsgs(f, pubkey, msgs) ==
    /\ DOMAIN f = 0..Len(msgs)
    /\ f[0] = pubkey
    /\ \A n \in 1..Len(msgs) : f[n] = update_pubkey(f[n - 1], msgs[n])

\* The recursion that runs the messages is well defined.
LEMMA KeyAfterRuns ==
    ASSUME NEW pubkey, NEW msgs, Len(msgs) \in Nat
    PROVE  \E f : RunsMsgs(f, pubkey, msgs) /\ KeyAfter(pubkey, msgs) = f[Len(msgs)]
<1> DEFINE Body(f, i) == IF i = 0 THEN pubkey ELSE update_pubkey(f[i - 1], msgs[i])
           P == {n \in Nat : \E f : f = [i \in 0..n |-> Body(f, i)]}
<1>1. 0 \in P
  <2> DEFINE f == [i \in 0..0 |-> pubkey]
  <2>1. f = [i \in 0..0 |-> Body(f, i)]
    OBVIOUS
  <2> QED
    BY <2>1
<1>2. ASSUME NEW n \in Nat, n \in P PROVE n + 1 \in P
  <2>1. PICK f : f = [i \in 0..n |-> Body(f, i)]
    BY <1>2
  <2> DEFINE v == update_pubkey(f[n], msgs[n + 1])
             g == [i \in 0..(n + 1) |-> IF i = n + 1 THEN v ELSE f[i]]
  <2>2. \A i \in 0..n : g[i] = f[i]
    OBVIOUS
  <2>3. \A i \in 0..(n + 1) : g[i] = Body(g, i)
    <3> TAKE i \in 0..(n + 1)
    <3>1. CASE i = n + 1
      <4>1. g[n] = f[n] /\ g[i] = v /\ i - 1 = n /\ i # 0
        BY <3>1
      <4> HIDE DEF g
      <4> QED
        BY <3>1, <4>1
    <3>2. CASE i # n + 1
      <4>1. i \in 0..n /\ (i # 0 => i - 1 \in 0..n)
        BY <3>2
      <4>2. f[i] = Body(f, i)
        BY <2>1, <4>1
      <4> HIDE DEF g
      <4> QED
        BY <2>2, <4>1, <4>2
    <3> QED
      BY <3>1, <3>2
  <2>4. g = [i \in 0..(n + 1) |-> g[i]]
    OBVIOUS
  <2> HIDE DEF g
  <2>5. g = [i \in 0..(n + 1) |-> Body(g, i)]
    BY <2>3, <2>4
  <2> QED
    BY <2>5
<1> HIDE DEF P
<1>3. \A n \in Nat : n \in P
  BY <1>1, <1>2, SetInduction
<1> USE DEF P
<1> DEFINE after == CHOOSE f : f = [i \in 0..Len(msgs) |-> Body(f, i)]
<1>4. after = [i \in 0..Len(msgs) |-> Body(after, i)]
  <2>1. \E f : f = [i \in 0..Len(msgs) |-> Body(f, i)]
    BY <1>3
  <2> QED
    BY <2>1
<1>5. KeyAfter(pubkey, msgs) = after[Len(msgs)]
  BY DEF KeyAfter
<1> HIDE DEF after
<1>6. RunsMsgs(after, pubkey, msgs)
  BY <1>4 DEF RunsMsgs
<1> QED
  BY <1>5, <1>6

AnyKey == Keys \cup BadKeys

\* What the messages make of the account's key: the key they install last, which is
\* the same whatever the key was before, or none and the key stays.
LEMMA KeyAfterInstalls ==
    ASSUME NEW t \in Txs, NEW pubkey \in AnyKey
    PROVE  /\ KeyAfter(Nil, t.msgs) \in AnyKey \cup {Nil}
           /\ KeyAfter(pubkey, t.msgs) =
                  IF KeyAfter(Nil, t.msgs) = Nil THEN pubkey ELSE KeyAfter(Nil, t.msgs)
<1> DEFINE msgs == t.msgs
<1>1. /\ Len(msgs) \in Nat
      /\ \A n \in 1..Len(msgs) : msgs[n].new_pubkey \in AnyKey \cup {Nil}
  <2>1. msgs \in Seq(Message)
    BY UpdatableAssumption DEF Tx
  <2>2. Len(msgs) \in Nat /\ \A n \in 1..Len(msgs) : msgs[n] \in Message
    BY <2>1
  <2> QED
    BY <2>2 DEF Message, AnyKey
<1> HIDE DEF msgs
<1>2. PICK f : RunsMsgs(f, pubkey, msgs) /\ KeyAfter(pubkey, msgs) = f[Len(msgs)]
  BY <1>1, KeyAfterRuns
<1>3. PICK g : RunsMsgs(g, Nil, msgs) /\ KeyAfter(Nil, msgs) = g[Len(msgs)]
  BY <1>1, KeyAfterRuns
<1> DEFINE Good(n) == /\ g[n] \in AnyKey \cup {Nil}
                      /\ f[n] = IF g[n] = Nil THEN pubkey ELSE g[n]
           P == {n \in Nat : n <= Len(msgs) => Good(n)}
<1>4. 0 \in P
  BY <1>2, <1>3 DEF RunsMsgs
<1>5. ASSUME NEW n \in Nat, n \in P PROVE n + 1 \in P
  <2> SUFFICES ASSUME n + 1 <= Len(msgs) PROVE Good(n + 1)
    OBVIOUS
  <2>1. Good(n) /\ n + 1 \in 1..Len(msgs) /\ (n + 1) - 1 = n
    BY <1>1, <1>5
  <2>2. /\ f[n + 1] = update_pubkey(f[n], msgs[n + 1])
        /\ g[n + 1] = update_pubkey(g[n], msgs[n + 1])
    BY <1>2, <1>3, <2>1 DEF RunsMsgs
  <2>3. msgs[n + 1].new_pubkey \in AnyKey \cup {Nil}
    BY <1>1, <2>1
  <2> QED
    BY <2>1, <2>2, <2>3 DEF update_pubkey
<1> HIDE DEF P
<1>6. \A n \in Nat : n \in P
  BY <1>4, <1>5, SetInduction
<1> USE DEF P
<1>7. Good(Len(msgs))
  BY <1>1, <1>6
<1> QED
  BY <1>2, <1>3, <1>7 DEF msgs

-----------------------------------------------------------------------------
(* The chain of keys *)

Accepted == [credential : Keys, installs : AnyKey \cup {Nil}]

\* The rotations among the first n entries of a history.
Rotations(h, n) == {i \in 1..n : h[i].installs # Nil}

\* The key in force is the one of the last rotation, if there is one.
LEMMA KeyInForceIs ==
    ASSUME NEW s, NEW n \in Nat
    PROVE  /\ Rotations(s.history, n) = {} => KeyInForce(s, n) = GenesisKey
           /\ \A i \in Rotations(s.history, n) :
                  (\A j \in Rotations(s.history, n) : j <= i)
                      => KeyInForce(s, n) = s.history[i].installs
<1> DEFINE T == Rotations(s.history, n)
           last == CHOOSE i \in T : \A j \in T : j <= i
<1>1. KeyInForce(s, n) = IF T = {} THEN GenesisKey ELSE s.history[last].installs
  BY DEF KeyInForce, Rotations
<1>2. T \subseteq 1..n
  BY DEF Rotations
<1> HIDE DEF T
<1>3. ASSUME NEW i \in T, \A j \in T : j <= i PROVE last = i
  <2>1. last \in T /\ \A j \in T : j <= last
    BY <1>3
  <2>2. last <= i /\ i <= last
    BY <1>3, <2>1
  <2>3. last \in 1..n /\ i \in 1..n
    BY <1>2, <2>1
  <2> HIDE DEF last
  <2> QED
    BY <2>2, <2>3
<1> QED
  BY <1>1, <1>3 DEF T

\* It depends on the entries up to the last rotation only.
LEMMA KeyInForceSame ==
    ASSUME NEW s, NEW u, NEW n \in Nat, NEW m \in Nat, n <= m,
           \A i \in 1..n : u.history[i] = s.history[i],
           \A i \in 1..m : i > n => u.history[i].installs = Nil
    PROVE  KeyInForce(u, m) = KeyInForce(s, n)
<1> DEFINE T == Rotations(s.history, n)
<1>1. Rotations(u.history, m) = T
  BY DEF Rotations
<1>2. T \subseteq 1..n
  BY DEF Rotations
<1> HIDE DEF T
<1>3. CASE T = {}
  BY <1>1, <1>3, KeyInForceIs DEF T
<1>4. CASE T # {}
  <2>1. PICK i \in T : \A j \in T : j <= i
    BY <1>2, <1>4, GreatestNumber
  <2>2. KeyInForce(s, n) = s.history[i].installs
    BY <2>1, KeyInForceIs DEF T
  <2>3. KeyInForce(u, m) = u.history[i].installs
    BY <1>1, <2>1, KeyInForceIs
  <2> QED
    BY <1>2, <2>1, <2>2, <2>3
<1> QED
  BY <1>3, <1>4

\* An accepted transaction that was signed with the present key, and whose last
\* rotation is what the account's key is now, prolongs the chain.
LEMMA ChainProlonged ==
    ASSUME NEW s \in Store, RotationsChain(s),
           NEW k \in AnyKey \cup {Nil}, NEW u \in Store,
           s.PUBKEY \in Keys,
           u.seq = s.seq + 1,
           u.history = Append(s.history, [credential |-> s.PUBKEY, installs |-> k]),
           u.PUBKEY = IF k = Nil THEN s.PUBKEY ELSE k
    PROVE  RotationsChain(u)
<1> DEFINE m == s.seq
           e == [credential |-> s.PUBKEY, installs |-> k]
<1>1. /\ m \in Nat /\ s.history \in Seq(Accepted) /\ Len(s.history) = m
      /\ e \in Accepted
  BY DEF Store, RotationsChain, Accepted, AnyKey
<1>2. /\ Len(u.history) = m + 1
      /\ \A i \in 1..m : u.history[i] = s.history[i]
      /\ u.history[m + 1] = e
  BY <1>1
<1> HIDE DEF m
<1>3. \A n \in 0..m : KeyInForce(u, n) = KeyInForce(s, n)
  <2> TAKE n \in 0..m
  <2>1. n \in Nat /\ n <= n /\ \A i \in 1..n : u.history[i] = s.history[i]
    BY <1>1, <1>2
  <2>2. \A i \in 1..n : i > n => u.history[i].installs = Nil
    OBVIOUS
  <2> QED
    BY <2>1, <2>2, KeyInForceSame
<1>4. KeyInForce(u, m + 1) = u.PUBKEY
  <2>1. CASE k = Nil
    <3>1. \A i \in 1..(m + 1) : i > m => u.history[i].installs = Nil
      BY <1>1, <1>2, <2>1
    <3>2. m \in Nat /\ m + 1 \in Nat /\ m <= m + 1
      BY <1>1
    <3>3. KeyInForce(u, m + 1) = KeyInForce(s, m)
      BY <1>2, <3>1, <3>2, KeyInForceSame
    <3> QED
      BY <2>1, <3>3 DEF RotationsChain, m
  <2>2. CASE k # Nil
    <3>1. /\ m + 1 \in Rotations(u.history, m + 1)
          /\ \A j \in Rotations(u.history, m + 1) : j <= m + 1
      BY <1>1, <1>2, <2>2 DEF Rotations
    <3>2. m + 1 \in Nat
      BY <1>1
    <3>3. KeyInForce(u, m + 1) = u.history[m + 1].installs
      BY <3>1, <3>2, KeyInForceIs
    <3> QED
      BY <1>2, <2>2, <3>3
  <2> QED
    BY <2>1, <2>2
<1>5. ASSUME NEW n \in 1..(m + 1)
      PROVE  u.history[n].credential = KeyInForce(u, n - 1)
  <2>1. n - 1 \in 0..m
    BY <1>1
  <2>2. CASE n = m + 1
    <3>1. KeyInForce(u, n - 1) = KeyInForce(s, m)
      BY <1>1, <1>3, <2>1, <2>2
    <3>2. u.history[n].credential = s.PUBKEY
      BY <1>2, <2>2
    <3> QED
      BY <3>1, <3>2 DEF RotationsChain, m
  <2>3. CASE n # m + 1
    <3>1. n \in 1..m
      BY <1>1, <2>3
    <3> QED
      BY <1>2, <1>3, <2>1, <3>1 DEF RotationsChain, m
  <2> QED
    BY <2>2, <2>3
<1> QED
  BY <1>1, <1>2, <1>4, <1>5 DEF RotationsChain, m

\* Outside simulations before_tx accepts nothing but a signature with the account's
\* key, which then is a key the curve library can work with.
LEMMA AuthenticatedByKey ==
    ASSUME NEW s \in Store, NEW t \in Txs, NEW mode \in {"check", "recheck", "deliver"},
           Authenticated(s, t, mode)
    PROVE  t.credential = s.PUBKEY /\ s.PUBKEY \in Keys
<1>1. s.PUBKEY \in AnyKey /\ t.credential \in Keys \cup {Nil}
  BY UpdatableAssumption DEF Store, Tx, AnyKey
<1>2. ~Simulates(mode)
  BY DEF Simulates
<1>3. before_tx(s.PUBKEY, t.credential, Simulates(mode)) = "ok"
  BY DEF Authenticated
<1>4. secp256k1_verify(t.credential, s.PUBKEY) = "true"
  BY <1>2, <1>3 DEF before_tx, secp256k1_verify
<1> QED
  BY <1>1, <1>4 DEF secp256k1_verify, AnyKey

\* The AnteHandler prolongs the chain by a transaction that installs no key.
LEMMA AfterAnteChain ==
    ASSUME NEW s \in Store, RotationsChain(s), NEW t \in Txs,
           t.credential = s.PUBKEY, s.PUBKEY \in Keys
    PROVE  /\ AfterAnte(s, t) \in Store
           /\ RotationsChain(AfterAnte(s, t))
           /\ AfterAnte(s, t).PUBKEY = s.PUBKEY
<1> DEFINE u == AfterAnte(s, t)
           e == [credential |-> s.PUBKEY, installs |-> Nil]
           h == Append(s.history, e)
<1>1. e \in Accepted /\ s.history \in Seq(Accepted) /\ s.seq \in Nat
  BY DEF Store, Accepted, AnyKey
<1>2. h \in Seq(Accepted) /\ s.seq + 1 \in Nat
  BY <1>1
<1>3. u = [s EXCEPT !.seq = s.seq + 1, !.history = h]
  BY DEF AfterAnte
<1> HIDE DEF h
<1>4. u.PUBKEY = s.PUBKEY /\ u.seq = s.seq + 1 /\ u.history = h
  BY <1>3 DEF Store
<1>5. u \in Store
  BY <1>2, <1>3 DEF Store, Accepted, AnyKey
<1> HIDE DEF u
<1>6. RotationsChain(u)
  BY <1>4, <1>5, ChainProlonged DEF h
<1> QED
  BY <1>4, <1>5, <1>6 DEF u

\* Updating the entry just appended is appending the updated entry.
LEMMA LastEntryUpdated ==
    ASSUME NEW q \in Seq(Accepted), NEW c \in Keys, NEW k \in AnyKey \cup {Nil}
    PROVE  LET g == Append(q, [credential |-> c, installs |-> Nil])
           IN  [g EXCEPT ![Len(g)].installs = k] =
                   Append(q, [credential |-> c, installs |-> k])
<1> DEFINE e == [credential |-> c, installs |-> Nil]
           d == [credential |-> c, installs |-> k]
           g == Append(q, e)
           h == Append(q, d)
<1>1. PICK N \in Nat : N = Len(q) + 1
  OBVIOUS
<1>2. e \in Accepted /\ d \in Accepted /\ [e EXCEPT !.installs = k] = d
  BY DEF Accepted
<1> HIDE DEF e, d
<1>3. /\ g \in Seq(Accepted) /\ Len(g) = N /\ g[N] = e
      /\ \A i \in 1..Len(q) : g[i] = q[i]
  BY <1>1, <1>2, AppendProperties
<1>4. /\ h \in Seq(Accepted) /\ Len(h) = N /\ h[N] = d
      /\ \A i \in 1..Len(q) : h[i] = q[i]
  BY <1>1, <1>2, AppendProperties
<1> HIDE DEF g, h
<1>5. \A i \in 1..N : i # N => i \in 1..Len(q)
  BY <1>1
<1>6. DOMAIN g = 1..N /\ N \in 1..N
  BY <1>1, <1>3
<1> DEFINE w == [g EXCEPT ![Len(g)].installs = k]
<1>7. w = [i \in 1..N |-> IF i = N THEN d ELSE g[i]]
  BY <1>2, <1>3, <1>6
<1>8. h = [i \in 1..N |-> h[i]]
  BY <1>4
<1>9. \A i \in 1..N : h[i] = IF i = N THEN d ELSE g[i]
  BY <1>3, <1>4, <1>5
<1> HIDE DEF w
<1>10. w = h
  BY <1>7, <1>8, <1>9
<1> QED
  BY <1>10 DEF w, g, h, e, d

\* A transaction whose messages take effect prolongs it by its last rotation.
LEMMA AfterMsgsChain ==
    ASSUME NEW s \in Store, RotationsChain(s), NEW t \in Txs,
           t.credential = s.PUBKEY, s.PUBKEY \in Keys
    PROVE  AfterMsgs(s, t) \in Store /\ RotationsChain(AfterMsgs(s, t))
<1> DEFINE a == AfterAnte(s, t)
           u == AfterMsgs(s, t)
           k == KeyAfter(Nil, t.msgs)
           p == KeyAfter(s.PUBKEY, t.msgs)
           e == [credential |-> s.PUBKEY, installs |-> Nil]
           d == [credential |-> s.PUBKEY, installs |-> k]
           h == Append(s.history, d)
<1>1. k \in AnyKey \cup {Nil} /\ p = IF k = Nil THEN s.PUBKEY ELSE k
  BY KeyAfterInstalls DEF AnyKey
<1>2. p \in AnyKey
  BY <1>1 DEF AnyKey
<1>3. a \in Store /\ a.history = Append(s.history, e) /\ a.seq = s.seq + 1
  BY AfterAnteChain DEF AfterAnte, Store
<1> HIDE DEF a, k, p
<1>4. d \in Accepted /\ e \in Accepted /\ s.history \in Seq(Accepted)
  BY <1>1 DEF Store, Accepted, AnyKey
<1>5. h \in Seq(Accepted)
  BY <1>4
<1>6. [a.history EXCEPT ![Len(a.history)].installs = k] = h
  BY <1>1, <1>3, <1>4, LastEntryUpdated
<1>7. u = [a EXCEPT !.PUBKEY = p, !.history = h]
  BY <1>3, <1>6 DEF AfterMsgs, a, k, p, Store
<1> HIDE DEF h
<1>8. u.PUBKEY = p /\ u.seq = s.seq + 1 /\ u.history = h /\ u \in Store
  BY <1>2, <1>3, <1>5, <1>7 DEF Store, Accepted, AnyKey
<1> HIDE DEF u
<1>9. RotationsChain(u)
  BY <1>1, <1>8, ChainProlonged DEF h
<1> QED
  BY <1>8, <1>9 DEF u

-----------------------------------------------------------------------------
(* The node *)

\* CheckTx goes on from the key of the last block, which no transaction it accepts
\* replaces; and bytes that are no key stay what they are.
IInv ==
    /\ TypeOK
    /\ KeysFormAChain
    /\ MempoolSignedWithKey
    /\ checkState.PUBKEY = committed.PUBKEY
    /\ committed.PUBKEY \in BadKeys => deliverState = committed

\* A new account: nothing accepted, the key it was instantiated with.
LEMMA InitIInv == Init => IInv
<1> SUFFICES ASSUME Init PROVE IInv
  OBVIOUS
<1>1. committed \in Store
  BY UpdatableAssumption DEF Init, Instantiated, Store
<1>2. committed.history = <<>> /\ committed.seq = 0 /\ committed.PUBKEY = GenesisKey
  BY DEF Init, Instantiated
<1>3. RotationsChain(committed)
  <2>1. Rotations(committed.history, 0) = {}
    BY DEF Rotations
  <2>2. KeyInForce(committed, 0) = GenesisKey
    BY <2>1, KeyInForceIs
  <2> QED
    BY <1>2, <2>2 DEF RotationsChain
<1> QED
  BY <1>1, <1>3 DEF Init, IInv, TypeOK, KeysFormAChain, MempoolSignedWithKey

\* Every step keeps the invariant.
LEMMA StepIInv == IInv /\ [Next]_vars => IInv'
<1> SUFFICES ASSUME IInv, [Next]_vars PROVE IInv'
  OBVIOUS
<1>0. /\ TypeOK /\ committed \in Store /\ deliverState \in Store
      /\ checkState \in Store /\ RotationsChain(committed)
      /\ RotationsChain(deliverState) /\ RotationsChain(checkState)
      /\ checkState.PUBKEY = committed.PUBKEY
  BY DEF IInv, TypeOK, KeysFormAChain
<1>1. ASSUME NEW t \in Txs, NEW mode \in {"check", "recheck"},
             Authenticated(checkState, t, mode),
             checkState' = AfterAnte(checkState, t)
      PROVE  /\ checkState' \in Store /\ RotationsChain(checkState')
             /\ checkState'.PUBKEY = committed.PUBKEY
             /\ t.credential = committed.PUBKEY
  BY <1>0, <1>1, AuthenticatedByKey, AfterAnteChain
<1>2. ASSUME NEW t \in Txs, CheckTx(t) PROVE IInv'
  <2>1. CASE Authenticated(checkState, t, "check")
    BY <1>0, <1>1, <1>2, <2>1
       DEF CheckTx, IInv, TypeOK, KeysFormAChain, MempoolSignedWithKey
  <2>2. CASE ~Authenticated(checkState, t, "check")
    BY <1>0, <1>2, <2>2
       DEF CheckTx, IInv, TypeOK, KeysFormAChain, MempoolSignedWithKey
  <2> QED
    BY <2>1, <2>2
<1>3. ASSUME NEW t \in Txs, Recheck(t) PROVE IInv'
  <2>1. CASE Authenticated(checkState, t, "recheck")
    BY <1>0, <1>1, <1>3, <2>1
       DEF Recheck, IInv, TypeOK, KeysFormAChain, MempoolSignedWithKey
  <2>2. CASE ~Authenticated(checkState, t, "recheck")
    BY <1>0, <1>3, <2>2
       DEF Recheck, IInv, TypeOK, KeysFormAChain, MempoolSignedWithKey
  <2> QED
    BY <2>1, <2>2
<1>4. ASSUME NEW t \in Txs, Simulate(t) PROVE IInv'
  BY <1>4 DEF Simulate, stores, IInv, TypeOK, KeysFormAChain, MempoolSignedWithKey
<1>5. ASSUME NEW t \in Txs, Delivered(t), deliverState' \in Store,
             RotationsChain(deliverState'),
             committed.PUBKEY \in BadKeys => deliverState' = committed,
             result' \in {"ok", "refused", "failed"}
      PROVE  IInv'
  BY <1>0, <1>5
     DEF Delivered, IInv, TypeOK, KeysFormAChain, MempoolSignedWithKey
<1>6. ASSUME NEW t \in Txs, DeliverRefused(t) PROVE IInv'
  BY <1>0, <1>5, <1>6 DEF DeliverRefused, IInv
<1>7. ASSUME NEW t \in Txs, Authenticated(deliverState, t, "deliver")
      PROVE  /\ t.credential = deliverState.PUBKEY /\ deliverState.PUBKEY \in Keys
             /\ committed.PUBKEY \notin BadKeys
  BY <1>0, <1>7, AuthenticatedByKey, UpdatableAssumption DEF IInv
<1>8. ASSUME NEW t \in Txs, DeliverFails(t) PROVE IInv'
  BY <1>0, <1>5, <1>7, <1>8, AfterAnteChain DEF DeliverFails
<1>9. ASSUME NEW t \in Txs, DeliverSucceeds(t) PROVE IInv'
  BY <1>0, <1>5, <1>7, <1>9, AfterMsgsChain DEF DeliverSucceeds
<1>10. ASSUME NEW o \in Others, NEW k \in Keys \cup BadKeys,
              OtherExecutes([caller |-> o, new_pubkey |-> k])
       PROVE  IInv'
  <2>1. ~CanExecute([caller |-> o, new_pubkey |-> k])
    BY UpdatableAssumption DEF CanExecute, assert_self
  <2> QED
    BY <1>0, <1>10, <2>1
       DEF OtherExecutes, IInv, TypeOK, KeysFormAChain, MempoolSignedWithKey
<1>11. CASE Commit
  BY <1>0, <1>11 DEF Commit, IInv, TypeOK, KeysFormAChain, MempoolSignedWithKey
<1>12. CASE Crash
  BY <1>0, <1>12 DEF Crash, IInv, TypeOK, KeysFormAChain, MempoolSignedWithKey
<1>13. CASE UNCHANGED vars
  BY <1>13
     DEF vars, stores, IInv, TypeOK, KeysFormAChain, MempoolSignedWithKey
<1> QED
  BY <1>2, <1>3, <1>4, <1>6, <1>8, <1>9, <1>10, <1>11, <1>12, <1>13 DEF Next

-----------------------------------------------------------------------------
(* Theorems *)

\* The invariant behind the results below.
THEOREM NodeInvariant == Spec => []IInv
BY InitIInv, StepIInv, PTL DEF Spec

\* The account's states keep their types; the key is never left empty.
THEOREM TypeCorrect == Spec => []TypeOK
<1>1. IInv => TypeOK
  BY DEF IInv
<1> QED
  BY <1>1, NodeInvariant, PTL

\* Whatever number of rotations transactions hold, each accepted transaction was
\* signed with the key the latest successful update_pubkey had installed, in the
\* committed state, in the block being executed and in CheckTx's state.
THEOREM KeysChained == Spec => []KeysFormAChain
<1>1. IInv => KeysFormAChain
  BY DEF IInv
<1> QED
  BY <1>1, NodeInvariant, PTL

\* Once rechecked, the mempool holds no transaction signed with a replaced key.
THEOREM MempoolFresh == Spec => []MempoolSignedWithKey
<1>1. IInv => MempoolSignedWithKey
  BY DEF IInv
<1> QED
  BY <1>1, NodeInvariant, PTL

\* An account that installed bytes that are no key never changes again: no step of
\* any transaction, block or crash touches what is committed of it.
THEOREM LockedOutForGood == Spec => LockedOut
<1>1. IInv /\ [Next]_vars =>
          [committed.PUBKEY \in BadKeys => committed' = committed]_vars
  <2> SUFFICES ASSUME IInv, Next, committed.PUBKEY \in BadKeys
               PROVE  committed' = committed
    OBVIOUS
  <2>1. deliverState = committed
    BY DEF IInv
  <2> QED
    BY <2>1 DEF Next, CheckTx, Recheck, Simulate, DeliverRefused, DeliverFails,
                DeliverSucceeds, Delivered, OtherExecutes, Commit, Crash, stores
<1> QED
  BY <1>1, NodeInvariant, PTL DEF Spec, LockedOut
=============================================================================
