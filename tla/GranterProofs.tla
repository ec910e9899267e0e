---------------------------- MODULE GranterProofs ----------------------------
(***************************************************************************)
(* Proofs about the account-granter contract, for any keys, transactions,  *)
(* grants and expirations, and any number of blocks and messages, and      *)
(* about the paginated listing of its grants (GrantsQuery).                *)
(***************************************************************************)
EXTENDS Granter, GrantsQuery, SequenceTheorems, TLAPS

-----------------------------------------------------------------------------
(* The inductive invariant *)

\* Message m grants or revokes pair p.
AboutMsg(m, p) == m.call # Nil /\ <<m.call.typeUrl, m.call.grantee>> = p

\* What call c leaves under its pair.
Effect(c) == IF c.kind = "revoke" THEN Nil ELSE [expiry |-> c.expiry]

\* Message i of history h is the last about pair p.
LatestIn(h, i, p) ==
    /\ i \in DOMAIN h
    /\ AboutMsg(h[i], p)
    /\ \A j \in DOMAIN h : j > i => ~AboutMsg(h[j], p)

\* Grants g are what the messages of history h have made of them.
Reflects(h, g) ==
    \A p \in Pairs :
        \/ (\A i \in DOMAIN h : ~AboutMsg(h[i], p)) /\ g[p] = Nil
        \/ \E i \in DOMAIN h : LatestIn(h, i, p) /\ g[p] = Effect(h[i].call)

\* History k is history h and then message m.
OneMore(h, k, m) ==
    \E n \in Nat :
        /\ DOMAIN h = 1..n
        /\ DOMAIN k = 1..(n + 1)
        /\ \A i \in 1..n : k[i] = h[i]
        /\ k[n + 1] = m

\* Grants f are grants g with v under pair q.
Overwrites(f, g, q, v) ==
    /\ f[q] = v
    /\ \A p \in Pairs : p # q => f[p] = g[p]

\* The messages that took effect, and those with the messages of the running
\* transaction that have been executed.
Past == [i \in 1..Len(log) |-> log[i].msg]

PastAndRun ==
    [i \in 1..(Len(log) + msgIndex - 1) |->
        IF i <= Len(log) THEN log[i].msg ELSE tx.msgs[i - Len(log)]]

\* The contract answers only to the account.
CallsFromAccount ==
    /\ \A i \in DOMAIN log : log[i].msg.call # Nil => log[i].msg.call.sender = Account
    /\ tx # Nil => \A i \in 1..(msgIndex - 1) :
           tx.msgs[i].call # Nil => tx.msgs[i].call.sender = Account

\* While a transaction runs, what before_tx found of it holds of the state the
\* transaction started from, and its branch has what it did so far on top.
TxRuns ==
    /\ msgIndex <= Len(tx.msgs) + 1
    /\ BeforeTx(store, block, tx, simulate)
    /\ Reflects(PastAndRun, work.grants)

IInv ==
    /\ TypeOK
    /\ store.pubkey = AccountKey /\ work.pubkey = AccountKey
    /\ Reflects(Past, store.grants)
    /\ tx # Nil => TxRuns
    /\ \A i \in DOMAIN log : log[i].first \in 1..i
    /\ CallsFromAccount
    /\ EffectsTraceToGrants
    /\ RightsFromAccountKey

-----------------------------------------------------------------------------
(* Histories *)

\* A message that does not call the contract leaves the grants as they are.
LEMMA ReflectsOther ==
    ASSUME NEW h, NEW k, NEW m, OneMore(h, k, m), m.call = Nil,
           NEW g, Reflects(h, g)
    PROVE  Reflects(k, g)
<1>0. PICK n \in Nat : /\ DOMAIN h = 1..n /\ DOMAIN k = 1..(n + 1)
                       /\ \A i \in 1..n : k[i] = h[i]
                       /\ k[n + 1] = m
  BY DEF OneMore
<1> SUFFICES ASSUME NEW p \in Pairs
             PROVE  \/ (\A i \in DOMAIN k : ~AboutMsg(k[i], p)) /\ g[p] = Nil
                    \/ \E i \in DOMAIN k : LatestIn(k, i, p) /\ g[p] = Effect(k[i].call)
  BY DEF Reflects
<1>1. ~AboutMsg(k[n + 1], p)
  BY <1>0 DEF AboutMsg
<1>2. \A i \in DOMAIN k : i \in 1..n \/ i = n + 1
  BY <1>0
<1>3. CASE (\A i \in DOMAIN h : ~AboutMsg(h[i], p)) /\ g[p] = Nil
  BY <1>0, <1>1, <1>2, <1>3
<1>4. ASSUME NEW i \in DOMAIN h, LatestIn(h, i, p), g[p] = Effect(h[i].call)
      PROVE  LatestIn(k, i, p) /\ g[p] = Effect(k[i].call) /\ i \in DOMAIN k
  BY <1>0, <1>1, <1>2, <1>4 DEF LatestIn
<1> QED
  BY <1>3, <1>4 DEF Reflects

\* A call has the last word on its pair.
LEMMA ReflectsCall ==
    ASSUME NEW h, NEW k, NEW m, OneMore(h, k, m), NEW q \in Pairs, AboutMsg(m, q),
           NEW g, Reflects(h, g), NEW f, Overwrites(f, g, q, Effect(m.call))
    PROVE  Reflects(k, f)
<1>0. PICK n \in Nat : /\ DOMAIN h = 1..n /\ DOMAIN k = 1..(n + 1)
                       /\ \A i \in 1..n : k[i] = h[i]
                       /\ k[n + 1] = m
  BY DEF OneMore
<1> SUFFICES ASSUME NEW p \in Pairs
             PROVE  \/ (\A i \in DOMAIN k : ~AboutMsg(k[i], p)) /\ f[p] = Nil
                    \/ \E i \in DOMAIN k : LatestIn(k, i, p) /\ f[p] = Effect(k[i].call)
  BY DEF Reflects
<1>1. \A i \in DOMAIN k : i \in 1..n \/ i = n + 1
  BY <1>0
<1>2. CASE p = q
  <2>1. n + 1 \in DOMAIN k /\ LatestIn(k, n + 1, p)
    BY <1>0, <1>2 DEF LatestIn
  <2> QED
    BY <1>0, <1>2, <2>1 DEF Overwrites
<1>3. CASE p # q
  <2>1. ~AboutMsg(k[n + 1], p) /\ f[p] = g[p]
    BY <1>0, <1>3 DEF AboutMsg, Overwrites
  <2>2. CASE (\A i \in DOMAIN h : ~AboutMsg(h[i], p)) /\ g[p] = Nil
    BY <1>0, <1>1, <2>1, <2>2
  <2>3. ASSUME NEW i \in DOMAIN h, LatestIn(h, i, p), g[p] = Effect(h[i].call)
        PROVE  LatestIn(k, i, p) /\ f[p] = Effect(k[i].call) /\ i \in DOMAIN k
    BY <1>0, <1>1, <2>1, <2>3 DEF LatestIn
  <2> QED
    BY <2>2, <2>3 DEF Reflects
<1> QED
  BY <1>2, <1>3

\* The messages of a transaction, and those that call the contract.
LEMMA MsgTypes ==
    ASSUME NEW t \in Txs
    PROVE  /\ t.msgs \in Seq(Msg) /\ Len(t.msgs) \in Nat
           /\ DOMAIN t.msgs = 1..Len(t.msgs)
           /\ \A i \in 1..Len(t.msgs) : t.msgs[i] \in Msg
           /\ t.cred \in Credential \cup {Nil}
<1>1. t \in Tx
  BY GranterAssumption
<1> QED
  BY <1>1 DEF Tx

\* A message that calls the contract has type MsgExecuteContract.
LEMMA CallTypes ==
    ASSUME NEW m \in Msg, m.call # Nil
    PROVE  /\ m.call \in Call /\ m.typeUrl = ExecuteContract
           /\ m.call.kind \in {"grant", "revoke"}
           /\ <<m.call.typeUrl, m.call.grantee>> \in Pairs
           /\ m.call.expiry \in Expiration \cup {Nil}
BY DEF Msg, Call, Pairs

\* before_tx lets a message of another key than the account's pass only under a
\* grant that the history leaves in force.
LEMMA GrantInHistory ==
    ASSUME NEW h, NEW g, Reflects(h, g), NEW p \in Pairs, NEW b, InForce(g[p], b),
           \A i \in DOMAIN h : h[i] \in Msg
    PROVE  \E i \in DOMAIN h :
               /\ LatestIn(h, i, p)
               /\ h[i].call.kind = "grant"
               /\ h[i].call.expiry # Nil => ~IsExpired(h[i].call.expiry, b)
<1>1. PICK i \in DOMAIN h : LatestIn(h, i, p) /\ g[p] = Effect(h[i].call)
  BY DEF Reflects, InForce
<1>2. h[i] \in Msg /\ h[i].call # Nil
  BY <1>1 DEF LatestIn, AboutMsg
<1>3. h[i].call.kind = "grant" /\ g[p] = [expiry |-> h[i].call.expiry]
  BY <1>1, <1>2, CallTypes DEF Effect, InForce
<1> QED
  BY <1>1, <1>3 DEF InForce

-----------------------------------------------------------------------------
(* Steps *)

\* The first state: no grants, no history.
LEMMA InitIInv == Init => IInv
<1> SUFFICES ASSUME Init PROVE IInv
  OBVIOUS
<1>1. TypeOK
  <2>1. store \in Store
    BY GranterAssumption DEF Init, Store
  <2>2. simulate \in BOOLEAN
    BY DEF Init
  <2>3. log \in Seq(Entry) /\ block \in [height : Nat, time : Nat]
    BY DEF Init
  <2> QED
    BY <2>1, <2>2, <2>3 DEF Init, TypeOK
<1>2. log = <<>> /\ tx = Nil /\ Len(log) = 0
  BY DEF Init
<1>3. Reflects(Past, store.grants)
  <2>1. DOMAIN Past = {}
    BY <1>2 DEF Past
  <2>2. \A p \in Pairs : store.grants[p] = Nil
    BY DEF Init
  <2> QED
    BY <2>1, <2>2 DEF Reflects
<1>4. DOMAIN log = {}
  BY <1>2
<1> QED
  BY <1>1, <1>2, <1>3, <1>4
     DEF IInv, Init, CallsFromAccount, EffectsTraceToGrants, RightsFromAccountKey

\* A message that is done keeps the invariant if the branch it leaves has its call,
\* if any, on top, and the call came from the account.
LEMMA MsgDoneIInv ==
    ASSUME IInv, HasMsg, NEW s \in Store, MsgDone(s), s.pubkey = AccountKey,
           Reflects(PastAndRun', s.grants),
           CurrentCall # Nil => CurrentCall.sender = Account
    PROVE  IInv'
<1>1. /\ tx \in Txs /\ tx # Nil /\ msgIndex \in 1..Len(tx.msgs) /\ TxRuns
      /\ Len(tx.msgs) \in Nat
  BY MsgTypes DEF IInv, TypeOK, HasMsg
<1>2. /\ msgIndex' = msgIndex + 1 /\ work' = s
      /\ UNCHANGED <<block, store, tx, simulate, log>>
  BY DEF MsgDone
<1>3. TypeOK'
  BY <1>1, <1>2 DEF IInv, TypeOK
<1>4. CallsFromAccount'
  <2>1. \A i \in 1..(msgIndex' - 1) : i \in 1..(msgIndex - 1) \/ i = msgIndex
    BY <1>1, <1>2
  <2> QED
    BY <1>2, <2>1 DEF IInv, CallsFromAccount, CurrentCall
<1>5. TxRuns'
  BY <1>1, <1>2 DEF TxRuns
<1>6. Past' = Past
  BY <1>2 DEF Past
<1>7. EffectsTraceToGrants' /\ RightsFromAccountKey'
  BY <1>2 DEF IInv, EffectsTraceToGrants, RightsFromAccountKey, GrantedBy,
              LatestAbout, About
<1> QED
  BY <1>2, <1>3, <1>4, <1>5, <1>6, <1>7 DEF IInv

\* What a message adds to the history of the running transaction.
LEMMA MsgDoneHistory ==
    ASSUME TypeOK, HasMsg, NEW s, MsgDone(s)
    PROVE  OneMore(PastAndRun, PastAndRun', tx.msgs[msgIndex])
<1> DEFINE n == Len(log) + msgIndex - 1
<1>1. /\ Len(log) \in Nat /\ msgIndex \in Nat /\ msgIndex >= 1 /\ n \in Nat
      /\ (n + 1) - Len(log) = msgIndex /\ ~(n + 1 <= Len(log))
  BY DEF TypeOK
<1>2. msgIndex' = msgIndex + 1 /\ tx' = tx /\ log' = log
  BY DEF MsgDone
<1>3. /\ DOMAIN PastAndRun = 1..n
      /\ \A i \in 1..n : PastAndRun[i] =
             IF i <= Len(log) THEN log[i].msg ELSE tx.msgs[i - Len(log)]
  BY DEF PastAndRun
<1>4. Len(log) + msgIndex' - 1 = n + 1
  BY <1>1, <1>2
<1>5. PastAndRun' = [i \in 1..(n + 1) |->
          IF i <= Len(log) THEN log[i].msg ELSE tx.msgs[i - Len(log)]]
  BY <1>2, <1>4 DEF PastAndRun
<1> HIDE DEF n
<1>6. /\ DOMAIN PastAndRun' = 1..(n + 1)
      /\ \A i \in 1..(n + 1) : PastAndRun'[i] =
             IF i <= Len(log) THEN log[i].msg ELSE tx.msgs[i - Len(log)]
  BY <1>5
<1>7. \A i \in 1..n : i \in 1..(n + 1)
  BY <1>1
<1>8. n + 1 \in 1..(n + 1)
  BY <1>1
<1> QED
  BY <1>1, <1>3, <1>6, <1>7, <1>8 DEF OneMore

\* A transaction that is rolled back, or was only simulated, leaves no trace.
LEMMA RolledBackIInv ==
    ASSUME IInv, tx' = Nil, simulate' = FALSE, work' = store, msgIndex' = 1,
           UNCHANGED <<block, store, log>>
    PROVE  IInv'
<1>1. TypeOK'
  <2>1. simulate' \in BOOLEAN
    OBVIOUS
  <2> QED
    BY <2>1 DEF IInv, TypeOK
<1>2. Past' = Past /\ CallsFromAccount'
  BY DEF IInv, Past, CallsFromAccount
<1>3. EffectsTraceToGrants' /\ RightsFromAccountKey'
  BY DEF IInv, EffectsTraceToGrants, RightsFromAccountKey, GrantedBy, LatestAbout,
         About
<1> QED
  BY <1>1, <1>2, <1>3 DEF IInv

\* A transaction that takes effect: each of its messages is covered by the account
\* key or by a grant that the messages before the transaction left in force.
LEMMA EndTxIInv == ASSUME IInv, EndTx, ~simulate PROVE IInv'
<1> DEFINE k == tx.cred.signature
<1>0. PICK n \in Nat : n = Len(log)
  BY DEF IInv, TypeOK
<1>1. PICK m \in Nat : m = Len(tx.msgs)
  BY MsgTypes DEF IInv, TypeOK, EndTx
<1>2. /\ tx \in Txs /\ tx # Nil /\ TxRuns /\ msgIndex = m + 1
      /\ DOMAIN tx.msgs = 1..m /\ \A i \in 1..m : tx.msgs[i] \in Msg
      /\ DOMAIN log = 1..n /\ \A i \in 1..n : log[i] \in Entry
  BY <1>0, <1>1, MsgTypes DEF IInv, TypeOK, EndTx, TxRuns, HasMsg
<1>3. /\ k \in Keys
      /\ k # AccountKey => HasGrant(store, block, tx.msgs, k)
  <2>1. tx.cred \in Credential /\ k = tx.cred.pubkey
    BY <1>2, MsgTypes DEF TxRuns, BeforeTx, Verifies
  <2> QED
    BY <1>2, <2>1 DEF TxRuns, BeforeTx, IInv, Credential
<1>4. /\ store' = work /\ work' = work /\ tx' = Nil /\ simulate' = FALSE
      /\ msgIndex' = 1 /\ block' = block /\ log' = log \o Entries
  BY DEF EndTx
<1>5. /\ Entries \in Seq(Entry) /\ Len(Entries) = m
      /\ \A i \in 1..m :
             Entries[i] = [msg |-> tx.msgs[i], signer |-> k, first |-> n + 1,
                           block |-> block]
  <2>1. Entries = [i \in 1..m |-> [msg |-> tx.msgs[i], signer |-> k,
                                   first |-> n + 1, block |-> block]]
    BY <1>0, <1>2 DEF Entries
  <2>2. \A i \in 1..m : [msg |-> tx.msgs[i], signer |-> k, first |-> n + 1,
                         block |-> block] \in Entry
    BY <1>2, <1>3 DEF Entry, IInv, TypeOK
  <2> HIDE DEF k
  <2> QED
    BY <2>1, <2>2
<1>6. /\ log' \in Seq(Entry) /\ Len(log') = n + m /\ DOMAIN log' = 1..(n + m)
      /\ \A i \in 1..n : log'[i] = log[i]
      /\ \A i \in 1..(n + m) : i > n => i - n \in 1..m /\ log'[i] = Entries[i - n]
  <2>1. log \in Seq(Entry)
    BY DEF IInv, TypeOK
  <2>2. /\ log' \in Seq(Entry) /\ Len(log') = n + m
        /\ \A i \in 1..(n + m) :
               log'[i] = IF i <= n THEN log[i] ELSE Entries[i - n]
    BY <1>0, <1>4, <1>5, <2>1, ConcatProperties
  <2>3. \A i \in 1..n : i \in 1..(n + m) /\ i <= n
    OBVIOUS
  <2>4. \A i \in 1..(n + m) : i > n => i - n \in 1..m /\ ~(i <= n)
    OBVIOUS
  <2> QED
    BY <2>2, <2>3, <2>4
<1>7. /\ \A i \in 1..(n + m) : i > n =>
             /\ log'[i].msg = tx.msgs[i - n] /\ log'[i].signer = k
             /\ log'[i].first = n + 1 /\ log'[i].block = block
      /\ \A i \in 1..(n + m) : i > n => i - n \in 1..m
      /\ \A i \in 1..(n + m) : i > n \/ i \in 1..n
  BY <1>5, <1>6
<1> HIDE DEF k
<1>8. TypeOK'
  <2>1. simulate' \in BOOLEAN
    BY <1>4
  <2> QED
    BY <1>4, <1>6, <2>1 DEF IInv, TypeOK
<1>9. Past' = PastAndRun
  <2>1. Past' = [i \in 1..(n + m) |-> log'[i].msg]
    BY <1>6 DEF Past
  <2>2. PastAndRun = [i \in 1..(n + m) |->
            IF i <= n THEN log[i].msg ELSE tx.msgs[i - n]]
    BY <1>0, <1>2 DEF PastAndRun
  <2>3. \A i \in 1..(n + m) :
            log'[i].msg = IF i <= n THEN log[i].msg ELSE tx.msgs[i - n]
    BY <1>6, <1>7
  <2> QED
    BY <2>1, <2>2, <2>3
<1>10. Reflects(Past', store'.grants) /\ store'.pubkey = AccountKey
  BY <1>2, <1>4, <1>9 DEF TxRuns, IInv
<1>11. \A j \in 0..n : \A p, b : GrantedBy(j, p, b)' <=> GrantedBy(j, p, b)
  <2>1. \A j \in 0..n : \A i \in 1..j : i \in 1..n
    OBVIOUS
  <2>2. \A j \in 0..n : \A i \in 1..j : \A l \in (i + 1)..j : l \in 1..n
    OBVIOUS
  <2>3. \A i \in 1..n : \A p : About(i, p)' <=> About(i, p)
    BY <1>6 DEF About
  <2>4. \A j \in 0..n : \A i \in 1..j : \A p :
             LatestAbout(i, p, j)' <=> LatestAbout(i, p, j)
    BY <2>1, <2>2, <2>3 DEF LatestAbout
  <2> QED
    BY <2>1, <2>4, <1>6 DEF GrantedBy
<1>12. \A i \in 1..m : k # AccountKey =>
           GrantedBy(n, <<tx.msgs[i].typeUrl, k>>, block)
  <2> SUFFICES ASSUME NEW i \in 1..m, k # AccountKey
               PROVE  GrantedBy(n, <<tx.msgs[i].typeUrl, k>>, block)
    OBVIOUS
  <2> DEFINE p == <<tx.msgs[i].typeUrl, k>>
  <2>1. p \in Pairs /\ InForce(store.grants[p], block)
    BY <1>2, <1>3, GranterAssumption DEF HasGrant, Pairs, Msg
  <2>2. DOMAIN Past = 1..n /\ \A l \in 1..n : Past[l] = log[l].msg /\ Past[l] \in Msg
    BY <1>0, <1>2 DEF Past, Entry
  <2> HIDE DEF p
  <2>3. PICK l \in 1..n : /\ LatestIn(Past, l, p)
                          /\ Past[l].call.kind = "grant"
                          /\ Past[l].call.expiry # Nil
                                 => ~IsExpired(Past[l].call.expiry, block)
    BY <2>1, <2>2, GrantInHistory DEF IInv
  <2>4. LatestAbout(l, p, n)
    BY <2>2, <2>3 DEF LatestAbout, LatestIn, About, AboutMsg
  <2>5. GrantedBy(n, p, block)
    BY <2>2, <2>3, <2>4 DEF GrantedBy
  <2> QED
    BY <2>5 DEF p
<1>13. EffectsTraceToGrants'
  <2> SUFFICES ASSUME NEW i \in 1..(n + m), log'[i].signer # AccountKey
               PROVE  GrantedBy(log[i].first - 1,
                                <<log[i].msg.typeUrl, log[i].signer>>, log[i].block)'
    BY <1>6 DEF EffectsTraceToGrants
  <2>1. CASE i \in 1..n
    <3>1. log'[i] = log[i] /\ log[i].first \in 1..i
      BY <2>1, <1>2, <1>6 DEF IInv
    <3>2. log[i].first - 1 \in 0..n
      BY <3>1, <2>1
    <3>3. GrantedBy(log[i].first - 1, <<log[i].msg.typeUrl, log[i].signer>>,
                    log[i].block)
      BY <2>1, <3>1, <1>2 DEF IInv, EffectsTraceToGrants
    <3> QED
      BY <3>1, <3>2, <3>3, <1>11
  <2>2. CASE i > n
    <3>1. /\ log'[i].msg = tx.msgs[i - n] /\ log'[i].signer = k
          /\ log'[i].first - 1 = n /\ log'[i].block = block
          /\ i - n \in 1..m
      BY <2>2, <1>7
    <3>2. GrantedBy(n, <<tx.msgs[i - n].typeUrl, k>>, block)
      BY <3>1, <1>12
    <3> QED
      BY <3>1, <3>2, <1>11
  <2> QED
    BY <2>1, <2>2, <1>7
<1>14. CallsFromAccount'
  BY <1>2, <1>4, <1>6, <1>7 DEF IInv, CallsFromAccount
<1>15. RightsFromAccountKey'
  <2> SUFFICES ASSUME \A i \in DOMAIN log' :
                          log'[i].signer = AccountKey /\ log'[i].msg.call # Nil
                              => \/ log'[i].msg.call.kind = "revoke"
                                 \/ log'[i].msg.call.typeUrl # ExecuteContract,
                      NEW i \in DOMAIN log', log'[i].msg.call # Nil
               PROVE  log'[i].signer = AccountKey
    BY <1>14 DEF RightsFromAccountKey, CallsFromAccount
  <2>1. \A j \in 1..n : log[j].msg.call # Nil => log[j].signer = AccountKey
    BY <1>2, <1>6 DEF IInv, RightsFromAccountKey
  <2>2. CASE i \in 1..n
    BY <2>1, <2>2, <1>6
  <2>3. CASE i > n
    <3> SUFFICES ASSUME k # AccountKey PROVE FALSE
      BY <2>3, <1>6, <1>7
    <3>1. tx.msgs[i - n] \in Msg /\ tx.msgs[i - n].call # Nil /\ i - n \in 1..m
      BY <2>3, <1>2, <1>6, <1>7
    <3>2. tx.msgs[i - n].typeUrl = ExecuteContract
      BY <3>1, CallTypes
    <3>3. PICK j \in 1..n : /\ LatestAbout(j, <<ExecuteContract, k>>, n)
                            /\ log[j].msg.call.kind = "grant"
      BY <3>1, <3>2, <1>12 DEF GrantedBy
    <3>4. log[j].msg.call # Nil /\ log[j].msg.call.typeUrl = ExecuteContract
      BY <3>3 DEF LatestAbout, About
    <3> QED
      BY <3>3, <3>4, <2>1, <1>6
  <2> QED
    BY <2>2, <2>3, <1>6, <1>7
<1>16. \A i \in DOMAIN log' : log'[i].first \in 1..i
  BY <1>2, <1>6, <1>7 DEF IInv
<1> QED
  BY <1>4, <1>8, <1>10, <1>13, <1>14, <1>15, <1>16 DEF IInv

\* A call that leaves its effect under its pair, and nothing else, is what the
\* history says.
LEMMA CallReflected ==
    ASSUME IInv, HasMsg, NEW s, MsgDone(s), CurrentCall # Nil,
           s.grants = [work.grants EXCEPT
               ![<<CurrentCall.typeUrl, CurrentCall.grantee>>] = Effect(CurrentCall)]
    PROVE  Reflects(PastAndRun', s.grants)
<1> DEFINE q == <<CurrentCall.typeUrl, CurrentCall.grantee>>
           msg == tx.msgs[msgIndex]
<1>1. /\ TypeOK /\ tx \in Txs /\ msgIndex \in 1..Len(tx.msgs)
      /\ Reflects(PastAndRun, work.grants) /\ work \in Store
  BY MsgTypes DEF IInv, TypeOK, HasMsg, TxRuns
<1>2. msg \in Msg /\ CurrentCall = msg.call
  BY <1>1, MsgTypes DEF CurrentCall
<1>3. q \in Pairs /\ AboutMsg(msg, q)
  BY <1>2, CallTypes DEF AboutMsg
<1>4. Overwrites(s.grants, work.grants, q, Effect(msg.call))
  BY <1>1, <1>2, <1>3 DEF Store, Overwrites
<1>5. OneMore(PastAndRun, PastAndRun', msg)
  BY <1>1, MsgDoneHistory
<1> QED
  BY <1>1, <1>3, <1>4, <1>5, ReflectsCall

\* Every step keeps the invariant.
LEMMA StepIInv == IInv /\ [Next]_vars => IInv'
<1> SUFFICES ASSUME IInv, [Next]_vars PROVE IInv'
  OBVIOUS
<1>0. TypeOK /\ Len(log) \in Nat
  BY DEF IInv, TypeOK
<1>1. ASSUME NEW t \in Txs, NEW sim \in BOOLEAN, BeginTx(t, sim) PROVE IInv'
  <2>1. /\ tx' = t /\ simulate' = sim /\ work' = store /\ msgIndex' = 1
        /\ UNCHANGED <<block, store, log>> /\ BeforeTx(store, block, t, sim)
    BY <1>1 DEF BeginTx
  <2>2. TypeOK'
    BY <1>0, <2>1 DEF TypeOK
  <2>3. Past' = Past
    BY <2>1 DEF Past
  <2>4. PastAndRun' = Past
    <3>1. Len(log) + msgIndex' - 1 = Len(log)
      BY <1>0, <2>1
    <3>2. PastAndRun' = [i \in 1..Len(log) |->
              IF i <= Len(log) THEN log[i].msg ELSE t.msgs[i - Len(log)]]
      BY <2>1, <3>1 DEF PastAndRun
    <3> QED
      BY <1>0, <3>2 DEF Past
  <2>5. TxRuns'
    <3>1. msgIndex' <= Len(tx'.msgs) + 1
      BY <2>1, MsgTypes
    <3>2. Reflects(PastAndRun', work'.grants)
      BY <2>1, <2>4 DEF IInv
    <3> QED
      BY <2>1, <3>1, <3>2 DEF TxRuns
  <2>6. CallsFromAccount'
    <3>1. 1..(msgIndex' - 1) = {}
      BY <2>1
    <3> QED
      BY <2>1, <3>1 DEF IInv, CallsFromAccount
  <2>7. EffectsTraceToGrants' /\ RightsFromAccountKey'
    BY <2>1 DEF IInv, EffectsTraceToGrants, RightsFromAccountKey, GrantedBy,
                LatestAbout, About
  <2> QED
    BY <2>1, <2>2, <2>3, <2>5, <2>6, <2>7 DEF IInv
<1>2. CASE OtherMsg
  <2>1. /\ HasMsg /\ MsgDone(work) /\ CurrentCall = Nil /\ work \in Store
        /\ work.pubkey = AccountKey /\ Reflects(PastAndRun, work.grants)
    BY <1>0, <1>2 DEF OtherMsg, TypeOK, IInv, TxRuns, HasMsg
  <2>2. OneMore(PastAndRun, PastAndRun', tx.msgs[msgIndex])
    BY <1>0, <2>1, MsgDoneHistory
  <2>3. Reflects(PastAndRun', work.grants)
    BY <2>1, <2>2, ReflectsOther DEF CurrentCall
  <2> QED
    BY <2>1, <2>3, MsgDoneIInv
<1>3. CASE GrantCall
  <2> DEFINE c == CurrentCall
             s == Granted(work, c)
  <2>1. /\ HasMsg /\ MsgDone(s) /\ c # Nil /\ c.kind = "grant"
        /\ c.sender = Account /\ work \in Store /\ work.pubkey = AccountKey
        /\ tx \in Txs /\ msgIndex \in 1..Len(tx.msgs)
    BY <1>0, <1>3, MsgTypes DEF GrantCall, AssertSelf, TypeOK, IInv, HasMsg
  <2>2. <<c.typeUrl, c.grantee>> \in Pairs /\ Effect(c) \in Grant
    BY <2>1, MsgTypes, CallTypes DEF CurrentCall, Effect, Grant
  <2>3. s.grants = [work.grants EXCEPT ![<<c.typeUrl, c.grantee>>] = Effect(c)]
    BY <2>1 DEF Granted, Effect, Store
  <2>4. s \in Store /\ s.pubkey = AccountKey
    BY <2>1, <2>2 DEF Granted, Effect, Store
  <2> HIDE DEF s
  <2>5. Reflects(PastAndRun', s.grants)
    BY <2>1, <2>3, CallReflected
  <2> QED
    BY <2>1, <2>4, <2>5, MsgDoneIInv
<1>4. CASE RevokeCall
  <2> DEFINE c == CurrentCall
             s == Revoked(work, c)
  <2>1. /\ HasMsg /\ MsgDone(s) /\ c # Nil /\ c.kind = "revoke"
        /\ c.sender = Account /\ work \in Store /\ work.pubkey = AccountKey
        /\ tx \in Txs /\ msgIndex \in 1..Len(tx.msgs)
    BY <1>0, <1>4, MsgTypes DEF RevokeCall, AssertSelf, TypeOK, IInv, HasMsg
  <2>2. <<c.typeUrl, c.grantee>> \in Pairs /\ Effect(c) = Nil
    BY <2>1, MsgTypes, CallTypes DEF CurrentCall, Effect
  <2>3. s.grants = [work.grants EXCEPT ![<<c.typeUrl, c.grantee>>] = Effect(c)]
    BY <2>1, <2>2 DEF Revoked, Store
  <2>4. s \in Store /\ s.pubkey = AccountKey
    BY <2>1, <2>2 DEF Revoked, Store
  <2> HIDE DEF s
  <2>5. Reflects(PastAndRun', s.grants)
    BY <2>1, <2>3, CallReflected
  <2> QED
    BY <2>1, <2>4, <2>5, MsgDoneIInv
<1>5. CASE MsgFails
  BY <1>5, RolledBackIInv DEF MsgFails
<1>6. CASE EndTx
  <2>1. CASE simulate
    BY <1>6, <2>1, RolledBackIInv DEF EndTx
  <2>2. CASE ~simulate
    BY <1>6, <2>2, EndTxIInv
  <2> QED
    BY <2>1, <2>2
<1>7. ASSUME NEW tick \in Ticks, NextBlock(tick) PROVE IInv'
  <2>1. /\ tx = Nil /\ UNCHANGED <<store, tx, simulate, work, msgIndex, log>>
        /\ block' = [height |-> block.height + 1, time |-> block.time + tick]
    BY <1>7 DEF NextBlock
  <2>2. tick \in Nat
    BY GranterAssumption
  <2>3. block' \in [height : Nat, time : Nat]
    BY <1>0, <2>1, <2>2 DEF TypeOK
  <2>4. TypeOK'
    BY <1>0, <2>1, <2>3 DEF TypeOK
  <2> QED
    BY <2>1, <2>4 DEF IInv, Past, CallsFromAccount, EffectsTraceToGrants,
                      RightsFromAccountKey, GrantedBy, LatestAbout, About
<1>8. CASE UNCHANGED vars
  <2> USE <1>8 DEF vars
  <2>1. TypeOK'
    BY <1>0 DEF TypeOK
  <2>2. Past' = Past /\ CallsFromAccount'
    BY DEF IInv, Past, CallsFromAccount
  <2>3. (tx # Nil => TxRuns)'
    BY DEF IInv, TxRuns, PastAndRun
  <2>4. EffectsTraceToGrants' /\ RightsFromAccountKey'
    BY DEF IInv, EffectsTraceToGrants, RightsFromAccountKey, GrantedBy,
           LatestAbout, About
  <2> QED
    BY <2>1, <2>2, <2>3, <2>4 DEF IInv
<1> QED
  BY <1>1, <1>2, <1>3, <1>4, <1>5, <1>6, <1>7, <1>8 DEF Next

-----------------------------------------------------------------------------
(* Theorems *)

\* In every reachable state the grants are the effect of the messages so far, in
\* the contract's state and in the branch of the running transaction alike.
THEOREM BranchesReflectHistory == Spec => []IInv
BY InitIInv, StepIInv, PTL DEF Spec

\* The contract's state keeps its types, and whatever takes effect was signed.
THEOREM TypeCorrect == Spec => []TypeOK
<1>1. IInv => TypeOK
  BY DEF IInv
<1> QED
  BY <1>1, BranchesReflectHistory, PTL

\* No message takes effect without the account key or an unexpired grant of earlier
\* transactions for its type.
THEOREM EffectsGranted == Spec => []EffectsTraceToGrants
<1>1. IInv => EffectsTraceToGrants
  BY DEF IInv
<1> QED
  BY <1>1, BranchesReflectHistory, PTL

\* The right to act never becomes the right to grant, unless the account key grants
\* MsgExecuteContract.
THEOREM RightsNotAmplified == Spec => []RightsFromAccountKey
<1>1. IInv => RightsFromAccountKey
  BY DEF IInv
<1> QED
  BY <1>1, BranchesReflectHistory, PTL

\* Where the grants reflect the messages so far, the last message about a pair
\* decides what the pair maps to.
LEMMA LastMessageDecides == IInv => GrantsMatchHistory
<1> SUFFICES ASSUME IInv PROVE GrantsMatchHistory
  OBVIOUS
<1>1. log \in Seq(Entry) /\ Len(log) \in Nat /\ DOMAIN log = 1..Len(log)
  BY DEF IInv, TypeOK
<1>2. DOMAIN Past = 1..Len(log) /\ \A i \in 1..Len(log) : Past[i] = log[i].msg
  BY DEF Past
<1>3. \A i \in 1..Len(log) : \A p : About(i, p) <=> AboutMsg(Past[i], p)
  BY <1>2 DEF About, AboutMsg
<1> SUFFICES ASSUME NEW p \in Pairs
             PROVE  /\ (\A i \in DOMAIN log : ~About(i, p)) => store.grants[p] = Nil
                    /\ \A i \in DOMAIN log : LatestAbout(i, p, Len(log)) =>
                           store.grants[p] = Effect(Past[i].call)
  BY <1>1, <1>2 DEF GrantsMatchHistory, Effect
<1>4. CASE (\A i \in DOMAIN Past : ~AboutMsg(Past[i], p)) /\ store.grants[p] = Nil
  BY <1>1, <1>2, <1>3, <1>4 DEF LatestAbout
<1>5. ASSUME NEW i \in DOMAIN Past, LatestIn(Past, i, p),
             store.grants[p] = Effect(Past[i].call)
      PROVE  /\ ~(\A j \in DOMAIN log : ~About(j, p))
             /\ \A j \in DOMAIN log : LatestAbout(j, p, Len(log)) => j = i
  <2>1. About(i, p)
    BY <1>2, <1>3, <1>5 DEF LatestIn
  <2>2. \A j \in 1..Len(log) : LatestAbout(j, p, Len(log)) => ~(j > i) /\ ~(i > j)
    BY <1>1, <1>2, <1>3, <1>5, <2>1 DEF LatestIn, LatestAbout
  <2> QED
    BY <1>1, <1>2, <2>1, <2>2
<1> QED
  BY <1>4, <1>5 DEF IInv, Reflects

\* GRANTS holds what the messages that took effect left there, and nothing of a
\* transaction that failed or was simulated.
THEOREM GrantsAreHistory == Spec => []GrantsMatchHistory
BY LastMessageDecides, BranchesReflectHistory, PTL

-----------------------------------------------------------------------------
(* The listing of the grants, page by page (GrantsQuery): for any number of    *)
(* keys and any limits.                                                         *)

\* What is kept and not beyond startAfter has been listed.
KeptListed == \A k \in kept : k <= startAfter => k \in Listed

Ascending == \A i, j \in DOMAIN listed : i < j => listed[i] < listed[j]

ListingIInv == ListingTypeOK /\ Ascending /\ KeptListed /\ ListingComplete

-----------------------------------------------------------------------------
\* A page that is read is a sequence of keys.
LEMMA PageOfKeys ==
    ASSUME NEW page \in Pages
    PROVE  /\ page \in Seq(Key)
           /\ Len(page) \in Nat
           /\ DOMAIN page = 1..Len(page)
           /\ \A i \in DOMAIN page : page[i] \in Key
<1>1. PICK n \in 0..NKeys : page \in [1..n -> Key]
    BY DEF Pages
<1>2. n \in Nat
    BY GrantsQueryAssumption
<1> QED
    BY <1>1, <1>2

\* Concatenation: the elements of both parts, in their places.
LEMMA Concatenation ==
    ASSUME NEW S, NEW s \in Seq(S), NEW t \in Seq(S)
    PROVE  /\ s \o t \in Seq(S)
           /\ DOMAIN (s \o t) = 1..(Len(s) + Len(t))
           /\ \A i \in 1..Len(s) : (s \o t)[i] = s[i]
           /\ \A i \in 1..Len(t) : (s \o t)[Len(s) + i] = t[i]
    OBVIOUS

\* An empty page with a limit other than 0 says that no grant is in range.
LEMMA EmptyPage ==
    ASSUME NEW limit \in Limits, limit # 0, ListingTypeOK,
           IsPage(<<>>, startAfter, limit)
    PROVE  \A k \in grants : k <= startAfter
<1>1. Limit(limit) \in Nat \ {0}
    BY GrantsQueryAssumption DEF Limit
<1>2. {k \in grants : InRange(k, startAfter)} = {}
    BY <1>1 DEF IsPage
<1> QED
    BY <1>2, GrantsQueryAssumption DEF InRange, ListingTypeOK, Key

\* What a page adds to a listing.
LEMMA AfterPage ==
    ASSUME ListingIInv, NEW page \in Pages, NEW limit \in Limits, NextPage(page, limit)
    PROVE  ListingIInv'
<1> DEFINE m == Len(listed)
           n == Len(page)
<1>1. /\ page \in Seq(Key) /\ listed \in Seq(Key)
      /\ m \in Nat /\ n \in Nat \ {0}
      /\ DOMAIN page = 1..n /\ DOMAIN listed = 1..m
      /\ \A i \in 1..n : page[i] \in Key
      /\ startAfter \in 0..NKeys
      /\ NKeys \in Nat
    BY PageOfKeys, GrantsQueryAssumption DEF ListingIInv, ListingTypeOK, NextPage
<1>2. /\ listed' = listed \o page /\ startAfter' = page[n]
      /\ UNCHANGED <<grants, listing, kept>>
      /\ listing
    BY DEF NextPage
<1>3. /\ listed' \in Seq(Key)
      /\ DOMAIN listed' = 1..(m + n)
      /\ \A i \in 1..m : listed'[i] = listed[i]
      /\ \A i \in 1..n : listed'[m + i] = page[i]
    BY <1>1, <1>2, Concatenation
<1> HIDE DEF m, n
<1>4. /\ \A i \in 1..n : page[i] \in grants /\ page[i] > startAfter
      /\ \A i, j \in 1..n : i < j => page[i] < page[j]
      /\ \A k \in grants : k > startAfter /\ (\A i \in 1..n : k # page[i])
             => \A i \in 1..n : page[i] < k
    <2> DEFINE range == {k \in grants : InRange(k, startAfter)}
               given == {page[i] : i \in DOMAIN page}
    <2>1. /\ given \subseteq range
          /\ \A i, j \in DOMAIN page : i < j => page[i] < page[j]
          /\ \A k \in range \ given, i \in DOMAIN page : page[i] < k
        BY DEF NextPage, IsPage
    <2> QED
        BY <1>1, <2>1 DEF InRange
<1>5. \A i \in 1..n : page[i] <= page[n]
    <2> SUFFICES ASSUME NEW i \in 1..n
                 PROVE  page[i] <= page[n]
        OBVIOUS
    <2>1. n \in 1..n /\ (i = n \/ i < n)
        BY <1>1
    <2>2. page[i] \in Int /\ page[n] \in Int
        BY <1>1, <2>1 DEF Key
    <2>3. i < n => page[i] < page[n]
        BY <1>4, <2>1
    <2> QED
        BY <2>1, <2>2, <2>3
<1>6. \A i \in 1..m : listed[i] \in Key /\ listed[i] <= startAfter
    BY <1>1 DEF ListingIInv, ListingTypeOK
<1>7. \A i \in 1..(m + n) :
          \/ i \in 1..m
          \/ i - m \in 1..n /\ i = m + (i - m)
    BY <1>1
<1>8. ListingTypeOK'
    <2>1. startAfter' \in 0..NKeys
        BY <1>1, <1>2 DEF Key
    <2>2. \A i \in DOMAIN listed' : listed'[i] <= startAfter'
        BY <1>1, <1>2, <1>3, <1>4, <1>5, <1>6, <1>7 DEF Key
    <2> QED
        BY <1>2, <1>3, <2>1, <2>2 DEF ListingIInv, ListingTypeOK
<1>9. Ascending'
    <2> SUFFICES ASSUME NEW i \in 1..(m + n), NEW j \in 1..(m + n), i < j
                 PROVE  listed'[i] < listed'[j]
        BY <1>3 DEF Ascending
    <2>1. CASE j \in 1..m
        BY <1>1, <1>3, <2>1 DEF ListingIInv, Ascending
    <2>2. CASE i \in 1..m /\ j - m \in 1..n
        <3>1. listed'[i] = listed[i] /\ listed'[j] = page[j - m]
            BY <1>1, <1>3, <2>2
        <3>2. listed[i] \in Int /\ page[j - m] \in Int
            BY <1>1, <1>6, <2>2 DEF Key
        <3> QED
            BY <1>1, <1>4, <1>6, <2>2, <3>1, <3>2
    <2>3. CASE i - m \in 1..n /\ j - m \in 1..n
        <3>1. listed'[i] = page[i - m] /\ listed'[j] = page[j - m]
            BY <1>1, <1>3, <2>3
        <3> QED
            BY <1>1, <1>4, <2>3, <3>1
    <2> QED
        BY <1>1, <1>7, <2>1, <2>2, <2>3
<1>10. KeptListed'
    <2> SUFFICES ASSUME NEW k \in kept, k <= page[n]
                 PROVE  \E i \in 1..(m + n) : listed'[i] = k
        BY <1>2, <1>3 DEF KeptListed, Listed
    <2>1. k \in grants /\ k \in Int
        BY DEF ListingIInv, ListingTypeOK, Key
    <2>2. CASE k <= startAfter
        <3>1. PICK i \in 1..m : listed[i] = k
            BY <1>1, <2>2 DEF ListingIInv, KeptListed, Listed
        <3> QED
            BY <1>1, <1>3, <3>1
    <2>3. CASE k > startAfter
        <3>1. PICK i \in 1..n : k = page[i]
            BY <1>1, <1>4, <2>1, <2>3 DEF Key
        <3>2. m + i \in 1..(m + n) /\ listed'[m + i] = k
            BY <1>1, <1>3, <3>1
        <3> QED
            BY <3>2
    <2> QED
        BY <1>1, <2>1, <2>2, <2>3
<1> QED
    BY <1>2, <1>8, <1>9, <1>10 DEF ListingIInv, ListingComplete, Ascending

\* Granting, revoking and paging keep the invariant.
LEMMA ListingStep == ListingIInv /\ [ListingNext]_listingVars => ListingIInv'
<1> SUFFICES ASSUME ListingIInv, [ListingNext]_listingVars
             PROVE  ListingIInv'
    OBVIOUS
<1> USE GrantsQueryAssumption
        DEF ListingIInv, ListingTypeOK, Ascending, KeptListed, ListingComplete, Listed, Key
<1>1. ASSUME NEW k \in Key, SaveGrant(k)
      PROVE  ListingIInv'
    BY <1>1 DEF SaveGrant
<1>2. ASSUME NEW k \in Key, RemoveGrant(k)
      PROVE  ListingIInv'
    BY <1>2 DEF RemoveGrant
<1>3. CASE StartListing
    BY <1>3 DEF StartListing
<1>4. ASSUME NEW page \in Pages, NEW limit \in Limits, NextPage(page, limit)
      PROVE  ListingIInv'
    BY <1>4, AfterPage
<1>5. ASSUME NEW limit \in Limits, LastPage(limit)
      PROVE  ListingIInv'
    <2>1. \A k \in grants : k <= startAfter
        BY <1>5, EmptyPage DEF LastPage
    <2>2. kept \subseteq Listed
        BY <2>1
    <2> QED
        BY <1>5, <2>2 DEF LastPage
<1>6. CASE UNCHANGED listingVars
    BY <1>6 DEF listingVars
<1> QED
    BY <1>1, <1>2, <1>3, <1>4, <1>5, <1>6 DEF ListingNext

-----------------------------------------------------------------------------
(* Theorems about the listing *)

\* The invariant holds throughout.
THEOREM ListingInvariant == ListingSpec => []ListingIInv
<1>1. ListingInit => ListingIInv
    <2> SUFFICES ASSUME ListingInit
                 PROVE  ListingIInv
        OBVIOUS
    <2>1. listed \in Seq(Key) /\ DOMAIN listed = {} /\ 0 \in 0..NKeys
        BY GrantsQueryAssumption DEF ListingInit
    <2> QED
        BY <2>1 DEF ListingInit, ListingIInv, ListingTypeOK, Ascending, KeptListed,
                    ListingComplete, Listed
<1> QED
    BY <1>1, ListingStep, PTL DEF ListingSpec

\* No key the client was given lies beyond the one the next page continues after,
\* and no grant is counted as kept that is not there any more.
THEOREM ListingTypeCorrect == ListingSpec => []ListingTypeOK
<1>1. ListingIInv => ListingTypeOK
    BY DEF ListingIInv
<1> QED
    BY <1>1, ListingInvariant, PTL

\* A listing of the granter's grants, page by page, lists no grant twice and misses
\* none that was there from its beginning to its end, for any number of grants, any
\* limits, and whatever is granted and revoked between the pages.
THEOREM ListingCompleteHolds == ListingSpec => []ListingComplete
<1>1. ListingIInv => ListingComplete
    BY DEF ListingIInv
<1> QED
    BY <1>1, ListingInvariant, PTL
=============================================================================
