--------------------------- MODULE RegistryProofs ---------------------------
(***************************************************************************)
(* Proofs about Registry, for any users, addresses, codes, genesis states  *)
(* and parameters, and for calls nested to any depth.                      *)
(***************************************************************************)
EXTENDS Registry, FiniteSetTheorems, SequenceTheorems, TLAPS

-----------------------------------------------------------------------------
(* The inductive invariant *)

\* Account numbers are unique and below the next one.
Numbered(s) ==
    /\ \A x \in Addr : HasAccount(s, x) => s.accounts[x].num < s.nextAccountNumber
    /\ \A x, y \in Addr : HasAccount(s, x) /\ HasAccount(s, y) /\
           s.accounts[x].num = s.accounts[y].num => x = y

HasLabel(s, x) == HasContract(s, x) /\ s.contracts[x].label # Nil

\* Labels are unique and below n.
Labelled(s, n) ==
    /\ \A x \in Addr : HasLabel(s, x) => s.contracts[x].label < n
    /\ \A x, y \in Addr : HasLabel(s, x) /\ HasLabel(s, y) /\
           s.contracts[x].label = s.contracts[y].label => x = y

\* An address x of which RegisterAccount waits in Instantiate2.
HalfRegistered(s, x) ==
    HasLabel(s, x) /\ HasAccount(s, x) /\ s.accounts[x].kind = "base"

\* An address x that is registered, or not, but not half.
Settled(s, x) ==
    /\ IsAbstract(s, x) <=> HasLabel(s, x)
    /\ IsAbstract(s, x) => s.contracts[x].admin = x

\* The addresses of P, and no others, are half registered.
Consistent(s, P) ==
    \A x \in Addr : IF x \in P THEN HalfRegistered(s, x) ELSE Settled(s, x)

\* What holds of every branch of a running chain's state.
GoodStore(s, P) ==
    /\ s \in Store
    /\ s.params # Nil
    /\ Validate(s.params)
    /\ Numbered(s)
    /\ Labelled(s, s.nextAccountID)
    /\ Consistent(s, P)

\* The accounts whose RegisterAccount is among the first k frames.
Pending(k) == {stack[j].actor : j \in 2..k}

\* Between export and import the labels are below the exported counter, and the
\* exported parameters are valid. A genesis state that is refused was written by
\* the operator, before there were any contracts.
StoppedOK ==
    /\ store \in Store
    /\ stack = <<>>
    /\ Numbered(store)
    /\ Labelled(store, genesis.nextAccountID)
    /\ Consistent(store, {})
    /\ Validate(genesis.params) \/ \A x \in Addr : ~HasContract(store, x)

\* The branch a frame would be rolled back to has the registrations below that
\* frame pending, and no registration is pending twice.
RunningOK ==
    /\ GoodStore(store, Pending(Len(stack)))
    /\ \A i \in 1..Len(stack) : GoodStore(stack[i].snapshot, Pending(i - 1))
    /\ \A i, j \in 2..Len(stack) : stack[i].actor = stack[j].actor => i = j

IInv ==
    /\ genesis \in Genesis \cup {Nil}
    /\ stack \in Seq(Frame)
    /\ IF Running THEN RunningOK ELSE StoppedOK

-----------------------------------------------------------------------------
(* Stores *)

\* Creating a BaseAccount at a free address keeps a branch good.
LEMMA NewBaseAccountGood ==
    ASSUME NEW s, NEW P, GoodStore(s, P), NEW x \in Addr, ~HasAccount(s, x)
    PROVE  GoodStore(NewBaseAccount(s, x), P)
<1> DEFINE t == NewBaseAccount(s, x)
           a == [kind |-> "base", num |-> s.nextAccountNumber]
<1>1. s \in Store /\ s.nextAccountNumber \in Nat
  BY DEF GoodStore, Store
<1>2. /\ t.accounts = [s.accounts EXCEPT ![x] = a]
      /\ t.nextAccountNumber = s.nextAccountNumber + 1
      /\ t.params = s.params /\ t.nextAccountID = s.nextAccountID
      /\ t.contracts = s.contracts
      /\ t \in Store
  <2>1. a \in Account /\ t = [s EXCEPT !.accounts = [@ EXCEPT ![x] = a],
                                     !.nextAccountNumber = @ + 1]
    BY <1>1 DEF NewBaseAccount, Account
  <2> HIDE DEF t, a
  <2>2. [s.accounts EXCEPT ![x] = a] \in [Addr -> Account \cup {Nil}]
    BY <1>1, <2>1 DEF Store
  <2>3. s.nextAccountNumber + 1 \in Nat
    BY <1>1
  <2> DEFINE f == [s.accounts EXCEPT ![x] = a]
             m == s.nextAccountNumber + 1
  <2>4. t = [s EXCEPT !.accounts = f, !.nextAccountNumber = m]
    BY <1>1, <2>1 DEF Store
  <2> HIDE DEF f, m
  <2>5. /\ t.accounts = f /\ t.nextAccountNumber = m
        /\ t.params = s.params /\ t.nextAccountID = s.nextAccountID
        /\ t.contracts = s.contracts
    BY <1>1, <2>4 DEF Store
  <2>6. t \in Store
    BY <1>1, <2>2, <2>3, <2>4 DEF Store, f, m
  <2> QED
    BY <2>5, <2>6 DEF f, m
<1>3. /\ t.accounts[x] = a
      /\ \A y \in Addr : y # x => t.accounts[y] = s.accounts[y]
  BY <1>1, <1>2 DEF Store
<1>4. a # Nil
  BY <1>1, RegistryAssumption DEF Account
<1>5. \A y \in Addr : HasAccount(s, y) => s.accounts[y].num \in Nat
  BY <1>1 DEF Store, HasAccount, Account
<1>6. Numbered(t)
  <2>1. Numbered(s)
    BY DEF GoodStore
  <2>2. \A y \in Addr : y # x => (HasAccount(t, y) <=> HasAccount(s, y))
    BY <1>3 DEF HasAccount
  <2>3. \A y \in Addr : HasAccount(t, y) /\ y # x =>
            t.accounts[y].num \in Nat /\ t.accounts[y].num < s.nextAccountNumber
    BY <2>1, <2>2, <1>3, <1>5 DEF Numbered
  <2>4. t.accounts[x].num = s.nextAccountNumber
    BY <1>3
  <2> HIDE DEF t
  <2> QED
    BY <2>1, <2>2, <2>3, <2>4, <1>1, <1>2, <1>3 DEF Numbered
<1>7. \A y \in Addr : HasLabel(t, y) <=> HasLabel(s, y)
  BY <1>2 DEF HasLabel, HasContract
<1>8. Labelled(t, t.nextAccountID)
  BY <1>2, <1>7 DEF GoodStore, Labelled
<1>9. Consistent(t, P)
  <2> SUFFICES ASSUME NEW y \in Addr
               PROVE  IF y \in P THEN HalfRegistered(t, y) ELSE Settled(t, y)
    BY DEF Consistent
  <2>1. IF y \in P THEN HalfRegistered(s, y) ELSE Settled(s, y)
    BY DEF GoodStore, Consistent
  <2>2. CASE y = x
    <3>1. y \notin P /\ ~HasLabel(s, y)
      BY <2>1, <2>2 DEF HalfRegistered, Settled, IsAbstract
    <3>2. ~IsAbstract(t, y)
      BY <1>3, <2>2 DEF IsAbstract
    <3> QED
      BY <3>1, <3>2, <1>7 DEF Settled
  <2>3. CASE y # x
    BY <2>1, <2>3, <1>2, <1>3, <1>7
       DEF HalfRegistered, Settled, IsAbstract, HasAccount
  <2> QED
    BY <2>2, <2>3
<1> HIDE DEF t
<1>10. GoodStore(t, P)
  BY <1>2, <1>6, <1>8, <1>9 DEF GoodStore
<1> QED
  BY <1>10 DEF t

\* So does storing a contract without a label.
LEMMA UnlabelledContractGood ==
    ASSUME NEW s, NEW P, GoodStore(s, P), NEW x \in Addr, Instantiable(s, x),
           NEW code \in CodeIDs, NEW creator \in Addr
    PROVE  GoodStore(Instantiate2(s, code, creator, Nil, x), P)
<1> DEFINE b == IF HasAccount(s, x) THEN s ELSE NewBaseAccount(s, x)
           c == [code |-> code, admin |-> creator, label |-> Nil]
           t == Instantiate2(s, code, creator, Nil, x)
<1>1. GoodStore(b, P)
  BY NewBaseAccountGood
<1>2. b \in Store /\ b.contracts = s.contracts
  BY <1>1 DEF GoodStore, NewBaseAccount, Store
<1>3. c \in Contract /\ t = [b EXCEPT !.contracts[x] = c]
  BY DEF Contract, Instantiate2
<1> HIDE DEF b
<1>4. /\ t.accounts = b.accounts /\ t.nextAccountNumber = b.nextAccountNumber
      /\ t.params = b.params /\ t.nextAccountID = b.nextAccountID
      /\ t.contracts[x] = c
      /\ \A y \in Addr : y # x => t.contracts[y] = b.contracts[y]
      /\ t \in Store
  BY <1>2, <1>3 DEF Store
<1> HIDE DEF t
<1>5. ~HasLabel(b, x) /\ ~HasLabel(t, x)
  BY <1>2, <1>4 DEF HasLabel, HasContract, Instantiable
<1>6. \A y \in Addr : HasLabel(t, y) <=> HasLabel(b, y)
  BY <1>4, <1>5 DEF HasLabel, HasContract
<1>7. \A y \in Addr : HasLabel(b, y) => t.contracts[y] = b.contracts[y]
  BY <1>4, <1>5
<1>8. Numbered(t)
  BY <1>1, <1>4 DEF GoodStore, Numbered, HasAccount
<1>9. Labelled(t, t.nextAccountID)
  BY <1>1, <1>4, <1>6, <1>7 DEF GoodStore, Labelled
<1>10. Consistent(t, P)
  BY <1>1, <1>4, <1>6, <1>7
     DEF GoodStore, Consistent, HalfRegistered, Settled, IsAbstract, HasAccount
<1>11. GoodStore(t, P)
  BY <1>1, <1>4, <1>8, <1>9, <1>10 DEF GoodStore
<1> QED
  BY <1>11 DEF t

\* Storing a contract under the next label, with the counter incremented, leaves a
\* good branch in which that contract is half registered too.
LEMMA LabelledContractGood ==
    ASSUME NEW s, NEW P, GoodStore(s, P), NEW x \in Addr, Instantiable(s, x),
           NEW code \in CodeIDs, NEW creator \in Addr
    PROVE  /\ x \notin P
           /\ GoodStore(Instantiate2(TakeID(s), code, creator, s.nextAccountID, x),
                        P \cup {x})
<1> DEFINE n == s.nextAccountID
           k == TakeID(s)
           b == IF HasAccount(s, x) THEN s ELSE NewBaseAccount(s, x)
           c == [code |-> code, admin |-> creator, label |-> n]
           t == Instantiate2(k, code, creator, n, x)
<1>1. GoodStore(b, P)
  BY NewBaseAccountGood
<1>2. s \in Store /\ n \in Nat
  BY DEF GoodStore, Store
<1>3. /\ b \in Store /\ b.contracts = s.contracts /\ b.nextAccountID = n
      /\ HasAccount(b, x) /\ b.accounts[x].kind = "base"
  BY <1>1, <1>2, RegistryAssumption
     DEF GoodStore, NewBaseAccount, Store, HasAccount, Instantiable, Account
<1>4. t = [b EXCEPT !.contracts[x] = c, !.nextAccountID = n + 1]
  BY <1>2 DEF Instantiate2, TakeID, IncrementNextAccountID, SetNextAccountID,
              NewBaseAccount, HasAccount, Store
<1>5. c \in Contract /\ c # Nil /\ c.label = n /\ n # Nil
  BY <1>2, RegistryAssumption DEF Contract
<1> HIDE DEF b
<1>6. /\ t.accounts = b.accounts /\ t.nextAccountNumber = b.nextAccountNumber
      /\ t.params = b.params /\ t.nextAccountID = n + 1
      /\ t.contracts[x] = c
      /\ \A y \in Addr : y # x => t.contracts[y] = b.contracts[y]
      /\ t \in Store
  <2> DEFINE f == [b.contracts EXCEPT ![x] = c]
             m == n + 1
  <2>1. f \in [Addr -> Contract \cup {Nil}] /\ m \in Nat
    BY <1>2, <1>3, <1>5 DEF Store
  <2>2. t = [b EXCEPT !.contracts = f, !.nextAccountID = m]
    BY <1>3, <1>4 DEF Store
  <2>3. /\ f[x] = c
        /\ \A y \in Addr : y # x => f[y] = b.contracts[y]
    BY <1>3 DEF Store
  <2> HIDE DEF f, m, t
  <2>4. /\ t.accounts = b.accounts /\ t.nextAccountNumber = b.nextAccountNumber
        /\ t.params = b.params /\ t.nextAccountID = m
        /\ t.contracts = f
        /\ t \in Store
    BY <1>3, <2>1, <2>2 DEF Store
  <2> QED
    BY <2>3, <2>4 DEF m
<1> HIDE DEF t, c
<1>7. ~HasLabel(s, x) /\ ~HasLabel(b, x) /\ HasLabel(t, x)
  BY <1>3, <1>5, <1>6 DEF HasLabel, HasContract, Instantiable
<1>8. \A y \in Addr : y # x => (HasLabel(t, y) <=> HasLabel(b, y))
  BY <1>6 DEF HasLabel, HasContract
<1>9. \A y \in Addr : HasLabel(b, y) =>
          b.contracts[y].label \in Nat /\ b.contracts[y].label < n
  BY <1>1, <1>3 DEF GoodStore, Labelled, HasLabel, HasContract, Store, Contract
<1>10. Numbered(t)
  BY <1>1, <1>6 DEF GoodStore, Numbered, HasAccount
<1>11. Labelled(t, t.nextAccountID)
  <2>1. t.contracts[x].label = n
    BY <1>5, <1>6
  <2>2. \A y \in Addr : HasLabel(t, y) /\ y # x =>
            /\ HasLabel(b, y)
            /\ t.contracts[y].label = b.contracts[y].label
            /\ t.contracts[y].label \in Nat
            /\ t.contracts[y].label < n
    BY <1>6, <1>8, <1>9
  <2>3. Labelled(b, n)
    BY <1>1, <1>3 DEF GoodStore
  <2> HIDE DEF n
  <2>4. \A y \in Addr : HasLabel(t, y) => t.contracts[y].label < n + 1
    BY <2>1, <2>2, <1>2
  <2>5. \A y, z \in Addr : HasLabel(t, y) /\ HasLabel(t, z) /\
            t.contracts[y].label = t.contracts[z].label => y = z
    BY <2>1, <2>2, <2>3, <1>2 DEF Labelled
  <2> QED
    BY <2>4, <2>5, <1>6 DEF Labelled
<1>12. x \notin P
  BY <1>7 DEF GoodStore, Consistent, HalfRegistered
<1>13. Consistent(t, P \cup {x})
  <2> SUFFICES ASSUME NEW y \in Addr
               PROVE  IF y \in P \cup {x} THEN HalfRegistered(t, y)
                                          ELSE Settled(t, y)
    BY DEF Consistent
  <2>1. IF y \in P THEN HalfRegistered(b, y) ELSE Settled(b, y)
    BY <1>1 DEF GoodStore, Consistent
  <2>2. CASE y = x
    BY <2>2, <1>3, <1>6, <1>7 DEF HalfRegistered, HasAccount
  <2>3. CASE y # x
    BY <2>1, <2>3, <1>6, <1>8
       DEF HalfRegistered, Settled, IsAbstract, HasAccount
  <2> QED
    BY <2>2, <2>3
<1>14. GoodStore(t, P \cup {x})
  BY <1>1, <1>6, <1>10, <1>11, <1>13 DEF GoodStore
<1> QED
  BY <1>12, <1>14 DEF t

\* Handing a contract to another admin keeps a branch good, unless the contract is
\* a registered account.
LEMMA UpdateAdminGood ==
    ASSUME NEW s, NEW P, GoodStore(s, P), NEW x \in Addr, HasContract(s, x),
           x \in P \/ s.contracts[x].admin # x, NEW admin \in Addr
    PROVE  GoodStore(UpdateContractAdmin(s, x, admin), P)
<1> DEFINE t == UpdateContractAdmin(s, x, admin)
           c == [s.contracts[x] EXCEPT !.admin = admin]
<1>1. s \in Store /\ s.contracts[x] \in Contract
  BY DEF GoodStore, Store, HasContract
<1>2. /\ c \in Contract /\ c # Nil /\ c.label = s.contracts[x].label
      /\ t = [s EXCEPT !.contracts[x] = c]
  BY <1>1, RegistryAssumption DEF Contract, UpdateContractAdmin
<1> HIDE DEF c
<1>3. /\ t.accounts = s.accounts /\ t.nextAccountNumber = s.nextAccountNumber
      /\ t.params = s.params /\ t.nextAccountID = s.nextAccountID
      /\ t.contracts[x] = c
      /\ \A y \in Addr : y # x => t.contracts[y] = s.contracts[y]
      /\ t \in Store
  BY <1>1, <1>2 DEF Store
<1> HIDE DEF t
<1>4. \A y \in Addr : /\ HasLabel(t, y) <=> HasLabel(s, y)
                      /\ HasLabel(s, y) =>
                             t.contracts[y].label = s.contracts[y].label
  BY <1>2, <1>3 DEF HasLabel, HasContract
<1>5. Numbered(t)
  BY <1>3 DEF GoodStore, Numbered, HasAccount
<1>6. Labelled(t, t.nextAccountID)
  BY <1>3, <1>4 DEF GoodStore, Labelled
<1>7. Consistent(t, P)
  <2> SUFFICES ASSUME NEW y \in Addr
               PROVE  IF y \in P THEN HalfRegistered(t, y) ELSE Settled(t, y)
    BY DEF Consistent
  <2>1. IF y \in P THEN HalfRegistered(s, y) ELSE Settled(s, y)
    BY DEF GoodStore, Consistent
  <2>2. y \notin P => (IsAbstract(s, y) => y # x)
    BY <2>1 DEF Settled
  <2> QED
    BY <2>1, <2>2, <1>3, <1>4
       DEF HalfRegistered, Settled, IsAbstract, HasAccount
<1>8. GoodStore(t, P)
  BY <1>3, <1>5, <1>6, <1>7 DEF GoodStore
<1> QED
  BY <1>8 DEF t

\* Valid parameters keep a branch good.
LEMMA SetParamsGood ==
    ASSUME NEW s, NEW P, GoodStore(s, P), NEW p \in Params, Validate(p)
    PROVE  GoodStore(SetParams(s, p), P)
<1>1. s \in Store /\ p # Nil
  BY RegistryAssumption DEF GoodStore
<1>2. /\ SetParams(s, p) \in Store
      /\ SetParams(s, p).params = p
      /\ SetParams(s, p).accounts = s.accounts
      /\ SetParams(s, p).contracts = s.contracts
      /\ SetParams(s, p).nextAccountID = s.nextAccountID
      /\ SetParams(s, p).nextAccountNumber = s.nextAccountNumber
  BY <1>1 DEF SetParams, Store
<1> QED
  BY <1>1, <1>2 DEF GoodStore, Numbered, Labelled, Consistent, HalfRegistered,
                    Settled, IsAbstract, HasLabel, HasAccount, HasContract

\* The end of RegisterAccount settles the account it is about, keeps its number and
\* leaves a good branch.
LEMMA RegisteredStoreGood ==
    ASSUME NEW s, NEW P, GoodStore(s, P), NEW x \in Addr, x \in P
    PROVE  GoodStore(RegisteredStore(s, x), P \ {x})
<1> DEFINE u == UpdateContractAdmin(s, x, x)
           t == RegisteredStore(s, x)
           a == [kind |-> "abstract", num |-> s.accounts[x].num]
<1>1. /\ HasLabel(s, x) /\ HasContract(s, x) /\ HasAccount(s, x)
      /\ s.contracts[x] \in Contract /\ s.accounts[x] \in Account
  BY DEF GoodStore, Consistent, HalfRegistered, HasLabel, HasContract, HasAccount,
         Store
<1>2. GoodStore(u, P)
  BY <1>1, UpdateAdminGood
<1>3. u \in Store /\ u.accounts = s.accounts /\ u.contracts[x].admin = x
  BY <1>1, <1>2 DEF GoodStore, UpdateContractAdmin, Store, Contract
<1>4. t = [u EXCEPT !.accounts[x] = a]
  BY <1>3 DEF RegisteredStore, NewAbstractAccountFromAccount
<1>5. a \in Account /\ a # Nil
  BY <1>1, RegistryAssumption DEF Account
<1>6. HasAccount(u, x) /\ HasLabel(u, x) /\ a.num = u.accounts[x].num
  BY <1>1, <1>2, <1>3 DEF GoodStore, Consistent, HalfRegistered
<1> HIDE DEF u, a
<1>7. /\ t.contracts = u.contracts /\ t.nextAccountNumber = u.nextAccountNumber
      /\ t.params = u.params /\ t.nextAccountID = u.nextAccountID
      /\ t.accounts[x] = a
      /\ \A y \in Addr : y # x => t.accounts[y] = u.accounts[y]
      /\ t \in Store
  BY <1>3, <1>4, <1>5 DEF Store
<1> HIDE DEF t
<1>8. \A y \in Addr : /\ HasAccount(t, y) <=> HasAccount(u, y)
                      /\ t.accounts[y] # Nil =>
                             t.accounts[y].num = u.accounts[y].num
  BY <1>5, <1>6, <1>7 DEF HasAccount
<1>9. Numbered(t)
  BY <1>2, <1>7, <1>8 DEF GoodStore, Numbered, HasAccount
<1>10. \A y \in Addr : HasLabel(t, y) <=> HasLabel(u, y)
  BY <1>7 DEF HasLabel, HasContract
<1>11. Labelled(t, t.nextAccountID)
  BY <1>2, <1>7, <1>10 DEF GoodStore, Labelled
<1>12. Consistent(t, P \ {x})
  <2> SUFFICES ASSUME NEW y \in Addr
               PROVE  IF y \in P \ {x} THEN HalfRegistered(t, y)
                                       ELSE Settled(t, y)
    BY DEF Consistent
  <2>1. IF y \in P THEN HalfRegistered(u, y) ELSE Settled(u, y)
    BY <1>2 DEF GoodStore, Consistent
  <2>2. CASE y = x
    <3>1. IsAbstract(t, x)
      BY <1>5, <1>7 DEF IsAbstract, HasAccount, a
    <3> QED
      BY <2>2, <3>1, <1>3, <1>6, <1>7, <1>10 DEF Settled
  <2>3. CASE y # x
    BY <2>1, <2>3, <1>7, <1>10
       DEF HalfRegistered, Settled, IsAbstract, HasAccount
  <2> QED
    BY <2>2, <2>3
<1>13. GoodStore(t, P \ {x})
  BY <1>2, <1>7, <1>9, <1>11, <1>12 DEF GoodStore
<1> QED
  BY <1>13 DEF t

-----------------------------------------------------------------------------
(* Steps *)

\* The first states satisfy the invariant: nothing is registered, and the users'
\* account numbers are below the next one.
LEMMA InitIInv == Init => IInv
<1> SUFFICES ASSUME Init PROVE IInv
  OBVIOUS
<1>1. genesis \in Genesis /\ genesis # Nil /\ ~Running
  BY RegistryAssumption DEF Init, Running
<1>2. Cardinality(Users) \in Nat
  BY RegistryAssumption, FS_CardinalityType
<1>3. \A x \in Users : /\ [kind |-> "base", num |-> Number[x]] \in Account
                       /\ Number[x] \in Nat /\ Number[x] < Cardinality(Users)
  BY <1>2, RegistryAssumption DEF Account
<1>4. store \in Store
  BY <1>2, <1>3 DEF Init, Store
<1>5. \A x \in Addr : /\ store.accounts[x] = IF x \in Users
                             THEN [kind |-> "base", num |-> Number[x]] ELSE Nil
                      /\ store.contracts[x] = Nil
  BY DEF Init
<1>6. \A x \in Addr : HasAccount(store, x) =>
          /\ x \in Users /\ store.accounts[x].kind = "base"
          /\ store.accounts[x].num = Number[x]
  <2> SUFFICES ASSUME NEW x \in Addr, HasAccount(store, x)
               PROVE  /\ x \in Users /\ store.accounts[x].kind = "base"
                      /\ store.accounts[x].num = Number[x]
    OBVIOUS
  <2>1. x \in Users
    BY <1>5 DEF HasAccount
  <2>2. store.accounts[x] = [kind |-> "base", num |-> Number[x]]
    BY <1>5, <2>1
  <2> QED
    BY <2>1, <2>2
<1>7. store.nextAccountNumber = Cardinality(Users)
  BY DEF Init
<1>8. Numbered(store)
  <2>1. \A x, y \in Users : Number[x] = Number[y] => x = y
    BY RegistryAssumption
  <2> QED
    BY <2>1, <1>3, <1>6, <1>7 DEF Numbered
<1>9. \A x \in Addr : ~HasContract(store, x) /\ ~HasLabel(store, x)
  BY <1>5 DEF HasContract, HasLabel
<1>10. Labelled(store, genesis.nextAccountID)
  BY <1>9 DEF Labelled
<1>11. Consistent(store, {})
  BY <1>6, <1>9 DEF Consistent, Settled, IsAbstract
<1>12. stack = <<>>
  BY DEF Init
<1> QED
  BY <1>1, <1>4, <1>8, <1>9, <1>10, <1>11, <1>12 DEF IInv, StoppedOK

\* Without calls in progress nothing is pending.
LEMMA NothingPending ==
    ASSUME stack = <<>> PROVE Pending(Len(stack)) = {}
BY DEF Pending

\* A step that goes on to another good branch with the same calls in progress keeps
\* the invariant.
LEMMA SameCalls ==
    ASSUME IInv, Running, UNCHANGED <<genesis, stack>>,
           GoodStore(store', Pending(Len(stack)))
    PROVE  IInv'
<1>1. \A k : Pending(k)' = Pending(k)
  BY DEF Pending
<1>2. Running'
  BY DEF Running
<1>3. RunningOK'
  BY <1>1 DEF IInv, RunningOK, GoodStore, Numbered, Labelled, Consistent,
              HalfRegistered, Settled, IsAbstract, HasLabel, HasAccount, HasContract
<1> QED
  BY <1>2, <1>3 DEF IInv

\* A step that goes back to the first d calls, d # 1, keeps the invariant if it goes
\* on from a branch that has just their registrations pending.
LEMMA FewerCalls ==
    ASSUME IInv, Running, NEW d \in 0..Len(stack), UNCHANGED genesis,
           stack' = SubSeq(stack, 1, d), GoodStore(store', Pending(d))
    PROVE  IInv'
<1>1. stack \in Seq(Frame) /\ Len(stack) \in Nat
  BY DEF IInv
<1>2. /\ stack' \in Seq(Frame)
      /\ Len(stack') = d
      /\ \A i \in 1..d : stack'[i] = stack[i]
  BY <1>1, SubSeqProperties
<1>3. \A k \in 0..d : Pending(k)' = Pending(k)
  BY <1>2 DEF Pending
<1>4. GoodStore(store', Pending(Len(stack))')
  BY <1>2, <1>3
<1>5. \A i \in 1..d : GoodStore(stack'[i].snapshot, Pending(i - 1)')
  BY <1>1, <1>2, <1>3 DEF IInv, RunningOK
<1>6. \A i, j \in 2..d : stack'[i].actor = stack'[j].actor => i = j
  BY <1>1, <1>2 DEF IInv, RunningOK
<1>7. RunningOK'
  BY <1>2, <1>4, <1>5, <1>6 DEF RunningOK
<1> QED
  BY <1>2, <1>7 DEF IInv, Running

\* A new call that starts from the current branch keeps the invariant if the next
\* branch is good with the new call counted.
LEMMA AnotherCall ==
    ASSUME IInv, Running, NEW x \in Addr, UNCHANGED genesis,
           stack' = Append(stack, [snapshot |-> store, actor |-> x]),
           NEW P, GoodStore(store', P),
           \/ stack = <<>> /\ P = {}
           \/ stack # <<>> /\ x \notin Pending(Len(stack))
              /\ P = Pending(Len(stack)) \cup {x}
    PROVE  IInv'
<1> DEFINE fr == [snapshot |-> store, actor |-> x]
<1>0. PICK n \in Nat : n = Len(stack)
  BY DEF IInv
<1>1. stack \in Seq(Frame) /\ n = Len(stack) /\ RunningOK /\ fr \in Frame
  BY <1>0 DEF IInv, RunningOK, GoodStore, Frame
<1>2. /\ stack' \in Seq(Frame)
      /\ Len(stack') = n + 1
      /\ \A i \in 1..n : stack'[i] = stack[i]
      /\ stack'[n + 1] = fr
  BY <1>1
<1>3. \A k \in 0..n : Pending(k)' = Pending(k)
  BY <1>1, <1>2 DEF Pending
<1>4. Pending(n + 1)' = P
  <2>1. CASE stack = <<>>
    <3>1. n = 0 /\ 2..(n + 1) = {}
      BY <2>1, <1>1
    <3> QED
      BY <2>1, <3>1 DEF Pending
  <2>2. CASE stack # <<>>
    <3>1. n >= 1 /\ 2..(n + 1) = 2..n \cup {n + 1}
      BY <2>2, <1>1
    <3>2. Pending(n + 1)' = Pending(n)' \cup {stack'[n + 1].actor}
      BY <3>1 DEF Pending
    <3>3. Pending(n)' = Pending(n) /\ stack'[n + 1].actor = x
      BY <1>2, <1>3, <1>0
    <3>4. P = Pending(n) \cup {x}
      BY <2>2, <1>1
    <3> QED
      BY <3>2, <3>3, <3>4
  <2> QED
    BY <2>1, <2>2
<1>5. \A i \in 1..(n + 1) : GoodStore(stack'[i].snapshot, Pending(i - 1)')
  <2> TAKE i \in 1..(n + 1)
  <2>1. CASE i = n + 1
    <3>1. stack'[i].snapshot = store /\ i - 1 = n
      BY <2>1, <1>1, <1>2
    <3> QED
      BY <3>1, <1>1, <1>3 DEF RunningOK
  <2>2. CASE i # n + 1
    <3>1. i \in 1..n /\ i - 1 \in 0..n
      BY <2>2, <1>1
    <3> QED
      BY <3>1, <1>1, <1>2, <1>3 DEF RunningOK
  <2> QED
    BY <2>1, <2>2
<1>6. \A i, j \in 2..(n + 1) : stack'[i].actor = stack'[j].actor => i = j
  <2>1. \A i \in 2..n : stack'[i].actor \in Pending(n)
    BY <1>1, <1>2 DEF Pending
  <2>2. n + 1 \in 2..(n + 1) => stack'[n + 1].actor \notin Pending(n)
    BY <1>1, <1>2
  <2>3. \A i, j \in 2..n : stack'[i].actor = stack'[j].actor => i = j
    BY <1>1, <1>2 DEF RunningOK
  <2>4. \A i \in 2..(n + 1) : i = n + 1 \/ i \in 2..n
    BY <1>1
  <2> QED
    BY <2>1, <2>2, <2>3, <2>4
<1>7. RunningOK'
  BY <1>2, <1>4, <1>5, <1>6 DEF RunningOK
<1> QED
  BY <1>2, <1>7 DEF IInv, Running

\* Every step keeps the invariant.
LEMMA StepIInv == IInv /\ [Next]_vars => IInv'
<1> SUFFICES ASSUME IInv, [Next]_vars PROVE IInv'
  OBVIOUS
<1> USE DEF Running
<1>0. /\ genesis \in Genesis \cup {Nil} /\ stack \in Seq(Frame)
      /\ Len(stack) \in Nat
      /\ stack # <<>> => Running /\ Len(stack) >= 1
      /\ Running => GoodStore(store, Pending(Len(stack)))
  BY DEF IInv, RunningOK, StoppedOK
<1>t. stack # <<>> => Top \in Frame /\ Top.actor \in Addr
  <2>1. stack # <<>> => stack[Len(stack)] \in Frame
    BY <1>0
  <2> QED
    BY <2>1 DEF Top, Frame
<1>1. CASE InitGenesis
  <2>1. /\ genesis \in Genesis /\ Validate(genesis.params) /\ StoppedOK
        /\ store \in Store
    BY <1>0, <1>1 DEF InitGenesis, IInv, StoppedOK
  <2>2. genesis.params \in Params /\ genesis.nextAccountID \in Nat
    BY <2>1 DEF Genesis
  <2>3. genesis.params # Nil
    BY <2>2, RegistryAssumption
  <2>4. /\ store' \in Store
        /\ store'.params = genesis.params
        /\ store'.nextAccountID = genesis.nextAccountID
        /\ store'.accounts = store.accounts
        /\ store'.contracts = store.contracts
        /\ store'.nextAccountNumber = store.nextAccountNumber
    BY <1>1, <2>1, <2>2
       DEF InitGenesis, InitStore, SetNextAccountID, SetParams, Store
  <2>5. GoodStore(store', {})
    BY <2>1, <2>3, <2>4
       DEF GoodStore, StoppedOK, Numbered, Labelled, Consistent, Settled,
           HalfRegistered, IsAbstract, HasLabel, HasAccount, HasContract
  <2>6. stack' = <<>> /\ genesis' = Nil
    BY <1>1, <2>1 DEF InitGenesis, StoppedOK
  <2>7. Pending(Len(stack))' = {}
    BY <2>6 DEF Pending
  <2> QED
    BY <1>0, <2>5, <2>6, <2>7 DEF IInv, RunningOK
<1>2. CASE InitGenesisPanics
  <2>1. /\ StoppedOK /\ \A x \in Addr : ~HasContract(store, x)
        /\ store' = store /\ stack' = stack
    BY <1>2 DEF InitGenesisPanics, IInv, StoppedOK
  <2>2. genesis' \in Genesis /\ genesis' # Nil
    BY <1>2, RegistryAssumption DEF InitGenesisPanics
  <2>3. StoppedOK'
    BY <2>1 DEF StoppedOK, Labelled, HasLabel
  <2> QED
    BY <1>0, <2>1, <2>2, <2>3 DEF IInv
<1>3. CASE ExportGenesis
  <2>1. GoodStore(store, {}) /\ stack = <<>> /\ stack' = <<>>
    BY <1>0, <1>3, NothingPending DEF ExportGenesis
  <2>2. /\ store \in Store /\ store.params \in Params
        /\ store.nextAccountID \in Nat
    BY <2>1 DEF GoodStore, Store
  <2>3. /\ genesis' \in Genesis
        /\ genesis'.params = store.params
        /\ genesis'.nextAccountID = store.nextAccountID
    BY <2>2, <1>3 DEF ExportGenesis, Genesis
  <2>4. genesis' # Nil
    BY <2>3, RegistryAssumption
  <2>5. /\ store' \in Store
        /\ store'.accounts = store.accounts
        /\ store'.contracts = store.contracts
        /\ store'.nextAccountNumber = store.nextAccountNumber
    BY <2>2, <1>3 DEF ExportGenesis, Store
  <2>6. StoppedOK'
    BY <2>1, <2>3, <2>5
       DEF GoodStore, StoppedOK, Numbered, Labelled, Consistent, Settled,
           HalfRegistered, IsAbstract, HasLabel, HasAccount, HasContract
  <2> QED
    BY <1>0, <2>1, <2>3, <2>4, <2>6 DEF IInv
<1>4. ASSUME NEW u \in Addr, BeginTx(u) PROVE IInv'
  <2>1. /\ Running /\ stack = <<>> /\ UNCHANGED <<genesis, store>>
        /\ stack' = Append(stack, [snapshot |-> store, actor |-> u])
    BY <1>4 DEF BeginTx
  <2>2. GoodStore(store', {})
    BY <1>0, <2>1, NothingPending
  <2> QED
    BY <2>1, <2>2, AnotherCall
<1>5. CASE CommitTx
  <2>1. /\ Running /\ Len(stack) = 1 /\ UNCHANGED <<genesis, store>>
        /\ stack' = SubSeq(stack, 1, 0)
    BY <1>0, <1>5 DEF CommitTx
  <2>2. Pending(Len(stack)) = Pending(0)
    BY <2>1 DEF Pending
  <2>3. GoodStore(store', Pending(0))
    BY <1>0, <2>1, <2>2
  <2> QED
    BY <1>0, <2>1, <2>3, FewerCalls
<1>6. ASSUME NEW d \in 0..Len(stack), MessageFails(d) PROVE IInv'
  <2>1. /\ d < Len(stack) /\ d + 1 \in 1..Len(stack) /\ stack # <<>>
        /\ store' = stack[d + 1].snapshot
        /\ stack' = SubSeq(stack, 1, d) /\ UNCHANGED genesis
    BY <1>0, <1>6 DEF MessageFails
  <2>2. GoodStore(stack[d + 1].snapshot, Pending((d + 1) - 1)) /\ (d + 1) - 1 = d
    BY <1>0, <2>1 DEF IInv, RunningOK
  <2> QED
    BY <1>0, <2>1, <2>2, FewerCalls
<1>7. ASSUME NEW x \in Addr, BankSend(x) PROVE IInv'
  <2>1. /\ Running /\ ~HasAccount(store, x) /\ UNCHANGED <<genesis, stack>>
        /\ store' = NewBaseAccount(store, x)
    BY <1>0, <1>7 DEF BankSend
  <2> QED
    BY <1>0, <2>1, NewBaseAccountGood, SameCalls
<1>8. ASSUME NEW code \in CodeIDs, NEW salt \in Salts,
             InstantiateContract(code, salt)
      PROVE  IInv'
  <2> DEFINE x == BuildAddress(Checksum[code], Top.actor, salt)
  <2>1. /\ Running /\ Top.actor \in Addr /\ UNCHANGED <<genesis, stack>>
        /\ x \in Addr /\ Instantiable(store, x)
        /\ store' = Instantiate2(store, code, Top.actor, Nil, x)
    BY <1>0, <1>t, <1>8 DEF InstantiateContract
  <2> HIDE DEF x
  <2> QED
    BY <1>0, <2>1, UnlabelledContractGood, SameCalls
<1>9. ASSUME NEW x \in Addr, NEW admin \in Admins, UpdateAdmin(x, admin)
      PROVE  IInv'
  <2>1. /\ Running /\ HasContract(store, x) /\ UNCHANGED <<genesis, stack>>
        /\ store.contracts[x].admin # x /\ admin \in Addr
        /\ store' = UpdateContractAdmin(store, x, admin)
    BY <1>0, <1>9, RegistryAssumption DEF UpdateAdmin
  <2> QED
    BY <1>0, <2>1, UpdateAdminGood, SameCalls
<1>10. ASSUME NEW p \in ParamsChoices, UpdateParams(p) PROVE IInv'
  <2>1. /\ Running /\ UNCHANGED <<genesis, stack>> /\ p \in Params /\ Validate(p)
        /\ store' = SetParams(store, p)
    BY <1>0, <1>10, RegistryAssumption DEF UpdateParams, CanUpdateParams
  <2> QED
    BY <1>0, <2>1, SetParamsGood, SameCalls
<1>11. ASSUME NEW code \in CodeIDs, NEW salt \in Salts, RegisterAccount(code, salt)
       PROVE  IInv'
  <2> DEFINE x == BuildAddress(Checksum[code], Top.actor, salt)
             P == Pending(Len(stack))
  <2>1. /\ Running /\ stack # <<>> /\ Top.actor \in Addr /\ UNCHANGED genesis
        /\ x \in Addr /\ Instantiable(store, x)
        /\ store' = Instantiate2(TakeID(store), code, Top.actor,
                                 store.nextAccountID, x)
        /\ stack' = Append(stack, [snapshot |-> store, actor |-> x])
    BY <1>0, <1>t, <1>11 DEF RegisterAccount
  <2> HIDE DEF x
  <2>2. x \notin P /\ GoodStore(store', P \cup {x})
    BY <1>0, <2>1, LabelledContractGood
  <2> QED
    BY <2>1, <2>2, AnotherCall
<1>12. CASE AccountRegistered
  <2>1. PICK n \in Nat : n = Len(stack)
    BY <1>0
  <2>2. /\ n > 1 /\ n - 1 \in 0..Len(stack) /\ stack # <<>> /\ Running
        /\ store' = RegisteredStore(store, Top.actor)
        /\ stack' = SubSeq(stack, 1, n - 1) /\ UNCHANGED genesis
    BY <1>0, <1>12, <2>1 DEF AccountRegistered
  <2>3. Top = stack[n] /\ Top.actor \in Pending(n) /\ Top.actor \in Addr
    BY <1>t, <2>1, <2>2 DEF Top, Pending
  <2>4. GoodStore(store', Pending(n) \ {Top.actor})
    BY <1>0, <2>1, <2>2, <2>3, RegisteredStoreGood
  <2>5. Pending(n) \ {Top.actor} = Pending(n - 1)
    <3>1. \A i \in 2..n : stack[i].actor = Top.actor => i = n
      BY <2>1, <2>2, <2>3 DEF IInv, RunningOK
    <3>2. \A i \in 2..n : i = n \/ i \in 2..(n - 1)
      BY <2>1
    <3>3. \A i \in 2..(n - 1) : i \in 2..n /\ i # n
      BY <2>1
    <3> QED
      BY <3>1, <3>2, <3>3, <2>3 DEF Pending
  <2> QED
    BY <2>2, <2>4, <2>5, FewerCalls
<1>13. CASE UNCHANGED vars
  BY <1>13 DEF vars, IInv, RunningOK, StoppedOK, Pending
<1> QED
  BY <1>1, <1>2, <1>3, <1>4, <1>5, <1>6, <1>7, <1>8, <1>9, <1>10, <1>11, <1>12,
     <1>13 DEF Next

-----------------------------------------------------------------------------
(* Theorems *)

\* In every reachable state each branch of the state, the one a failing message
\* would roll back to included, has exactly the registrations below it pending.
THEOREM BranchesConsistent == Spec => []IInv
BY InitIInv, StepIInv, PTL DEF Spec

\* The state keeps its types, calls are in progress only while the chain runs, and
\* a running chain has parameters.
THEOREM TypeCorrect == Spec => []TypeOK
<1>1. IInv => TypeOK
  BY DEF IInv, RunningOK, StoppedOK, GoodStore, TypeOK
<1> QED
  BY <1>1, BranchesConsistent, PTL

\* GetAndIncrementNextAccountID never gives out an ID twice, through any nesting of
\* registrations, any rollback, and any export and import of the state.
THEOREM LabelsUnique == Spec => []UniqueLabels
<1>1. IInv => UniqueLabels
  BY DEF IInv, RunningOK, GoodStore, Labelled, HasLabel, UniqueLabels
<1> QED
  BY <1>1, BranchesConsistent, PTL

\* RegisterAccount is all or nothing: between transactions the contracts it has
\* instantiated are exactly the AbstractAccounts, and each is its own admin.
THEOREM AllOrNothing == Spec => []RegisteredOrNot
<1> SUFFICES ASSUME IInv PROVE RegisteredOrNot
  BY BranchesConsistent, PTL
<1> SUFFICES ASSUME stack = <<>>, NEW x \in Addr PROVE Settled(store, x)
  BY DEF RegisteredOrNot, Settled, HasLabel
<1>1. Consistent(store, {})
  BY NothingPending DEF IInv, RunningOK, StoppedOK, GoodStore
<1> QED
  BY <1>1 DEF Consistent

\* The check for ErrNotBaseAccount at the end of RegisterAccount cannot fail,
\* whatever the new contract did while it was being instantiated.
THEOREM BaseAccountKept == Spec => []StillBaseAccount
<1> SUFFICES ASSUME IInv PROVE StillBaseAccount
  BY BranchesConsistent, PTL
<1> SUFFICES ASSUME NEW i \in 2..Len(stack)
             PROVE  HalfRegistered(store, stack[i].actor)
  BY DEF StillBaseAccount, HalfRegistered, HasLabel
<1>1. stack \in Seq(Frame) /\ stack # <<>> /\ i \in 1..Len(stack)
  BY DEF IInv
<1>2. stack[i] \in Frame
  BY <1>1
<1>3. stack[i].actor \in Addr /\ stack[i].actor \in Pending(Len(stack))
  BY <1>2 DEF Frame, Pending
<1>4. GoodStore(store, Pending(Len(stack)))
  BY <1>1 DEF IInv, RunningOK, StoppedOK
<1> QED
  BY <1>3, <1>4 DEF GoodStore, Consistent

\* No two accounts ever have the same account number.
THEOREM NumbersUnique == Spec => []UniqueAccountNumbers
<1>1. IInv => UniqueAccountNumbers
  BY DEF IInv, RunningOK, StoppedOK, GoodStore, Numbered, UniqueAccountNumbers
<1> QED
  BY <1>1, BranchesConsistent, PTL
=============================================================================
