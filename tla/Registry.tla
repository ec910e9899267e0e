------------------------------ MODULE Registry ------------------------------
(***************************************************************************)
(* msgServer.RegisterAccount and the module's genesis, over the state they *)
(* share with the auth and wasm modules.                                   *)
(*                                                                         *)
(* Registering is not atomic for the contracts involved: Instantiate2 runs *)
(* the new contract and dispatches its messages before RegisterAccount     *)
(* goes on, and those messages may register accounts themselves, move the  *)
(* admin of the half-registered contract, or fail. A stack of frames, each *)
(* with the store to roll back to, stands for the nested calls: the first  *)
(* frame is the transaction, the others are RegisterAccount handlers that  *)
(* wait in Instantiate2.                                                   *)
(***************************************************************************)
EXTENDS Keeper, Integers, FiniteSets

CONSTANTS
    Users,             \* addresses of external accounts
    Number,            \* their account numbers
    Addr,              \* every address of the instance
    CodeIDs,           \* IDs of the stored wasm codes
    Checksum,          \* the checksum of each code
    Salts,             \* salts a sender may choose
    BuildAddress(_, _, _),  \* Instantiate2's address of (checksum, creator, salt)
    GenesisChoices,    \* genesis states an operator may write
    ParamsChoices,     \* parameters a MsgUpdateParams may carry
    Admins,            \* admins a contract may be handed to
    MaxAccountID       \* bound on NextAccountID

Genesis == [nextAccountID : Nat, params : Params]

Account == [kind : {"base", "abstract"}, num : Nat]

Contract == [code : CodeIDs, admin : Addr, label : Nat \cup {Nil}]

ASSUME RegistryAssumption ==
    /\ Users \subseteq Addr
    /\ IsFiniteSet(Users)
    /\ Number \in [Users -> 0..(Cardinality(Users) - 1)]
    /\ \A x, y \in Users : Number[x] = Number[y] => x = y
    /\ Nil \notin Addr \cup Nat \cup Params \cup Genesis \cup Account \cup Contract
    /\ CodeIDs \subseteq Nat \ {0}
    /\ \A c1, c2 \in CodeIDs, x1, x2 \in Addr, s1, s2 \in Salts :
           /\ BuildAddress(Checksum[c1], x1, s1) \notin Users
           /\ BuildAddress(Checksum[c1], x1, s1) # x1
           /\ BuildAddress(Checksum[c1], x1, s1) = BuildAddress(Checksum[c2], x2, s2)
                  => x1 = x2
    /\ GenesisChoices \subseteq Genesis
    /\ ParamsChoices \subseteq Params
    /\ Admins \subseteq Addr
    /\ MaxAccountID \in Nat

VARIABLES
    genesis,  \* the genesis state to start from, Nil once the chain is running
    store,    \* the state of the innermost branch
    stack     \* the calls in progress, the transaction first

vars == <<genesis, store, stack>>

Store == [params            : Params \cup {Nil},
          nextAccountID     : Nat,
          nextAccountNumber : Nat,
          accounts          : [Addr -> Account \cup {Nil}],
          contracts         : [Addr -> Contract \cup {Nil}]]

Frame == [snapshot : Store, actor : Addr]

HasAccount(s, x) == s.accounts[x] # Nil

HasContract(s, x) == s.contracts[x] # Nil

IsAbstract(s, x) == HasAccount(s, x) /\ s.accounts[x].kind = "abstract"

Running == genesis = Nil

Top == stack[Len(stack)]

\* Before genesis the module's store is empty: no parameters, and an absent
\* counter reads as 0. The senders' accounts come with the auth genesis.
Init ==
    /\ genesis \in GenesisChoices
    /\ stack = <<>>
    /\ store = [params |-> Nil, nextAccountID |-> 0,
                nextAccountNumber |-> Cardinality(Users),
                accounts |-> [x \in Addr |->
                    IF x \in Users THEN [kind |-> "base", num |-> Number[x]]
                    ELSE Nil],
                contracts |-> [x \in Addr |-> Nil]]

-----------------------------------------------------------------------------
(* Genesis *)

\* Mutant: the parameters are not restored.
InitStoreCounterOnly(s, gs) == SetNextAccountID(s, gs.nextAccountID)

InitStore(s, gs) == SetNextAccountID(SetParams(s, gs.params), gs.nextAccountID)

InitGenesis ==
    /\ ~Running
    /\ Validate(genesis.params)
    /\ store' = InitStore(store, genesis)
    /\ genesis' = Nil
    /\ UNCHANGED stack

\* The node panics on parameters that are not valid and does not start; the
\* operator writes another genesis state.
InitGenesisPanics ==
    /\ ~Running
    /\ ~Validate(genesis.params)
    /\ genesis' \in GenesisChoices
    /\ UNCHANGED <<store, stack>>

\* The chain is exported and started anew. The auth and wasm modules (external)
\* bring back their accounts and contracts; of the module's own store only what
\* ExportGenesis returns is left.
ExportGenesis ==
    /\ Running
    /\ stack = <<>>
    /\ genesis' = [nextAccountID |-> store.nextAccountID, params |-> store.params]
    /\ store' = [store EXCEPT !.params = Nil, !.nextAccountID = 0]
    /\ UNCHANGED stack

-----------------------------------------------------------------------------
(* Transactions (external) *)

BeginTx(u) ==
    /\ Running
    /\ stack = <<>>
    /\ u \in Users \/ IsAbstract(store, u)
    /\ stack' = <<[snapshot |-> store, actor |-> u]>>
    /\ UNCHANGED <<genesis, store>>

CommitTx ==
    /\ Len(stack) = 1
    /\ stack' = <<>>
    /\ UNCHANGED <<genesis, store>>

\* A message fails, for whatever reason its handler has to return an error, and
\* the error goes up to depth d: to a contract that asked for a reply on errors,
\* whose own branch is kept, or out of the transaction. Everything above is rolled
\* back.
MessageFails(d) ==
    /\ d < Len(stack)
    /\ d # 1
    /\ store' = stack[d + 1].snapshot
    /\ stack' = SubSeq(stack, 1, d)
    /\ UNCHANGED genesis

\* A transfer to an address without an account gives it a BaseAccount, the address
\* of a contract still to be instantiated included.
NewBaseAccount(s, x) ==
    [s EXCEPT !.accounts[x] = [kind |-> "base", num |-> s.nextAccountNumber],
              !.nextAccountNumber = @ + 1]

BankSend(x) ==
    /\ stack # <<>>
    /\ ~HasAccount(store, x)
    /\ store' = NewBaseAccount(store, x)
    /\ UNCHANGED <<genesis, stack>>

-----------------------------------------------------------------------------
(* The wasm keeper (external) *)

\* No contract at the address, and no account but a BaseAccount. Nobody holds a key
\* for such an address, so its sequence is 0 and it has no public key.
Instantiable(s, x) ==
    /\ ~HasContract(s, x)
    /\ HasAccount(s, x) => s.accounts[x].kind = "base"

\* The account is created if there is none, and the contract is stored before the
\* messages it returns are dispatched.
Instantiate2(s, code, creator, label, x) ==
    LET withAccount == IF HasAccount(s, x) THEN s ELSE NewBaseAccount(s, x)
    IN  [withAccount EXCEPT !.contracts[x] =
            [code |-> code, admin |-> creator, label |-> label]]

\* The keeper was given the governance policy, which lets it set any contract's
\* admin.
UpdateContractAdmin(s, x, admin) == [s EXCEPT !.contracts[x].admin = admin]

\* A contract instantiated without RegisterAccount, under a label of its own.
InstantiateContract(code, salt) ==
    /\ stack # <<>>
    /\ LET x == BuildAddress(Checksum[code], Top.actor, salt)
       IN  /\ x \in Addr
           /\ Instantiable(store, x)
           /\ store' = Instantiate2(store, code, Top.actor, Nil, x)
    /\ UNCHANGED <<genesis, stack>>

\* MsgUpdateAdmin of the current admin: the sender of the transaction, or a
\* contract, which any running contract may call. What an account does with its
\* own admin rights is up to that account and left out.
UpdateAdmin(x, admin) ==
    /\ stack # <<>>
    /\ HasContract(store, x)
    /\ LET caller == store.contracts[x].admin
       IN  /\ caller # x
           /\ \/ Len(stack) = 1 /\ caller = Top.actor
              \/ HasContract(store, caller)
    /\ store' = UpdateContractAdmin(store, x, admin)
    /\ UNCHANGED <<genesis, stack>>

-----------------------------------------------------------------------------
(* msgServer *)

UpdateParams(p) ==
    /\ stack # <<>>
    /\ CanUpdateParams(Top.actor, p)
    /\ store' = SetParams(store, p)
    /\ UNCHANGED <<genesis, stack>>

\* Mutant: the counter is read but not put back incremented.
TakeIDUnsaved(s) == s

\* fmt.Sprintf of GetAndIncrementNextAccountID: an argument of Instantiate2, hence
\* evaluated before it.
TakeID(s) == IncrementNextAccountID(s)

\* RegisterAccount up to the dispatch of the new contract's messages.
RegisterAccount(code, salt) ==
    /\ stack # <<>>
    /\ store.nextAccountID < MaxAccountID
    /\ IsAllowed(store.params, code)
    /\ LET x == BuildAddress(Checksum[code], Top.actor, salt)
       IN  /\ x \in Addr
           /\ Instantiable(store, x)
           /\ store' = Instantiate2(TakeID(store), code, Top.actor,
                                    store.nextAccountID, x)
           /\ stack' = Append(stack, [snapshot |-> store, actor |-> x])
    /\ UNCHANGED genesis

\* Mutant: the account number is lost.
NewAbstractAccountUnnumbered(acc) == [kind |-> "abstract", num |-> 0]

NewAbstractAccountFromAccount(acc) == [kind |-> "abstract", num |-> acc.num]

\* Mutant: the contract's admin stays what it was.
RegisteredStoreSameAdmin(s, x) ==
    [s EXCEPT !.accounts[x] = NewAbstractAccountFromAccount(@)]

\* Mutant: it is the sender's account that is overwritten.
RegisteredStoreOfSender(s, x) ==
    [UpdateContractAdmin(s, x, x) EXCEPT
        !.accounts[s.contracts[x].admin] = NewAbstractAccountFromAccount(@)]

\* The contract becomes its own admin and its account an AbstractAccount.
RegisteredStore(s, x) ==
    [UpdateContractAdmin(s, x, x) EXCEPT
        !.accounts[x] = NewAbstractAccountFromAccount(@)]

\* RegisterAccount after Instantiate2 has returned. If the account is not a
\* BaseAccount the handler fails instead (MessageFails).
AccountRegistered ==
    /\ Len(stack) > 1
    /\ HasAccount(store, Top.actor) /\ store.accounts[Top.actor].kind = "base"
    /\ store' = RegisteredStore(store, Top.actor)
    /\ stack' = SubSeq(stack, 1, Len(stack) - 1)
    /\ UNCHANGED genesis

-----------------------------------------------------------------------------
Next ==
    \/ InitGenesis
    \/ InitGenesisPanics
    \/ ExportGenesis
    \/ \E u \in Addr : BeginTx(u)
    \/ CommitTx
    \/ \E d \in 0..Len(stack) : MessageFails(d)
    \/ \E x \in Addr : BankSend(x)
    \/ \E code \in CodeIDs, salt \in Salts : InstantiateContract(code, salt)
    \/ \E x \in Addr, admin \in Admins : UpdateAdmin(x, admin)
    \/ \E p \in ParamsChoices : UpdateParams(p)
    \/ \E code \in CodeIDs, salt \in Salts : RegisterAccount(code, salt)
    \/ AccountRegistered

Spec == Init /\ [][Next]_vars

-----------------------------------------------------------------------------
(* Properties *)

\* Calls are in progress only while the chain runs, and a running chain has
\* parameters.
TypeOK ==
    /\ genesis \in Genesis \cup {Nil}
    /\ store \in Store
    /\ stack \in Seq(Frame)
    /\ ~Running => stack = <<>>
    /\ Running => store.params # Nil

\* No two accounts carry the same label abstractaccount/{id}, and no ID still to be
\* given out is in use: not after nested registrations, not after one that was
\* rolled back, not after the state went through an export and an import.
UniqueLabels ==
    Running =>
        \A x \in Addr : HasContract(store, x) /\ store.contracts[x].label # Nil =>
            /\ store.contracts[x].label < store.nextAccountID
            /\ \A y \in Addr : HasContract(store, y) /\
                   store.contracts[y].label = store.contracts[x].label => x = y

\* Between transactions nothing is half registered: the contracts instantiated by
\* RegisterAccount are exactly the AbstractAccounts, and each is its own admin,
\* even if its creator handed the admin rights to somebody else in the meantime.
RegisteredOrNot ==
    stack = <<>> => \A x \in Addr :
        /\ IsAbstract(store, x) <=>
               HasContract(store, x) /\ store.contracts[x].label # Nil
        /\ IsAbstract(store, x) => store.contracts[x].admin = x

\* While a RegisterAccount waits for its contract, nothing else can have turned
\* the account into anything but a BaseAccount: ErrNotBaseAccount never arises.
StillBaseAccount ==
    \A i \in 2..Len(stack) :
        /\ HasContract(store, stack[i].actor)
        /\ HasAccount(store, stack[i].actor)
        /\ store.accounts[stack[i].actor].kind = "base"

\* Account numbers, which are part of what is signed, stay unique when a BaseAccount
\* is overwritten by an AbstractAccount.
UniqueAccountNumbers ==
    \A x, y \in Addr : HasAccount(store, x) /\ HasAccount(store, y) /\
        store.accounts[x].num = store.accounts[y].num => x = y
=============================================================================
