------------------------------- MODULE Granter -------------------------------
(***************************************************************************)
(* The account-granter contract: transactions signed by the account key,   *)
(* or by a key that holds an unexpired grant for every message of the      *)
(* transaction.                                                            *)
(*                                                                         *)
(* before_tx looks at the grants once, before the first message runs; the  *)
(* messages may then change the grants by calling the contract themselves, *)
(* and the transaction may still fail and be rolled back, while blocks go  *)
(* by and grants expire. The log of the messages that took effect, with    *)
(* the key that really signed for each, is what the properties are about.  *)
(***************************************************************************)
EXTENDS Integers, Sequences

CONSTANTS
    Nil,              \* the absent value
    Account,          \* the account's address
    OtherContracts,   \* addresses of contracts its messages may run
    Keys,             \* public keys
    AccountKey,       \* the key the account was instantiated with
    TypeUrls,         \* type URLs of messages
    ExecuteContract,  \* the one of MsgExecuteContract
    Txs,              \* the transactions clients may broadcast
    Ticks,            \* seconds between two blocks
    MaxHeight,        \* bound on the number of blocks
    MaxLog            \* bound on the number of messages

Expiration ==
    [kind : {"height", "time"}, at : Nat] \cup {[kind |-> "never"]}

Grant == [expiry : Expiration \cup {Nil}]

\* A call of the contract's execute method: who calls, and what for.
Call == [kind : {"grant", "revoke"}, sender : {Account} \cup OtherContracts,
         typeUrl : TypeUrls, grantee : Keys, expiry : Expiration \cup {Nil}]

\* A message of the transaction. One of type MsgExecuteContract may end in a call
\* of the contract, from the account itself or from the contract it runs. That no
\* other type reaches the contract is an assumption on the type URLs granted: a
\* MsgMigrateContract of the account, its own admin, would replace this code.
Msg == [typeUrl : TypeUrls, call : {Nil}]
           \cup [typeUrl : {ExecuteContract}, call : Call]

\* The public key is what the sender claims. A signature is the key whose private
\* half signed the bytes of this very transaction, Nil if it is missing.
Credential == [pubkey : Keys, signature : Keys \cup {Nil}]

\* cred is Nil if the credential bytes do not parse.
Tx == [msgs : Seq(Msg), cred : Credential \cup {Nil}]

ASSUME GranterAssumption ==
    /\ Nil \notin Call \cup Grant \cup Expiration \cup Credential \cup Txs \cup Keys
    /\ Account \notin OtherContracts
    /\ AccountKey \in Keys
    /\ ExecuteContract \in TypeUrls
    /\ Txs \subseteq Tx
    /\ \A t \in Txs : t.msgs # <<>>
    /\ Ticks \subseteq Nat
    /\ MaxHeight \in Nat
    /\ MaxLog \in Nat

VARIABLES
    block,     \* height and time
    store,     \* the contract's state: PUBKEY and GRANTS
    tx,        \* the running transaction, Nil between transactions
    simulate,  \* whether it is being simulated
    work,      \* the branch of store its messages run on
    msgIndex,  \* the next message
    log        \* the messages that took effect

vars == <<block, store, tx, simulate, work, msgIndex, log>>

Pairs == TypeUrls \X Keys

Store == [pubkey : Keys, grants : [Pairs -> Grant \cup {Nil}]]

Entry == [msg : Msg, signer : Keys, first : Nat, block : [height : Nat, time : Nat]]

\* instantiate
Init ==
    /\ block = [height |-> 0, time |-> 0]
    /\ store = [pubkey |-> AccountKey, grants |-> [p \in Pairs |-> Nil]]
    /\ tx = Nil
    /\ simulate = FALSE
    /\ work = store
    /\ msgIndex = 1
    /\ log = <<>>

-----------------------------------------------------------------------------
(* before_tx *)

\* Expiration::is_expired of cw_utils (external).
IsExpired(expiry, b) ==
    \/ expiry.kind = "height" /\ b.height >= expiry.at
    \/ expiry.kind = "time" /\ b.time >= expiry.at

InForce(grant, b) == grant # Nil /\ (grant.expiry # Nil => ~IsExpired(grant.expiry, b))

\* Mutant: a grant for the first message is enough.
HasGrantForFirst(s, b, msgs, grantee) == InForce(s.grants[<<msgs[1].typeUrl, grantee>>], b)

\* assert_has_grant
HasGrant(s, b, msgs, grantee) ==
    \A i \in DOMAIN msgs : InForce(s.grants[<<msgs[i].typeUrl, grantee>>], b)

\* secp256k1_verify (external)
Verifies(cred) == cred.signature = cred.pubkey

\* Mutant: the account key needs no signature.
BeforeTxTrustsKey(s, b, t, sim) ==
    /\ t.cred # Nil
    /\ t.cred.pubkey # s.pubkey => HasGrant(s, b, t.msgs, t.cred.pubkey)
    /\ ~sim /\ t.cred.pubkey # s.pubkey => t.cred.signature # Nil /\ Verifies(t.cred)

\* before_tx returns Ok; it changes nothing.
BeforeTx(s, b, t, sim) ==
    /\ t.cred # Nil
    /\ t.cred.pubkey # s.pubkey => HasGrant(s, b, t.msgs, t.cred.pubkey)
    /\ ~sim => t.cred.signature # Nil /\ Verifies(t.cred)

\* A transaction before_tx refuses ends here and is not a step.
BeginTx(t, sim) ==
    /\ tx = Nil
    /\ Len(log) + Len(t.msgs) <= MaxLog
    /\ BeforeTx(store, block, t, sim)
    /\ tx' = t
    /\ simulate' = sim
    /\ work' = store
    /\ msgIndex' = 1
    /\ UNCHANGED <<block, store, log>>

-----------------------------------------------------------------------------
(* The messages *)

HasMsg == tx # Nil /\ msgIndex <= Len(tx.msgs)

CurrentCall == tx.msgs[msgIndex].call

MsgDone(s) ==
    /\ work' = s
    /\ msgIndex' = msgIndex + 1
    /\ UNCHANGED <<block, store, tx, simulate, log>>

\* A message that does not call the contract (external).
OtherMsg ==
    /\ HasMsg
    /\ CurrentCall = Nil
    /\ MsgDone(work)

AssertSelf(sender) == sender = Account

\* Mutant: the expiry is saved in place of the Grant that holds it.
GrantedBare(s, c) == [s EXCEPT !.grants[<<c.typeUrl, c.grantee>>] = c.expiry]

\* A grant replaces the one the grantee has for that type.
Granted(s, c) ==
    [s EXCEPT !.grants[<<c.typeUrl, c.grantee>>] = [expiry |-> c.expiry]]

GrantCall ==
    /\ HasMsg
    /\ CurrentCall # Nil /\ CurrentCall.kind = "grant"
    /\ AssertSelf(CurrentCall.sender)
    /\ CurrentCall.expiry # Nil => ~IsExpired(CurrentCall.expiry, block)
    /\ MsgDone(Granted(work, CurrentCall))

\* Mutant: only a grant that expires is removed.
RevokedIfExpires(s, c) ==
    [s EXCEPT !.grants[<<c.typeUrl, c.grantee>>] =
        IF @ # Nil /\ @.expiry = Nil THEN @ ELSE Nil]

\* Removing a grant that is not there is not an error.
Revoked(s, c) == [s EXCEPT !.grants[<<c.typeUrl, c.grantee>>] = Nil]

RevokeCall ==
    /\ HasMsg
    /\ CurrentCall # Nil /\ CurrentCall.kind = "revoke"
    /\ AssertSelf(CurrentCall.sender)
    /\ MsgDone(Revoked(work, CurrentCall))

\* A message fails, the contract's own errors (Unauthorized, NewGrantExpired)
\* included: the transaction is rolled back.
MsgFails ==
    /\ HasMsg
    /\ tx' = Nil
    /\ simulate' = FALSE
    /\ work' = store
    /\ msgIndex' = 1
    /\ UNCHANGED <<block, store, log>>

Entries == [i \in DOMAIN tx.msgs |->
    [msg |-> tx.msgs[i], signer |-> tx.cred.signature,
     first |-> Len(log) + 1, block |-> block]]

\* All messages succeeded; after_tx always does. A simulation leaves nothing.
EndTx ==
    /\ tx # Nil
    /\ ~HasMsg
    /\ store' = IF simulate THEN store ELSE work
    /\ log' = IF simulate THEN log ELSE log \o Entries
    /\ tx' = Nil
    /\ simulate' = FALSE
    /\ work' = store'
    /\ msgIndex' = 1
    /\ UNCHANGED block

NextBlock(tick) ==
    /\ tx = Nil
    /\ block.height < MaxHeight
    /\ block' = [height |-> block.height + 1, time |-> block.time + tick]
    /\ UNCHANGED <<store, tx, simulate, work, msgIndex, log>>

-----------------------------------------------------------------------------
Next ==
    \/ \E t \in Txs, sim \in BOOLEAN : BeginTx(t, sim)
    \/ OtherMsg
    \/ GrantCall
    \/ RevokeCall
    \/ MsgFails
    \/ EndTx
    \/ \E tick \in Ticks : NextBlock(tick)

Spec == Init /\ [][Next]_vars

-----------------------------------------------------------------------------
(* Properties *)

\* Every logged message has the signature of some key.
TypeOK ==
    /\ block \in [height : Nat, time : Nat]
    /\ store \in Store
    /\ tx \in Txs \cup {Nil}
    /\ simulate \in BOOLEAN
    /\ work \in Store
    /\ msgIndex \in Nat \ {0}
    /\ log \in Seq(Entry)

\* Log entry i grants or revokes pair p.
About(i, p) ==
    /\ log[i].msg.call # Nil
    /\ <<log[i].msg.call.typeUrl, log[i].msg.call.grantee>> = p

\* Of the first n log entries, i is the last about pair p.
LatestAbout(i, p, n) ==
    /\ i \in 1..n
    /\ About(i, p)
    /\ \A j \in (i + 1)..n : ~About(j, p)

\* What the first n log entries make of pair p is a grant in force in block b.
GrantedBy(n, p, b) ==
    \E i \in 1..n :
        /\ LatestAbout(i, p, n)
        /\ log[i].msg.call.kind = "grant"
        /\ log[i].msg.call.expiry # Nil => ~IsExpired(log[i].msg.call.expiry, b)

\* A message takes effect only if it was signed with the account key, or with a key
\* to which the transactions before granted its type: the latest word on that pair
\* was a grant, which had not expired in the block of the message. What the
\* transaction itself grants does not count.
EffectsTraceToGrants ==
    \A i \in DOMAIN log :
        log[i].signer # AccountKey =>
            GrantedBy(log[i].first - 1, <<log[i].msg.typeUrl, log[i].signer>>,
                      log[i].block)

\* As long as the account key itself grants no MsgExecuteContract, all grants and
\* revocations are its own: rights to act do not become rights to grant, neither
\* through several messages in a transaction nor through contracts the account runs.
RightsFromAccountKey ==
    (\A i \in DOMAIN log :
        log[i].signer = AccountKey /\ log[i].msg.call # Nil
            => \/ log[i].msg.call.kind = "revoke"
               \/ log[i].msg.call.typeUrl # ExecuteContract)
    => \A i \in DOMAIN log :
           log[i].msg.call # Nil =>
               /\ log[i].signer = AccountKey
               /\ log[i].msg.call.sender = Account

\* The grants kept are those of the messages that took effect, the latest for each
\* pair of type and grantee, and none of a transaction that was rolled back or
\* simulated.
GrantsMatchHistory ==
    \A p \in Pairs :
        /\ (\A i \in DOMAIN log : ~About(i, p)) => store.grants[p] = Nil
        /\ \A i \in DOMAIN log : LatestAbout(i, p, Len(log)) =>
               store.grants[p] = IF log[i].msg.call.kind = "revoke" THEN Nil
                                 ELSE [expiry |-> log[i].msg.call.expiry]
=============================================================================
