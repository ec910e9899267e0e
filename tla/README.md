# A TLA+ verification of `x/abstractaccount` and its account contracts

The repository adds *account abstraction* to a Cosmos SDK chain: an
`AbstractAccount` is a smart contract, and a transaction it signs alone is
authenticated by that contract instead of by a signature check of the SDK. The
modules here model the Go module, its encodings and all the account contracts, the `.cfg`
files check them with TLC on small instances, and the `*Proofs` modules prove the
main results with TLAPS for every value of the constants.

## 1. Inventory

| Component | State | Operations | Interacts with |
|---|---|---|---|
| keeper (`keeper/keeper.go`, `types/params.go`) | parameters, `NextAccountID`, `SignerAddress` | get/set of each, `Validate`, `IsAllowed` | used by everything below |
| `BeforeTxDecorator` / `AfterTxDecorator` (`ante.go`, `simapp/ante.go`) | none of their own; write `SignerAddress` | `AnteHandle`, `PostHandle`, `sudoWithGasLimit` | BaseApp runs them around the messages; they call the account contract's `sudo` |
| `AbstractAccount`, `NilPubKey` (`types/account.go`) | address, number, sequence | `NewAbstractAccountFromAccount`, `VerifySignature` (panics) | the SDK's default decorators |
| message server (`keeper/msg_server.go`) | none of its own | `UpdateParams`, `RegisterAccount` | wasm keeper (`Instantiate2`, `UpdateContractAdmin`), account keeper |
| genesis (`keeper/genesis.go`, `module.go`) | none of its own | `InitGenesis` (panics on bad parameters), `ExportGenesis` | keeper |
| account-base | `PUBKEY` | `before_tx`, `after_tx`, `assert_self` | called through `sudo` |
| account-updatable | `PUBKEY` | base and `update_pubkey` | base |
| account-granter | `PUBKEY`, `GRANTS` | `before_tx`, `grant`, `revoke`, paginated `grants` query | base |
| account-asym-totp | `CONFIG`, `PREV_COUNT` | `init`, `before_tx` | base |
| account-eth | `ETHEREUM_ADDRESS` | `before_tx`, `crypto::verify` | base |
| CLI and query server (`client/cli`, `keeper/query_server.go`) | none | `register`, `update-params`, `params`; `Query/Params` | build and read encoded messages |
| generated Protobuf code (`types/*.pb.go`) | none | `Size`, `Marshal`, `Unmarshal` of eleven messages, `skip` | the store, transactions and queries hold what it writes |
| simapp, codec registration | wiring | | |

What is hard to get right:

- **One key for every transaction.** The AnteHandler leaves the signer's address in
  the module store for the PostHandler. The two are separate store branches: the
  first is written back before the messages run, the second only if everything
  succeeded.
- **Four modes, three stores.** The decorators run in CheckTx, in rechecks (which
  verify no signature), in simulations and in DeliverTx, over the check state, the
  deliver state and the committed state, with commits and restarts in between.
- **Calls in the middle of a handler.** `RegisterAccount` runs foreign code inside
  `Instantiate2`, which may register accounts, move admins, or fail.
- **Two clocks.** A contract that looks at the block time sees the last committed
  block's in CheckTx and the current block's in DeliverTx.
- **Permissions read once.** The granter checks grants before the first message of a
  transaction whose messages may change them.
- **A key that changes.** account-updatable replaces its key in a message, while
  transactions signed with the old key wait in mempools and the check state still has
  it.
- **Bytes from anybody.** Messages, parameters, addresses and signatures arrive as bytes
  or strings without a known form; lengths, indices and slices are computed from them.

`PROJECT.json` lists these as hazards with their source lines.

What makes each component correct: *decorators*: a sequence number is used up by
exactly one authenticated transaction, messages take effect only with both hooks,
hooks run for their own transaction; *registry*: unique labels and account numbers,
nothing half registered, well-formed parameters; *asym-totp*: one transaction per
duration and no lock-out; *granter*: effects trace back to the account key;
*updatable*: keys form a chain in which each was installed with the one before;
*eth*: accepted is what the owner signed, once; *encodings*: whatever is accepted means
what Protobuf says it means and can be stored again; *service*: the parameters are a
register that only the authority writes.

## 2. Modules

| Module | Models |
|---|---|
| `Keeper` | the keeper as operators from a store to the store they leave |
| `TxFlow` (extends `Keeper`) | AnteHandler, messages, PostHandler in BaseApp's modes; mempool, commit, restart |
| `Registry` (extends `Keeper`) | `RegisterAccount`, `UpdateParams`, genesis, with the wasm and auth keepers as far as used |
| `AsymTotp` | account-asym-totp over the check and the deliver state |
| `Granter` | account-granter: `before_tx`, then the messages, then the end of the transaction |
| `GrantsQuery` | the granter's `grants` query and a client that pages through it |
| `Ledger` | abstract: what account abstraction promises to a chain's users |
| `TxFlowLedger` (extends `TxFlow`) | the refinement mapping from `TxFlow` to `Ledger` |
| `Updatable` | account-updatable and account-base on a node with mempool, commits and crashes |
| `Eth` | account-eth: instantiation, `before_tx`, `crypto::verify` |
| `Wire` | the Protobuf wire format as the generated code reads and writes it |
| `Messages` (extends `Wire`) | the module's eleven messages |
| `Codec` (extends `Messages`) | one message being unmarshalled from arbitrary bytes, turn by turn |
| `Service` (extends `Messages`, instantiates `Keeper`) | CLI, other clients, node and query over encoded messages and stores |
| `ParamsRegister` | abstract: the parameters as a register, implemented by `Service` |
| `TxFlowProofs`, `RegistryProofs`, `AsymTotpProofs`, `GranterProofs` (with `GrantsQuery`), `UpdatableProofs`, `EthProofs` | theorems |
| `MessagesProofs`; `CodecProofs` (extends it) | what the readers and writers of `Messages` do; theorems about `Codec` and `Service` |
| `MC*` | instances for TLC |

Definitions named *mutant* in a comment are wrong variants of the definition that
follows them; `PROJECT.json` pairs each property with one that violates it.

### TxFlow

`Begin` picks a transaction and a mode and branches a store (`work`). One action per
outcome follows: the decorators before `BeforeTxDecorator` (`AnteChainRejects`,
`ValidateBasicRejects`), `BeforeTxDecorator` (`BeforeTxWrongSequence`,
`BeforeTxNotSingleSignature`, `BeforeTxFails`, `BeforeTxOutOfGas`,
`BeforeTxAccepts`), the default decorator for all other transactions
(`DefaultSigVerificationAccepts`/`Rejects`, `NilPubKeyPanics`), the messages one by
one, then `AfterTxDecorator`. `AntePassed` is BaseApp's write-back after the
AnteHandler, `Complete` the one at the end, `Abort` an error or a recovered panic.
The account contract is arbitrary: whatever it is given it may accept, refuse or use
up its gas, so what is shown holds for every contract. The store carries marks
(`before`, `after`, `done`) of what hooks and messages wrote; they are branched and
rolled back with it.

Abstractions: fees, sizes and memos are one nondeterministic refusal; a signature is
its sequence, its kind and whether it verifies; a message is a mark, except
`MsgUpdateParams`, which changes the gas limits while transactions run. A delivered
transaction leaves the mempool at delivery rather than at the commit. CometBFT and
BaseApp are external, modelled from how the code relies on them.

### Registry

`stack` holds the calls in progress, each with the store to roll back to.
`RegisterAccount` pushes a frame (the handler up to the dispatch of the new
contract's messages), `AccountRegistered` pops it (the rest of the handler), and in
between any of the other actions may happen on behalf of the new contract.
`MessageFails(d)` is an error that a contract at depth `d`, or nobody, catches. The
admin change at the end is always authorised: simapp hands the module the wasm
keeper with the governance policy. `ExportGenesis`/`InitGenesis` are the module's
own; the other modules are assumed to restore their state (simapp's export is not
implemented). Left out: accounts that hand over their own admin rights, the wrap of
the 64-bit counter, funds, and events.

### AsymTotp

The count is the block time divided by the duration. `CheckTx` and `Recheck` run
`before_tx` at `lastTime` on the check state and save `PREV_COUNT` there;
`DeliverAccepted` runs it at `blockTime` on the deliver state. Division by zero and
the subtraction below zero panic, because the release profile has
`overflow-checks = true`: such an `init` is no step. Sequence numbers are left out
on purpose, so that what is shown rests on `PREV_COUNT` alone. Whether the messages
succeed makes no difference to the contract, whose state is written back after the
AnteHandler.

### Granter and GrantsQuery

A credential names a public key and carries a signature; a signature is the key that
really made it, and verifying compares the two. `BeginTx` is an accepted `before_tx`;
each message then runs on `work`; `EndTx` writes back, unless it is a simulation.
`log` records the messages that took effect. A message of type `MsgExecuteContract`
may end in a call of the granter, with the account or another contract as sender.
That no other message reaches the contract is an assumption: `RegisterAccount` makes the
account its own admin, so a `MsgMigrateContract` of the account could replace the granter's
code, and nothing here holds of the code that comes then. `RightsFromAccountKey` is about
accounts that grant no type of message which migrates the contract.
In `GrantsQuery` a key of `GRANTS` is its position in the map's order, and the client
continues after the last key it was given until a page is empty. (Its definitions, like
those of `Codec`, have names of their own, `ListingInit`, `CodecSpec`, ..., so that one module
can prove theorems about two specifications.)

### Ledger and its refinement

In `Ledger` a transaction is authenticated (which uses up its signers' sequences), then
executed with everything it contains or dropped; blocks are committed or lost. There are
no stores, modes or decorators. `TxFlowLedger` maps the committed and the deliver state to
`Ledger`'s two ledgers, and a delivered transaction to the open one from the end of its
AnteHandler on. The many steps of the messages and the PostHandler on a branched store
thus have to look like one step, and CheckTx, rechecks and simulations like none.
`Ledger` lets a transaction of an ordinary account call the `after_tx` of one abstract
account: the code does so (see `stale_signer` below).

### Updatable

A transaction is a sequence, the key it was signed with and its messages; a message may
be an `update_pubkey` called by the account or by another contract. `CheckTx`, `Recheck`,
`Simulate` and the three outcomes of a delivery run `Authenticated` (the sequence check
of `BeforeTxDecorator` and the contract's `before_tx`) on their own store, then the
messages, then `after_tx`, which accepts everything. Each store carries `history`, which
keys signed and which were installed; it is rolled back with the store. Neither `init`
nor `update_pubkey` looks at a key, so `BadKeys` are byte strings the curve library
returns an error for. A delivered transaction leaves the mempool at delivery.

### Eth

The instantiation string and the credential are sequences of characters and of bytes, cut
up as the code does: the first two characters are dropped unseen, odd or foreign hex is an
error, a signature of fewer than 65 bytes panics, bytes behind the 65th are ignored. An
address of 20 bytes has `AddrLen` here, and the 64 bytes of `r` and `s` are two parts.
Hashing is injective; recovery returns the signer for the hash and parity of the
signature and nobody's key otherwise. That is ideal in one more respect: from (r, n - s) with
the other parity the same key is recovered, and the model does not have this twin of a
signature. It could not be a second use: the sign bytes hold the sequence, which the first
use has moved on.

### Wire, Messages and Codec

Byte strings are sequences of 0..255. Every `.pb.go` file has a copy of the same
helpers (`sovTx`, `skipTx`, ...); one of each is modelled. Writing fills a buffer from its
end: `encodeVarint` reserves `sov` bytes whatever it then writes, and `Marshal` returns the
start of a buffer of `Size` bytes, so that a wrong size shows as a panic or wrong bytes.
Reading is a cursor (index, message, error); a `*_Unmarshal` is one turn of a generated
loop, and `ReadField` of `Codec` takes it. Words have `WordBits` and field numbers
`FieldBits` bits, with Go's wrap-around of index sums and truncation to `int32`. A loop is
`Repeat`: its turn as a function, applied as many times as the loop can have turns (a
state in which it has ended stays as it is; `MessagesProofs` shows that it has). A `Coin`
(the SDK's) is an opaque payload; nil and empty byte strings are not told apart, since no
code of the module does. A field of a later version is a list of items as the Protobuf
format has them, a group being the items from its start to its end.

### Service and ParamsRegister

Clients put encoded messages on the network (`updateParamsCmd` and `registerCmd` as the
CLI builds them, `RawUpdate` as somebody else might); the node unmarshals them and, if
nothing refuses them, executes them against parameters kept as bytes; `QueryParams`
answers from the last commit. Messages may be executed again or never, and a crash drops
the block. `ParamsRegister` is the same without bytes: what the authority asked for and
`Validate` accepts is written, becomes visible with its block, and is read unchanged.
Who writes bytes by hand also says what is meant by them (`RawUpdates`): the instance has a
message in two parts that must be merged, one without parameters, an unpacked list and one
with a duplicate. A reader that took them otherwise would write what nobody asked for, and
`ImplementsRegister` would be violated.
Signatures and sequences are `TxFlow`'s matter, contracts and accounts `Registry`'s.

## 3. Runs

| Run | Properties | What it shows |
|---|---|---|
| `deliver` | `SequenceAuthenticated`, `AbstractTxAtomic`, `LeftoverSigner`, `AfterTxOfOwnAccount`, `ImplementsLedger` | two abstract accounts, one external; two messages per transaction; wrong sequences, multi signatures, invalid and missing signatures, joint signers, hooks that fail or run out of gas, parameter updates, commits, restarts |
| `mempool` | `MempoolAuthenticated`, `ImplementsLedger`, `StaleTxEvicted` (liveness) | one abstract and one external account, all four modes; two transactions compete for one sequence |
| `registry` | `UniqueLabels`, `RegisteredOrNot`, `StillBaseAccount`, `UniqueAccountNumbers` | registrations nested three deep, one code uploaded twice, addresses funded before they exist |
| `asym_totp` | `OTPNeverReused`, `NeverLockedOut`, `MempoolOneOTP` | durations 0, 2 and 3, blocks 1 or 2 seconds apart: windows skipped, shared by blocks, and split by them |
| `granter` | `EffectsTraceToGrants`, `RightsFromAccountKey`, `GrantsMatchHistory` | grants without, with and past expiry by height and time; replaced, revoked, rolled back; grants made by a grantee |
| `grants_query` | `ListingComplete` | four keys, pages of one to three, limits 0, none and too large |
| `key_rotation` | `KeysFormAChain`, `MempoolSignedWithKey`, `LockedOut`, `OldKeyTxEvicted` (liveness) | rotations forward, back, to a bad key, twice in a transaction, through another contract, failing, lost in a crash |
| `eth` | `SignedByOwner`, `SignatureUsedOnce`, `OwnerAuthenticates` | every instantiation string of up to four characters, every `v`, signatures cut off, extended, mixed, of other wallets, parities, messages and message kinds |
| `codec` | `IndexStaysInside`, `EveryTurnTakesAByte`, `ReencodesFaithfully`, `UnknownFieldsIgnored`, `ConcatenationMerges` | every string of up to five of eleven bytes as `Params`; fields and encodings, joined and cut off, as the ten other messages |
| `service` | `StoredParamsReadable`, `RegistrationReported`, `ImplementsRegister` | valid and malformed parameters from the authority and from another, in Marshal's and in other encodings; commits, crashes, queries |

The run of a module also checks its `TypeOK` where there is one. Two runs
expect a violation, one for each finding:

- `stale_signer` (`AfterTxOnlyInOwnTx`). An AA transaction passes `before_tx`, then a
  message fails. The signer address stays in the store, and the next transaction of
  an ordinary account calls that account's `after_tx` in its PostHandler; if the
  contract returns an error there, the ordinary transaction is aborted, and so is
  every following one until an AA transaction overwrites the address.
  `LeftoverSigner` and `AfterTxOfOwnAccount` bound the effect: the leftover is always
  of an account whose latest transaction failed, and AA transactions never suffer.
- `hook_gas` (`ContractGasIsCharged`). The contract's gas is never charged.

**Bounds.** Each account has at most two sequences to use in `deliver`, which covers
a failed transaction, its successor and a replay, and a second account lets two
leftovers meet. `mempool` has one sequence for each account, so that liveness can be
checked; its invariant is proved for any number. `MaxAccountID = 5` leaves the IDs 1 to 4,
one for every address of the instance that can be registered. `MaxTime = 7` covers three
durations of 2. In `Granter`, `MaxLog = 4` messages let a grantee of `MsgExecuteContract`
grant, the new grantee act, and a revocation intervene; `MaxHeight = 2` is one block past
each expiry. `key_rotation` has three sequences: a rotation, one with the new key, and a
replay with the old one. In `eth` an address has one byte, and strings of up to four
characters (and one of six) are shorter than, as long as and longer than one. With
`WordBits = 16` a varint has up to three bytes, the last of which overflows the word as
the tenth does for 64 bits, a length can be negative or overflow the index within five
bytes, and with `FieldBits = 5` a field number is truncated within two. `service` has code
IDs and gas limits on both sides of 128, where a varint gets its second byte.
`AsymTotp` and `Granter` switch deadlock checking off because their clocks stop at these
bounds, `Codec` because reading ends.

**Fairness.** In `mempool` a running transaction ends (weak fairness of `RunStep`: the
handlers are sequential code); blocks are committed again and again, and every queued
recheck is served (strong fairness, since a running transaction disables both for a
while): CometBFT's loop does both. In `key_rotation`, where a transaction is one step,
weak fairness of each queued recheck is all that is assumed. Nothing is assumed of
clients, proposers, contracts or crashes; a crash empties the mempool.

**Observations.** Not disagreements with a stated intention, or too small for a run:

- A joint transaction with an abstract account reaches the panic in
  `NilPubKey.VerifySignature` that says it "should never be invoked"
  (`types/account.go:95`). `MempoolAuthenticated` shows that this panic is what keeps such
  transactions out.
- A test expects unsigned simulations to work (`ante_test.go:252`); they are refused
  before the contract is asked. The test case never runs, since the test function
  returns after its first panicking case.
- `update_pubkey` and the contracts' `init` store any bytes; an account may lock itself
  out for good (`LockedOut`).
- account-eth ignores bytes behind the 65th of a signature and takes `v` in two
  conventions, so a credential can be varied without its owner; the sequence keeps it
  from being used twice (`SignatureUsedOnce`).
- The last varint of a packed list may run past the end of the list into the next field
  (`params.pb.go:345`); what is accepted then is still re-encoded faithfully.
- `MsgUpdateParams.ValidateBasic` dereferences a nil `Params`; BaseApp recovers the panic.
- The `params` command returns no error when its query fails, and the gateway handlers
  of `query.pb.gw.go` are never registered.

## 4. Proofs

All theorems hold for any values of the constants that satisfy the `ASSUME`s of the
module; TLC evaluates them in every run. The assumptions are of the kind "the set of
transactions contains transactions", "signers are distinct" (the SDK removes
duplicates), "the genesis parameters are valid" (`InitGenesis` panics otherwise) and
"`Nil` is none of the values it stands next to". Every inductive invariant was checked
with TLC on the instance of its run before it was proved.

**TxFlow.** `TypeCorrect` is type correctness. The safety properties speak of the
stores the node keeps, and none is inductive: a property of the deliver state depends
on what `work`, the branch a transaction runs on, may be written back as. `IInv` adds
what is true of `work` in each phase: before the AnteHandler it is as good as a kept
store; after it, an AA transaction has its own address in `signer`, its sequence in
`before`, and the messages done so far are those below `msgIndex`; other transactions
have not touched the abstract accounts. From it follow
`SequenceAuthenticatedHolds`, `AbstractTxAtomicHolds`, `LeftoverSignerHolds`,
`AfterTxOfOwnAccountHolds` and `MempoolAuthenticatedHolds`.

`LedgerImplemented` is the refinement of `Ledger`. It needs one invariant more,
`BranchInv`: while a transaction is delivered, `work` is the deliver state with exactly the
messages run so far on top (and parameters of the authority, if they differ). With it
`StepRefines` takes the steps one by one: the AnteHandler of a delivery is `Authenticate`
(`AnteRefines`), the end of a delivery `Execute` (`CompleteRefines`), a failure `Drop` if the
transaction was open and nothing otherwise (`AbortRefines`); `Commit` and `Crash` are
`Commit` and `Restart`; messages and all steps of the other modes are not seen.

**Registry.** The properties are about settled states, but any of the nested calls may
fail and bring back the store it started from. `IInv` therefore says of *every* branch on
the stack, and of the current one, that it is good with exactly the registrations of
the frames below it pending: their contracts exist, labelled and numbered, with the
account still a `BaseAccount` and the creator as admin; all others are settled, and no
registration is pending twice. A label is below the counter of its branch. Between export
and import the labels are below the exported counter. From it follow `LabelsUnique`,
`AllOrNothing`, `BaseAccountKept` and `NumbersUnique`, for any depth of nesting.

**AsymTotp.** `IInv` ties `PREV_COUNT` of the deliver state to the OTP accepted last,
and says that a transaction which is checked and not waiting for its recheck has used
up the current count on the check state: hence there is at most one. The count is
monotonic in time (`DivMonotonic`). From it follow `TypeCorrect`,
`OTPNeverReusedHolds`, `NeverLockedOutHolds` and `MempoolOneOTPHolds`.

**Granter.** `IInv` says that the stored grants are what the log made of them, and the
branch's grants what the log and the messages run so far did (`Reflects`); that what
`before_tx` found still holds of the state the transaction started from, although its own
messages change the grants it was checked against; and that only calls by the account are
in the log. From it follow `EffectsGranted`, `RightsNotAmplified` and `GrantsAreHistory`.

**GrantsQuery.** `ListingIInv` adds that every kept key not beyond `startAfter` has been
listed; `AfterPage` shows that a page keeps it, and `ListingCompleteHolds` follows for
any number of grants, any `DEFAULT_LIMIT`, `MAX_LIMIT` and limits of the client.

**Updatable.** The key a transaction leaves is a recursion over its messages, so a few
facts are proved by induction. The library's induction theorems cannot be instantiated,
but well-founded relations have minimal elements (`WFMin`): `SetInduction` and
`GreatestNumber` state induction over *sets* of numbers, and `KeyAfterRuns` shows that the
recursion has a solution. `IInv` adds that CheckTx's state has the committed key, and that
a committed bad key freezes the deliver state. From it follow `KeysChained`, `MempoolFresh`
and the action property `LockedOutForGood`.

**Eth.** The work is in the operators: `DecodedNames` (a string is decoded to a wallet's
address just if it names it), `RecoverSigner`, `RecoveryIds`, `VerifyIs` and `BeforeTxIs`
(accepted just if signed by a wallet the string names). `IInv` adds that the history's
transactions carry the sequence numbers 0, 1, 2, ... in turn; with the injectivity of
sign bytes that makes a second use of a signature impossible. From it follow `OwnerSigned`,
`SignaturesOnce` and `OwnerLetIn`, for addresses of any length.

**Codec, the readers.** The constants are the width of words and the byte strings; assumed
is that a string and eight bytes more are not longer than an int can count (`Fits`), and of
powers that they double and that 128^k is 2^(7k) (the provers know little of powers). The
argument goes up from the bytes: a varint that is read ends inside the string
(`ReadVarintInside`); a length is believed only if the payload is inside, since an index sum
that wraps around comes out negative (`AddIntExact`, `PayloadInside`); `skip` fails or comes to
the end of a field a byte or more further on (`SkipEnds`); hence every branch of every
`Unmarshal` fails or moves the index on, inside the string (`TurnReads`). The loops of `skip`,
of packed lists and of a nested `Params.Unmarshal` are induction over their turns
(`RepeatInduction`, again from `WFMin`). `IInv` adds to `IndexStaysInside` that the cursor has
no other parts, that the bytes are one of the inputs, and that the cursor is on the way of the whole
loop. From it follow `IndexInside` and `UnmarshalTerminates`. Hidden in `Good` and `KnownError`
is what makes the leaves small: the provers do not take a record's index and its error, a
number and a string, in one obligation.

**Codec, the round trips.** `Parses(ty, d, m, n)` says that the loop goes from message m
through all of d to message n. Three groups of lemmas lead to it. *Position does not
matter:* a turn that succeeds on a string succeeds in the same way on a longer one that
holds it (`TurnHeld`), so that encodings one behind the other are parsed one after the
other (`ParsesConcat`). *Numbers come back:* `encodeVarint` fills exactly the `sov` bytes it
reserves with the digits to the base 128 (`SovIsLength`, `EncodeIsVarint`), and `ReadVarint` adds
them up again (`VarintReads`), for a word of any width. *Fields come back:* each kind of field
with its tag is parsed into the message it is meant for (`UintParses`, ..., `PackedParses` with
an induction over the list, `ParamsParses` with the nested message, `FundsParses`). `Writes`
puts them together with the size (`UintWrites`, ...), and one lemma per message type
(`ParamsWritten`, ...) follows the order in which its `MarshalToSizedBuffer` fills the buffer:
the result has the length `Size` says and, read into any message m, gives the merge of m and
the message written. From it follow `RoundTrip` (m empty), `ReencodingFaithful` and
`ConcatenationIsMerge`. For `LaterFieldsIgnored` an induction over the items shows that the loop
of `skip` is behind item k with `Depth(u, k)` groups open (`SkipLater`), which is 0 just at the
end. These hold for every accepted string and every message, not only for the samples.

**Service.** `LengthAssumption` says that the encodings made have ints for lengths,
`ServiceAssumption` that the parameters' numbers are uint64. `ServiceInv`: each store holds the
encoding of valid parameters; every `MsgRegisterAccount` on its way is one that a client
wrote; every registration is one a client wanted. With `RoundTrip` that gives
`StoredParamsAreReadable` (that `Validate`'s loop over neighbours makes a strictly ascending list
is `AscendsPairwise`, by induction) and `RegistrationsAreReported`. For the refinement,
`RegisterImplemented`, `AskedInv` adds that every update on its way means what a client asked
for (its one hypothesis, `RawAsRead`, is that who writes an encoding by hand knows what it
means; the run checks the refinement without it); `UpdateParams` is then `Write`,
`QueryParams` is `Read`, and `Crash` is `Restart`, since stored bytes are never `Nil` (`StoredNotNil`).

Only model-checked: the liveness properties `StaleTxEvicted` and `OldKeyTxEvicted`
(liveness under fairness is out of the proof system's reach), and the two violations. Every
other property of a run is a theorem.

## 5. Not modelled

- The wiring of simapp apart from its decorator chains, and `simd/main.go`: they construct
  the parts and keep no state of their own.
- Of the generated code: descriptors, getters, registration and `XXX_` wrappers, and the
  gateway of `query.pb.gw.go`, which `module.go` never registers.
- Type registration in `codec.go`, and the JSON layout of the sudo message beyond the
  omission of an empty credential.
- The contracts' queries other than the granter's `grants`: they read one item.
- Flags and printing of the CLI.
- Cryptography: a signature verifies or not, a key is recovered or not.

## 6. State of the project

The transaction flow, the registry, all account contracts, the encodings and the services
are modelled, with two abstract specifications and their refinements. All safety and action
properties and both refinements are proved; liveness is model-checked. What could be added
is the part of simapp and of the generated code listed above, none of which keeps state.
