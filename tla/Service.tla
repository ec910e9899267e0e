------------------------------ MODULE Service -------------------------------
(***************************************************************************)
(* The module's Msg and Query services from end to end: the commands of    *)
(* the CLI and other clients build messages, the node unmarshals them,     *)
(* executes them against parameters it keeps as bytes, and answers in      *)
(* bytes. It composes the codec (Messages) with the keeper's rules         *)
(* (Keeper). Transactions are atomic here; TxFlow has their inside.        *)
(***************************************************************************)
EXTENDS Messages

CONSTANTS
    Authority,      \* the address the keeper was constructed with, as bytes
    Senders,        \* addresses that send messages
    Bech32,         \* the byte strings that are valid addresses
    GenesisParams,  \* parameters a genesis state may hold
    ParamsArgs,     \* parameters given to update-params
    RawUpdates,     \* MsgUpdateParams written by hand: [bz, sender, params]
    CodeArgs,       \* code IDs given to register
    SaltArgs,       \* and salts
    MaxSaltSize,    \* the longest salt the wasm module takes: 64 bytes
    BuildAddress(_, _, _),  \* a new contract's address, of code ID, creator and salt
    InitData        \* what its instantiate returns

K == INSTANCE Keeper

\* The parameters of a message as the keeper sees them, and back.
Native(m) ==
    K!NewParams(m.AllowAllCodeIDs, m.AllowedCodeIDs, m.MaxGasBefore, m.MaxGasAfter)

Proto(p) ==
    [AllowAllCodeIDs |-> p.allowAllCodeIDs, AllowedCodeIDs |-> p.allowedCodeIDs,
     MaxGasBefore |-> p.maxGasBefore, MaxGasAfter |-> p.maxGasAfter]

VARIABLES
    genesis,       \* the parameters of the genesis state
    network,       \* encoded messages on their way to the node
    deliverStore,  \* the bytes under KeyParams, in the block being executed
    commitStore,   \* and after the last block; Nil before the first
    answers,       \* what clients got for Query/Params
    registered,    \* EventAccountRegistered and response of every registration
    asked,         \* history: <<sender, params>> of every update a client wanted
    registering    \* history: <<sender, codeID, salt>> of every account one wanted

vars == <<genesis, network, deliverStore, commitStore, answers, registered, asked,
          registering>>

-----------------------------------------------------------------------------
(* The encodings. Those that are functions are, so that each byte string is     *)
(* read once: on what can be sent and on what can be in the store.              *)

MsgUpdateParamsBytes(m) ==
    Marshal(MsgUpdateParams_Size(m), MsgUpdateParams_MarshalToSizedBuffer(m))

UpdateParamsBytes(sender, p) ==
    MsgUpdateParamsBytes([Sender |-> sender, Params |-> Proto(p)])

\* The instantiation message is an empty JSON object, no funds are sent along.
RegisterAccountMsg(sender, codeID, salt) ==
    [Sender |-> sender, CodeID |-> codeID, Msg |-> <<123, 125>>, Funds |-> <<>>,
     Salt |-> salt]

RegisterAccountBytes(m) ==
    Marshal(MsgRegisterAccount_Size(m), MsgRegisterAccount_MarshalToSizedBuffer(m))

\* MsgRegisterAccount.ValidateBasic, for such a message and no funds.
ValidateBasic(m) ==
    /\ m.Sender \in Bech32
    /\ m.CodeID # 0
    /\ Len(m.Salt) \in 1..MaxSaltSize

\* The MsgUpdateParams and MsgRegisterAccount the node reads.
UpdateRequest ==
    [bz \in {UpdateParamsBytes(s, p) : s \in Senders, p \in ParamsArgs}
                \cup {raw.bz : raw \in RawUpdates}
        |-> Unmarshal(Empty["MsgUpdateParams"], bz, MessagesOf("MsgUpdateParams"),
                      MsgUpdateParams_Unmarshal)]

RegisterRequest(bz) ==
    Unmarshal(Empty["MsgRegisterAccount"], bz, MessagesOf("MsgRegisterAccount"),
              MsgRegisterAccount_Unmarshal)

\* Keeper.SetParams: the bytes that go under KeyParams.
ParamsBytes(m) == Marshal(Params_Size(m), Params_MarshalToSizedBuffer(m))

SetParams(p) == ParamsBytes(Proto(p))

\* Keeper.GetParams
GetParams ==
    [bz \in {SetParams(p) : p \in GenesisParams} \cup
            {ParamsBytes(r.m.Params) : r \in
                {x \in {UpdateRequest[b] : b \in DOMAIN UpdateRequest} : x.m.Params # Nil}}
        |-> UnmarshalParams(EmptyParams, bz)]

ParamsOf(bz) == Native(GetParams[bz].m)

\* A Query/Params from end to end: the response to an empty request, as the client
\* reads it, for the parameters m the node has read.
QueryParamsResponseBytes(m) ==
    Marshal(QueryParamsResponse_Size(m), QueryParamsResponse_MarshalToSizedBuffer(m))

QueryParamsAnswer(m) ==
    Unmarshal(Empty["QueryParamsResponse"], QueryParamsResponseBytes([Params |-> m]),
              MessagesOf("QueryParamsResponse"), QueryParamsResponse_Unmarshal)

\* The response to a registration, and how the client reads it.
ResponseBytes(m) ==
    Marshal(MsgRegisterAccountResponse_Size(m),
            MsgRegisterAccountResponse_MarshalToSizedBuffer(m))

RegisterAccountResponse(m) ==
    ResponseBytes([Address |-> BuildAddress(m.CodeID, m.Sender, m.Salt),
                   Data |-> InitData])

ResponseRead(bz) ==
    Unmarshal(Empty["MsgRegisterAccountResponse"], bz,
              MessagesOf("MsgRegisterAccountResponse"),
              MsgRegisterAccountResponse_Unmarshal)

-----------------------------------------------------------------------------
\* The numbers of the parameters are uint64, addresses, salts and data are bytes.
ASSUME ServiceAssumption ==
    /\ GenesisParams \cup ParamsArgs \subseteq
           [allowAllCodeIDs : BOOLEAN, allowedCodeIDs : Seq(Word),
            maxGasBefore : Word, maxGasAfter : Word]
    /\ Senders \cup SaltArgs \cup {InitData} \cup {raw.bz : raw \in RawUpdates}
           \subseteq Seq(Byte)
    /\ \A s \in Senders, c \in CodeArgs, salt \in SaltArgs :
           BuildAddress(c, s, salt) \in Seq(Byte)
    /\ Nil \notin Seq(Byte) \cup K!Params

\* The lengths of the byte slices the service makes are ints.
ASSUME LengthAssumption ==
    /\ \A bz \in DOMAIN UpdateRequest \cup DOMAIN GetParams : Fits(bz)
    /\ \A bz \in DOMAIN GetParams : Fits(QueryParamsResponseBytes([Params |-> GetParams[bz].m]))
    /\ \A s \in Senders, c \in CodeArgs \cap Word, salt \in SaltArgs :
           LET m == RegisterAccountMsg(s, c, salt)
           IN  Fits(RegisterAccountBytes(m)) /\ Fits(RegisterAccountResponse(m))

\* What the writer of a message by hand wants (raw.sender, raw.params) is what the
\* bytes say. A hypothesis of the refinement theorem; a run has it checked, since
\* an update that is read in another way is one nobody asked for.
RawAsRead ==
    \A raw \in RawUpdates :
        LET req == UpdateRequest[raw.bz]
        IN  req.err = "" /\ req.m.Params # Nil =>
                req.m.Sender = raw.sender /\ Native(req.m.Params) = raw.params

-----------------------------------------------------------------------------
\* Genesis: keeper.InitGenesis has put valid parameters into the store.
Init ==
    /\ genesis \in {p \in GenesisParams : K!Validate(p)}
    /\ deliverStore = SetParams(genesis)
    /\ commitStore = Nil
    /\ network = {}
    /\ answers = {}
    /\ registered = {}
    /\ asked = {}
    /\ registering = {}

-----------------------------------------------------------------------------
(* Clients *)

Send(type, bz) == network' = network \cup {<<type, bz>>}

\* simd tx abstract-account update-params: what is not valid is not sent.
updateParamsCmd(sender, p) ==
    /\ sender \in Bech32 /\ K!Validate(p)
    /\ asked' = asked \cup {<<sender, p>>}
    /\ Send("MsgUpdateParams", UpdateParamsBytes(sender, p))
    /\ UNCHANGED <<genesis, deliverStore, commitStore, answers, registered, registering>>

\* Some other client, with an encoding of its own and without a check.
RawUpdate(raw) ==
    /\ asked' = asked \cup {<<raw.sender, raw.params>>}
    /\ Send("MsgUpdateParams", raw.bz)
    /\ UNCHANGED <<genesis, deliverStore, commitStore, answers, registered, registering>>

\* simd tx abstract-account register: strconv.ParseUint refuses what does not fit
\* in a word.
registerCmd(sender, codeID, salt) ==
    /\ codeID \in Word
    /\ ValidateBasic(RegisterAccountMsg(sender, codeID, salt))
    /\ registering' = registering \cup {<<sender, codeID, salt>>}
    /\ Send("MsgRegisterAccount", RegisterAccountBytes(RegisterAccountMsg(sender, codeID, salt)))
    /\ UNCHANGED <<genesis, deliverStore, commitStore, answers, registered, asked>>

-----------------------------------------------------------------------------
(* The node. A message that is refused, at whatever point, changes nothing. *)

\* Msg/UpdateParams. Without Params ValidateBasic dereferences a nil pointer; the
\* panic is recovered and the message refused.
UpdateParams(bz) ==
    LET req == UpdateRequest[bz]
    IN  /\ <<"MsgUpdateParams", bz>> \in network
        /\ req.err = ""
        /\ req.m.Sender \in Bech32
        /\ req.m.Params # Nil
        /\ K!CanUpdateParams(req.m.Sender, Native(req.m.Params))
        /\ deliverStore' = ParamsBytes(req.m.Params)
        /\ UNCHANGED <<genesis, network, commitStore, answers, registered, asked,
                       registering>>

\* Msg/RegisterAccount, as far as the parameters and the encodings go (Registry has
\* the rest); the wasm keeper (external) may refuse.
RegisterAccount(bz) ==
    LET req == RegisterRequest(bz)
    IN  /\ <<"MsgRegisterAccount", bz>> \in network
        /\ req.err = "" /\ ValidateBasic(req.m)
        /\ GetParams[deliverStore].err = ""
        /\ K!IsAllowed(ParamsOf(deliverStore), req.m.CodeID)
        /\ registered' = registered \cup
               {[event |-> [Creator |-> req.m.Sender, CodeID |-> req.m.CodeID,
                            ContractAddr |-> BuildAddress(req.m.CodeID, req.m.Sender,
                                                          req.m.Salt)],
                 response |-> RegisterAccountResponse(req.m)]}
        /\ UNCHANGED <<genesis, network, deliverStore, commitStore, answers, asked,
                       registering>>

Commit ==
    /\ commitStore' = deliverStore
    /\ UNCHANGED <<genesis, network, deliverStore, answers, registered, asked, registering>>

\* The node stops in the middle of a block: it goes on from the last commit, or from
\* genesis if there is none.
Crash ==
    /\ deliverStore' = IF commitStore = Nil THEN SetParams(genesis) ELSE commitStore
    /\ UNCHANGED <<genesis, network, commitStore, answers, registered, asked, registering>>

\* Mutant: the query is answered from the block being executed.
QueryStoreLatest == deliverStore

QueryStore == commitStore

\* Query/Params for the params command or another client: parameters of the last
\* block. If anything fails on the way the params command prints nothing and
\* reports no error.
QueryParams ==
    /\ commitStore # Nil
    /\ GetParams[QueryStore].err = ""
    /\ LET answer == QueryParamsAnswer(GetParams[QueryStore].m)
       IN  /\ answer.err = ""
           /\ answers' = answers \cup {Native(answer.m.Params)}
    /\ UNCHANGED <<genesis, network, deliverStore, commitStore, registered, asked,
                   registering>>

Next ==
    \/ \E s \in Senders, p \in ParamsArgs : updateParamsCmd(s, p)
    \/ \E raw \in RawUpdates : RawUpdate(raw)
    \/ \E s \in Senders, c \in CodeArgs, salt \in SaltArgs : registerCmd(s, c, salt)
    \/ \E bz \in DOMAIN UpdateRequest : UpdateParams(bz)
    \/ \E sent \in network : RegisterAccount(sent[2])
    \/ Commit
    \/ Crash
    \/ QueryParams

Spec == Init /\ [][Next]_vars

-----------------------------------------------------------------------------
(* Properties *)

\* "allowed list must contain non-zero, unique, and sorted code IDs", empty if all
\* codes are allowed: what Validate's loop is there to guarantee.
WellFormedParams(p) ==
    /\ 0 \notin {p.maxGasBefore, p.maxGasAfter}
    /\ p.allowAllCodeIDs => p.allowedCodeIDs = <<>>
    /\ \A i, j \in DOMAIN p.allowedCodeIDs :
           /\ p.allowedCodeIDs[i] # 0
           /\ i < j => p.allowedCodeIDs[i] < p.allowedCodeIDs[j]

\* GetParams never fails on a running chain, and always returns well-formed
\* parameters, from whatever genesis state, client and encoding they came: what
\* SetParams wrote can be read back in every later block.
StoredParamsReadable ==
    \A bz \in {deliverStore, commitStore} \ {Nil} :
        GetParams[bz].err = "" /\ WellFormedParams(ParamsOf(bz))

\* A registration that took place is one that somebody asked for, and both the event
\* and the response the client reads tell of it as it was asked for: the creator,
\* the code, and the address that this salt determines. Those of a block that a
\* crash undid are counted too: the block is executed again, or nobody hears of it.
RegistrationReported ==
    \A reg \in registered :
        LET r == ResponseRead(reg.response)
        IN  /\ r.err = "" /\ r.m.Data = InitData
            /\ \E salt \in SaltArgs :
                  /\ <<reg.event.Creator, reg.event.CodeID, salt>> \in registering
                  /\ reg.event.ContractAddr =
                         BuildAddress(reg.event.CodeID, reg.event.Creator, salt)
                  /\ r.m.Address = reg.event.ContractAddr

\* The bytes implement the register: the service is ParamsRegister with the two
\* stores unmarshalled. The authority's values arrive unchanged in the store, and
\* readers get the last block's value unchanged.
Register == INSTANCE ParamsRegister WITH
    Validate <- K!Validate,
    working <- ParamsOf(deliverStore),
    committed <- IF commitStore = Nil THEN Nil ELSE ParamsOf(commitStore)

ImplementsRegister == Register!Spec
=============================================================================
