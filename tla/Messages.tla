------------------------------ MODULE Messages ------------------------------
(***************************************************************************)
(* The messages of the module (types/*.pb.go): of each its Size, what its  *)
(* MarshalToSizedBuffer writes, and one turn of the loop of its Unmarshal, *)
(* with the cursor s and the tag t that was read there.                    *)
(* A message is a record of its fields; a nil pointer is Nil.              *)
(***************************************************************************)
EXTENDS Wire

CONSTANTS
    Nil,    \* the nil pointer
    Coins   \* sdk.Coin (external), the encodings of the coins of the instance

\* A coin is encoded as bytes; the numbers of the fields fit in an int32, and their
\* tags in a word.
ASSUME MessagesAssumption ==
    /\ Coins \subseteq Seq(Byte)
    /\ 5 < 2^(FieldBits - 1)
    /\ 8 * 5 + 7 \in Word

-----------------------------------------------------------------------------
(* account.proto *)

AbstractAccount_Size(m) ==
    SizeBytes(m.Address) + SizeUint(m.AccountNumber) + SizeUint(m.Sequence)

AbstractAccount_MarshalToSizedBuffer(m) ==
    PutBytes(10, m.Address, PutUint(16, m.AccountNumber, PutUint(24, m.Sequence, <<>>)))

AbstractAccount_Unmarshal(s, d, t) ==
    CASE t.fieldNum = 0 -> t.behind
      [] t.fieldNum = 1 -> BytesField(t.behind, d, t.wireType, "Address")
      [] t.fieldNum = 2 -> UintField(t.behind, d, t.wireType, "AccountNumber")
      [] t.fieldNum = 3 -> UintField(t.behind, d, t.wireType, "Sequence")
      [] OTHER          -> SkipUnknown(t.behind, d, s.i)

NilPubKey_Size(m) == SizeBytes(m.AddressBytes)

NilPubKey_MarshalToSizedBuffer(m) == PutBytes(10, m.AddressBytes, <<>>)

NilPubKey_Unmarshal(s, d, t) ==
    CASE t.fieldNum = 0 -> t.behind
      [] t.fieldNum = 1 -> BytesField(t.behind, d, t.wireType, "AddressBytes")
      [] OTHER          -> SkipUnknown(t.behind, d, s.i)

-----------------------------------------------------------------------------
(* events.proto *)

EventAccountRegistered_Size(m) ==
    SizeBytes(m.Creator) + SizeUint(m.CodeID) + SizeBytes(m.ContractAddr)

EventAccountRegistered_MarshalToSizedBuffer(m) ==
    PutBytes(10, m.Creator, PutUint(16, m.CodeID, PutBytes(26, m.ContractAddr, <<>>)))

EventAccountRegistered_Unmarshal(s, d, t) ==
    CASE t.fieldNum = 0 -> t.behind
      [] t.fieldNum = 1 -> BytesField(t.behind, d, t.wireType, "Creator")
      [] t.fieldNum = 2 -> UintField(t.behind, d, t.wireType, "CodeID")
      [] t.fieldNum = 3 -> BytesField(t.behind, d, t.wireType, "ContractAddr")
      [] OTHER          -> SkipUnknown(t.behind, d, s.i)

-----------------------------------------------------------------------------
(* params.proto *)

Bytes == Seq(Byte)

ParamsMessages ==
    [AllowAllCodeIDs : BOOLEAN, AllowedCodeIDs : Seq(Word),
     MaxGasBefore : Word, MaxGasAfter : Word]

\* The zero value.
EmptyParams ==
    [AllowAllCodeIDs |-> FALSE, AllowedCodeIDs |-> <<>>,
     MaxGasBefore |-> 0, MaxGasAfter |-> 0]

Params_Size(m) ==
    SizeBool(m.AllowAllCodeIDs) + SizePacked(m.AllowedCodeIDs)
        + SizeUint(m.MaxGasBefore) + SizeUint(m.MaxGasAfter)

Params_MarshalToSizedBuffer(m) ==
    PutBool(8, m.AllowAllCodeIDs,
    PutPacked(18, m.AllowedCodeIDs,
    PutUint(24, m.MaxGasBefore,
    PutUint(32, m.MaxGasAfter, <<>>))))

Params_Unmarshal(s, d, t) ==
    CASE t.fieldNum = 0 -> t.behind
      [] t.fieldNum = 1 -> BoolField(t.behind, d, t.wireType, "AllowAllCodeIDs")
      [] t.fieldNum = 2 -> PackedField(t.behind, d, t.wireType, "AllowedCodeIDs",
                                       ParamsMessages)
      [] t.fieldNum = 3 -> UintField(t.behind, d, t.wireType, "MaxGasBefore")
      [] t.fieldNum = 4 -> UintField(t.behind, d, t.wireType, "MaxGasAfter")
      [] OTHER          -> SkipUnknown(t.behind, d, s.i)

\* A field of type *Params in another message.
SizeParams(p) == IF p = Nil THEN 0 ELSE SizePayload(Params_Size(p))

PutParams(tag, p, tail) ==
    IF p = Nil THEN tail ELSE PutPayload(tag, Params_MarshalToSizedBuffer(p), tail)

\* The whole loop of Params.Unmarshal, from message m on.
UnmarshalParams(m, d) == Unmarshal(m, d, ParamsMessages, Params_Unmarshal)

\* The payload p unmarshalled gave sub.
SetParamsField(c, p, sub) ==
    IF sub.err # "" THEN Fail(c, sub.err) ELSE [c EXCEPT !.i = p.to, !.m.Params = sub.m]

\* The payload p is unmarshalled into params, or into an empty message if that is a
\* nil pointer.
ParamsInto(c, d, p, params) ==
    IF p.err # "" THEN Fail(c, p.err)
    ELSE SetParamsField(c, p,
             UnmarshalParams(IF params = Nil THEN EmptyParams ELSE params,
                             Slice(d, p.from, p.to)))

\* Mutant: the parameters read before are thrown away.
ParamsFieldReplaces(c, d, wireType) ==
    ParamsInto(c, d, ReadPayload(d, c.i, wireType), Nil)

ParamsField(c, d, wireType) ==
    ParamsInto(c, d, ReadPayload(d, c.i, wireType), c.m.Params)

-----------------------------------------------------------------------------
(* genesis.proto *)

GenesisState_Size(m) == SizeParams(m.Params) + SizeUint(m.NextAccountId)

GenesisState_MarshalToSizedBuffer(m) ==
    PutParams(10, m.Params, PutUint(16, m.NextAccountId, <<>>))

GenesisState_Unmarshal(s, d, t) ==
    CASE t.fieldNum = 0 -> t.behind
      [] t.fieldNum = 1 -> ParamsField(t.behind, d, t.wireType)
      [] t.fieldNum = 2 -> UintField(t.behind, d, t.wireType, "NextAccountId")
      [] OTHER          -> SkipUnknown(t.behind, d, s.i)

-----------------------------------------------------------------------------
(* query.proto *)

QueryParamsRequest_Size(m) == 0

QueryParamsRequest_MarshalToSizedBuffer(m) == <<>>

QueryParamsRequest_Unmarshal(s, d, t) ==
    IF t.fieldNum = 0 THEN t.behind ELSE SkipUnknown(t.behind, d, s.i)

QueryParamsResponse_Size(m) == SizeParams(m.Params)

QueryParamsResponse_MarshalToSizedBuffer(m) == PutParams(10, m.Params, <<>>)

QueryParamsResponse_Unmarshal(s, d, t) ==
    CASE t.fieldNum = 0 -> t.behind
      [] t.fieldNum = 1 -> ParamsField(t.behind, d, t.wireType)
      [] OTHER          -> SkipUnknown(t.behind, d, s.i)

-----------------------------------------------------------------------------
(* tx.proto *)

MsgUpdateParams_Size(m) == SizeBytes(m.Sender) + SizeParams(m.Params)

MsgUpdateParams_MarshalToSizedBuffer(m) ==
    PutBytes(10, m.Sender, PutParams(18, m.Params, <<>>))

MsgUpdateParams_Unmarshal(s, d, t) ==
    CASE t.fieldNum = 0 -> t.behind
      [] t.fieldNum = 1 -> BytesField(t.behind, d, t.wireType, "Sender")
      [] t.fieldNum = 2 -> ParamsField(t.behind, d, t.wireType)
      [] OTHER          -> SkipUnknown(t.behind, d, s.i)

MsgUpdateParamsResponse_Size(m) == 0

MsgUpdateParamsResponse_MarshalToSizedBuffer(m) == <<>>

MsgUpdateParamsResponse_Unmarshal(s, d, t) ==
    IF t.fieldNum = 0 THEN t.behind ELSE SkipUnknown(t.behind, d, s.i)

\* The repeated field Funds. Coin.Unmarshal (external) takes the encodings of
\* coins and nothing else.
SizeFunds(funds) ==
    SumTo([k \in DOMAIN funds |-> SizePayload(Len(funds[k]))], Len(funds))

PutFunds(tag, funds, tail) ==
    FlattenSeq([k \in DOMAIN funds |-> PutPayload(tag, funds[k], <<>>)]) \o tail

AddCoin(c, d, p) ==
    IF p.err # "" THEN Fail(c, p.err)
    ELSE IF Slice(d, p.from, p.to) \notin Coins THEN Fail(c, "coin")
    ELSE [c EXCEPT !.i = p.to, !.m.Funds = Append(@, Slice(d, p.from, p.to))]

FundsField(c, d, wireType) == AddCoin(c, d, ReadPayload(d, c.i, wireType))

MsgRegisterAccount_Size(m) ==
    SizeBytes(m.Sender) + SizeUint(m.CodeID) + SizeBytes(m.Msg)
        + SizeFunds(m.Funds) + SizeBytes(m.Salt)

MsgRegisterAccount_MarshalToSizedBuffer(m) ==
    PutBytes(10, m.Sender,
    PutUint(16, m.CodeID,
    PutBytes(26, m.Msg,
    PutFunds(34, m.Funds,
    PutBytes(42, m.Salt, <<>>)))))

MsgRegisterAccount_Unmarshal(s, d, t) ==
    CASE t.fieldNum = 0 -> t.behind
      [] t.fieldNum = 1 -> BytesField(t.behind, d, t.wireType, "Sender")
      [] t.fieldNum = 2 -> UintField(t.behind, d, t.wireType, "CodeID")
      [] t.fieldNum = 3 -> BytesField(t.behind, d, t.wireType, "Msg")
      [] t.fieldNum = 4 -> FundsField(t.behind, d, t.wireType)
      [] t.fieldNum = 5 -> BytesField(t.behind, d, t.wireType, "Salt")
      [] OTHER          -> SkipUnknown(t.behind, d, s.i)

MsgRegisterAccountResponse_Size(m) == SizeBytes(m.Address) + SizeBytes(m.Data)

\* Mutant: the numbers of the two fields are swapped.
ResponseFieldsSwapped(m) == PutBytes(10, m.Data, PutBytes(18, m.Address, <<>>))

MsgRegisterAccountResponse_MarshalToSizedBuffer(m) ==
    PutBytes(10, m.Address, PutBytes(18, m.Data, <<>>))

MsgRegisterAccountResponse_Unmarshal(s, d, t) ==
    CASE t.fieldNum = 0 -> t.behind
      [] t.fieldNum = 1 -> BytesField(t.behind, d, t.wireType, "Address")
      [] t.fieldNum = 2 -> BytesField(t.behind, d, t.wireType, "Data")
      [] OTHER          -> SkipUnknown(t.behind, d, s.i)
-----------------------------------------------------------------------------
(* The methods of the message types *)

\* A pointer to a Params is not nil.
ASSUME NilAssumption == Nil \notin ParamsMessages

\* The zero value of each type.
Empty ==
    [AbstractAccount |-> [Address |-> <<>>, AccountNumber |-> 0, Sequence |-> 0],
     NilPubKey |-> [AddressBytes |-> <<>>],
     EventAccountRegistered |-> [Creator |-> <<>>, CodeID |-> 0, ContractAddr |-> <<>>],
     Params |-> EmptyParams,
     GenesisState |-> [Params |-> Nil, NextAccountId |-> 0],
     QueryParamsRequest |-> [none |-> Nil],
     QueryParamsResponse |-> [Params |-> Nil],
     MsgUpdateParams |-> [Sender |-> <<>>, Params |-> Nil],
     MsgUpdateParamsResponse |-> [none |-> Nil],
     MsgRegisterAccount |-> [Sender |-> <<>>, CodeID |-> 0, Msg |-> <<>>,
                             Funds |-> <<>>, Salt |-> <<>>],
     MsgRegisterAccountResponse |-> [Address |-> <<>>, Data |-> <<>>]]

MessageTypes == DOMAIN Empty

\* The messages of each type.
MessagesOf(t) ==
    CASE t = "AbstractAccount" ->
             [Address : Bytes, AccountNumber : Word, Sequence : Word]
      [] t = "NilPubKey" -> [AddressBytes : Bytes]
      [] t = "EventAccountRegistered" ->
             [Creator : Bytes, CodeID : Word, ContractAddr : Bytes]
      [] t = "Params" -> ParamsMessages
      [] t = "GenesisState" ->
             [Params : ParamsMessages \cup {Nil}, NextAccountId : Word]
      [] t = "QueryParamsResponse" -> [Params : ParamsMessages \cup {Nil}]
      [] t = "MsgUpdateParams" -> [Sender : Bytes, Params : ParamsMessages \cup {Nil}]
      [] t = "MsgRegisterAccount" ->
             [Sender : Bytes, CodeID : Word, Msg : Bytes, Funds : Seq(Coins),
              Salt : Bytes]
      [] t = "MsgRegisterAccountResponse" -> [Address : Bytes, Data : Bytes]
      [] OTHER -> {[none |-> Nil]}

SizeOf(t, m) ==
    CASE t = "AbstractAccount"            -> AbstractAccount_Size(m)
      [] t = "NilPubKey"                  -> NilPubKey_Size(m)
      [] t = "EventAccountRegistered"     -> EventAccountRegistered_Size(m)
      [] t = "Params"                     -> Params_Size(m)
      [] t = "GenesisState"               -> GenesisState_Size(m)
      [] t = "QueryParamsRequest"         -> QueryParamsRequest_Size(m)
      [] t = "QueryParamsResponse"        -> QueryParamsResponse_Size(m)
      [] t = "MsgUpdateParams"            -> MsgUpdateParams_Size(m)
      [] t = "MsgUpdateParamsResponse"    -> MsgUpdateParamsResponse_Size(m)
      [] t = "MsgRegisterAccount"         -> MsgRegisterAccount_Size(m)
      [] t = "MsgRegisterAccountResponse" -> MsgRegisterAccountResponse_Size(m)

BodyOf(t, m) ==
    CASE t = "AbstractAccount"        -> AbstractAccount_MarshalToSizedBuffer(m)
      [] t = "NilPubKey"              -> NilPubKey_MarshalToSizedBuffer(m)
      [] t = "EventAccountRegistered" -> EventAccountRegistered_MarshalToSizedBuffer(m)
      [] t = "Params"                 -> Params_MarshalToSizedBuffer(m)
      [] t = "GenesisState"           -> GenesisState_MarshalToSizedBuffer(m)
      [] t = "QueryParamsRequest"     -> QueryParamsRequest_MarshalToSizedBuffer(m)
      [] t = "QueryParamsResponse"    -> QueryParamsResponse_MarshalToSizedBuffer(m)
      [] t = "MsgUpdateParams"        -> MsgUpdateParams_MarshalToSizedBuffer(m)
      [] t = "MsgUpdateParamsResponse" ->
             MsgUpdateParamsResponse_MarshalToSizedBuffer(m)
      [] t = "MsgRegisterAccount"     -> MsgRegisterAccount_MarshalToSizedBuffer(m)
      [] t = "MsgRegisterAccountResponse" ->
             MsgRegisterAccountResponse_MarshalToSizedBuffer(m)

\* One turn of the Unmarshal of type, t being the tag at the cursor.
Turn(type, s, d, t) ==
    CASE type = "AbstractAccount"            -> AbstractAccount_Unmarshal(s, d, t)
      [] type = "NilPubKey"                  -> NilPubKey_Unmarshal(s, d, t)
      [] type = "EventAccountRegistered"     -> EventAccountRegistered_Unmarshal(s, d, t)
      [] type = "Params"                     -> Params_Unmarshal(s, d, t)
      [] type = "GenesisState"               -> GenesisState_Unmarshal(s, d, t)
      [] type = "QueryParamsRequest"         -> QueryParamsRequest_Unmarshal(s, d, t)
      [] type = "QueryParamsResponse"        -> QueryParamsResponse_Unmarshal(s, d, t)
      [] type = "MsgUpdateParams"            -> MsgUpdateParams_Unmarshal(s, d, t)
      [] type = "MsgUpdateParamsResponse"    -> MsgUpdateParamsResponse_Unmarshal(s, d, t)
      [] type = "MsgRegisterAccount"         -> MsgRegisterAccount_Unmarshal(s, d, t)
      [] type = "MsgRegisterAccountResponse" -> MsgRegisterAccountResponse_Unmarshal(s, d, t)

MarshalMsg(t, m) == Marshal(SizeOf(t, m), BodyOf(t, m))

UnmarshalMsg(type, d) ==
    Unmarshal(Empty[type], d, MessagesOf(type), LAMBDA s, e, t : Turn(type, s, e, t))
=============================================================================
