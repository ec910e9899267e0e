------------------------------ MODULE MCCodec -------------------------------
(***************************************************************************)
(* Instances of Codec for TLC, with words of 16 bits: a varint has at most *)
(* three bytes, the last of which holds two bits of the word.              *)
(***************************************************************************)
EXTENDS Codec

UpTo(S, n) == UNION {[1..k -> S] : k \in 0..n}

\* Fields of a later version: a varint, a fixed64, bytes, a group with a group and
\* a fixed32 in it.
Item(number, wireType, body) ==
    [number |-> number, wireType |-> wireType, body |-> body]

LaterFields ==
    {<<Item(15, 0, <<128, 1>>)>>,
     <<Item(15, 1, <<1, 2, 3, 4, 5, 6, 7, 8>>)>>,
     <<Item(15, 2, <<18, 9>>)>>,
     <<Item(15, 3, <<>>), Item(14, 3, <<>>), Item(15, 0, <<5>>), Item(14, 4, <<>>),
       Item(15, 5, <<1, 1, 1, 1>>), Item(15, 4, <<>>)>>}

SomeParams ==
    {EmptyParams,
     [EmptyParams EXCEPT !.AllowAllCodeIDs = TRUE, !.MaxGasBefore = 1],
     [EmptyParams EXCEPT !.AllowedCodeIDs = <<127, 128>>,
                         !.MaxGasBefore = 128, !.MaxGasAfter = 65535]}

SomeBytes == {<<>>, <<7>>}
SomeWords == {0, 300}

MCSamples ==
    [AbstractAccount |->
        [Address : SomeBytes, AccountNumber : SomeWords, Sequence : {0, 65535}],
     NilPubKey |-> [AddressBytes : SomeBytes],
     EventAccountRegistered |->
        [Creator : SomeBytes, CodeID : SomeWords, ContractAddr : SomeBytes],
     Params |-> SomeParams,
     GenesisState |-> [Params : SomeParams \cup {Nil}, NextAccountId : SomeWords],
     QueryParamsRequest |-> {[none |-> Nil]},
     QueryParamsResponse |-> [Params : SomeParams \cup {Nil}],
     MsgUpdateParams |-> [Sender : SomeBytes, Params : SomeParams \cup {Nil}],
     MsgUpdateParamsResponse |-> {[none |-> Nil]},
     MsgRegisterAccount |->
        [Sender : SomeBytes, CodeID : SomeWords, Msg : SomeBytes,
         Funds : {<<>>, <<<<9>>, <<>>>>}, Salt : SomeBytes],
     MsgRegisterAccountResponse |-> [Address : SomeBytes, Data : SomeBytes]]

MCCoins == {<<>>, <<9>>}

\* Every byte string of up to five bytes: tags of the fields of Params in the right
\* and in the wrong wire type, of an unknown field, of the end of a group; a tag
\* whose field number is 3 only after truncation; lengths that are too long, that
\* are negative, that overflow the index; varints of one byte too many.
ParamsBytes == {0, 1, 2, 8, 16, 18, 24, 44, 128, 152, 255}
ParamsInputs == UpTo(ParamsBytes, 5)

\* For the other types, up to two encodings or single fields one after the other,
\* cut off anywhere.
Fields ==
    {<<8, 1>>, <<10, 2, 7, 7>>, <<10, 0>>, <<10, 2, 24, 5>>, <<16, 255, 255, 3>>,
     <<16, 0>>, <<18, 3, 18, 1, 5>>, <<18, 2, 8, 1>>, <<24, 128, 128, 0>>, <<26, 1, 7>>, <<34, 1, 9>>,
     <<34, 1, 8>>, <<34, 0>>, <<42, 1, 7>>, <<42, 255, 255, 1>>, <<51, 48, 1, 52>>,
     <<51, 51, 52>>, <<49, 0, 0>>, <<47>>, <<152, 2, 1>>}

MessageInputs(t) ==
    UNION {Prefixes(x \o y) : x \in Fields, y \in Fields}
  \cup {MarshalMsg(t, x) \o MarshalMsg(t, y) : x \in MCSamples[t], y \in MCSamples[t]}

MCInputs ==
    [t \in MessageTypes |-> IF t = "Params" THEN ParamsInputs ELSE MessageInputs(t)]
=============================================================================
