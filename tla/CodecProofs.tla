---------------------------- MODULE CodecProofs -----------------------------
(***************************************************************************)
(* Proofs about Codec and Service: for words of any width and any inputs   *)
(* whose lengths are ints, the readers end, what they accept they write    *)
(* and read back unchanged, concatenation merges and unknown fields are    *)
(* passed over. On that rest the services: what is stored, sent and        *)
(* answered in bytes is what was meant, and the whole implements           *)
(* ParamsRegister.                                                         *)
(***************************************************************************)
EXTENDS Codec, Service, MessagesProofs

-----------------------------------------------------------------------------
(* Messages, written and merged, type by type *)

\* The merge of two messages of type AbstractAccount.
LEMMA AbstractAccountMerges ==
    ASSUME NEW m \in MessagesOf("AbstractAccount"), NEW n \in MessagesOf("AbstractAccount")
    PROVE  Merge("AbstractAccount", m, n) =
               [Address |-> Newer(n.Address, <<>>, m.Address),
                AccountNumber |-> Newer(n.AccountNumber, 0, m.AccountNumber),
                Sequence |-> Newer(n.Sequence, 0, m.Sequence)]
<1> DEFINE D == {"Address", "AccountNumber", "Sequence"}
           z == Empty["AbstractAccount"]
           r == [Address |-> Newer(n.Address, <<>>, m.Address),
                 AccountNumber |-> Newer(n.AccountNumber, 0, m.AccountNumber),
                 Sequence |-> Newer(n.Sequence, 0, m.Sequence)]
           q == [f \in D |-> IF f \in {"AllowedCodeIDs", "Funds"} THEN m[f] \o n[f]
                              ELSE Newer(n[f], z[f], m[f])]
<1>1. DOMAIN m = D
  <2> DEFINE s == [Address |-> m.Address, AccountNumber |-> m.AccountNumber,
                   Sequence |-> m.Sequence]
  <2>1. m = s
    BY DEF MessagesOf, Bytes, ParamsMessages
  <2>2. DOMAIN s = D
    OBVIOUS
  <2> HIDE DEF s, D
  <2> QED
    BY <2>1, <2>2, Zenon
<1>2. z["Address"] = <<>> /\ z["AccountNumber"] = 0 /\ z["Sequence"] = 0
  BY DEF Empty, EmptyParams
<1> HIDE DEF z
<1>3. MergeFields(m, n, z) = q
  BY <1>1, Zenon DEF MergeFields, Newer
<1>4. q = r
  BY <1>2
<1>5. "Params" \notin D
  OBVIOUS
<1> HIDE DEF D, q
<1>6. Merge("AbstractAccount", m, n) = r
  BY <1>1, <1>3, <1>4, <1>5, Zenon DEF Merge, z
<1> QED
  BY <1>6

\* The merge of two messages of type NilPubKey.
LEMMA NilPubKeyMerges ==
    ASSUME NEW m \in MessagesOf("NilPubKey"), NEW n \in MessagesOf("NilPubKey")
    PROVE  Merge("NilPubKey", m, n) =
               [AddressBytes |-> Newer(n.AddressBytes, <<>>, m.AddressBytes)]
<1> DEFINE D == {"AddressBytes"}
           z == Empty["NilPubKey"]
           r == [AddressBytes |-> Newer(n.AddressBytes, <<>>, m.AddressBytes)]
           q == [f \in D |-> IF f \in {"AllowedCodeIDs", "Funds"} THEN m[f] \o n[f]
                              ELSE Newer(n[f], z[f], m[f])]
<1>1. DOMAIN m = D
  <2> DEFINE s == [AddressBytes |-> m.AddressBytes]
  <2>1. m = s
    BY DEF MessagesOf, Bytes, ParamsMessages
  <2>2. DOMAIN s = D
    OBVIOUS
  <2> HIDE DEF s, D
  <2> QED
    BY <2>1, <2>2, Zenon
<1>2. z["AddressBytes"] = <<>>
  BY DEF Empty, EmptyParams
<1> HIDE DEF z
<1>3. MergeFields(m, n, z) = q
  BY <1>1, Zenon DEF MergeFields, Newer
<1>4. q = r
  BY <1>2
<1>5. "Params" \notin D
  OBVIOUS
<1> HIDE DEF D, q
<1>6. Merge("NilPubKey", m, n) = r
  BY <1>1, <1>3, <1>4, <1>5, Zenon DEF Merge, z
<1> QED
  BY <1>6

\* The merge of two messages of type EventAccountRegistered.
LEMMA EventAccountRegisteredMerges ==
    ASSUME NEW m \in MessagesOf("EventAccountRegistered"),
           NEW n \in MessagesOf("EventAccountRegistered")
    PROVE  Merge("EventAccountRegistered", m, n) =
               [Creator |-> Newer(n.Creator, <<>>, m.Creator),
                CodeID |-> Newer(n.CodeID, 0, m.CodeID),
                ContractAddr |-> Newer(n.ContractAddr, <<>>, m.ContractAddr)]
<1> DEFINE D == {"Creator", "CodeID", "ContractAddr"}
           z == Empty["EventAccountRegistered"]
           r == [Creator |-> Newer(n.Creator, <<>>, m.Creator),
                 CodeID |-> Newer(n.CodeID, 0, m.CodeID),
                 ContractAddr |-> Newer(n.ContractAddr, <<>>, m.ContractAddr)]
           q == [f \in D |-> IF f \in {"AllowedCodeIDs", "Funds"} THEN m[f] \o n[f]
                              ELSE Newer(n[f], z[f], m[f])]
<1>1. DOMAIN m = D
  <2> DEFINE s == [Creator |-> m.Creator, CodeID |-> m.CodeID,
                   ContractAddr |-> m.ContractAddr]
  <2>1. m = s
    BY DEF MessagesOf, Bytes, ParamsMessages
  <2>2. DOMAIN s = D
    OBVIOUS
  <2> HIDE DEF s, D
  <2> QED
    BY <2>1, <2>2, Zenon
<1>2. z["Creator"] = <<>> /\ z["CodeID"] = 0 /\ z["ContractAddr"] = <<>>
  BY DEF Empty, EmptyParams
<1> HIDE DEF z
<1>3. MergeFields(m, n, z) = q
  BY <1>1, Zenon DEF MergeFields, Newer
<1>4. q = r
  BY <1>2
<1>5. "Params" \notin D
  OBVIOUS
<1> HIDE DEF D, q
<1>6. Merge("EventAccountRegistered", m, n) = r
  BY <1>1, <1>3, <1>4, <1>5, Zenon DEF Merge, z
<1> QED
  BY <1>6

\* The merge of two messages of type Params.
LEMMA ParamsMerges ==
    ASSUME NEW m \in MessagesOf("Params"), NEW n \in MessagesOf("Params")
    PROVE  /\ MergeFields(m, n, EmptyParams) = MergedParams(m, n)
           /\ Merge("Params", m, n) = MergedParams(m, n)
<1> DEFINE D == {"AllowAllCodeIDs", "AllowedCodeIDs", "MaxGasBefore", "MaxGasAfter"}
           z == Empty["Params"]
           r == [AllowAllCodeIDs |-> Newer(n.AllowAllCodeIDs, FALSE, m.AllowAllCodeIDs),
                 AllowedCodeIDs |-> m.AllowedCodeIDs \o n.AllowedCodeIDs,
                 MaxGasBefore |-> Newer(n.MaxGasBefore, 0, m.MaxGasBefore),
                 MaxGasAfter |-> Newer(n.MaxGasAfter, 0, m.MaxGasAfter)]
           q == [f \in D |-> IF f \in {"AllowedCodeIDs", "Funds"} THEN m[f] \o n[f]
                              ELSE Newer(n[f], z[f], m[f])]
<1>1. DOMAIN m = D
  <2> DEFINE s == [AllowAllCodeIDs |-> m.AllowAllCodeIDs,
                   AllowedCodeIDs |-> m.AllowedCodeIDs,
                   MaxGasBefore |-> m.MaxGasBefore, MaxGasAfter |-> m.MaxGasAfter]
  <2>1. m = s
    BY DEF MessagesOf, Bytes, ParamsMessages
  <2>2. DOMAIN s = D
    OBVIOUS
  <2> HIDE DEF s, D
  <2> QED
    BY <2>1, <2>2, Zenon
<1>2. z["AllowAllCodeIDs"] = FALSE /\ z["AllowedCodeIDs"] = <<>> /\
      z["MaxGasBefore"] = 0 /\ z["MaxGasAfter"] = 0
  BY DEF Empty, EmptyParams
<1> HIDE DEF z
<1>3. MergeFields(m, n, z) = q
  BY <1>1, Zenon DEF MergeFields, Newer
<1>4. q = r
  <2>1. q["AllowAllCodeIDs"] = Newer(n.AllowAllCodeIDs, FALSE, m.AllowAllCodeIDs)
    BY <1>2
  <2>2. q["AllowedCodeIDs"] = m.AllowedCodeIDs \o n.AllowedCodeIDs
    BY <1>2, Zenon
  <2>3. q["MaxGasBefore"] = Newer(n.MaxGasBefore, 0, m.MaxGasBefore)
    BY <1>2
  <2>4. q["MaxGasAfter"] = Newer(n.MaxGasAfter, 0, m.MaxGasAfter)
    BY <1>2
  <2>5. q = [f \in D |-> q[f]]
    OBVIOUS
  <2> HIDE DEF q
  <2>6. q = [AllowAllCodeIDs |-> q["AllowAllCodeIDs"],
             AllowedCodeIDs |-> q["AllowedCodeIDs"],
             MaxGasBefore |-> q["MaxGasBefore"], MaxGasAfter |-> q["MaxGasAfter"]]
    BY <2>5
  <2> QED
    BY <2>1, <2>2, <2>3, <2>4, <2>5, <2>6, Zenon
<1>5. "Params" \notin D
  OBVIOUS
<1> HIDE DEF D, q
<1>6. Merge("Params", m, n) = r
  BY <1>1, <1>3, <1>4, <1>5, Zenon DEF Merge, z
<1>7. z = EmptyParams
  BY DEF z, Empty
<1> QED
  BY <1>3, <1>4, <1>6, <1>7, Zenon DEF MergedParams

\* The merge of two messages of type GenesisState.
LEMMA GenesisStateMerges ==
    ASSUME NEW m \in MessagesOf("GenesisState"), NEW n \in MessagesOf("GenesisState")
    PROVE  Merge("GenesisState", m, n) =
               [Params |-> NewerParams(n.Params, m.Params),
                NextAccountId |-> Newer(n.NextAccountId, 0, m.NextAccountId)]
<1> DEFINE D == {"Params", "NextAccountId"}
           z == Empty["GenesisState"]
           r == [Params |-> Newer(n.Params, Nil, m.Params),
                 NextAccountId |-> Newer(n.NextAccountId, 0, m.NextAccountId)]
           q == [f \in D |-> IF f \in {"AllowedCodeIDs", "Funds"} THEN m[f] \o n[f]
                              ELSE Newer(n[f], z[f], m[f])]
<1>1. DOMAIN m = D
  <2> DEFINE s == [Params |-> m.Params, NextAccountId |-> m.NextAccountId]
  <2>1. m = s
    BY DEF MessagesOf, Bytes, ParamsMessages
  <2>2. DOMAIN s = D
    OBVIOUS
  <2> HIDE DEF s, D
  <2> QED
    BY <2>1, <2>2, Zenon
<1>2. z["Params"] = Nil /\ z["NextAccountId"] = 0
  BY DEF Empty, EmptyParams
<1> HIDE DEF z
<1>3. MergeFields(m, n, z) = q
  BY <1>1, Zenon DEF MergeFields, Newer
<1>4. q = r
  BY <1>2
<1>5. "Params" \in D
  OBVIOUS
<1> HIDE DEF D, q
<1>6. m.Params \in ParamsMessages \cup {Nil} /\ n.Params \in ParamsMessages \cup {Nil}
  BY DEF MessagesOf
<1>7. Merge("GenesisState", m, n) =
          IF m.Params # Nil /\ n.Params # Nil
          THEN [r EXCEPT !.Params = MergeFields(m.Params, n.Params, EmptyParams)] ELSE r
  BY <1>1, <1>3, <1>4, <1>5, Zenon DEF Merge, z
<1>8. CASE m.Params # Nil /\ n.Params # Nil
  <2> DEFINE x == MergedParams(m.Params, n.Params)
  <2>1. MergeFields(m.Params, n.Params, EmptyParams) = x
    BY <1>6, <1>8, ParamsMerges DEF MessagesOf
  <2>2. NewerParams(n.Params, m.Params) = x
    BY <1>8, Zenon DEF NewerParams
  <2> HIDE DEF x
  <2>3. [r EXCEPT !.Params = x] = [Params |-> x,
                             NextAccountId |-> Newer(n.NextAccountId, 0, m.NextAccountId)]
    OBVIOUS
  <2> QED
    BY <1>7, <1>8, <2>1, <2>2, <2>3, Zenon
<1>9. CASE ~(m.Params # Nil /\ n.Params # Nil)
  <2>1. Newer(n.Params, Nil, m.Params) = NewerParams(n.Params, m.Params)
    BY <1>6, <1>9, FirstParams, Zenon DEF Newer, NewerParams
  <2> QED
    BY <1>7, <1>9, <2>1, Zenon
<1> QED
  BY <1>8, <1>9

\* The merge of two messages of type QueryParamsResponse.
LEMMA QueryParamsResponseMerges ==
    ASSUME NEW m \in MessagesOf("QueryParamsResponse"),
           NEW n \in MessagesOf("QueryParamsResponse")
    PROVE  Merge("QueryParamsResponse", m, n) =
               [Params |-> NewerParams(n.Params, m.Params)]
<1> DEFINE D == {"Params"}
           z == Empty["QueryParamsResponse"]
           r == [Params |-> Newer(n.Params, Nil, m.Params)]
           q == [f \in D |-> IF f \in {"AllowedCodeIDs", "Funds"} THEN m[f] \o n[f]
                              ELSE Newer(n[f], z[f], m[f])]
<1>1. DOMAIN m = D
  <2> DEFINE s == [Params |-> m.Params]
  <2>1. m = s
    BY DEF MessagesOf, Bytes, ParamsMessages
  <2>2. DOMAIN s = D
    OBVIOUS
  <2> HIDE DEF s, D
  <2> QED
    BY <2>1, <2>2, Zenon
<1>2. z["Params"] = Nil
  BY DEF Empty, EmptyParams
<1> HIDE DEF z
<1>3. MergeFields(m, n, z) = q
  BY <1>1, Zenon DEF MergeFields, Newer
<1>4. q = r
  BY <1>2
<1>5. "Params" \in D
  OBVIOUS
<1> HIDE DEF D, q
<1>6. m.Params \in ParamsMessages \cup {Nil} /\ n.Params \in ParamsMessages \cup {Nil}
  BY DEF MessagesOf
<1>7. Merge("QueryParamsResponse", m, n) =
          IF m.Params # Nil /\ n.Params # Nil
          THEN [r EXCEPT !.Params = MergeFields(m.Params, n.Params, EmptyParams)] ELSE r
  BY <1>1, <1>3, <1>4, <1>5, Zenon DEF Merge, z
<1>8. CASE m.Params # Nil /\ n.Params # Nil
  <2> DEFINE x == MergedParams(m.Params, n.Params)
  <2>1. MergeFields(m.Params, n.Params, EmptyParams) = x
    BY <1>6, <1>8, ParamsMerges DEF MessagesOf
  <2>2. NewerParams(n.Params, m.Params) = x
    BY <1>8, Zenon DEF NewerParams
  <2> HIDE DEF x
  <2>3. [r EXCEPT !.Params = x] = [Params |-> x]
    OBVIOUS
  <2> QED
    BY <1>7, <1>8, <2>1, <2>2, <2>3, Zenon
<1>9. CASE ~(m.Params # Nil /\ n.Params # Nil)
  <2>1. Newer(n.Params, Nil, m.Params) = NewerParams(n.Params, m.Params)
    BY <1>6, <1>9, FirstParams, Zenon DEF Newer, NewerParams
  <2> QED
    BY <1>7, <1>9, <2>1, Zenon
<1> QED
  BY <1>8, <1>9

\* The merge of two messages of type MsgUpdateParams.
LEMMA MsgUpdateParamsMerges ==
    ASSUME NEW m \in MessagesOf("MsgUpdateParams"), NEW n \in MessagesOf("MsgUpdateParams")
    PROVE  Merge("MsgUpdateParams", m, n) =
               [Sender |-> Newer(n.Sender, <<>>, m.Sender),
                Params |-> NewerParams(n.Params, m.Params)]
<1> DEFINE D == {"Sender", "Params"}
           z == Empty["MsgUpdateParams"]
           r == [Sender |-> Newer(n.Sender, <<>>, m.Sender),
                 Params |-> Newer(n.Params, Nil, m.Params)]
           q == [f \in D |-> IF f \in {"AllowedCodeIDs", "Funds"} THEN m[f] \o n[f]
                              ELSE Newer(n[f], z[f], m[f])]
<1>1. DOMAIN m = D
  <2> DEFINE s == [Sender |-> m.Sender, Params |-> m.Params]
  <2>1. m = s
    BY DEF MessagesOf, Bytes, ParamsMessages
  <2>2. DOMAIN s = D
    OBVIOUS
  <2> HIDE DEF s, D
  <2> QED
    BY <2>1, <2>2, Zenon
<1>2. z["Sender"] = <<>> /\ z["Params"] = Nil
  BY DEF Empty, EmptyParams
<1> HIDE DEF z
<1>3. MergeFields(m, n, z) = q
  BY <1>1, Zenon DEF MergeFields, Newer
<1>4. q = r
  BY <1>2
<1>5. "Params" \in D
  OBVIOUS
<1> HIDE DEF D, q
<1>6. m.Params \in ParamsMessages \cup {Nil} /\ n.Params \in ParamsMessages \cup {Nil}
  BY DEF MessagesOf
<1>7. Merge("MsgUpdateParams", m, n) =
          IF m.Params # Nil /\ n.Params # Nil
          THEN [r EXCEPT !.Params = MergeFields(m.Params, n.Params, EmptyParams)] ELSE r
  BY <1>1, <1>3, <1>4, <1>5, Zenon DEF Merge, z
<1>8. CASE m.Params # Nil /\ n.Params # Nil
  <2> DEFINE x == MergedParams(m.Params, n.Params)
  <2>1. MergeFields(m.Params, n.Params, EmptyParams) = x
    BY <1>6, <1>8, ParamsMerges DEF MessagesOf
  <2>2. NewerParams(n.Params, m.Params) = x
    BY <1>8, Zenon DEF NewerParams
  <2> HIDE DEF x
  <2>3. [r EXCEPT !.Params = x] = [Sender |-> Newer(n.Sender, <<>>, m.Sender), Params |-> x]
    OBVIOUS
  <2> QED
    BY <1>7, <1>8, <2>1, <2>2, <2>3, Zenon
<1>9. CASE ~(m.Params # Nil /\ n.Params # Nil)
  <2>1. Newer(n.Params, Nil, m.Params) = NewerParams(n.Params, m.Params)
    BY <1>6, <1>9, FirstParams, Zenon DEF Newer, NewerParams
  <2> QED
    BY <1>7, <1>9, <2>1, Zenon
<1> QED
  BY <1>8, <1>9

\* The merge of two messages of type MsgRegisterAccount.
LEMMA MsgRegisterAccountMerges ==
    ASSUME NEW m \in MessagesOf("MsgRegisterAccount"), NEW n \in MessagesOf("MsgRegisterAccount")
    PROVE  Merge("MsgRegisterAccount", m, n) =
               [Sender |-> Newer(n.Sender, <<>>, m.Sender),
                CodeID |-> Newer(n.CodeID, 0, m.CodeID),
                Msg |-> Newer(n.Msg, <<>>, m.Msg),
                Funds |-> m.Funds \o n.Funds,
                Salt |-> Newer(n.Salt, <<>>, m.Salt)]
<1> DEFINE D == {"Sender", "CodeID", "Msg", "Funds", "Salt"}
           z == Empty["MsgRegisterAccount"]
           r == [Sender |-> Newer(n.Sender, <<>>, m.Sender),
                 CodeID |-> Newer(n.CodeID, 0, m.CodeID),
                 Msg |-> Newer(n.Msg, <<>>, m.Msg),
                 Funds |-> m.Funds \o n.Funds,
                 Salt |-> Newer(n.Salt, <<>>, m.Salt)]
           q == [f \in D |-> IF f \in {"AllowedCodeIDs", "Funds"} THEN m[f] \o n[f]
                              ELSE Newer(n[f], z[f], m[f])]
<1>1. DOMAIN m = D
  <2> DEFINE s == [Sender |-> m.Sender, CodeID |-> m.CodeID, Msg |-> m.Msg,
                   Funds |-> m.Funds, Salt |-> m.Salt]
  <2>1. m = s
    BY DEF MessagesOf, Bytes, ParamsMessages
  <2>2. DOMAIN s = D
    OBVIOUS
  <2> HIDE DEF s, D
  <2> QED
    BY <2>1, <2>2, Zenon
<1>2. z["Sender"] = <<>> /\ z["CodeID"] = 0 /\ z["Msg"] = <<>> /\ z["Funds"] = <<>> /\
      z["Salt"] = <<>>
  BY DEF Empty, EmptyParams
<1> HIDE DEF z
<1>3. MergeFields(m, n, z) = q
  BY <1>1, Zenon DEF MergeFields, Newer
<1>4. q = r
  <2>1. q["Sender"] = Newer(n.Sender, <<>>, m.Sender)
    BY <1>2
  <2>2. q["CodeID"] = Newer(n.CodeID, 0, m.CodeID)
    BY <1>2
  <2>3. q["Msg"] = Newer(n.Msg, <<>>, m.Msg)
    BY <1>2
  <2>4. q["Funds"] = m.Funds \o n.Funds
    BY <1>2, Zenon
  <2>5. q["Salt"] = Newer(n.Salt, <<>>, m.Salt)
    BY <1>2
  <2>6. q = [f \in D |-> q[f]]
    OBVIOUS
  <2> HIDE DEF q
  <2>7. q = [Sender |-> q["Sender"], CodeID |-> q["CodeID"], Msg |-> q["Msg"],
             Funds |-> q["Funds"], Salt |-> q["Salt"]]
    BY <2>6
  <2> QED
    BY <2>1, <2>2, <2>3, <2>4, <2>5, <2>6, <2>7, Zenon
<1>5. "Params" \notin D
  OBVIOUS
<1> HIDE DEF D, q
<1>6. Merge("MsgRegisterAccount", m, n) = r
  BY <1>1, <1>3, <1>4, <1>5, Zenon DEF Merge, z
<1> QED
  BY <1>6

\* The merge of two messages of type MsgRegisterAccountResponse.
LEMMA MsgRegisterAccountResponseMerges ==
    ASSUME NEW m \in MessagesOf("MsgRegisterAccountResponse"),
           NEW n \in MessagesOf("MsgRegisterAccountResponse")
    PROVE  Merge("MsgRegisterAccountResponse", m, n) =
               [Address |-> Newer(n.Address, <<>>, m.Address),
                Data |-> Newer(n.Data, <<>>, m.Data)]
<1> DEFINE D == {"Address", "Data"}
           z == Empty["MsgRegisterAccountResponse"]
           r == [Address |-> Newer(n.Address, <<>>, m.Address),
                 Data |-> Newer(n.Data, <<>>, m.Data)]
           q == [f \in D |-> IF f \in {"AllowedCodeIDs", "Funds"} THEN m[f] \o n[f]
                              ELSE Newer(n[f], z[f], m[f])]
<1>1. DOMAIN m = D
  <2> DEFINE s == [Address |-> m.Address, Data |-> m.Data]
  <2>1. m = s
    BY DEF MessagesOf, Bytes, ParamsMessages
  <2>2. DOMAIN s = D
    OBVIOUS
  <2> HIDE DEF s, D
  <2> QED
    BY <2>1, <2>2, Zenon
<1>2. z["Address"] = <<>> /\ z["Data"] = <<>>
  BY DEF Empty, EmptyParams
<1> HIDE DEF z
<1>3. MergeFields(m, n, z) = q
  BY <1>1, Zenon DEF MergeFields, Newer
<1>4. q = r
  BY <1>2
<1>5. "Params" \notin D
  OBVIOUS
<1> HIDE DEF D, q
<1>6. Merge("MsgRegisterAccountResponse", m, n) = r
  BY <1>1, <1>3, <1>4, <1>5, Zenon DEF Merge, z
<1> QED
  BY <1>6

\* Types without a field: there is one message, of which nothing is written.
LEMMA NoFields ==
    ASSUME NEW ty \in {"QueryParamsRequest", "MsgUpdateParamsResponse"},
           NEW m \in MessagesOf(ty), NEW n \in MessagesOf(ty)
    PROVE  /\ m = n /\ Merge(ty, m, n) = m
           /\ BodyOf(ty, n) = <<>> /\ SizeOf(ty, n) = 0
<1> DEFINE z == Empty[ty]
<1>1. m = [none |-> Nil] /\ n = [none |-> Nil] /\ z = [none |-> Nil]
  BY DEF MessagesOf, Empty
<1>2. BodyOf(ty, n) = <<>> /\ SizeOf(ty, n) = 0
  BY DEF BodyOf, SizeOf, QueryParamsRequest_MarshalToSizedBuffer, QueryParamsRequest_Size,
         MsgUpdateParamsResponse_MarshalToSizedBuffer, MsgUpdateParamsResponse_Size
<1>3. DOMAIN m = {"none"} /\ "Params" \notin DOMAIN m
  BY <1>1
<1>4. m = [f \in DOMAIN m |-> m[f]]
  BY <1>1
<1> HIDE DEF z
<1>5. MergeFields(m, n, z) = [f \in DOMAIN m |-> m[f]]
  <2>1. \A f \in DOMAIN m : f \notin {"AllowedCodeIDs", "Funds"}
    BY <1>3
  <2>2. n = z /\ m = n
    BY <1>1
  <2> QED
    BY <2>1, <2>2, Zenon DEF MergeFields
<1>6. Merge(ty, m, n) = m
  BY <1>3, <1>4, <1>5, Zenon DEF Merge, z
<1> QED
  BY <1>1, <1>2, <1>6

\* What BodyOf writes of a message n has the size SizeOf foresees, and read into a
\* message m it gives the merge of the two.
LEMMA BodyWrites ==
    ASSUME NEW ty \in MessageTypes, NEW m \in MessagesOf(ty), NEW n \in MessagesOf(ty)
    PROVE  Writes(ty, BodyOf(ty, n), SizeOf(ty, n), m, Merge(ty, m, n))
<1>1. CASE ty = "AbstractAccount"
  <2>1. /\ BodyOf("AbstractAccount", n) = AbstractAccount_MarshalToSizedBuffer(n)
        /\ SizeOf("AbstractAccount", n) = AbstractAccount_Size(n)
    BY DEF BodyOf, SizeOf
  <2>2. m \in MessagesOf("AbstractAccount") /\ n \in MessagesOf("AbstractAccount")
    BY <1>1
  <2>3. Writes("AbstractAccount", AbstractAccount_MarshalToSizedBuffer(n),
               AbstractAccount_Size(n), m, Merge("AbstractAccount", m, n))
    BY <2>2, AbstractAccountWritten, AbstractAccountMerges, Zenon
  <2> QED
    BY <1>1, <2>1, <2>3, Zenon
<1>2. CASE ty = "NilPubKey"
  <2>1. /\ BodyOf("NilPubKey", n) = NilPubKey_MarshalToSizedBuffer(n)
        /\ SizeOf("NilPubKey", n) = NilPubKey_Size(n)
    BY DEF BodyOf, SizeOf
  <2>2. m \in MessagesOf("NilPubKey") /\ n \in MessagesOf("NilPubKey")
    BY <1>2
  <2>3. Writes("NilPubKey", NilPubKey_MarshalToSizedBuffer(n),
               NilPubKey_Size(n), m, Merge("NilPubKey", m, n))
    BY <2>2, NilPubKeyWritten, NilPubKeyMerges, Zenon
  <2> QED
    BY <1>2, <2>1, <2>3, Zenon
<1>3. CASE ty = "EventAccountRegistered"
  <2>1. /\ BodyOf("EventAccountRegistered", n) = EventAccountRegistered_MarshalToSizedBuffer(n)
        /\ SizeOf("EventAccountRegistered", n) = EventAccountRegistered_Size(n)
    BY DEF BodyOf, SizeOf
  <2>2. m \in MessagesOf("EventAccountRegistered") /\ n \in MessagesOf("EventAccountRegistered")
    BY <1>3
  <2>3. Writes("EventAccountRegistered", EventAccountRegistered_MarshalToSizedBuffer(n),
               EventAccountRegistered_Size(n), m, Merge("EventAccountRegistered", m, n))
    BY <2>2, EventAccountRegisteredWritten, EventAccountRegisteredMerges, Zenon
  <2> QED
    BY <1>3, <2>1, <2>3, Zenon
<1>4. CASE ty = "Params"
  <2>1. /\ BodyOf("Params", n) = Params_MarshalToSizedBuffer(n)
        /\ SizeOf("Params", n) = Params_Size(n)
    BY DEF BodyOf, SizeOf
  <2>2. m \in MessagesOf("Params") /\ n \in MessagesOf("Params")
    BY <1>4
  <2>3. Writes("Params", Params_MarshalToSizedBuffer(n),
               Params_Size(n), m, Merge("Params", m, n))
    BY <2>2, ParamsWritten, ParamsMerges, Zenon
  <2> QED
    BY <1>4, <2>1, <2>3, Zenon
<1>5. CASE ty = "GenesisState"
  <2>1. /\ BodyOf("GenesisState", n) = GenesisState_MarshalToSizedBuffer(n)
        /\ SizeOf("GenesisState", n) = GenesisState_Size(n)
    BY DEF BodyOf, SizeOf
  <2>2. m \in MessagesOf("GenesisState") /\ n \in MessagesOf("GenesisState")
    BY <1>5
  <2>3. Writes("GenesisState", GenesisState_MarshalToSizedBuffer(n),
               GenesisState_Size(n), m, Merge("GenesisState", m, n))
    BY <2>2, GenesisStateWritten, GenesisStateMerges, Zenon
  <2> QED
    BY <1>5, <2>1, <2>3, Zenon
<1>6. CASE ty = "QueryParamsResponse"
  <2>1. /\ BodyOf("QueryParamsResponse", n) = QueryParamsResponse_MarshalToSizedBuffer(n)
        /\ SizeOf("QueryParamsResponse", n) = QueryParamsResponse_Size(n)
    BY DEF BodyOf, SizeOf
  <2>2. m \in MessagesOf("QueryParamsResponse") /\ n \in MessagesOf("QueryParamsResponse")
    BY <1>6
  <2>3. Writes("QueryParamsResponse", QueryParamsResponse_MarshalToSizedBuffer(n),
               QueryParamsResponse_Size(n), m, Merge("QueryParamsResponse", m, n))
    BY <2>2, QueryParamsResponseWritten, QueryParamsResponseMerges, Zenon
  <2> QED
    BY <1>6, <2>1, <2>3, Zenon
<1>7. CASE ty = "MsgUpdateParams"
  <2>1. /\ BodyOf("MsgUpdateParams", n) = MsgUpdateParams_MarshalToSizedBuffer(n)
        /\ SizeOf("MsgUpdateParams", n) = MsgUpdateParams_Size(n)
    BY DEF BodyOf, SizeOf
  <2>2. m \in MessagesOf("MsgUpdateParams") /\ n \in MessagesOf("MsgUpdateParams")
    BY <1>7
  <2>3. Writes("MsgUpdateParams", MsgUpdateParams_MarshalToSizedBuffer(n),
               MsgUpdateParams_Size(n), m, Merge("MsgUpdateParams", m, n))
    BY <2>2, MsgUpdateParamsWritten, MsgUpdateParamsMerges, Zenon
  <2> QED
    BY <1>7, <2>1, <2>3, Zenon
<1>8. CASE ty = "MsgRegisterAccount"
  <2>1. /\ BodyOf("MsgRegisterAccount", n) = MsgRegisterAccount_MarshalToSizedBuffer(n)
        /\ SizeOf("MsgRegisterAccount", n) = MsgRegisterAccount_Size(n)
    BY DEF BodyOf, SizeOf
  <2>2. m \in MessagesOf("MsgRegisterAccount") /\ n \in MessagesOf("MsgRegisterAccount")
    BY <1>8
  <2>3. Writes("MsgRegisterAccount", MsgRegisterAccount_MarshalToSizedBuffer(n),
               MsgRegisterAccount_Size(n), m, Merge("MsgRegisterAccount", m, n))
    BY <2>2, MsgRegisterAccountWritten, MsgRegisterAccountMerges, Zenon
  <2> QED
    BY <1>8, <2>1, <2>3, Zenon
<1>9. CASE ty = "MsgRegisterAccountResponse"
  <2>1. /\ BodyOf("MsgRegisterAccountResponse", n) = MsgRegisterAccountResponse_MarshalToSizedBuffer(n)
        /\ SizeOf("MsgRegisterAccountResponse", n) = MsgRegisterAccountResponse_Size(n)
    BY DEF BodyOf, SizeOf
  <2>2. m \in MessagesOf("MsgRegisterAccountResponse") /\ n \in MessagesOf("MsgRegisterAccountResponse")
    BY <1>9
  <2>3. Writes("MsgRegisterAccountResponse", MsgRegisterAccountResponse_MarshalToSizedBuffer(n),
               MsgRegisterAccountResponse_Size(n), m, Merge("MsgRegisterAccountResponse", m, n))
    BY <2>2, MsgRegisterAccountResponseWritten, MsgRegisterAccountResponseMerges, Zenon
  <2> QED
    BY <1>9, <2>1, <2>3, Zenon
<1>10. CASE ty \in {"QueryParamsRequest", "MsgUpdateParamsResponse"}
  BY <1>10, NoFields, NothingWrites
<1> QED
  BY <1>1, <1>2, <1>3, <1>4, <1>5, <1>6, <1>7, <1>8, <1>9, <1>10 DEF MessageTypes, Empty

\* A message read into an empty one is that message.
LEMMA FirstMessage ==
    ASSUME NEW ty \in MessageTypes, NEW n \in MessagesOf(ty)
    PROVE  Merge(ty, Empty[ty], n) = n
<1> DEFINE e == Empty[ty]
<1>0. e \in MessagesOf(ty)
  BY EmptyIsMessage
<1>20. \A v, z : Newer(v, z, z) = v
  BY Zenon DEF Newer
<1>21. \A v \in ParamsMessages \cup {Nil} : NewerParams(v, Nil) = v
  BY FirstParams, Zenon DEF NewerParams
<1>1. CASE ty = "AbstractAccount"
  <2>1. e.Address = <<>> /\ e.AccountNumber = 0 /\ e.Sequence = 0
    BY <1>1 DEF Empty
  <2>2. n \in MessagesOf("AbstractAccount") /\ e \in MessagesOf("AbstractAccount")
    BY <1>0, <1>1
  <2> HIDE DEF e
  <2>3. n = [Address |-> n.Address, AccountNumber |-> n.AccountNumber,
             Sequence |-> n.Sequence]
    BY <2>2 DEF MessagesOf, Bytes
  <2>7. /\ Newer(n.Address, <<>>, e.Address) = n.Address
        /\ Newer(n.AccountNumber, 0, e.AccountNumber) = n.AccountNumber
        /\ Newer(n.Sequence, 0, e.Sequence) = n.Sequence
    BY <1>20, <2>1, Zenon
  <2>6. Merge("AbstractAccount", e, n) = n
    BY <2>2, <2>3, <2>7, AbstractAccountMerges, Zenon
  <2> QED
    BY <1>1, <2>6 DEF e
<1>2. CASE ty = "NilPubKey"
  <2>1. e.AddressBytes = <<>>
    BY <1>2 DEF Empty
  <2>2. n \in MessagesOf("NilPubKey") /\ e \in MessagesOf("NilPubKey")
    BY <1>0, <1>2
  <2> HIDE DEF e
  <2>3. n = [AddressBytes |-> n.AddressBytes]
    BY <2>2 DEF MessagesOf, Bytes
  <2>7. /\ Newer(n.AddressBytes, <<>>, e.AddressBytes) = n.AddressBytes
    BY <1>20, <2>1, Zenon
  <2>6. Merge("NilPubKey", e, n) = n
    BY <2>2, <2>3, <2>7, NilPubKeyMerges, Zenon
  <2> QED
    BY <1>2, <2>6 DEF e
<1>3. CASE ty = "EventAccountRegistered"
  <2>1. e.Creator = <<>> /\ e.CodeID = 0 /\ e.ContractAddr = <<>>
    BY <1>3 DEF Empty
  <2>2. n \in MessagesOf("EventAccountRegistered") /\ e \in MessagesOf("EventAccountRegistered")
    BY <1>0, <1>3
  <2> HIDE DEF e
  <2>3. n = [Creator |-> n.Creator, CodeID |-> n.CodeID,
             ContractAddr |-> n.ContractAddr]
    BY <2>2 DEF MessagesOf, Bytes
  <2>7. /\ Newer(n.Creator, <<>>, e.Creator) = n.Creator
        /\ Newer(n.CodeID, 0, e.CodeID) = n.CodeID
        /\ Newer(n.ContractAddr, <<>>, e.ContractAddr) = n.ContractAddr
    BY <1>20, <2>1, Zenon
  <2>6. Merge("EventAccountRegistered", e, n) = n
    BY <2>2, <2>3, <2>7, EventAccountRegisteredMerges, Zenon
  <2> QED
    BY <1>3, <2>6 DEF e
<1>4. CASE ty = "Params"
  <2>1. e = EmptyParams /\ MessagesOf(ty) = ParamsMessages
    BY <1>4 DEF Empty, MessagesOf
  <2> HIDE DEF e
  <2>2. Merge("Params", EmptyParams, n) = MergedParams(EmptyParams, n)
    BY <1>0, <1>4, <2>1, ParamsMerges
  <2> QED
    BY <1>4, <2>1, <2>2, FirstParams DEF e
<1>5. CASE ty = "GenesisState"
  <2>1. e.Params = Nil /\ e.NextAccountId = 0
    BY <1>5 DEF Empty
  <2>2. n \in MessagesOf("GenesisState") /\ e \in MessagesOf("GenesisState")
    BY <1>0, <1>5
  <2> HIDE DEF e
  <2>3. n = [Params |-> n.Params, NextAccountId |-> n.NextAccountId]
    BY <2>2 DEF MessagesOf, Bytes
  <2>4. n.Params \in ParamsMessages \cup {Nil}
    BY <2>2 DEF MessagesOf
  <2>5. NewerParams(n.Params, e.Params) = n.Params
    BY <1>21, <2>1, <2>4, Zenon
  <2>7. /\ Newer(n.NextAccountId, 0, e.NextAccountId) = n.NextAccountId
    BY <1>20, <2>1, Zenon
  <2>6. Merge("GenesisState", e, n) = n
    BY <2>2, <2>3, <2>7, <2>5, GenesisStateMerges, Zenon
  <2> QED
    BY <1>5, <2>6 DEF e
<1>6. CASE ty = "QueryParamsResponse"
  <2>1. e.Params = Nil
    BY <1>6 DEF Empty
  <2>2. n \in MessagesOf("QueryParamsResponse") /\ e \in MessagesOf("QueryParamsResponse")
    BY <1>0, <1>6
  <2> HIDE DEF e
  <2>3. n = [Params |-> n.Params]
    BY <2>2 DEF MessagesOf, Bytes
  <2>4. n.Params \in ParamsMessages \cup {Nil}
    BY <2>2 DEF MessagesOf
  <2>5. NewerParams(n.Params, e.Params) = n.Params
    BY <1>21, <2>1, <2>4, Zenon
  <2>6. Merge("QueryParamsResponse", e, n) = n
    BY <2>2, <2>3, <2>5, QueryParamsResponseMerges, Zenon
  <2> QED
    BY <1>6, <2>6 DEF e
<1>7. CASE ty = "MsgUpdateParams"
  <2>1. e.Sender = <<>> /\ e.Params = Nil
    BY <1>7 DEF Empty
  <2>2. n \in MessagesOf("MsgUpdateParams") /\ e \in MessagesOf("MsgUpdateParams")
    BY <1>0, <1>7
  <2> HIDE DEF e
  <2>3. n = [Sender |-> n.Sender, Params |-> n.Params]
    BY <2>2 DEF MessagesOf, Bytes
  <2>4. n.Params \in ParamsMessages \cup {Nil}
    BY <2>2 DEF MessagesOf
  <2>5. NewerParams(n.Params, e.Params) = n.Params
    BY <1>21, <2>1, <2>4, Zenon
  <2>7. /\ Newer(n.Sender, <<>>, e.Sender) = n.Sender
    BY <1>20, <2>1, Zenon
  <2>6. Merge("MsgUpdateParams", e, n) = n
    BY <2>2, <2>3, <2>7, <2>5, MsgUpdateParamsMerges, Zenon
  <2> QED
    BY <1>7, <2>6 DEF e
<1>8. CASE ty = "MsgRegisterAccount"
  <2>1. e.Sender = <<>> /\ e.CodeID = 0 /\ e.Msg = <<>> /\ e.Funds = <<>> /\
        e.Salt = <<>>
    BY <1>8 DEF Empty
  <2>2. n \in MessagesOf("MsgRegisterAccount") /\ e \in MessagesOf("MsgRegisterAccount")
    BY <1>0, <1>8
  <2> HIDE DEF e
  <2>3. n = [Sender |-> n.Sender, CodeID |-> n.CodeID, Msg |-> n.Msg,
             Funds |-> n.Funds, Salt |-> n.Salt]
    BY <2>2 DEF MessagesOf, Bytes
  <2>4. n.Funds \in Seq(Coins)
    BY <2>2 DEF MessagesOf
  <2>5. e.Funds \o n.Funds = n.Funds
    BY <2>1, <2>4, ConcatEmptySeq
  <2>7. /\ Newer(n.Sender, <<>>, e.Sender) = n.Sender
        /\ Newer(n.CodeID, 0, e.CodeID) = n.CodeID
        /\ Newer(n.Msg, <<>>, e.Msg) = n.Msg
        /\ Newer(n.Salt, <<>>, e.Salt) = n.Salt
    BY <1>20, <2>1, Zenon
  <2>6. Merge("MsgRegisterAccount", e, n) = n
    BY <2>2, <2>3, <2>7, <2>5, MsgRegisterAccountMerges, Zenon
  <2> QED
    BY <1>8, <2>6 DEF e
<1>9. CASE ty = "MsgRegisterAccountResponse"
  <2>1. e.Address = <<>> /\ e.Data = <<>>
    BY <1>9 DEF Empty
  <2>2. n \in MessagesOf("MsgRegisterAccountResponse") /\ e \in MessagesOf("MsgRegisterAccountResponse")
    BY <1>0, <1>9
  <2> HIDE DEF e
  <2>3. n = [Address |-> n.Address, Data |-> n.Data]
    BY <2>2 DEF MessagesOf, Bytes
  <2>7. /\ Newer(n.Address, <<>>, e.Address) = n.Address
        /\ Newer(n.Data, <<>>, e.Data) = n.Data
    BY <1>20, <2>1, Zenon
  <2>6. Merge("MsgRegisterAccountResponse", e, n) = n
    BY <2>2, <2>3, <2>7, MsgRegisterAccountResponseMerges, Zenon
  <2> QED
    BY <1>9, <2>6 DEF e
<1>10. CASE ty \in {"QueryParamsRequest", "MsgUpdateParamsResponse"}
  BY <1>0, <1>10, NoFields
<1> QED
  BY <1>1, <1>2, <1>3, <1>4, <1>5, <1>6, <1>7, <1>8, <1>9, <1>10 DEF MessageTypes, Empty

\* A buffer of exactly the bytes that are written is filled and returned.
LEMMA MarshalIs ==
    ASSUME NEW b \in Seq(Byte), NEW size, Len(b) = size
    PROVE  ~MarshalPanics(size, b) /\ Marshal(size, b) = b
<1> DEFINE zeros == [j \in 1..(size - Len(b)) |-> 0]
<1>1. Len(b) \in Nat
  OBVIOUS
<1>2. zeros = <<>>
  BY <1>1
<1> HIDE DEF zeros
<1>3. zeros \o b = b /\ SubSeq(b, 1, Len(b)) = b
  BY <1>2, ConcatEmptySeq, SubSeqFull
<1>4. Marshal(size, b) = b
  BY <1>3, Zenon DEF Marshal, zeros
<1> QED
  BY <1>1, <1>4 DEF MarshalPanics

\* What Marshal returns of a message n, read into a message m, gives their merge.
LEMMA MarshalParses ==
    ASSUME NEW ty \in MessageTypes, NEW m \in MessagesOf(ty), NEW n \in MessagesOf(ty)
    PROVE  /\ BodyOf(ty, n) \in Seq(Byte) /\ MarshalMsg(ty, n) = BodyOf(ty, n)
           /\ ~MarshalPanics(SizeOf(ty, n), BodyOf(ty, n))
           /\ Short(BodyOf(ty, n)) => Parses(ty, BodyOf(ty, n), m, Merge(ty, m, n))
<1>1. Writes(ty, BodyOf(ty, n), SizeOf(ty, n), m, Merge(ty, m, n))
  BY BodyWrites
<1>2. /\ BodyOf(ty, n) \in Seq(Byte) /\ Len(BodyOf(ty, n)) = SizeOf(ty, n)
      /\ Short(BodyOf(ty, n)) => Parses(ty, BodyOf(ty, n), m, Merge(ty, m, n))
  BY <1>1, Zenon DEF Writes
<1> QED
  BY <1>2, MarshalIs, Zenon DEF MarshalMsg

\* A byte string that fits is short.
LEMMA FitsIsShort ==
    ASSUME NEW d \in Seq(Byte)
    PROVE  Fits(d) <=> Short(d)
BY DEF Fits, Short, Half

-----------------------------------------------------------------------------
(* The inductive invariant *)

\* The cursor is inside the string, has taken a byte a turn, and is where the loop of
\* Unmarshal comes by.
IInv ==
    /\ type \in MessageTypes
    /\ dAtA \in Inputs[type]
    /\ Within(cur, dAtA, MessagesOf(type))
    /\ turns \in Nat
    /\ Good(cur) => turns <= cur.i
    /\ turns <= Len(dAtA)
    /\ Leads(LoopTurn(type, dAtA), Start(Empty[type]), cur)

\* The input is a short string.
LEMMA InputIsShort ==
    ASSUME type \in MessageTypes, dAtA \in Inputs[type]
    PROVE  Short(dAtA)
BY InputsAssumption DEF Short, Half, Fits

\* The invariant holds at the start of an Unmarshal.
LEMMA InitIInv == CodecInit => IInv
<1> SUFFICES ASSUME CodecInit PROVE IInv
  OBVIOUS
<1>1. type \in MessageTypes /\ dAtA \in Inputs[type] /\ turns = 0
  BY DEF CodecInit
<1>2. Short(dAtA)
  BY <1>1, InputIsShort
<1> DEFINE e == Empty[type]
           M == MessagesOf(type)
<1>3. e \in M /\ cur = Start(e)
  BY <1>1, EmptyIsMessage DEF CodecInit
<1> HIDE DEF e, M
<1>4. cur \in Cursors(M) /\ cur.i = 0
  <2>1. Start(e) \in Cursors(M) /\ Start(e).i = 0
    BY <1>3, StartIsCursor
  <2> QED
    BY <1>3, <2>1
<1>5. Len(dAtA) \in Nat
  BY <1>2, LengthIsInt
<1>6. Leads(LoopTurn(type, dAtA), cur, cur)
  BY LeadsTo
<1> QED
  BY <1>1, <1>3, <1>4, <1>5, <1>6 DEF IInv, Within, M, e

\* Every turn keeps it.
LEMMA StepIInv == IInv /\ [CodecNext]_codecVars => IInv'
<1> SUFFICES ASSUME IInv, [CodecNext]_codecVars PROVE IInv'
  OBVIOUS
<1>1. CASE UNCHANGED codecVars
  <2>1. UNCHANGED <<type, dAtA, cur, turns>>
    BY <1>1 DEF codecVars
  <2> QED
    BY <2>1, Zenon DEF IInv, Within, Good
<1>2. CASE ReadField
  <2> DEFINE M == MessagesOf(type)
  <2>1. /\ type' = type /\ dAtA' = dAtA /\ turns' = turns + 1 /\ turns \in Nat
        /\ ~Finished(cur, dAtA) /\ cur' = Turn(type, cur, dAtA, ReadTag(cur, dAtA))
    BY <1>2 DEF ReadField, IInv
  <2>2. Short(dAtA) /\ Len(dAtA) \in Nat
    BY InputIsShort, LengthIsInt DEF IInv
  <2>3. Within(cur, dAtA, M) /\ cur.i \in 0..Len(dAtA) /\ turns <= Len(dAtA)
    BY <2>2, CursorParts DEF IInv
  <2>4. Good(cur) /\ ~(cur.i >= Len(dAtA))
    BY <2>1 DEF Finished, Good
  <2>5. turns <= cur.i
    BY <2>4 DEF IInv
  <2>6. Reads(cur', dAtA, cur.i, M)
    BY <2>1, <2>2, <2>3, TurnReads DEF IInv
  <2>12. LoopTurn(type, dAtA)[cur] = cur'
    BY <2>1, <2>2, <2>3, <2>4, LoopCases DEF IInv
  <2>13. Leads(LoopTurn(type, dAtA), Start(Empty[type]), cur')
    <3> DEFINE turn == LoopTurn(type, dAtA)
               e == Start(Empty[type])
    <3>1. Leads(turn, e, cur)
      BY DEF IInv
    <3> HIDE DEF turn, e
    <3>2. Leads(turn, cur, turn[cur])
      BY LeadsTo
    <3>3. Leads(turn, e, turn[cur])
      BY <3>1, <3>2, LeadsTo, Zenon
    <3> QED
      BY <2>12, <3>3, Zenon DEF turn, e
  <2>14. Leads(LoopTurn(type, dAtA), Start(Empty[type]), cur)'
    BY <2>1, <2>13, Zenon
  <2> HIDE DEF M
  <2>7. Within(cur', dAtA, M) /\ (Good(cur') => cur'.i > cur.i)
    BY <2>6 DEF Reads
  <2>8. cur'.i \in 0..Len(dAtA)
    BY <2>7 DEF Within
  <2>9. turns' \in Nat /\ turns' <= Len(dAtA) /\ (Good(cur') => turns' <= cur'.i)
    BY <2>1, <2>2, <2>3, <2>4, <2>5, <2>7, <2>8
  <2>10. Within(cur, dAtA, MessagesOf(type))'
    BY <2>1, <2>7 DEF Within, M
  <2>11. Good(cur)' <=> Good(cur')
    BY DEF Good
  <2> QED
    BY <2>1, <2>9, <2>10, <2>11, <2>14 DEF IInv
<1> QED
  BY <1>1, <1>2 DEF CodecNext

\* In every reachable state the cursor is a cursor of the message type, inside the
\* string and behind as many bytes as there were turns.
THEOREM CursorInside == CodecSpec => []IInv
BY InitIInv, StepIInv, PTL DEF CodecSpec

\* It implies the invariant of the index.
LEMMA IInvIndex == IInv => IndexStaysInside
<1> SUFFICES ASSUME IInv PROVE IndexStaysInside
  OBVIOUS
<1>1. cur \in Cursors(MessagesOf(type)) /\ cur.i \in 0..Len(dAtA)
  BY DEF IInv, Within
<1>2. cur.m \in MessagesOf(type) /\ cur.err \in Errors \cup {"", "coin"}
  BY <1>1 DEF Cursors
<1> QED
  BY <1>1, <1>2 DEF IInv, IndexStaysInside

\* Whatever the bytes are, no Unmarshal leaves the string it reads, and what it has
\* read of a message is of the message's type.
THEOREM IndexInside == CodecSpec => []IndexStaysInside
BY CursorInside, IInvIndex, PTL

\* Every Unmarshal comes to an end: it has no more turns than there are bytes.
THEOREM UnmarshalTerminates == CodecSpec => []EveryTurnTakesAByte
<1>1. IInv => EveryTurnTakesAByte
  BY DEF IInv, EveryTurnTakesAByte, Good
<1> QED
  BY <1>1, CursorInside, PTL

-----------------------------------------------------------------------------
(* What was accepted *)

\* The bytes of an accepted input read like the message the cursor holds.
LEMMA AcceptedParses ==
    ASSUME IInv, Accepted
    PROVE  /\ type \in MessageTypes /\ Short(dAtA) /\ cur.m \in MessagesOf(type)
           /\ Empty[type] \in MessagesOf(type)
           /\ cur = At(Len(dAtA), cur.m, "")
           /\ Parses(type, dAtA, Empty[type], cur.m)
<1>1. type \in MessageTypes /\ dAtA \in Inputs[type] /\ Within(cur, dAtA, MessagesOf(type))
  BY DEF IInv
<1>2. Short(dAtA)
  BY <1>1, InputIsShort
<1>3. Empty[type] \in MessagesOf(type)
  BY <1>1, EmptyIsMessage
<1>4. /\ cur \in Cursors(MessagesOf(type)) /\ cur.m \in MessagesOf(type)
      /\ cur.i \in 0..Len(dAtA) /\ Len(dAtA) \in Nat
  BY <1>1, <1>2, CursorParts
<1>12. cur.i >= Len(dAtA)
  BY DEF Accepted
<1>5. cur.i = Len(dAtA)
  <2>1. \A n \in Nat : \A j \in 0..n : j >= n => j = n
    OBVIOUS
  <2> QED
    BY <1>4, <1>12, <2>1, Zenon
<1>6. cur = At(cur.i, cur.m, cur.err)
  BY <1>4 DEF Cursors, At
<1>7. cur.err = ""
  BY DEF Accepted
<1>8. cur = At(Len(dAtA), cur.m, "")
  BY <1>5, <1>6, <1>7, Zenon
<1>9. Start(Empty[type]) = At(0, Empty[type], "")
  BY <1>2, <1>3, StartWithin
<1>10. Leads(LoopTurn(type, dAtA), Start(Empty[type]), cur)
  BY DEF IInv
<1>11. Parses(type, dAtA, Empty[type], cur.m)
  BY <1>8, <1>9, <1>10, Zenon DEF Parses
<1> QED
  BY <1>1, <1>2, <1>3, <1>4, <1>8, <1>11

\* The cursor at the end of another string.
LEMMA AcceptedAt ==
    ASSUME IInv, Accepted
    PROVE  \A i : [cur EXCEPT !.i = i] = At(i, cur.m, "")
<1> TAKE i
<1>1. cur \in Cursors(MessagesOf(type)) /\ cur.err = ""
  BY DEF IInv, Within, Accepted
<1> QED
  BY <1>1, CursorAtIndex, Zenon

\* What Unmarshal accepted Marshal writes without a panic, into exactly the bytes Size
\* foresees, and Unmarshal reads the same message from them.
THEOREM ReencodingFaithful == CodecSpec => []ReencodesFaithfully
<1>1. ASSUME IInv PROVE ReencodesFaithfully
  <2> DEFINE b == BodyOf(type, cur.m)
  <2> SUFFICES ASSUME Accepted, Fits(b)
               PROVE  /\ ~MarshalPanics(SizeOf(type, cur.m), b)
                      /\ UnmarshalMsg(type, MarshalMsg(type, cur.m)) =
                             [cur EXCEPT !.i = Len(MarshalMsg(type, cur.m))]
    BY DEF ReencodesFaithfully
  <2>1. type \in MessageTypes /\ cur.m \in MessagesOf(type) /\ Empty[type] \in MessagesOf(type)
    BY <1>1, AcceptedParses
  <2>2. /\ b \in Seq(Byte) /\ MarshalMsg(type, cur.m) = b
        /\ ~MarshalPanics(SizeOf(type, cur.m), b)
        /\ Short(b) => Parses(type, b, Empty[type], Merge(type, Empty[type], cur.m))
    BY <2>1, MarshalParses
  <2>3. Merge(type, Empty[type], cur.m) = cur.m
    BY <2>1, FirstMessage
  <2> HIDE DEF b
  <2>4. Short(b) /\ Parses(type, b, Empty[type], cur.m)
    BY <2>2, <2>3, FitsIsShort
  <2>5. UnmarshalMsg(type, b) = At(Len(b), cur.m, "")
    BY <2>1, <2>4, ParsesUnmarshal
  <2>6. [cur EXCEPT !.i = Len(b)] = At(Len(b), cur.m, "")
    BY <1>1, AcceptedAt
  <2> QED
    BY <2>2, <2>5, <2>6, Zenon
<1> QED
  BY <1>1, CursorInside, PTL

\* The bytes of an accepted input followed by what Marshal returns of another message
\* read like the merge of the two messages.
THEOREM ConcatenationIsMerge == CodecSpec => []ConcatenationMerges
<1>1. ASSUME IInv PROVE ConcatenationMerges
  <2> SUFFICES ASSUME Accepted, NEW n \in Samples[type], Fits(dAtA \o BodyOf(type, n))
               PROVE  LET bz == dAtA \o MarshalMsg(type, n)
                      IN  UnmarshalMsg(type, bz) =
                              [i |-> Len(bz), m |-> Merge(type, cur.m, n), err |-> ""]
    BY DEF ConcatenationMerges
  <2> DEFINE b == BodyOf(type, n)
  <2>1. /\ type \in MessageTypes /\ Short(dAtA) /\ cur.m \in MessagesOf(type)
        /\ Empty[type] \in MessagesOf(type) /\ Parses(type, dAtA, Empty[type], cur.m)
    BY <1>1, AcceptedParses
  <2>2. n \in MessagesOf(type)
    BY <2>1, InputsAssumption
  <2>3. /\ b \in Seq(Byte) /\ MarshalMsg(type, n) = b
        /\ Short(b) => Parses(type, b, cur.m, Merge(type, cur.m, n))
    BY <2>1, <2>2, MarshalParses
  <2>4. Fits(dAtA \o b)
    OBVIOUS
  <2> HIDE DEF b
  <2>5. dAtA \in Seq(Byte) /\ dAtA \o b \in Seq(Byte)
    BY <2>1, <2>3 DEF Short
  <2>6. Short(dAtA \o b) /\ Short(b)
    BY <2>3, <2>4, <2>5, FitsIsShort, ConcatHolds
  <2>7. Parses(type, b, cur.m, Merge(type, cur.m, n))
    BY <2>3, <2>6
  <2>8. Parses(type, dAtA \o b, Empty[type], Merge(type, cur.m, n))
    BY <2>1, <2>3, <2>5, <2>6, <2>7, ParsesConcat, Zenon
  <2>9. UnmarshalMsg(type, dAtA \o b) = At(Len(dAtA \o b), Merge(type, cur.m, n), "")
    BY <2>1, <2>6, <2>8, ParsesUnmarshal
  <2> QED
    BY <2>3, <2>9, Zenon DEF At
<1> QED
  BY <1>1, CursorInside, PTL

-----------------------------------------------------------------------------
(* Fields of a later version *)

\* The state of skip's loop behind a field.
SkipAt(i, depth) == [i |-> i, depth |-> depth, done |-> depth = 0, err |-> ""]

\* What skip does with a field that is well formed.
LEMMA SkipFieldIs ==
    ASSUME NEW s, NEW t, NEW v, NEW w \in 0..5, Good(t), t.val % 8 = w,
           w \in {0, 2} => Good(v),
           w = 2 => ~(Signed(v.val, WordBits) < 0)
                    /\ ~(AddInt(v.i, Signed(v.val, WordBits)) < 0),
           w = 4 => s.depth # 0
    PROVE  SkipField(s, t, v) =
               SkipAt(CASE w = 0 -> v.i
                        [] w = 1 -> t.i + Fixed64
                        [] w = 2 -> AddInt(v.i, Signed(v.val, WordBits))
                        [] w = 5 -> t.i + Fixed32
                        [] OTHER -> t.i,
                      CASE w = 3 -> s.depth + 1 [] w = 4 -> s.depth - 1 [] OTHER -> s.depth)
<1> DEFINE length == Signed(v.val, WordBits)
           post == AddInt(v.i, length)
           err == IF t.err # "" THEN t.err
                  ELSE IF w \in {0, 2} /\ v.err # "" THEN v.err
                  ELSE IF w = 2 /\ (length < 0 \/ post < 0) THEN InvalidLength
                  ELSE IF w = 4 /\ s.depth = 0 THEN EndOfGroup
                  ELSE IF w > 5 THEN WrongWireType
                  ELSE ""
<1>1. t.err = "" /\ (w \in {0, 2} => v.err = "")
  BY Zenon DEF Good
<1>2. ~(w > 5)
  OBVIOUS
<1>3. err = ""
  BY <1>1, <1>2, Zenon
<1> HIDE DEF err
<1> DEFINE i == CASE w = 0 -> v.i
                  [] w = 1 -> t.i + Fixed64
                  [] w = 2 -> post
                  [] w = 5 -> t.i + Fixed32
                  [] OTHER -> t.i
           depth == CASE w = 3 -> s.depth + 1 [] w = 4 -> s.depth - 1 [] OTHER -> s.depth
<1>4. SkipField(s, t, v) = [i |-> i, depth |-> depth, done |-> depth = 0, err |-> err]
  BY Zenon DEF SkipField, err
<1> HIDE DEF i, depth
<1>5. SkipField(s, t, v) = SkipAt(i, depth)
  BY <1>3, <1>4, Zenon DEF SkipAt
<1> QED
  BY <1>5 DEF i, depth

\* An item that is well formed.
IsItem(x) ==
    /\ x \in [number : Nat, wireType : 0..5, body : Seq(Byte)]
    /\ HasBody(x) /\ 8 * x.number + x.wireType \in Word

\* The bytes of an item: its tag, and behind it the body or its length and the body.
LEMMA ItemParts ==
    ASSUME NEW x, IsItem(x)
    PROVE  LET b == ItemBytes(x)
               g == Varint(8 * x.number + x.wireType)
               l == Varint(Uint(Len(x.body)))
           IN  /\ b \in Seq(Byte) /\ Len(g) \in Nat \ {0} /\ Len(b) >= Len(g)
               /\ Holds(b, 0, g)
               /\ x.wireType # 2 => Len(b) = Len(g) + Len(x.body) /\ Holds(b, Len(g), x.body)
               /\ x.wireType = 2 => /\ Len(b) = Len(g) + Len(l) + Len(x.body)
                                    /\ Holds(b, Len(g), l) /\ Len(l) \in Nat
<1> DEFINE tag == 8 * x.number + x.wireType
           g == Varint(tag)
           n == Uint(Len(x.body))
           l == Varint(n)
           rest == IF x.wireType = 2 THEN l \o x.body ELSE x.body
           b == ItemBytes(x)
<1>1. x.body \in Seq(Byte) /\ Len(x.body) \in Nat /\ tag \in Word
  BY DEF IsItem
<1>2. n \in Word
  BY <1>1, UintIsWord
<1>3. b = g \o rest
  BY Zenon DEF ItemBytes
<1> HIDE DEF tag, n
<1>4. g \in Seq(Byte) /\ l \in Seq(Byte) /\ Len(g) \in Nat \ {0} /\ Len(l) \in Nat
  <2>1. g \in Seq(Byte) /\ IsSize(tag, Len(g)) /\ l \in Seq(Byte)
    BY <1>1, <1>2, VarintShape
  <2> HIDE DEF g, l
  <2>2. MaxVarintLen \in Nat
    BY Powers
  <2> QED
    BY <2>1, <2>2 DEF IsSize
<1> DEFINE lb == l \o x.body
<1> HIDE DEF g, l, b
<1>5. /\ lb \in Seq(Byte) /\ Len(lb) = Len(l) + Len(x.body)
      /\ Holds(lb, 0, l) /\ Holds(lb, Len(l), x.body)
  BY <1>1, <1>4, TwoHeld
<1>6. rest \in Seq(Byte)
  BY <1>1, <1>5
<1>7. rest = IF x.wireType = 2 THEN lb ELSE x.body
  BY Zenon
<1> HIDE DEF rest, lb
<1>8. b \in Seq(Byte) /\ Len(b) = Len(g) + Len(rest) /\ Holds(b, 0, g) /\ Holds(b, Len(g), rest)
  BY <1>3, <1>4, <1>6, TwoHeld
<1>9. Len(rest) \in Nat /\ Len(b) \in Nat
  BY <1>6, <1>8, BytesHaveLength, Zenon
<1>10. Len(b) >= Len(g)
  BY <1>4, <1>8, <1>9
<1>11. ASSUME x.wireType # 2
       PROVE  Len(b) = Len(g) + Len(x.body) /\ Holds(b, Len(g), x.body)
  BY <1>7, <1>8, <1>11, Zenon
<1>12. ASSUME x.wireType = 2
       PROVE  Len(b) = Len(g) + Len(l) + Len(x.body) /\ Holds(b, Len(g), l)
  <2>1. rest = lb
    BY <1>7, <1>12
  <2>2. Len(b) = Len(g) + (Len(l) + Len(x.body)) /\ Holds(b, Len(g), lb)
    BY <1>5, <1>8, <2>1, Zenon
  <2>3. Holds(b, Len(g) + 0, l)
    BY <1>4, <1>5, <1>9, <2>2, HoldsTrans
  <2>4. \A i, j, k \in Nat : i + (j + k) = i + j + k /\ i + 0 = i
    OBVIOUS
  <2>5. Len(g) \in Nat
    BY <1>4
  <2>6. Len(g) + (Len(l) + Len(x.body)) = Len(g) + Len(l) + Len(x.body) /\ Len(g) + 0 = Len(g)
    BY <1>1, <1>4, <2>4, <2>5, Zenon
  <2> QED
    BY <2>2, <2>3, <2>6, Zenon
<1> QED
  BY <1>4, <1>8, <1>10, <1>11, <1>12 DEF tag, g, n, l, b

\* What is behind the tag of an item.
LEMMA BodyIs ==
    ASSUME NEW x, HasBody(x)
    PROVE  /\ x.wireType = 0 => IsVarint(x.body)
           /\ x.wireType = 1 => Len(x.body) = 8
           /\ x.wireType \in {3, 4} => x.body = <<>>
           /\ x.wireType = 5 => Len(x.body) = 4
<1> DEFINE w == x.wireType
           a == IsVarint(x.body)
           b == Len(x.body) = 8
           c == x.body = <<>>
           e == Len(x.body) = 4
<1>1. (CASE w = 0 -> a [] w = 1 -> b [] w = 2 -> TRUE [] w \in {3, 4} -> c [] w = 5 -> e)
  BY Zenon DEF HasBody
<1> HIDE DEF w, a, b, c, e
<1>2. w = 0 => a
  BY <1>1
<1>3. w = 1 => b
  BY <1>1
<1>4. w \in {3, 4} => c
  <2> SUFFICES ASSUME w \in {3, 4} PROVE c
    OBVIOUS
  <2>1. w # 0 /\ w # 1 /\ w # 2 /\ w # 5
    OBVIOUS
  <2> QED
    BY <1>1, <2>1, Zenon
<1>5. w = 5 => e
  BY <1>1
<1> QED
  BY <1>2, <1>3, <1>4, <1>5, Zenon DEF w, a, b, c, e

\* One turn of skip's loop reads the item x at index off of d to its end.
Steps(d, off, x, s) ==
    SkipTagged(s, d, ReadVarint(d, s.i)) =
        SkipAt(off + Len(ItemBytes(x)), s.depth + Opens(x))

\* So it does where the bytes are those of the item.
LEMMA ItemSkipped ==
    ASSUME NEW d, Short(d), NEW off \in Nat, NEW x, IsItem(x), Holds(d, off, ItemBytes(x)),
           NEW s, s.i = off, s.depth \in Nat, x.wireType = 4 => s.depth # 0
    PROVE  Steps(d, off, x, s)
<1> DEFINE w == x.wireType
           tag == 8 * x.number + w
           g == Varint(tag)
           n == Len(x.body)
           l == Varint(Uint(n))
           b == ItemBytes(x)
           t == ReadVarint(d, off)
           v == ReadVarint(d, t.i)
<1>1. /\ w \in 0..5 /\ x.number \in Nat /\ tag \in Word /\ x.body \in Seq(Byte) /\ n \in Nat
      /\ HasBody(x)
  BY DEF IsItem
<1>2. d \in Seq(Byte) /\ Len(d) \in Nat /\ Len(d) < Half /\ Half \in Nat
  BY LengthIsInt, HalfIsNat DEF Short
<1>3. /\ b \in Seq(Byte) /\ Len(g) \in Nat \ {0} /\ Len(b) >= Len(g)
      /\ Holds(b, 0, g)
      /\ w # 2 => Len(b) = Len(g) + n /\ Holds(b, Len(g), x.body)
      /\ w = 2 => /\ Len(b) = Len(g) + Len(l) + n
                  /\ Holds(b, Len(g), l) /\ Len(l) \in Nat
  BY ItemParts
<1>4. tag % 8 = w
  BY <1>1
<1>5. g \in Seq(Byte)
  BY <1>1, VarintShape
<1>6. Holds(d, off, b)
  OBVIOUS
<1> HIDE DEF w, tag, g, n, l, b, t, v
<1>7. Len(b) \in Nat /\ off + Len(b) <= Len(d)
  BY <1>3, <1>6, BytesHaveLength DEF Holds
<1>8. Good(t) /\ t.val = tag /\ t.i = off + Len(g)
  <2>1. Holds(d, off + 0, g)
    BY <1>2, <1>3, <1>5, <1>6, HoldsTrans
  <2>2. off + 0 = off
    OBVIOUS
  <2>3. Holds(d, off, Varint(tag))
    BY <2>1, <2>2 DEF g
  <2> QED
    BY <1>1, <1>2, <2>3, VarintReads DEF t, g
<1>9. t.i \in Nat
  BY <1>3, <1>8
<1> DEFINE y == SkipTagged(s, d, t)
<1>10. y = SkipField(s, t, v)
  BY Zenon DEF SkipTagged, v
<1>11. t.val % 8 = w
  BY <1>4, <1>8
<1> HIDE DEF y
<1> DEFINE i == CASE w = 0 -> v.i
                  [] w = 1 -> t.i + Fixed64
                  [] w = 2 -> AddInt(v.i, Signed(v.val, WordBits))
                  [] w = 5 -> t.i + Fixed32
                  [] OTHER -> t.i
           depth == CASE w = 3 -> s.depth + 1 [] w = 4 -> s.depth - 1 [] OTHER -> s.depth
<1>16. depth = s.depth + Opens(x)
  <2>1. Opens(x) = CASE w = 3 -> 1 [] w = 4 -> -1 [] OTHER -> 0
    BY Zenon DEF Opens, w
  <2> QED
    BY <2>1
<1>17. ASSUME w \in {0, 2} => Good(v),
              w = 2 => ~(Signed(v.val, WordBits) < 0)
                       /\ ~(AddInt(v.i, Signed(v.val, WordBits)) < 0),
              i = off + Len(b)
       PROVE  y = SkipAt(off + Len(b), s.depth + Opens(x))
  <2>1. w = 4 => s.depth # 0
    BY DEF w
  <2>2. SkipField(s, t, v) = SkipAt(i, depth)
    BY <1>1, <1>8, <1>11, <1>17, <2>1, SkipFieldIs
  <2> QED
    BY <1>10, <1>16, <1>17, <2>2, Zenon
<1> HIDE DEF depth
<1> DEFINE goal == y = SkipAt(off + Len(b), s.depth + Opens(x))
<1> HIDE DEF goal
<1>12. ASSUME w = 0 PROVE goal
  <2>1. IsVarint(x.body)
    BY <1>1, <1>12, BodyIs DEF w
  <2>2. Holds(d, off + Len(g), x.body) /\ Len(b) = Len(g) + n
    BY <1>1, <1>2, <1>3, <1>6, <1>12, HoldsTrans
  <2>3. EndsAfter(d, t.i, n)
    <3>1. n \in 1..MaxVarintLen /\ \A k \in 1..n : x.body[k] < 128 <=> k = n
      BY <2>1 DEF IsVarint, n
    <3>2. t.i + n <= Len(d) /\ \A k \in 1..n : d[t.i + k] = x.body[k]
      BY <1>8, <2>2 DEF Holds, n
    <3> QED
      BY <3>1, <3>2 DEF EndsAfter
  <2>4. Good(v) /\ v.i = t.i + n
    BY <1>2, <1>9, <2>3, ReadVarintIs DEF v
  <2>5. v.i = off + Len(b)
    BY <1>1, <1>3, <1>8, <2>2, <2>4
  <2> QED
    BY <1>12, <1>17, <2>4, <2>5 DEF goal
<1>13. ASSUME w \in {1, 5} PROVE goal
  <2>1. n = IF w = 1 THEN Fixed64 ELSE Fixed32
    <3>1. w = 1 => n = 8
      BY <1>1, BodyIs DEF w, n
    <3>2. w = 5 => n = 4
      BY <1>1, BodyIs DEF w, n
    <3> QED
      BY <1>13, <3>1, <3>2 DEF Fixed64, Fixed32
  <2>2. t.i + n = off + Len(b)
    <3>1. w # 2
      BY <1>13
    <3>2. Len(b) = Len(g) + n
      BY <1>3, <3>1
    <3> QED
      BY <1>1, <1>3, <1>8, <3>2
  <2>3. i = t.i + n
    BY <1>13, <2>1
  <2>4. w \notin {0, 2} /\ w # 2
    BY <1>13
  <2> HIDE DEF i
  <2> QED
    BY <1>17, <2>2, <2>3, <2>4 DEF goal
<1>14. ASSUME w = 2 PROVE goal
  <2>1. Holds(d, off + Len(g), l)
    <3>1. l \in Seq(Byte)
      BY <1>1, UintIsWord, VarintShape DEF l
    <3> QED
      BY <1>2, <1>3, <1>6, <1>14, <3>1, HoldsTrans
  <2>2. n < Half
    BY <1>1, <1>2, <1>3, <1>7, <1>14
  <2>3. Uint(n) = n /\ n \in Word
    BY <1>1, <2>2, UintIsWord
  <2>4. Good(v) /\ v.val = n /\ v.i = t.i + Len(l)
    <3>1. Holds(d, t.i, Varint(n))
      BY <1>8, <2>1, <2>3 DEF l
    <3> QED
      BY <1>2, <2>3, <3>1, VarintReads DEF v, l
  <2>5. Signed(v.val, WordBits) = n
    BY <2>2, <2>3, <2>4, SignedWord
  <2>6. v.i + n = off + Len(b) /\ v.i \in Nat
    BY <1>1, <1>3, <1>8, <1>14, <2>4
  <2>7. AddInt(v.i, n) = off + Len(b)
    BY <1>1, <1>2, <1>7, <2>6, AddIntFits
  <2>8. ~(n < 0) /\ ~(off + Len(b) < 0)
    BY <1>1, <1>7
  <2> QED
    BY <1>14, <1>17, <2>4, <2>5, <2>7, <2>8 DEF goal
<1>15. ASSUME w \in {3, 4} PROVE goal
  <2>1. x.body = <<>>
    BY <1>1, <1>15, BodyIs DEF w
  <2>2. n = 0 /\ w # 2
    BY <1>15, <2>1 DEF n
  <2>3. t.i = off + Len(b)
    BY <1>3, <1>8, <2>2
  <2>4. i = t.i
    BY <1>15
  <2>5. w \notin {0, 2} /\ w # 2
    BY <1>15
  <2> HIDE DEF i
  <2> QED
    BY <1>17, <2>3, <2>4, <2>5 DEF goal
<1>18. goal
  BY <1>1, <1>12, <1>13, <1>14, <1>15
<1> QED
  BY <1>18, Zenon DEF Steps, goal, y, t, b

\* The groups open behind each item of a field, and its pieces.
LEMMA LaterPieces ==
    ASSUME NEW u, IsLaterField(u)
    PROVE  LET s == [k \in DOMAIN u |-> ItemBytes(u[k])]
               n == Len(u)
           IN  /\ n \in Nat \ {0} /\ s \in Seq(Seq(Byte)) /\ Len(s) = n
               /\ \A k \in 1..n : /\ IsItem(u[k]) /\ s[k] = ItemBytes(u[k]) /\ Len(s[k]) > 0
                                  /\ Depth(u, k) = 0 <=> k = n
                                  /\ Depth(u, k) = Depth(u, k - 1) + Opens(u[k])
                                  /\ u[k].wireType = 4 => Depth(u, k - 1) # 0
               /\ \A k \in 0..n : Depth(u, k) \in Nat
               /\ Depth(u, 0) = 0
<1> DEFINE s == [k \in DOMAIN u |-> ItemBytes(u[k])]
           n == Len(u)
           a == [k \in DOMAIN u |-> Opens(u[k])]
<1>1. /\ u \in Seq([number : Nat, wireType : 0..5, body : Seq(Byte)]) \ {<<>>}
      /\ \A k \in DOMAIN u : HasBody(u[k]) /\ 8 * u[k].number + u[k].wireType \in Word
      /\ \A k \in DOMAIN u : IF k < Len(u) THEN Depth(u, k) > 0 ELSE Depth(u, k) = 0
  BY DEF IsLaterField
<1>2. n \in Nat \ {0} /\ DOMAIN u = 1..n
  BY <1>1
<1>3. \A k \in 1..n : IsItem(u[k])
  <2> TAKE k \in 1..n
  <2>1. k \in DOMAIN u
    BY <1>2
  <2>2. u[k] \in [number : Nat, wireType : 0..5, body : Seq(Byte)]
    <3> DEFINE S == [number : Nat, wireType : 0..5, body : Seq(Byte)]
    <3>1. u \in Seq(S)
      BY <1>1
    <3> HIDE DEF S
    <3>2. u[k] \in S
      BY <2>1, <3>1
    <3> QED
      BY <3>2 DEF S
  <2> QED
    BY <1>1, <2>1, <2>2, Zenon DEF IsItem
<1>4. \A k \in 1..n : /\ ItemBytes(u[k]) \in Seq(Byte)
                      /\ Len(ItemBytes(u[k])) > 0
  <2> TAKE k \in 1..n
  <2> DEFINE b == ItemBytes(u[k])
             g == Varint(8 * u[k].number + u[k].wireType)
  <2>1. b \in Seq(Byte) /\ Len(g) \in Nat \ {0} /\ Len(b) >= Len(g)
    BY <1>3, ItemParts
  <2> HIDE DEF b, g
  <2>2. Len(b) > 0
    BY <2>1
  <2> QED
    BY <2>1, <2>2 DEF b
<1>5. s \in Seq(Seq(Byte)) /\ Len(s) = n
  <2>1. s = [k \in 1..n |-> ItemBytes(u[k])]
    BY <1>2, Zenon
  <2> HIDE DEF s, n
  <2> QED
    BY <1>2, <1>4, <2>1
<1>6. \A k \in 1..n : s[k] = ItemBytes(u[k])
  BY <1>2, Zenon
<1>7. \A k \in 1..n : a[k] = Opens(u[k]) /\ Opens(u[k]) \in {-1, 0, 1}
                      /\ (u[k].wireType = 4 => Opens(u[k]) = -1)
  <2> TAKE k \in 1..n
  <2>1. a[k] = Opens(u[k])
    BY <1>2, Zenon
  <2>2. u[k].wireType \in 0..5
    BY <1>3 DEF IsItem
  <2> QED
    BY <2>1, <2>2 DEF Opens
<1>8. \A k : Depth(u, k) = SumTo(a, k)
  BY Zenon DEF Depth
<1> HIDE DEF a, s, n
<1>9. \A k \in 1..n : Depth(u, k) = Depth(u, k - 1) + Opens(u[k])
  <2> TAKE k \in 1..n
  <2>1. k - 1 \in Nat /\ (k - 1) + 1 = k
    BY <1>2
  <2>2. SumTo(a, (k - 1) + 1) = SumTo(a, k - 1) + a[(k - 1) + 1]
    BY <2>1, SumToStep
  <2> QED
    BY <1>7, <1>8, <2>1, <2>2, Zenon
<1>10. Depth(u, 0) = 0
  BY <1>8, SumToStep
<1>11. \A k \in 1..n : IF k < n THEN Depth(u, k) > 0 ELSE Depth(u, k) = 0
  BY <1>1, <1>2 DEF n
<1>12. \A k \in 0..n : Depth(u, k) \in Int
  <2>1. \A k \in 1..n : a[k] \in Int
    BY <1>7
  <2> QED
    BY <1>2, <1>8, <2>1, SumToInt
<1>13. \A k \in 0..n : Depth(u, k) \in Nat
  <2> TAKE k \in 0..n
  <2>1. CASE k = 0
    BY <1>10, <2>1
  <2>2. CASE k # 0
    <3>1. k \in 1..n
      BY <1>2, <2>2
    <3> QED
      BY <1>11, <1>12, <3>1
  <2> QED
    BY <2>1, <2>2
<1>14. \A k \in 1..n : Depth(u, k) = 0 <=> k = n
  BY <1>2, <1>11, <1>13
<1>15. \A k \in 1..n : u[k].wireType = 4 => Depth(u, k - 1) # 0
  <2> SUFFICES ASSUME NEW k \in 1..n, u[k].wireType = 4, Depth(u, k - 1) = 0 PROVE FALSE
    OBVIOUS
  <2>1. Opens(u[k]) = -1
    BY <1>7
  <2>2. Depth(u, k) = -1
    BY <1>9, <2>1
  <2>3. Depth(u, k) \in Nat
    BY <1>2, <1>13
  <2> QED
    BY <2>2, <2>3
<1> QED
  BY <1>2, <1>3, <1>4, <1>5, <1>6, <1>9, <1>10, <1>13, <1>14, <1>15 DEF s, n

\* skip's loop is behind the first i bytes with depth groups open.
Behind(x, i, depth, done) ==
    x \in SkipCursors /\ Good(x) /\ x.i = i /\ x.depth = depth /\ (x.done <=> done)

\* skip takes a field of a later version from its first byte to its last.
LEMMA SkipLater ==
    ASSUME NEW u, IsLaterField(u), Short(LaterBytes(u))
    PROVE  LET k == skip(LaterBytes(u))
           IN  Good(k) /\ k.i = Len(LaterBytes(u)) /\ Len(LaterBytes(u)) > 0
<1> DEFINE s == [k \in DOMAIN u |-> ItemBytes(u[k])]
           n == Len(u)
           b == LaterBytes(u)
           turn == SkipTurn(b)
<1>1. n \in Nat \ {0} /\ s \in Seq(Seq(Byte)) /\ Len(s) = n
  BY LaterPieces
<1>2. \A k \in 1..n : /\ IsItem(u[k]) /\ s[k] = ItemBytes(u[k]) /\ Len(s[k]) > 0
                      /\ Depth(u, k) = 0 <=> k = n
                      /\ Depth(u, k) = Depth(u, k - 1) + Opens(u[k])
                      /\ u[k].wireType = 4 => Depth(u, k - 1) # 0
  BY LaterPieces
<1>3. (\A k \in 0..n : Depth(u, k) \in Nat) /\ Depth(u, 0) = 0
  BY LaterPieces
<1>4. b = FlattenSeq(s)
  BY Zenon DEF LaterBytes
<1>5. Short(b)
  OBVIOUS
<1> HIDE DEF s, n, b
<1>6. PICK f : Flattens(f, s) /\ b = f[n]
  BY <1>1, <1>4, FlattenSeqIs
<1>7. f[0] = <<>> /\ Len(f[0]) = 0
  BY <1>6 DEF Flattens
<1>8. Len(b) \in Nat
  BY <1>5, LengthIsInt
<1>9. ASSUME NEW k \in 1..n
      PROVE  /\ Len(f[k - 1]) \in Nat /\ Len(f[k]) \in Nat /\ Len(s[k]) \in Nat
             /\ Len(f[k]) = Len(f[k - 1]) + Len(s[k]) /\ Len(f[k]) <= Len(b)
             /\ Holds(b, Len(f[k - 1]), s[k])
  <2>1. k \in 1..Len(s) /\ Len(s) = n
    BY <1>1
  <2>2. /\ f[k - 1] \in Seq(Byte) /\ f[k] \in Seq(Byte) /\ s[k] \in Seq(Byte)
        /\ Len(f[k]) = Len(f[k - 1]) + Len(s[k])
        /\ Len(f[k]) <= Len(f[Len(s)])
        /\ Holds(f[Len(s)], Len(f[k - 1]), s[k])
    BY <1>1, <1>6, <2>1, FlattensHeld, Zenon
  <2>3. Len(f[k - 1]) \in Nat /\ Len(f[k]) \in Nat /\ Len(s[k]) \in Nat
    BY <2>2, BytesHaveLength, Zenon
  <2> QED
    BY <1>6, <2>1, <2>2, <2>3, Zenon
<1>10. ASSUME NEW k \in 1..n, NEW x, Behind(x, Len(f[k - 1]), Depth(u, k - 1), k - 1 = n)
       PROVE  Behind(turn[x], Len(f[k]), Depth(u, k), k = n)
  <2>1. /\ x \in SkipCursors /\ Good(x) /\ x.i = Len(f[k - 1]) /\ x.depth = Depth(u, k - 1)
        /\ (x.done <=> k - 1 = n)
    BY <1>10 DEF Behind
  <2>2. k - 1 \in 0..n /\ k - 1 # n
    BY <1>1
  <2>3. ~x.done /\ x.depth \in Nat
    BY <1>3, <2>1, <2>2, Zenon
  <2>4. /\ Len(f[k - 1]) \in Nat /\ Len(f[k]) \in Nat /\ Len(s[k]) \in Nat
        /\ Len(f[k]) = Len(f[k - 1]) + Len(s[k]) /\ Len(f[k]) <= Len(b)
        /\ Holds(b, Len(f[k - 1]), s[k])
    BY <1>9
  <2>5. /\ IsItem(u[k]) /\ s[k] = ItemBytes(u[k]) /\ Len(s[k]) > 0
        /\ Depth(u, k) = 0 <=> k = n
        /\ Depth(u, k) = Depth(u, k - 1) + Opens(u[k])
        /\ u[k].wireType = 4 => Depth(u, k - 1) # 0
    BY <1>2
  <2>6. x.i < Len(b)
    <3>1. \A i, j, l, e \in Nat : l = i + j /\ j > 0 /\ l <= e => i < e
      OBVIOUS
    <3>2. Len(f[k - 1]) < Len(b)
      BY <1>8, <2>4, <2>5, <3>1, Zenon
    <3> QED
      BY <2>1, <3>2, Zenon
  <2> DEFINE y == SkipTagged(x, b, ReadVarint(b, x.i))
  <2>7. turn[x] \in SkipCursors /\ turn[x] = y
    BY <1>5, <2>1, <2>3, <2>6, SkipTurnCases
  <2>8. Holds(b, Len(f[k - 1]), ItemBytes(u[k])) /\ (u[k].wireType = 4 => x.depth # 0)
    BY <2>1, <2>4, <2>5, Zenon
  <2>9. y = SkipAt(Len(f[k - 1]) + Len(ItemBytes(u[k])), x.depth + Opens(u[k]))
    <3> DEFINE off == Len(f[k - 1])
    <3>1. off \in Nat /\ x.i = off /\ Holds(b, off, ItemBytes(u[k])) /\ IsItem(u[k])
      BY <2>1, <2>4, <2>5, <2>8, Zenon
    <3> HIDE DEF off
    <3>2. Steps(b, off, u[k], x)
      BY <1>5, <2>3, <2>8, <3>1, ItemSkipped, Zenon
    <3> QED
      BY <3>2, Zenon DEF Steps, off
  <2>10. y = SkipAt(Len(f[k]), Depth(u, k))
    BY <2>1, <2>4, <2>5, <2>9, Zenon
  <2> HIDE DEF y, turn
  <2>11. Good(y) /\ y.i = Len(f[k]) /\ y.depth = Depth(u, k) /\ (y.done <=> Depth(u, k) = 0)
    BY <2>10, Zenon DEF SkipAt, Good
  <2> QED
    BY <2>5, <2>7, <2>11, Zenon DEF Behind
<1> DEFINE P == {k \in Nat : k <= n => /\ Behind(Repeat(turn, SkipStart, k), Len(f[k]),
                                                  Depth(u, k), k = n)
                                        /\ k <= Len(f[k])}
<1> HIDE DEF turn
<1>11. 0 \in P
  <2>1. Repeat(turn, SkipStart, 0) = SkipStart
    BY RepeatStep
  <2>2. SkipStart \in SkipCursors
    BY SkipIsLoop
  <2>3. SkipStart.i = 0 /\ SkipStart.depth = 0 /\ SkipStart.done = FALSE /\ Good(SkipStart)
    BY DEF SkipStart, Good
  <2>4. 0 # n
    BY <1>1
  <2>5. Behind(SkipStart, 0, 0, 0 = n)
    BY <2>2, <2>3, <2>4, Zenon DEF Behind
  <2> QED
    BY <1>3, <1>7, <2>1, <2>5
<1>12. \A k \in Nat : k \in P => k + 1 \in P
  <2> SUFFICES ASSUME NEW k \in Nat, k \in P, k + 1 <= n PROVE k + 1 \in P
    OBVIOUS
  <2> DEFINE x == Repeat(turn, SkipStart, k)
             j == k + 1
  <2>1. j \in 1..n /\ j - 1 = k /\ k <= n
    BY <1>1
  <2>2. Behind(x, Len(f[k]), Depth(u, k), k = n) /\ k <= Len(f[k])
    BY <2>1
  <2>3. Repeat(turn, SkipStart, j) = turn[x]
    BY RepeatStep
  <2> HIDE DEF x, j, P
  <2>4. Behind(x, Len(f[j - 1]), Depth(u, j - 1), j - 1 = n)
    BY <2>1, <2>2
  <2>5. Behind(turn[x], Len(f[j]), Depth(u, j), j = n)
    BY <1>10, <2>1, <2>4
  <2>6. /\ Len(f[j - 1]) \in Nat /\ Len(s[j]) \in Nat /\ Len(f[j]) = Len(f[j - 1]) + Len(s[j])
        /\ Len(s[j]) > 0
    BY <1>2, <1>9, <2>1
  <2>7. j <= Len(f[j]) /\ j \in Nat
    <3>1. \A i, l, e, h \in Nat : i <= l /\ h = l + e /\ e > 0 => i + 1 <= h
      OBVIOUS
    <3>2. Len(f[j]) = Len(f[k]) + Len(s[j]) /\ Len(f[k]) \in Nat /\ Len(f[j]) \in Nat
      BY <1>9, <2>1, <2>6, Zenon
    <3>3. k + 1 <= Len(f[j])
      BY <2>2, <2>6, <3>1, <3>2, Zenon
    <3> QED
      BY <2>1, <3>3 DEF j
  <2> QED
    BY <2>3, <2>5, <2>7 DEF P, j
<1>13. n \in P
  <2> HIDE DEF P
  <2>1. \A k \in Nat : k \in P
    BY <1>11, <1>12, SetInduction
  <2> QED
    BY <1>1, <2>1
<1> DEFINE x == Repeat(turn, SkipStart, n)
<1>14. Behind(x, Len(b), Depth(u, n), n = n) /\ n <= Len(b)
  BY <1>1, <1>6, <1>13
<1> HIDE DEF P, x
<1>15. x \in SkipCursors /\ Good(x) /\ x.i = Len(b) /\ x.done
  BY <1>14, Zenon DEF Behind
<1>16. turn[x] = x
  BY <1>5, <1>15, SkipTurnCases DEF turn
<1>17. skip(b) = x
  <2> DEFINE r == Len(b) + 1 - n
  <2>1. r \in Nat /\ n \in Nat /\ n + r = Len(b) + 1
    BY <1>1, <1>8, <1>14
  <2>2. Repeat(turn, SkipStart, n + r) = Repeat(turn, x, r)
    BY <2>1, RepeatAdd DEF x
  <2>3. Repeat(turn, x, r) = x
    BY <1>16, <2>1, RepeatFixed
  <2>4. skip(b) = Repeat(turn, SkipStart, Len(b) + 1)
    BY SkipIsLoop DEF turn
  <2> QED
    BY <2>1, <2>2, <2>3, <2>4
<1>18. Len(b) > 0
  BY <1>1, <1>8, <1>14
<1> QED
  BY <1>15, <1>17, <1>18 DEF b

\* The tag of an item at the start of a string, if no message has its field.
LEMMA LaterTagReads ==
    ASSUME NEW M, NEW m \in M, NEW d, Short(d), NEW x, IsItem(x), x.wireType # 4,
           x.number \in 6..(2^(FieldBits - 1) - 1), Holds(d, 0, ItemBytes(x))
    PROVE  LET t == ReadTag(Start(m), d)
           IN  t.fieldNum = x.number /\ \E i \in Int : t.behind = At(i, m, "")
<1> DEFINE w == x.wireType
           num == x.number
           tag == 8 * num + w
           g == Varint(tag)
           v == ReadVarint(d, 0)
           t == ReadTag(Start(m), d)
           F == 2^(FieldBits - 1)
<1>1. w \in 0..5 /\ num \in 6..(F - 1) /\ tag \in Word /\ num \in Nat
  BY DEF IsItem
<1>2. d \in Seq(Byte) /\ Len(d) \in Nat
  BY LengthIsInt DEF Short
<1>3. ItemBytes(x) \in Seq(Byte) /\ Holds(ItemBytes(x), 0, g)
  BY ItemParts
<1>4. g \in Seq(Byte)
  BY <1>1, VarintShape
<1>5. F \in Nat /\ 2^FieldBits = 2 * F
  BY WireAssumption, PowerAssumption
<1> HIDE DEF w, num, tag, g, v, t, F
<1>6. Good(v) /\ v.val = tag
  <2>1. Holds(d, 0 + 0, g)
    BY <1>2, <1>3, <1>4, HoldsTrans
  <2>2. 0 + 0 = 0
    OBVIOUS
  <2>3. Holds(d, 0, Varint(tag))
    BY <2>1, <2>2 DEF g
  <2> QED
    BY <1>1, <1>2, <2>3, VarintReads DEF v
<1>7. v.val \div 8 = num /\ v.val % 8 = w
  BY <1>1, <1>6 DEF tag
<1> DEFINE fn == FieldNumber(v)
<1>8. fn = num
  <2>1. num % (2 * F) = num
    BY <1>1, <1>5
  <2>2. fn = IF num >= F THEN num - 2 * F ELSE num
    BY <1>5, <1>7, <2>1 DEF FieldNumber, Signed, F
  <2> QED
    BY <1>1, <1>5, <2>2
<1>9. w # 4 /\ ~(num <= 0) /\ v.err = ""
  <2>1. w # 4
    BY DEF w
  <2>2. ~(num <= 0)
    BY <1>1
  <2> QED
    BY <1>6, <2>1, <2>2, Zenon DEF Good
<1>10. Start(m).i = 0 /\ Start(m).m = m
  BY DEF Start
<1>11. t = Tag(Start(m), v)
  BY <1>10, Zenon DEF ReadTag, t, v
<1>12. TagError(v) = ""
  <2> HIDE DEF fn
  <2> QED
    BY <1>7, <1>8, <1>9, Zenon DEF TagError, fn
<1>13. t.fieldNum = num /\ t.behind = At(v.i, m, "")
  <2>1. Start(m) \in Cursors(M)
    BY StartIsCursor
  <2>2. /\ t.fieldNum = IF TagError(v) = "" THEN fn ELSE 0
        /\ t.behind = At(v.i, Start(m).m, TagError(v))
    BY <1>11, <2>1, TagIs
  <2> HIDE DEF fn
  <2> QED
    BY <1>8, <1>10, <1>12, <2>2, Zenon
<1>14. v.i \in Int
  <2>1. 0 \in 0..Len(d)
    BY <1>2
  <2>2. VarintOf(v, d, 0)
    BY <1>2, <2>1, ReadVarintInside DEF v
  <2> QED
    BY <1>2, <1>6, <2>2 DEF VarintOf
<1> QED
  BY <1>13, <1>14, Zenon DEF t, num

\* No message has a field with a number above 5: every Unmarshal steps over it.
LEMMA LaterTurn ==
    ASSUME NEW ty \in MessageTypes, NEW s, NEW d, NEW t, NEW num \in Nat, t.fieldNum = num,
           num > 5
    PROVE  Turn(ty, s, d, t) = SkipUnknown(t.behind, d, s.i)
<1>1. num # 0 /\ num # 1 /\ num # 2 /\ num # 3 /\ num # 4 /\ num # 5
  OBVIOUS
<1>2. /\ t.fieldNum # 0 /\ t.fieldNum # 1 /\ t.fieldNum # 2 /\ t.fieldNum # 3
      /\ t.fieldNum # 4 /\ t.fieldNum # 5
  BY <1>1, Zenon
<1> QED
  BY <1>2 DEF MessageTypes, Empty, Turn, AbstractAccount_Unmarshal, NilPubKey_Unmarshal,
     EventAccountRegistered_Unmarshal, Params_Unmarshal, GenesisState_Unmarshal,
     QueryParamsRequest_Unmarshal, QueryParamsResponse_Unmarshal, MsgUpdateParams_Unmarshal,
     MsgUpdateParamsResponse_Unmarshal, MsgRegisterAccount_Unmarshal,
     MsgRegisterAccountResponse_Unmarshal

\* A field of a later version reads like nothing.
LEMMA LaterParses ==
    ASSUME NEW u, IsLaterField(u), Short(LaterBytes(u)),
           NEW ty \in MessageTypes, NEW m \in MessagesOf(ty)
    PROVE  Parses(ty, LaterBytes(u), m, m)
<1> DEFINE b == LaterBytes(u)
           s == [k \in DOMAIN u |-> ItemBytes(u[k])]
           n == Len(u)
           t == ReadTag(Start(m), b)
           M == MessagesOf(ty)
<1>1. /\ n \in Nat \ {0} /\ s \in Seq(Seq(Byte)) /\ Len(s) = n
      /\ \A k \in 1..n : /\ IsItem(u[k]) /\ s[k] = ItemBytes(u[k])
                         /\ u[k].wireType = 4 => Depth(u, k - 1) # 0
      /\ Depth(u, 0) = 0
  BY LaterPieces
<1>2. 1 \in 1..n /\ 1 - 1 = 0
  BY <1>1
<1>3. IsItem(u[1]) /\ s[1] = ItemBytes(u[1]) /\ u[1].wireType # 4
  BY <1>1, <1>2
<1>4. u[1].number \in 6..(2^(FieldBits - 1) - 1)
  BY DEF IsLaterField
<1>5. b = FlattenSeq(s)
  BY Zenon DEF LaterBytes
<1>6. Short(b)
  OBVIOUS
<1>7. Good(skip(b)) /\ skip(b).i = Len(b) /\ Len(b) > 0
  BY SkipLater
<1>8. b \in Seq(Byte) /\ Len(b) \in Nat /\ Len(b) < Half
  BY LengthIsInt DEF Short
<1> HIDE DEF b, s, n
<1>9. Holds(b, 0, ItemBytes(u[1]))
  <2>1. PICK f : Flattens(f, s) /\ b = f[n]
    BY <1>1, <1>5, FlattenSeqIs
  <2>2. 1 \in 1..Len(s)
    BY <1>1, <1>2
  <2>3. Holds(f[Len(s)], Len(f[1 - 1]), s[1])
    BY <1>1, <2>1, <2>2, FlattensHeld, Zenon
  <2>4. Len(f[1 - 1]) = 0
    BY <2>1 DEF Flattens
  <2> QED
    BY <1>1, <1>3, <2>1, <2>3, <2>4
<1>10. PICK i \in Int : t.fieldNum = u[1].number /\ t.behind = At(i, m, "")
  BY <1>3, <1>4, <1>6, <1>9, LaterTagReads
<1>11. Start(m).i = 0
  BY DEF Start
<1>12. Turn(ty, Start(m), b, t) = SkipUnknown(t.behind, b, Start(m).i)
  <2>1. u[1].number \in Nat /\ u[1].number > 5
    BY <1>4
  <2> QED
    BY <1>10, <2>1, LaterTurn
<1>13. SkipUnknown(At(i, m, ""), b, 0) = At(Len(b), m, "")
  <2> DEFINE c == At(i, m, "")
             k == skip(b)
  <2>1. Slice(b, 0, Len(b)) = b
    BY <1>8, SubSeqFull DEF Slice
  <2>2. SkipUnknown(c, b, 0) = StepOver(c, b, 0, k)
    BY <2>1, Zenon DEF SkipUnknown
  <2>3. AddInt(0, Len(b)) = Len(b) /\ 0 + Len(b) = Len(b)
    BY <1>8, AddIntFits
  <2>4. k.i = Len(b) /\ k.err = ""
    BY <1>7 DEF Good
  <2>5. ~(Len(b) < 0) /\ ~(Len(b) > Len(b))
    BY <1>8
  <2> HIDE DEF c, k
  <2>6. StepOver(c, b, 0, k) = [c EXCEPT !.i = Len(b)]
    BY <2>3, <2>4, <2>5, Zenon DEF StepOver
  <2>7. [c EXCEPT !.i = Len(b)] = At(Len(b), m, "")
    <3>1. c \in Cursors(M) /\ c.m = m /\ c.err = ""
      BY DEF At, c, Cursors
    <3> QED
      BY <3>1, CursorAtIndex, Zenon
  <2> QED
    BY <2>2, <2>6, <2>7 DEF c
<1>14. Turn(ty, Start(m), b, ReadTag(Start(m), b)) = At(Len(b), m, "")
  BY <1>10, <1>11, <1>12, <1>13, Zenon
<1>15. Parses(ty, b, m, m)
  BY <1>6, <1>7, <1>14, ParsesField
<1> QED
  BY <1>15 DEF b

\* The fields of a later version are bytes.
LEMMA LaterBytesAre ==
    ASSUME NEW u, IsLaterField(u)
    PROVE  LaterBytes(u) \in Seq(Byte)
<1> DEFINE s == [k \in DOMAIN u |-> ItemBytes(u[k])]
<1>1. Len(u) \in Nat \ {0} /\ s \in Seq(Seq(Byte)) /\ Len(s) = Len(u)
  BY LaterPieces
<1>2. LaterBytes(u) = FlattenSeq(s)
  BY Zenon DEF LaterBytes
<1> HIDE DEF s
<1>3. PICK f : Flattens(f, s) /\ FlattenSeq(s) = f[Len(s)]
  BY <1>1, FlattenSeqIs
<1>4. Len(s) \in 1..Len(s)
  BY <1>1
<1>5. f[Len(s)] \in Seq(Byte)
  BY <1>1, <1>3, <1>4, FlattensHeld, Zenon
<1> QED
  BY <1>2, <1>3, <1>5, Zenon

\* Fields of a later version, in front of an accepted input or behind it, of any wire
\* type and with groups in groups, are stepped over by every Unmarshal.
THEOREM LaterFieldsIgnored == CodecSpec => []UnknownFieldsIgnored
<1>1. ASSUME IInv PROVE UnknownFieldsIgnored
  <2> SUFFICES ASSUME Accepted, NEW u \in Unknown,
                      NEW bz \in {dAtA \o LaterBytes(u), LaterBytes(u) \o dAtA}, Fits(bz)
               PROVE  UnmarshalMsg(type, bz) = [cur EXCEPT !.i = Len(bz)]
    BY DEF UnknownFieldsIgnored
  <2> DEFINE l == LaterBytes(u)
             e == Empty[type]
             m == cur.m
  <2>1. /\ type \in MessageTypes /\ Short(dAtA) /\ m \in MessagesOf(type)
        /\ e \in MessagesOf(type) /\ Parses(type, dAtA, e, m)
    BY <1>1, AcceptedParses
  <2>2. IsLaterField(u) /\ l \in Seq(Byte) /\ dAtA \in Seq(Byte)
    BY <2>1, UnknownAssumption, LaterBytesAre DEF Short
  <2>3. ASSUME Short(l) PROVE Parses(type, l, m, m) /\ Parses(type, l, e, e)
    BY <2>1, <2>2, <2>3, LaterParses
  <2>4. bz = dAtA \o l \/ bz = l \o dAtA
    OBVIOUS
  <2> HIDE DEF l, e, m
  <2>5. dAtA \o l \in Seq(Byte) /\ l \o dAtA \in Seq(Byte)
    BY <2>2
  <2>6. Short(bz)
    BY <2>4, <2>5, FitsIsShort
  <2>7. Parses(type, bz, e, m)
    <3>1. CASE bz = dAtA \o l
      <4>1. Short(dAtA \o l)
        BY <2>6, <3>1
      <4>2. Short(l)
        BY <2>2, <4>1, ConcatHolds
      <4>3. Parses(type, l, m, m)
        BY <2>3, <4>2
      <4> QED
        BY <2>1, <2>2, <3>1, <4>1, <4>3, ParsesConcat, Zenon
    <3>2. CASE bz = l \o dAtA
      <4>1. Short(l \o dAtA)
        BY <2>6, <3>2
      <4>2. Short(l)
        BY <2>2, <4>1, ConcatHolds
      <4>3. Parses(type, l, e, e)
        BY <2>3, <4>2
      <4> QED
        BY <2>1, <2>2, <3>2, <4>1, <4>3, ParsesConcat, Zenon
    <3> QED
      BY <2>4, <3>1, <3>2
  <2>8. UnmarshalMsg(type, bz) = At(Len(bz), m, "")
    BY <2>1, <2>6, <2>7, ParsesUnmarshal DEF e
  <2>9. [cur EXCEPT !.i = Len(bz)] = At(Len(bz), m, "")
    BY <1>1, AcceptedAt DEF m
  <2> QED
    BY <2>8, <2>9
<1> QED
  BY <1>1, CursorInside, PTL

-----------------------------------------------------------------------------
(* The services: what arrives is what was sent *)

\* What the generated Marshal writes of a message the generated Unmarshal of its type
\* reads back, to the last byte, for every type and every message.
THEOREM RoundTrip ==
    ASSUME NEW ty \in MessageTypes, NEW n \in MessagesOf(ty), Fits(MarshalMsg(ty, n))
    PROVE  UnmarshalMsg(ty, MarshalMsg(ty, n)) =
               [i |-> Len(MarshalMsg(ty, n)), m |-> n, err |-> ""]
<1> DEFINE b == BodyOf(ty, n)
<1>1. Empty[ty] \in MessagesOf(ty)
  BY EmptyIsMessage
<1>2. /\ b \in Seq(Byte) /\ MarshalMsg(ty, n) = b
      /\ Short(b) => Parses(ty, b, Empty[ty], Merge(ty, Empty[ty], n))
  BY <1>1, MarshalParses
<1>3. Merge(ty, Empty[ty], n) = n
  BY FirstMessage
<1> HIDE DEF b
<1>4. Short(b) /\ Parses(ty, b, Empty[ty], n)
  BY <1>2, <1>3, FitsIsShort
<1>5. UnmarshalMsg(ty, b) = At(Len(b), n, "")
  BY <1>4, ParsesUnmarshal
<1> QED
  BY <1>2, <1>5, Zenon DEF At

\* The encodings of the services are those of the message types.
LEMMA ServiceCodecs ==
    /\ \A m : ParamsBytes(m) = MarshalMsg("Params", m)
    /\ \A m : MsgUpdateParamsBytes(m) = MarshalMsg("MsgUpdateParams", m)
    /\ \A m : RegisterAccountBytes(m) = MarshalMsg("MsgRegisterAccount", m)
    /\ \A m : QueryParamsResponseBytes(m) = MarshalMsg("QueryParamsResponse", m)
    /\ \A m : ResponseBytes(m) = MarshalMsg("MsgRegisterAccountResponse", m)
<1>1. \A m : ParamsBytes(m) = MarshalMsg("Params", m)
  BY DEF ParamsBytes, MarshalMsg, SizeOf, BodyOf
<1>2. \A m : MsgUpdateParamsBytes(m) = MarshalMsg("MsgUpdateParams", m)
  BY DEF MsgUpdateParamsBytes, MarshalMsg, SizeOf, BodyOf
<1>3. \A m : RegisterAccountBytes(m) = MarshalMsg("MsgRegisterAccount", m)
  BY DEF RegisterAccountBytes, MarshalMsg, SizeOf, BodyOf
<1>4. \A m : QueryParamsResponseBytes(m) = MarshalMsg("QueryParamsResponse", m)
  BY DEF QueryParamsResponseBytes, MarshalMsg, SizeOf, BodyOf
<1>5. \A m : ResponseBytes(m) = MarshalMsg("MsgRegisterAccountResponse", m)
  BY DEF ResponseBytes, MarshalMsg, SizeOf, BodyOf
<1> QED
  BY <1>1, <1>2, <1>3, <1>4, <1>5

\* So are the readers.
LEMMA ServiceReaders ==
    /\ \A d : UnmarshalParams(EmptyParams, d) = UnmarshalMsg("Params", d)
    /\ \A d : Unmarshal(Empty["MsgUpdateParams"], d, MessagesOf("MsgUpdateParams"),
                        MsgUpdateParams_Unmarshal) = UnmarshalMsg("MsgUpdateParams", d)
    /\ \A d : RegisterRequest(d) = UnmarshalMsg("MsgRegisterAccount", d)
    /\ \A m : QueryParamsAnswer(m) =
                  UnmarshalMsg("QueryParamsResponse", QueryParamsResponseBytes([Params |-> m]))
    /\ \A d : ResponseRead(d) = UnmarshalMsg("MsgRegisterAccountResponse", d)
<1>1. ASSUME NEW d PROVE UnmarshalParams(EmptyParams, d) = UnmarshalMsg("Params", d)
  <2>1. Empty["Params"] = EmptyParams
    BY DEF Empty
  <2> QED
    BY <2>1, LoopIs
<1>2. \A s, d, t : /\ Turn("MsgUpdateParams", s, d, t) = MsgUpdateParams_Unmarshal(s, d, t)
                   /\ Turn("MsgRegisterAccount", s, d, t) = MsgRegisterAccount_Unmarshal(s, d, t)
                   /\ Turn("QueryParamsResponse", s, d, t) = QueryParamsResponse_Unmarshal(s, d, t)
                   /\ Turn("MsgRegisterAccountResponse", s, d, t) =
                          MsgRegisterAccountResponse_Unmarshal(s, d, t)
  BY DEF Turn
<1>3. ASSUME NEW d
      PROVE  Unmarshal(Empty["MsgUpdateParams"], d, MessagesOf("MsgUpdateParams"),
                       MsgUpdateParams_Unmarshal) = UnmarshalMsg("MsgUpdateParams", d)
  BY <1>2, Zenon DEF UnmarshalMsg, Unmarshal
<1>4. ASSUME NEW d PROVE RegisterRequest(d) = UnmarshalMsg("MsgRegisterAccount", d)
  BY <1>2, Zenon DEF RegisterRequest, UnmarshalMsg, Unmarshal
<1>5. ASSUME NEW m
      PROVE  QueryParamsAnswer(m) =
                 UnmarshalMsg("QueryParamsResponse", QueryParamsResponseBytes([Params |-> m]))
  BY <1>2, Zenon DEF QueryParamsAnswer, UnmarshalMsg, Unmarshal
<1>6. ASSUME NEW d PROVE ResponseRead(d) = UnmarshalMsg("MsgRegisterAccountResponse", d)
  BY <1>2, Zenon DEF ResponseRead, UnmarshalMsg, Unmarshal
<1> QED
  BY <1>1, <1>3, <1>4, <1>5, <1>6

\* What was read without an error is a message of the type.
LEMMA ReadIsMessage ==
    ASSUME NEW ty \in MessageTypes, NEW d, Short(d)
    PROVE  UnmarshalMsg(ty, d).m \in MessagesOf(ty)
<1> DEFINE x == Repeat(LoopTurn(ty, d), Start(Empty[ty]), Len(d))
<1>1. Within(x, d, MessagesOf(ty))
  BY EmptyIsMessage, LoopEnds
<1>2. UnmarshalMsg(ty, d) = Returned(x, d)
  BY LoopIs
<1> HIDE DEF x
<1>3. x.i \in 0..Len(d) /\ x.m \in MessagesOf(ty) /\ Len(d) \in Nat
  BY <1>1, CursorParts
<1>4. ~(x.i > Len(d))
  BY <1>3
<1> QED
  BY <1>2, <1>3, <1>4 DEF Returned

\* Parameters as the keeper sees them.
NativeParams ==
    [allowAllCodeIDs : BOOLEAN, allowedCodeIDs : Seq(Word),
     maxGasBefore : Word, maxGasAfter : Word]

\* A list in which every number is greater than the one before it ascends.
LEMMA AscendsPairwise ==
    ASSUME NEW list \in Seq(Word), K!AllowListAscends(list)
    PROVE  \A i, j \in DOMAIN list : list[i] # 0 /\ (i < j => list[i] < list[j])
<1> DEFINE n == Len(list)
<1>1. n \in Nat /\ DOMAIN list = 1..n /\ \A i \in 1..n : list[i] \in Nat
  BY HalfIsNat DEF Word
<1>2. \A i \in 1..n : (IF i = 1 THEN 0 ELSE list[i - 1]) < list[i]
  BY <1>1 DEF K!AllowListAscends
<1> DEFINE P == {j \in Nat : j \in 1..n => /\ list[j] # 0
                                           /\ \A i \in 1..n : i < j => list[i] < list[j]}
<1> HIDE DEF n
<1>3. 0 \in P
  OBVIOUS
<1>4. \A j \in Nat : j \in P => j + 1 \in P
  <2> SUFFICES ASSUME NEW j \in Nat, j \in P, j + 1 \in 1..n PROVE j + 1 \in P
    OBVIOUS
  <2>1. CASE j = 0
    <3>1. 0 < list[1] /\ 1 \in 1..n
      BY <1>2, <2>1
    <3> QED
      BY <1>1, <2>1, <3>1
  <2>2. CASE j # 0
    <3>1. j \in 1..n /\ j + 1 # 1 /\ (j + 1) - 1 = j
      BY <1>1, <2>2
    <3>2. list[j] < list[j + 1]
      BY <1>2, <3>1
    <3>3. \A i \in 1..n : i < j => list[i] < list[j]
      BY <3>1
    <3>4. \A i \in 1..n : i < j + 1 => list[i] < list[j + 1]
      <4> SUFFICES ASSUME NEW i \in 1..n, i < j + 1 PROVE list[i] < list[j + 1]
        OBVIOUS
      <4>1. list[i] \in Nat /\ list[j] \in Nat /\ list[j + 1] \in Nat
        BY <1>1, <3>1
      <4>2. i = j \/ i < j
        OBVIOUS
      <4> QED
        BY <3>2, <3>3, <4>1, <4>2
    <3>5. list[j + 1] # 0
      BY <1>1, <3>1, <3>2
    <3> QED
      BY <3>4, <3>5
  <2> QED
    BY <2>1, <2>2
<1>5. \A j \in Nat : j \in P
  <2> HIDE DEF P
  <2> QED
    BY <1>3, <1>4, SetInduction
<1> QED
  BY <1>1, <1>5

\* What Validate lets through is what its comment promises.
LEMMA ValidIsWellFormed ==
    ASSUME NEW p \in NativeParams, K!Validate(p)
    PROVE  WellFormedParams(p)
<1>1. /\ p.allowedCodeIDs \in Seq(Word) /\ p.maxGasBefore \in Word /\ p.maxGasAfter \in Word
  BY DEF NativeParams
<1>2. /\ p.maxGasBefore > 0 /\ p.maxGasAfter > 0
      /\ p.allowAllCodeIDs => Len(p.allowedCodeIDs) = 0
      /\ K!AllowListAscends(p.allowedCodeIDs)
  BY DEF K!Validate
<1>3. 0 \notin {p.maxGasBefore, p.maxGasAfter}
  BY <1>2
<1>4. p.allowAllCodeIDs => p.allowedCodeIDs = <<>>
  BY <1>1, <1>2
<1>5. \A i, j \in DOMAIN p.allowedCodeIDs :
          /\ p.allowedCodeIDs[i] # 0
          /\ i < j => p.allowedCodeIDs[i] < p.allowedCodeIDs[j]
  BY <1>1, <1>2, AscendsPairwise
<1> QED
  BY <1>3, <1>4, <1>5 DEF WellFormedParams

\* From the keeper's parameters to the message and back.
LEMMA NativeProto ==
    /\ \A p \in NativeParams : Proto(p) \in ParamsMessages /\ Native(Proto(p)) = p
    /\ \A q \in ParamsMessages : Native(q) \in NativeParams
<1>1. ASSUME NEW p \in NativeParams PROVE Proto(p) \in ParamsMessages /\ Native(Proto(p)) = p
  <2>1. Proto(p) \in ParamsMessages
    BY DEF NativeParams, Proto, ParamsMessages
  <2>2. /\ Proto(p).AllowAllCodeIDs = p.allowAllCodeIDs
        /\ Proto(p).AllowedCodeIDs = p.allowedCodeIDs
        /\ Proto(p).MaxGasBefore = p.maxGasBefore /\ Proto(p).MaxGasAfter = p.maxGasAfter
    BY DEF Proto
  <2>3. p = [allowAllCodeIDs |-> p.allowAllCodeIDs, allowedCodeIDs |-> p.allowedCodeIDs,
             maxGasBefore |-> p.maxGasBefore, maxGasAfter |-> p.maxGasAfter]
    BY DEF NativeParams
  <2> QED
    BY <2>1, <2>2, <2>3, Zenon DEF Native, K!NewParams
<1>2. ASSUME NEW q \in ParamsMessages PROVE Native(q) \in NativeParams
  BY DEF ParamsMessages, Native, K!NewParams, NativeParams
<1> QED
  BY <1>1, <1>2

\* Bytes that SetParams has put under KeyParams.
Stored(bz, q) ==
    /\ bz \in DOMAIN GetParams /\ q \in ParamsMessages
    /\ bz = ParamsBytes(q) /\ K!Validate(Native(q))

\* What a reader returns, part by part.
LEMMA ReadFields ==
    ASSUME NEW a, NEW b
    PROVE  At(a, b, "").err = "" /\ At(a, b, "").m = b
BY DEF At

\* The node reads what a client sends with the reader of the type.
LEMMA UpdateRequestIs ==
    ASSUME NEW bz \in DOMAIN UpdateRequest
    PROVE  UpdateRequest[bz] = UnmarshalMsg("MsgUpdateParams", bz)
<1> DEFINE D == {UpdateParamsBytes(s, p) : s \in Senders, p \in ParamsArgs}
                    \cup {raw.bz : raw \in RawUpdates}
           read(b) == Unmarshal(Empty["MsgUpdateParams"], b, MessagesOf("MsgUpdateParams"),
                                MsgUpdateParams_Unmarshal)
<1>1. UpdateRequest = [b \in D |-> read(b)]
  BY DEF UpdateRequest
<1>2. \A b : read(b) = UnmarshalMsg("MsgUpdateParams", b)
  BY ServiceReaders, Zenon
<1> HIDE DEF D, read
<1> QED
  BY <1>1, <1>2

\* They are read back.
LEMMA StoredRead ==
    ASSUME NEW bz, NEW q, Stored(bz, q)
    PROVE  /\ GetParams[bz].err = "" /\ GetParams[bz].m = q
           /\ ParamsOf(bz) = Native(q) /\ WellFormedParams(ParamsOf(bz))
<1>1. /\ bz \in DOMAIN GetParams /\ q \in ParamsMessages /\ bz = ParamsBytes(q)
      /\ K!Validate(Native(q))
  BY Zenon DEF Stored
<1>2. bz = MarshalMsg("Params", q)
  BY <1>1, ServiceCodecs, Zenon
<1>3. "Params" \in MessageTypes /\ q \in MessagesOf("Params")
  BY <1>1 DEF MessageTypes, Empty, MessagesOf
<1>4. Fits(MarshalMsg("Params", q))
  BY <1>1, <1>2, LengthAssumption, Zenon
<1>5. UnmarshalMsg("Params", bz) = [i |-> Len(bz), m |-> q, err |-> ""]
  BY <1>2, <1>3, <1>4, RoundTrip, Zenon
<1>6. GetParams[bz] = UnmarshalParams(EmptyParams, bz)
  BY <1>1, Zenon DEF GetParams
<1>7. GetParams[bz] = At(Len(bz), q, "")
  BY <1>5, <1>6, ServiceReaders, Zenon DEF At
<1>8. GetParams[bz].err = "" /\ GetParams[bz].m = q
  <2>1. At(Len(bz), q, "").err = "" /\ At(Len(bz), q, "").m = q
    BY ReadFields, Zenon
  <2> QED
    BY <1>7, <2>1, Zenon
<1>9. ParamsOf(bz) = Native(q)
  BY <1>8, Zenon DEF ParamsOf
<1>10. WellFormedParams(Native(q))
  BY <1>1, NativeProto, ValidIsWellFormed
<1> QED
  BY <1>8, <1>9, <1>10, Zenon

\* Valid parameters of a genesis state are stored.
LEMMA GenesisStored ==
    ASSUME NEW p \in GenesisParams, K!Validate(p)
    PROVE  Stored(SetParams(p), Proto(p)) /\ Native(Proto(p)) = p
<1>1. p \in NativeParams
  BY ServiceAssumption DEF NativeParams
<1>2. Proto(p) \in ParamsMessages /\ Native(Proto(p)) = p
  BY <1>1, NativeProto, Zenon
<1>3. SetParams(p) \in DOMAIN GetParams
  BY DEF GetParams
<1> QED
  BY <1>2, <1>3, Zenon DEF Stored, SetParams

\* The parameters of an update that is executed are stored.
LEMMA UpdateStored ==
    ASSUME NEW bz \in DOMAIN UpdateRequest, UpdateRequest[bz].m.Params # Nil,
           K!Validate(Native(UpdateRequest[bz].m.Params))
    PROVE  LET q == UpdateRequest[bz].m.Params
           IN  Stored(ParamsBytes(q), q)
<1> DEFINE r == UpdateRequest[bz]
           q == r.m.Params
<1>1. r = UnmarshalMsg("MsgUpdateParams", bz)
  BY UpdateRequestIs
<1>2. bz \in Seq(Byte)
  <2>1. bz \in {UpdateParamsBytes(s, p) : s \in Senders, p \in ParamsArgs}
               \cup {raw.bz : raw \in RawUpdates}
    BY DEF UpdateRequest
  <2>2. CASE bz \in {raw.bz : raw \in RawUpdates}
    BY <2>2, ServiceAssumption
  <2>3. CASE bz \in {UpdateParamsBytes(s, p) : s \in Senders, p \in ParamsArgs}
    <3>1. PICK s \in Senders, p \in ParamsArgs : bz = UpdateParamsBytes(s, p)
      BY <2>3
    <3>2. [Sender |-> s, Params |-> Proto(p)] \in MessagesOf("MsgUpdateParams")
      <4>1. p \in NativeParams /\ s \in Seq(Byte)
        BY ServiceAssumption DEF NativeParams
      <4>2. Proto(p) \in ParamsMessages
        BY <4>1, NativeProto
      <4> QED
        BY <4>1, <4>2 DEF MessagesOf, Bytes
    <3>3. "MsgUpdateParams" \in MessageTypes
      BY DEF MessageTypes, Empty
    <3>4. bz = MarshalMsg("MsgUpdateParams", [Sender |-> s, Params |-> Proto(p)])
      BY <3>1, ServiceCodecs, Zenon DEF UpdateParamsBytes
    <3> QED
      BY <3>2, <3>3, <3>4, MarshalParses
  <2> QED
    BY <2>1, <2>2, <2>3
<1>3. Short(bz)
  BY <1>2, LengthAssumption, FitsIsShort
<1>4. "MsgUpdateParams" \in MessageTypes
  BY DEF MessageTypes, Empty
<1>5. r.m \in MessagesOf("MsgUpdateParams")
  BY <1>1, <1>3, <1>4, ReadIsMessage
<1>6. q \in ParamsMessages
  <2> HIDE DEF r
  <2>1. r.m.Params \in ParamsMessages \cup {Nil}
    BY <1>5 DEF MessagesOf
  <2> QED
    BY <2>1 DEF r
<1>7. ParamsBytes(q) \in DOMAIN GetParams
  <2>1. r \in {x \in {UpdateRequest[b] : b \in DOMAIN UpdateRequest} : x.m.Params # Nil}
    OBVIOUS
  <2> HIDE DEF r
  <2> QED
    BY <2>1 DEF GetParams
<1> QED
  BY <1>6, <1>7, Zenon DEF Stored

\* A registration as it is asked for, as it is sent and as it is reported.
Wanted(s, c, salt) ==
    s \in Senders /\ c \in CodeArgs /\ c \in Word /\ salt \in SaltArgs

Sent(bz, s, c, salt) ==
    Wanted(s, c, salt) /\ bz = RegisterAccountBytes(RegisterAccountMsg(s, c, salt))

Registration(s, c, salt) ==
    [event |-> [Creator |-> s, CodeID |-> c, ContractAddr |-> BuildAddress(c, s, salt)],
     response |-> RegisterAccountResponse(RegisterAccountMsg(s, c, salt))]

\* The node reads the MsgRegisterAccount the client wrote.
LEMMA RegisterRead ==
    ASSUME NEW bz, NEW s, NEW c, NEW salt, Sent(bz, s, c, salt)
    PROVE  RegisterRequest(bz).err = "" /\ RegisterRequest(bz).m = RegisterAccountMsg(s, c, salt)
<1> DEFINE m == RegisterAccountMsg(s, c, salt)
<1>1. /\ s \in Senders /\ c \in CodeArgs \cap Word /\ salt \in SaltArgs
      /\ bz = RegisterAccountBytes(m)
  BY Zenon DEF Sent, Wanted
<1>2. m \in MessagesOf("MsgRegisterAccount")
  <2>1. s \in Seq(Byte) /\ salt \in Seq(Byte) /\ c \in Word
    BY <1>1, ServiceAssumption
  <2>2. <<123, 125>> \in Seq(Byte)
    BY DEF Byte
  <2>3. <<>> \in Seq(Coins)
    OBVIOUS
  <2> QED
    BY <2>1, <2>2, <2>3 DEF MessagesOf, RegisterAccountMsg, Bytes
<1>3. "MsgRegisterAccount" \in MessageTypes
  BY DEF MessageTypes, Empty
<1>4. bz = MarshalMsg("MsgRegisterAccount", m)
  BY <1>1, ServiceCodecs, Zenon
<1>5. Fits(bz)
  BY <1>1, LengthAssumption, Zenon
<1>6. RegisterRequest(bz) = At(Len(bz), m, "")
  <2>1. UnmarshalMsg("MsgRegisterAccount", bz) = [i |-> Len(bz), m |-> m, err |-> ""]
    BY <1>2, <1>3, <1>4, <1>5, RoundTrip, Zenon
  <2> QED
    BY <2>1, ServiceReaders, Zenon DEF At
<1>7. At(Len(bz), m, "").err = "" /\ At(Len(bz), m, "").m = m
  BY ReadFields, Zenon
<1> QED
  BY <1>6, <1>7, Zenon

\* The client reads the response the node wrote.
LEMMA ResponseIsRead ==
    ASSUME NEW s, NEW c, NEW salt, Wanted(s, c, salt)
    PROVE  LET r == ResponseRead(RegisterAccountResponse(RegisterAccountMsg(s, c, salt)))
           IN  /\ r.err = "" /\ r.m.Data = InitData
               /\ r.m.Address = BuildAddress(c, s, salt)
<1> DEFINE m == RegisterAccountMsg(s, c, salt)
           bz == RegisterAccountResponse(m)
           a == [Address |-> BuildAddress(c, s, salt), Data |-> InitData]
<1>1. s \in Senders /\ c \in CodeArgs \cap Word /\ salt \in SaltArgs
  BY Zenon DEF Wanted
<1>2. m.CodeID = c /\ m.Sender = s /\ m.Salt = salt
  BY DEF RegisterAccountMsg
<1>3. a \in MessagesOf("MsgRegisterAccountResponse")
  <2>1. BuildAddress(c, s, salt) \in Seq(Byte) /\ InitData \in Seq(Byte)
    BY <1>1, ServiceAssumption
  <2> QED
    BY <2>1 DEF MessagesOf, Bytes
<1>4. "MsgRegisterAccountResponse" \in MessageTypes
  BY DEF MessageTypes, Empty
<1>5. bz = MarshalMsg("MsgRegisterAccountResponse", a)
  <2> HIDE DEF m
  <2> QED
    BY <1>2, ServiceCodecs, Zenon DEF RegisterAccountResponse
<1>6. Fits(bz)
  BY <1>1, LengthAssumption, Zenon
<1>7. a.Address = BuildAddress(c, s, salt) /\ a.Data = InitData
  OBVIOUS
<1> HIDE DEF m, bz, a
<1>8. ResponseRead(bz) = At(Len(bz), a, "")
  <2>1. UnmarshalMsg("MsgRegisterAccountResponse", bz) = [i |-> Len(bz), m |-> a, err |-> ""]
    BY <1>3, <1>4, <1>5, <1>6, RoundTrip, Zenon
  <2> QED
    BY <2>1, ServiceReaders, Zenon DEF At
<1>9. At(Len(bz), a, "").err = "" /\ At(Len(bz), a, "").m = a
  BY ReadFields, Zenon
<1>10. ResponseRead(bz).err = "" /\ ResponseRead(bz).m = a
  BY <1>8, <1>9, Zenon
<1> QED
  BY <1>7, <1>10, Zenon DEF bz, m

\* What holds of the service at every moment: both stores hold what SetParams wrote,
\* every MsgRegisterAccount on its way is one a client wrote, and every registration
\* is one a client wanted.
ServiceInv ==
    /\ genesis \in GenesisParams /\ K!Validate(genesis)
    /\ \E q : Stored(deliverStore, q)
    /\ commitStore # Nil => \E q : Stored(commitStore, q)
    /\ \A bz : <<"MsgRegisterAccount", bz>> \in network =>
           \E s, c, salt : Sent(bz, s, c, salt) /\ <<s, c, salt>> \in registering
    /\ \A reg \in registered : \E s, c, salt :
           Wanted(s, c, salt) /\ <<s, c, salt>> \in registering /\ reg = Registration(s, c, salt)

\* It holds in the genesis state.
LEMMA ServiceInvInit == Init => ServiceInv
<1> SUFFICES ASSUME Init PROVE ServiceInv
  OBVIOUS
<1>1. /\ genesis \in GenesisParams /\ K!Validate(genesis) /\ deliverStore = SetParams(genesis)
      /\ commitStore = Nil /\ network = {} /\ registered = {}
  BY DEF Init
<1>2. Stored(deliverStore, Proto(genesis))
  BY <1>1, GenesisStored
<1> QED
  BY <1>1, <1>2 DEF ServiceInv

\* Every step keeps it.
LEMMA ServiceInvStep == ServiceInv /\ [Next]_vars => ServiceInv'
<1> SUFFICES ASSUME ServiceInv, [Next]_vars PROVE ServiceInv'
  OBVIOUS
<1>inv. /\ genesis \in GenesisParams /\ K!Validate(genesis)
        /\ \E q : Stored(deliverStore, q)
        /\ commitStore # Nil => \E q : Stored(commitStore, q)
        /\ \A bz : <<"MsgRegisterAccount", bz>> \in network =>
               \E s, c, salt : Sent(bz, s, c, salt) /\ <<s, c, salt>> \in registering
        /\ \A reg \in registered : \E s, c, salt :
               /\ Wanted(s, c, salt) /\ <<s, c, salt>> \in registering
               /\ reg = Registration(s, c, salt)
  BY Zenon DEF ServiceInv
<1>1. ASSUME NEW bz, Send("MsgUpdateParams", bz),
             UNCHANGED <<genesis, deliverStore, commitStore, answers, registered, registering>>
      PROVE  ServiceInv'
  <2>1. \A b : <<"MsgRegisterAccount", b>> \in network' => <<"MsgRegisterAccount", b>> \in network
    BY <1>1 DEF Send
  <2> QED
    BY <1>inv, <1>1, <2>1, Zenon DEF ServiceInv
<1>2. ASSUME NEW s \in Senders, NEW p \in ParamsArgs, updateParamsCmd(s, p) PROVE ServiceInv'
  BY <1>1, <1>2, Zenon DEF updateParamsCmd
<1>3. ASSUME NEW raw \in RawUpdates, RawUpdate(raw) PROVE ServiceInv'
  BY <1>1, <1>3, Zenon DEF RawUpdate
<1>4. ASSUME NEW s \in Senders, NEW c \in CodeArgs, NEW salt \in SaltArgs, registerCmd(s, c, salt)
      PROVE  ServiceInv'
  <2> DEFINE b == RegisterAccountBytes(RegisterAccountMsg(s, c, salt))
  <2>1. /\ c \in Word /\ registering' = registering \cup {<<s, c, salt>>}
        /\ network' = network \cup {<<"MsgRegisterAccount", b>>}
        /\ genesis' = genesis /\ deliverStore' = deliverStore /\ commitStore' = commitStore
        /\ registered' = registered
    BY <1>4, Zenon DEF registerCmd, Send
  <2>2. Wanted(s, c, salt) /\ Sent(b, s, c, salt)
    BY <2>1, Zenon DEF Wanted, Sent
  <2> HIDE DEF b
  <2>3. \A t, d, u : <<t, d, u>> \in registering => <<t, d, u>> \in registering'
    BY <2>1
  <2>4. <<s, c, salt>> \in registering'
    BY <2>1
  <2>5. \A bz : <<"MsgRegisterAccount", bz>> \in network' =>
            <<"MsgRegisterAccount", bz>> \in network \/ bz = b
    BY <2>1
  <2>6. \A bz : <<"MsgRegisterAccount", bz>> \in network' =>
            \E t, d, u : Sent(bz, t, d, u) /\ <<t, d, u>> \in registering'
    BY <1>inv, <2>2, <2>3, <2>4, <2>5, Zenon
  <2>7. \A reg \in registered' : \E t, d, u :
            /\ Wanted(t, d, u) /\ <<t, d, u>> \in registering'
            /\ reg = Registration(t, d, u)
    BY <1>inv, <2>1, <2>3, Zenon
  <2> QED
    BY <1>inv, <2>1, <2>6, <2>7, Zenon DEF ServiceInv
<1>5. ASSUME NEW bz \in DOMAIN UpdateRequest, UpdateParams(bz) PROVE ServiceInv'
  <2> DEFINE q == UpdateRequest[bz].m.Params
  <2>1. /\ q # Nil /\ K!CanUpdateParams(UpdateRequest[bz].m.Sender, Native(q))
        /\ deliverStore' = ParamsBytes(q)
        /\ genesis' = genesis /\ commitStore' = commitStore /\ network' = network
        /\ registered' = registered /\ registering' = registering
    BY <1>5, Zenon DEF UpdateParams
  <2>2. K!Validate(Native(q))
    BY <2>1, Zenon DEF K!CanUpdateParams
  <2>3. Stored(ParamsBytes(q), q)
    BY <2>1, <2>2, UpdateStored, Zenon
  <2> HIDE DEF q
  <2> QED
    BY <1>inv, <2>1, <2>3, Zenon DEF ServiceInv
<1>6. ASSUME NEW sent \in network, RegisterAccount(sent[2]) PROVE ServiceInv'
  <2> DEFINE bz == sent[2]
             m == RegisterRequest(bz).m
             reg == [event |-> [Creator |-> m.Sender, CodeID |-> m.CodeID,
                                ContractAddr |-> BuildAddress(m.CodeID, m.Sender, m.Salt)],
                     response |-> RegisterAccountResponse(m)]
  <2>1. /\ <<"MsgRegisterAccount", bz>> \in network /\ registered' = registered \cup {reg}
        /\ genesis' = genesis /\ commitStore' = commitStore /\ network' = network
        /\ deliverStore' = deliverStore /\ registering' = registering
    BY <1>6, Zenon DEF RegisterAccount
  <2>2. PICK s, c, salt : Sent(bz, s, c, salt) /\ <<s, c, salt>> \in registering
    BY <1>inv, <2>1, Zenon
  <2>3. m = RegisterAccountMsg(s, c, salt) /\ Wanted(s, c, salt)
    <3> HIDE DEF bz
    <3>1. RegisterRequest(bz).m = RegisterAccountMsg(s, c, salt)
      BY <2>2, RegisterRead, Zenon
    <3> QED
      BY <2>2, <3>1, Zenon DEF Sent
  <2>4. m.CodeID = c /\ m.Sender = s /\ m.Salt = salt
    <3> HIDE DEF m
    <3> QED
      BY <2>3 DEF RegisterAccountMsg
  <2>5. reg = Registration(s, c, salt)
    <3> HIDE DEF m
    <3> QED
      BY <2>3, <2>4, Zenon DEF Registration
  <2> HIDE DEF bz, m, reg
  <2>6. \A x \in registered' : x \in registered \/ x = reg
    BY <2>1
  <2>7. \A x \in registered' : \E t, d, u :
            Wanted(t, d, u) /\ <<t, d, u>> \in registering' /\ x = Registration(t, d, u)
    <3>1. \A t, d, u : <<t, d, u>> \in registering => <<t, d, u>> \in registering'
      BY <2>1
    <3>2. \A x \in registered : \E t, d, u :
              Wanted(t, d, u) /\ <<t, d, u>> \in registering' /\ x = Registration(t, d, u)
      BY <1>inv, <3>1, Zenon
    <3>3. <<s, c, salt>> \in registering'
      BY <2>2, <3>1, Zenon
    <3> QED
      BY <2>3, <2>5, <2>6, <3>2, <3>3, Zenon
  <2> QED
    BY <1>inv, <2>1, <2>7, Zenon DEF ServiceInv
<1>7. CASE Commit
  BY <1>inv, <1>7, Zenon DEF Commit, ServiceInv
<1>8. CASE Crash
  <2>1. Stored(SetParams(genesis), Proto(genesis))
    BY <1>inv, GenesisStored
  <2>2. \E q : Stored(deliverStore', q)
    <3>1. CASE commitStore = Nil
      <4>1. deliverStore' = SetParams(genesis)
        BY <1>8, <3>1 DEF Crash
      <4> QED
        BY <2>1, <4>1, Zenon
    <3>2. CASE commitStore # Nil
      <4>1. deliverStore' = commitStore
        BY <1>8, <3>2 DEF Crash
      <4> QED
        BY <1>inv, <3>2, <4>1, Zenon
    <3> QED
      BY <3>1, <3>2
  <2>3. UNCHANGED <<genesis, network, commitStore, answers, registered, asked, registering>>
    BY <1>8, Zenon DEF Crash
  <2> QED
    BY <1>inv, <2>2, <2>3, Zenon DEF ServiceInv
<1>9. CASE QueryParams
  BY <1>inv, <1>9, Zenon DEF QueryParams, ServiceInv
<1>10. CASE UNCHANGED vars
  BY <1>inv, <1>10, Zenon DEF vars, ServiceInv
<1> QED
  BY <1>2, <1>3, <1>4, <1>5, <1>6, <1>7, <1>8, <1>9, <1>10, Zenon DEF Next

\* It holds at every moment.
THEOREM ServiceInvariant == Spec => []ServiceInv
<1> QED
  BY ServiceInvInit, ServiceInvStep, PTL DEF Spec

\* What SetParams put into the store, from whatever client and encoding, GetParams reads
\* back in every later block, and it is well-formed: the panic of a keeper that cannot
\* unmarshal its parameters is out of reach.
THEOREM StoredParamsAreReadable == Spec => []StoredParamsReadable
<1>1. ASSUME ServiceInv PROVE StoredParamsReadable
  <2> SUFFICES ASSUME NEW bz \in {deliverStore, commitStore} \ {Nil}
               PROVE  GetParams[bz].err = "" /\ WellFormedParams(ParamsOf(bz))
    BY DEF StoredParamsReadable
  <2>1. /\ \E q : Stored(deliverStore, q)
        /\ commitStore # Nil => \E q : Stored(commitStore, q)
    BY <1>1, Zenon DEF ServiceInv
  <2>2. bz # Nil /\ (bz = deliverStore \/ bz = commitStore)
    OBVIOUS
  <2>3. PICK q : Stored(bz, q)
    BY <2>1, <2>2, Zenon
  <2> QED
    BY <2>3, StoredRead, Zenon
<1> QED
  BY <1>1, ServiceInvariant, PTL

\* Every registration is one a client asked for, and event and response tell of it as it
\* was asked for, all the way through the two encodings.
THEOREM RegistrationsAreReported == Spec => []RegistrationReported
<1>1. ASSUME ServiceInv PROVE RegistrationReported
  <2> SUFFICES ASSUME NEW reg \in registered
               PROVE  LET r == ResponseRead(reg.response)
                      IN  /\ r.err = "" /\ r.m.Data = InitData
                          /\ \E salt \in SaltArgs :
                                /\ <<reg.event.Creator, reg.event.CodeID, salt>> \in registering
                                /\ reg.event.ContractAddr =
                                       BuildAddress(reg.event.CodeID, reg.event.Creator, salt)
                                /\ r.m.Address = reg.event.ContractAddr
    BY Zenon DEF RegistrationReported
  <2>1. PICK s, c, salt :
            Wanted(s, c, salt) /\ <<s, c, salt>> \in registering /\ reg = Registration(s, c, salt)
    BY <1>1, Zenon DEF ServiceInv
  <2>2. /\ reg.event.Creator = s /\ reg.event.CodeID = c
        /\ reg.event.ContractAddr = BuildAddress(c, s, salt)
        /\ reg.response = RegisterAccountResponse(RegisterAccountMsg(s, c, salt))
    BY <2>1 DEF Registration
  <2>3. salt \in SaltArgs
    BY <2>1, Zenon DEF Wanted
  <2>4. /\ ResponseRead(reg.response).err = "" /\ ResponseRead(reg.response).m.Data = InitData
        /\ ResponseRead(reg.response).m.Address = BuildAddress(c, s, salt)
    <3> DEFINE r == ResponseRead(RegisterAccountResponse(RegisterAccountMsg(s, c, salt)))
    <3>1. r.err = "" /\ r.m.Data = InitData /\ r.m.Address = BuildAddress(c, s, salt)
      BY <2>1, ResponseIsRead, Zenon
    <3>2. ResponseRead(reg.response) = r
      BY <2>2, Zenon
    <3> HIDE DEF r
    <3> QED
      BY <3>1, <3>2, Zenon
  <2> QED
    BY <2>1, <2>2, <2>3, <2>4, Zenon
<1> QED
  BY <1>1, ServiceInvariant, PTL

-----------------------------------------------------------------------------
(* The service implements the register *)

\* What the bytes of an update ask for, if they can be executed at all.
Means(bz, s, p) ==
    UpdateRequest[bz].err = "" /\ UpdateRequest[bz].m.Params # Nil =>
        UpdateRequest[bz].m.Sender = s /\ Native(UpdateRequest[bz].m.Params) = p

\* The node reads what the update-params command was given.
LEMMA UpdateMeans ==
    ASSUME NEW s \in Senders, NEW p \in ParamsArgs
    PROVE  Means(UpdateParamsBytes(s, p), s, p)
<1> DEFINE bz == UpdateParamsBytes(s, p)
           m == [Sender |-> s, Params |-> Proto(p)]
<1>1. bz \in DOMAIN UpdateRequest
  BY DEF UpdateRequest
<1>2. p \in NativeParams /\ s \in Seq(Byte)
  BY ServiceAssumption DEF NativeParams
<1>3. Proto(p) \in ParamsMessages /\ Native(Proto(p)) = p
  BY <1>2, NativeProto
<1>4. m \in MessagesOf("MsgUpdateParams")
  BY <1>2, <1>3 DEF MessagesOf, Bytes
<1>5. "MsgUpdateParams" \in MessageTypes
  BY DEF MessageTypes, Empty
<1>6. bz = MarshalMsg("MsgUpdateParams", m)
  BY ServiceCodecs, Zenon DEF UpdateParamsBytes
<1>7. Fits(bz)
  BY <1>1, LengthAssumption, Zenon
<1>8. m.Sender = s /\ m.Params = Proto(p)
  OBVIOUS
<1> HIDE DEF bz, m
<1>9. UnmarshalMsg("MsgUpdateParams", bz) = At(Len(bz), m, "")
  BY <1>4, <1>5, <1>6, <1>7, RoundTrip, Zenon DEF At
<1>10. At(Len(bz), m, "").m = m
  BY ReadFields, Zenon
<1>11. UpdateRequest[bz].m = m
  BY <1>1, <1>9, <1>10, UpdateRequestIs, Zenon
<1>12. Means(bz, s, p)
  BY <1>3, <1>8, <1>11, Zenon DEF Means
<1> QED
  BY <1>12 DEF bz

\* A query is answered with the parameters that were stored.
LEMMA QueryAnswered ==
    ASSUME NEW bz, NEW q, Stored(bz, q)
    PROVE  Native(QueryParamsAnswer(GetParams[bz].m).m.Params) = ParamsOf(bz)
<1> DEFINE m == [Params |-> q]
           b == QueryParamsResponseBytes(m)
<1>1. bz \in DOMAIN GetParams /\ q \in ParamsMessages
  BY Zenon DEF Stored
<1>2. GetParams[bz].m = q /\ ParamsOf(bz) = Native(q)
  BY StoredRead, Zenon
<1>3. m \in MessagesOf("QueryParamsResponse")
  BY <1>1 DEF MessagesOf
<1>4. "QueryParamsResponse" \in MessageTypes
  BY DEF MessageTypes, Empty
<1>5. b = MarshalMsg("QueryParamsResponse", m)
  BY ServiceCodecs, Zenon
<1>6. Fits(b)
  <2>1. Fits(QueryParamsResponseBytes([Params |-> GetParams[bz].m]))
    BY <1>1, LengthAssumption, Zenon
  <2> QED
    BY <1>2, <2>1, Zenon
<1>7. m.Params = q
  OBVIOUS
<1>8. QueryParamsAnswer(q) = UnmarshalMsg("QueryParamsResponse", b)
  BY ServiceReaders, Zenon
<1> HIDE DEF b, m
<1>9. UnmarshalMsg("QueryParamsResponse", b) = At(Len(b), m, "")
  BY <1>3, <1>4, <1>5, <1>6, RoundTrip, Zenon DEF At
<1>10. At(Len(b), m, "").m = m
  BY ReadFields, Zenon
<1>11. QueryParamsAnswer(q).m.Params = q
  BY <1>7, <1>8, <1>9, <1>10, Zenon
<1> QED
  BY <1>2, <1>11, Zenon

\* Stored bytes are not Nil, nor are the parameters read from them.
LEMMA StoredNotNil ==
    ASSUME NEW bz, NEW q, Stored(bz, q)
    PROVE  bz # Nil /\ ParamsOf(bz) # Nil
<1>1. q \in ParamsMessages /\ bz = MarshalMsg("Params", q) /\ ParamsOf(bz) = Native(q)
  BY StoredRead, ServiceCodecs, Zenon DEF Stored
<1>2. "Params" \in MessageTypes /\ q \in MessagesOf("Params")
  BY <1>1 DEF MessageTypes, Empty, MessagesOf
<1>3. bz \in Seq(Byte)
  BY <1>1, <1>2, MarshalParses
<1>4. Native(q) \in K!Params
  <2>1. Word \subseteq Nat
    BY HalfIsNat DEF Word
  <2>2. q.AllowedCodeIDs \in Seq(Nat)
    <3>1. q.AllowedCodeIDs \in Seq(Word)
      BY <1>1 DEF ParamsMessages
    <3> DEFINE l == q.AllowedCodeIDs
               n == Len(l)
    <3>2. n \in Nat /\ l = [i \in 1..n |-> l[i]] /\ \A i \in 1..n : l[i] \in Word
      BY <3>1
    <3>3. l \in [1..n -> Nat]
      BY <2>1, <3>2
    <3> HIDE DEF l, n
    <3>4. l \in Seq(Nat)
      BY <3>2, <3>3
    <3> QED
      BY <3>4 DEF l
  <2> QED
    BY <1>1, <2>1, <2>2 DEF ParamsMessages, Native, K!NewParams, K!Params
<1> QED
  BY <1>1, <1>3, <1>4, ServiceAssumption, Zenon

\* Every update on its way is one a client has asked for.
AskedInv ==
    \A bz : <<"MsgUpdateParams", bz>> \in network =>
        \E s, p : <<s, p>> \in asked /\ Means(bz, s, p)

\* Every step keeps that, if those who write bytes by hand know what they say.
LEMMA AskedStep ==
    ASSUME RawAsRead
    PROVE  AskedInv /\ [Next]_vars => AskedInv'
<1> SUFFICES ASSUME AskedInv, [Next]_vars PROVE AskedInv'
  OBVIOUS
<1>inv. \A bz : <<"MsgUpdateParams", bz>> \in network =>
            \E s, p : <<s, p>> \in asked /\ Means(bz, s, p)
  BY DEF AskedInv
<1>1. ASSUME NEW b, NEW s, NEW p, Means(b, s, p), Send("MsgUpdateParams", b),
             asked' = asked \cup {<<s, p>>}
      PROVE  AskedInv'
  <2>1. \A x, y : <<x, y>> \in asked \/ <<x, y>> = <<s, p>> => <<x, y>> \in asked'
    BY <1>1
  <2>2. \A bz : <<"MsgUpdateParams", bz>> \in network' =>
            <<"MsgUpdateParams", bz>> \in network \/ bz = b
    BY <1>1 DEF Send
  <2>3. <<s, p>> \in asked'
    BY <1>1
  <2>4. \A bz : <<"MsgUpdateParams", bz>> \in network' =>
            \E x, y : <<x, y>> \in asked' /\ Means(bz, x, y)
    BY <1>inv, <1>1, <2>1, <2>2, <2>3, Zenon
  <2> QED
    BY <2>4 DEF AskedInv
<1>2. ASSUME NEW s \in Senders, NEW p \in ParamsArgs, updateParamsCmd(s, p) PROVE AskedInv'
  BY <1>1, <1>2, UpdateMeans, Zenon DEF updateParamsCmd
<1>3. ASSUME NEW raw \in RawUpdates, RawUpdate(raw) PROVE AskedInv'
  <2>1. Means(raw.bz, raw.sender, raw.params)
    BY Zenon DEF RawAsRead, Means
  <2> QED
    BY <1>1, <1>3, <2>1, Zenon DEF RawUpdate
<1>4. ASSUME asked' = asked,
             \A bz : <<"MsgUpdateParams", bz>> \in network' => <<"MsgUpdateParams", bz>> \in network
      PROVE  AskedInv'
  BY <1>inv, <1>4, Zenon DEF AskedInv
<1>5. ASSUME NEW s \in Senders, NEW c \in CodeArgs, NEW salt \in SaltArgs, registerCmd(s, c, salt)
      PROVE  AskedInv'
  <2> DEFINE b == RegisterAccountBytes(RegisterAccountMsg(s, c, salt))
  <2>1. asked' = asked /\ network' = network \cup {<<"MsgRegisterAccount", b>>}
    BY <1>5, Zenon DEF registerCmd, Send
  <2> HIDE DEF b
  <2>2. \A bz : <<"MsgUpdateParams", bz>> \in network' => <<"MsgUpdateParams", bz>> \in network
    BY <2>1
  <2> QED
    BY <1>4, <2>1, <2>2, Zenon
<1>6. ASSUME asked' = asked, network' = network PROVE AskedInv'
  BY <1>4, <1>6, Zenon
<1>7. ASSUME NEW bz \in DOMAIN UpdateRequest, UpdateParams(bz) PROVE AskedInv'
  BY <1>6, <1>7, Zenon DEF UpdateParams
<1>8. ASSUME NEW sent \in network, RegisterAccount(sent[2]) PROVE AskedInv'
  BY <1>6, <1>8, Zenon DEF RegisterAccount
<1>9. Commit \/ Crash \/ QueryParams \/ UNCHANGED vars => AskedInv'
  BY <1>6, Zenon DEF Commit, Crash, QueryParams, vars
<1> QED
  BY <1>2, <1>3, <1>5, <1>7, <1>8, <1>9, Zenon DEF Next

\* The genesis state is an initial state of the register.
LEMMA RegisterInit == Init => Register!Init
<1> SUFFICES ASSUME Init PROVE Register!Init
  OBVIOUS
<1>1. /\ genesis \in GenesisParams /\ K!Validate(genesis) /\ deliverStore = SetParams(genesis)
      /\ commitStore = Nil /\ asked = {} /\ answers = {}
  BY DEF Init
<1>2. Stored(deliverStore, Proto(genesis)) /\ Native(Proto(genesis)) = genesis
  BY <1>1, GenesisStored, Zenon
<1>3. ParamsOf(deliverStore) = genesis
  BY <1>2, StoredRead, Zenon
<1> QED
  BY <1>1, <1>3, Zenon DEF Register!Init

\* Every step is one of the register's, or changes nothing it knows of.
LEMMA RegisterStep == ServiceInv /\ AskedInv /\ [Next]_vars => [Register!Next]_(Register!vars)
<1> SUFFICES ASSUME ServiceInv, AskedInv, [Next]_vars
             PROVE  Register!Next \/ UNCHANGED (Register!vars)
  OBVIOUS
<1>inv. /\ genesis \in GenesisParams /\ K!Validate(genesis)
        /\ \E q : Stored(deliverStore, q)
        /\ commitStore # Nil => \E q : Stored(commitStore, q)
  BY Zenon DEF ServiceInv
<1>1. ASSUME asked \subseteq asked', UNCHANGED <<genesis, deliverStore, commitStore, answers>>
      PROVE  Register!Ask
  BY <1>1, Zenon DEF Register!Ask
<1>2. ASSUME NEW s \in Senders, NEW p \in ParamsArgs, updateParamsCmd(s, p) PROVE Register!Ask
  <2>1. asked \subseteq asked' /\ UNCHANGED <<genesis, deliverStore, commitStore, answers>>
    BY <1>2, Zenon DEF updateParamsCmd
  <2> QED
    BY <1>1, <2>1, Zenon
<1>3. ASSUME NEW raw \in RawUpdates, RawUpdate(raw) PROVE Register!Ask
  <2>1. asked \subseteq asked' /\ UNCHANGED <<genesis, deliverStore, commitStore, answers>>
    BY <1>3, Zenon DEF RawUpdate
  <2> QED
    BY <1>1, <2>1, Zenon
<1>4. ASSUME UNCHANGED <<asked, genesis, deliverStore, commitStore, answers>>
      PROVE  UNCHANGED (Register!vars)
  BY <1>4, Zenon DEF Register!vars
<1>5. ASSUME NEW s \in Senders, NEW c \in CodeArgs, NEW salt \in SaltArgs, registerCmd(s, c, salt)
      PROVE  UNCHANGED (Register!vars)
  BY <1>4, <1>5, Zenon DEF registerCmd
<1>6. ASSUME NEW sent \in network, RegisterAccount(sent[2]) PROVE UNCHANGED (Register!vars)
  BY <1>4, <1>6, Zenon DEF RegisterAccount
<1>7. ASSUME NEW bz \in DOMAIN UpdateRequest, UpdateParams(bz) PROVE Register!Write
  <2> DEFINE r == UpdateRequest[bz]
             q == r.m.Params
  <2>1. /\ <<"MsgUpdateParams", bz>> \in network /\ r.err = "" /\ q # Nil
        /\ K!CanUpdateParams(r.m.Sender, Native(q)) /\ deliverStore' = ParamsBytes(q)
        /\ UNCHANGED <<asked, genesis, commitStore, answers>>
    BY <1>7, Zenon DEF UpdateParams
  <2>2. r.m.Sender = Authority /\ K!Validate(Native(q))
    BY <2>1, Zenon DEF K!CanUpdateParams
  <2>3. Stored(deliverStore', q)
    BY <2>1, <2>2, UpdateStored, Zenon
  <2>4. PICK s, p : <<s, p>> \in asked /\ Means(bz, s, p)
    BY <2>1, Zenon DEF AskedInv
  <2>5. s = r.m.Sender /\ p = Native(q)
    BY <2>1, <2>4, Zenon DEF Means
  <2> HIDE DEF r, q
  <2>6. ParamsOf(deliverStore') = Native(q)
    BY <2>3, StoredRead, Zenon
  <2>7. <<Authority, ParamsOf(deliverStore')>> \in asked
    BY <2>2, <2>4, <2>5, <2>6, Zenon
  <2>8. K!Validate(ParamsOf(deliverStore'))
    BY <2>2, <2>6, Zenon
  <2> QED
    BY <2>1, <2>7, <2>8, Zenon DEF Register!Write
<1>8. ASSUME Commit PROVE Register!Commit
  <2>1. commitStore' = deliverStore /\ UNCHANGED <<asked, genesis, deliverStore, answers>>
    BY <1>8, Zenon DEF Commit
  <2>2. deliverStore # Nil
    BY <1>inv, StoredNotNil, Zenon
  <2>3. (IF commitStore' = Nil THEN Nil ELSE ParamsOf(commitStore')) = ParamsOf(deliverStore)
    BY <2>1, <2>2
  <2> QED
    BY <2>1, <2>3, Zenon DEF Register!Commit
<1>9. ASSUME Crash PROVE Register!Restart
  <2>1. UNCHANGED <<asked, genesis, commitStore, answers>>
    BY <1>9, Zenon DEF Crash
  <2> DEFINE C == IF commitStore = Nil THEN Nil ELSE ParamsOf(commitStore)
  <2>2. ParamsOf(deliverStore') = IF C = Nil THEN genesis ELSE C
    <3>1. CASE commitStore = Nil
      <4>1. deliverStore' = SetParams(genesis) /\ C = Nil
        BY <1>9, <3>1 DEF Crash
      <4>2. ParamsOf(SetParams(genesis)) = genesis
        BY <1>inv, GenesisStored, StoredRead, Zenon
      <4> HIDE DEF C
      <4> QED
        BY <4>1, <4>2, Zenon
    <3>2. CASE commitStore # Nil
      <4>1. deliverStore' = commitStore /\ C = ParamsOf(commitStore)
        BY <1>9, <3>2 DEF Crash
      <4>2. ParamsOf(commitStore) # Nil
        BY <1>inv, <3>2, StoredNotNil, Zenon
      <4> HIDE DEF C
      <4> QED
        BY <4>1, <4>2, Zenon
    <3> QED
      BY <3>1, <3>2
  <2> QED
    BY <2>1, <2>2, Zenon DEF Register!Restart
<1>10. ASSUME QueryParams PROVE Register!Read
  <2>1. /\ commitStore # Nil
        /\ answers' = answers \cup {Native(QueryParamsAnswer(GetParams[commitStore].m).m.Params)}
        /\ UNCHANGED <<asked, genesis, deliverStore, commitStore>>
    BY <1>10, Zenon DEF QueryParams, QueryStore
  <2>2. PICK q : Stored(commitStore, q)
    BY <1>inv, <2>1, Zenon
  <2>3. ParamsOf(commitStore) # Nil
    BY <2>2, StoredNotNil, Zenon
  <2>4. answers' = answers \cup {ParamsOf(commitStore)}
    BY <2>1, <2>2, QueryAnswered, Zenon
  <2>5. (IF commitStore = Nil THEN Nil ELSE ParamsOf(commitStore)) = ParamsOf(commitStore)
    BY <2>1
  <2> QED
    BY <2>1, <2>3, <2>4, <2>5, Zenon DEF Register!Read
<1>11. CASE UNCHANGED vars
  BY <1>4, <1>11, Zenon DEF vars
<1> QED
  BY <1>2, <1>3, <1>5, <1>6, <1>7, <1>8, <1>9, <1>10, <1>11, Zenon DEF Next, Register!Next

\* The service implements the register: from whatever client and in whatever encoding
\* the parameters come (MsgServer.UpdateParams), only the authority's values, valid and
\* unchanged, get into the store, and the readers of Query/Params get the last block's.
\* Assumed is that who writes an encoding by hand knows what it means.
THEOREM RegisterImplemented ==
    ASSUME RawAsRead
    PROVE  Spec => ImplementsRegister
<1>1. Init => AskedInv
  BY DEF Init, AskedInv
<1>2. Spec => []AskedInv
  BY <1>1, AskedStep, PTL DEF Spec
<1> QED
  BY <1>2, RegisterInit, RegisterStep, ServiceInvariant, PTL
     DEF Spec, ImplementsRegister, Register!Spec
=============================================================================
