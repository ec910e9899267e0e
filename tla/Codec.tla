------------------------------- MODULE Codec --------------------------------
(***************************************************************************)
(* A byte string is unmarshalled into one of the module's messages, one    *)
(* turn of the generated loop after the other. The input is anything a     *)
(* store, a transaction or a peer may hold.                                *)
(***************************************************************************)
EXTENDS Messages

CONSTANTS
    Inputs,   \* for each message type the byte strings to read
    Samples,  \* for each message type some messages
    Unknown   \* fields of a later version of the messages

ASSUME InputsAssumption ==
    \A t \in MessageTypes :
        /\ \A bz \in Inputs[t] : bz \in Seq(Byte) /\ Fits(bz)
        /\ Samples[t] \subseteq MessagesOf(t)

VARIABLES
    type,  \* the type of the message
    dAtA,  \* the bytes
    cur,   \* the cursor: iNdEx, the message read so far, the error
    turns  \* history: the turns of the loop

codecVars == <<type, dAtA, cur, turns>>

-----------------------------------------------------------------------------
(* A field of a later version (external: the Protobuf wire format): a list of   *)
(* items, each with a tag and what is behind it. A group is an item that starts *)
(* it, the items in it and one that ends it.                                    *)

\* The bytes of a number, shortened or not.
IsVarint(bz) ==
    /\ Len(bz) \in 1..MaxVarintLen
    /\ \A k \in 1..Len(bz) : bz[k] < 128 <=> k = Len(bz)

\* What is behind the tag of an item: a number, 64 bits, bytes, nothing, 32 bits.
HasBody(x) ==
    CASE x.wireType = 0        -> IsVarint(x.body)
      [] x.wireType = 1        -> Len(x.body) = 8
      [] x.wireType = 2        -> TRUE
      [] x.wireType \in {3, 4} -> x.body = <<>>
      [] x.wireType = 5        -> Len(x.body) = 4

ItemBytes(x) ==
    Varint(8 * x.number + x.wireType)
        \o (IF x.wireType = 2 THEN Varint(Uint(Len(x.body))) \o x.body ELSE x.body)

\* The groups an item opens, and those that are open behind the first k items.
Opens(x) == CASE x.wireType = 3 -> 1 [] x.wireType = 4 -> -1 [] OTHER -> 0

Depth(u, k) == SumTo([j \in DOMAIN u |-> Opens(u[j])], k)

\* No message has a field with that number, and the field ends with the group it
\* starts with, if it starts with one.
IsLaterField(u) ==
    /\ u \in Seq([number : Nat, wireType : 0..5, body : Seq(Byte)]) \ {<<>>}
    /\ \A k \in DOMAIN u : HasBody(u[k]) /\ 8 * u[k].number + u[k].wireType \in Word
    /\ u[1].number \in 6..(2^(FieldBits - 1) - 1)
    /\ \A k \in DOMAIN u : IF k < Len(u) THEN Depth(u, k) > 0 ELSE Depth(u, k) = 0

ASSUME UnknownAssumption == \A u \in Unknown : IsLaterField(u)

LaterBytes(u) == FlattenSeq([k \in DOMAIN u |-> ItemBytes(u[k])])

-----------------------------------------------------------------------------
CodecInit ==
    /\ type \in MessageTypes
    /\ dAtA \in Inputs[type]
    /\ cur = Start(Empty[type])
    /\ turns = 0

ReadField ==
    /\ ~Finished(cur, dAtA)
    /\ cur' = Turn(type, cur, dAtA, ReadTag(cur, dAtA))
    /\ turns' = turns + 1
    /\ UNCHANGED <<type, dAtA>>

CodecNext == ReadField

CodecSpec == CodecInit /\ [][CodecNext]_codecVars

-----------------------------------------------------------------------------
(* Properties *)

Accepted == cur.i >= Len(dAtA) /\ cur.err = ""

\* The index never leaves dAtA, whatever lengths and tags the bytes claim: no slice
\* of a case of Unmarshal or of skip is out of range.
IndexStaysInside ==
    /\ type \in MessageTypes
    /\ cur.i \in 0..Len(dAtA)
    /\ cur.err \in Errors \cup {"", "coin"}
    /\ cur.m \in MessagesOf(type)
    /\ turns \in Nat

\* Unmarshal comes to an end on every input, after as many turns as there are bytes
\* at most: every field takes a byte at least, also one that is stepped over.
EveryTurnTakesAByte == (cur.err = "" => turns <= cur.i) /\ turns <= Len(dAtA)

\* Whatever was accepted can be stored and sent on: Size foresees exactly the bytes
\* MarshalToSizedBuffer writes from the end of the buffer (otherwise Marshal panics
\* or returns the wrong end of it), and reading them back gives the same message,
\* even if the bytes it came from were not the ones Marshal would have written.
ReencodesFaithfully ==
    Accepted /\ Fits(BodyOf(type, cur.m)) =>
        /\ ~MarshalPanics(SizeOf(type, cur.m), BodyOf(type, cur.m))
        /\ UnmarshalMsg(type, MarshalMsg(type, cur.m)) =
               [cur EXCEPT !.i = Len(MarshalMsg(type, cur.m))]

\* A message with fields of a later version in front of it or behind it reads like
\* the message without them: skip finds the end of a field of every wire type,
\* groups in groups included.
UnknownFieldsIgnored ==
    Accepted => \A u \in Unknown :
        \A bz \in {dAtA \o LaterBytes(u), LaterBytes(u) \o dAtA} :
            Fits(bz) => UnmarshalMsg(type, bz) = [cur EXCEPT !.i = Len(bz)]

\* The Protobuf merge of two messages: fields that are set in the second replace
\* those of the first, repeated fields are joined, messages are merged.
MergeFields(m, n, zero) ==
    [f \in DOMAIN m |-> IF f \in {"AllowedCodeIDs", "Funds"} THEN m[f] \o n[f]
                        ELSE IF n[f] = zero[f] THEN m[f] ELSE n[f]]

Merge(t, m, n) ==
    LET merged == MergeFields(m, n, Empty[t])
    IN  IF "Params" \in DOMAIN m /\ m.Params # Nil /\ n.Params # Nil
        THEN [merged EXCEPT !.Params = MergeFields(m.Params, n.Params, EmptyParams)]
        ELSE merged

\* Two encodings one after the other read like the merge of the two messages: a
\* field that occurs again replaces the number or the bytes, adds to the list and
\* is merged into the parameters, and nothing of the first value shines through.
ConcatenationMerges ==
    Accepted => \A n \in Samples[type] :
        Fits(dAtA \o BodyOf(type, n)) =>
            LET bz == dAtA \o MarshalMsg(type, n)
            IN  UnmarshalMsg(type, bz) =
                    [i |-> Len(bz), m |-> Merge(type, cur.m, n), err |-> ""]
=============================================================================
