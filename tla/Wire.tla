-------------------------------- MODULE Wire --------------------------------
(***************************************************************************)
(* The Protobuf wire format as the generated code of types/*.pb.go reads   *)
(* and writes it. Every one of those files carries its own copy of these   *)
(* helpers (sovParams, sovTx, skipParams, skipTx, ...); one copy of each   *)
(* is modelled, the one of params.pb.go unless another is named.           *)
(*                                                                         *)
(* Bytes are numbers, byte strings are sequences of them. An index into a  *)
(* byte string counts from 0 as in Go: dAtA[i] is dAtA[i + 1] here. Words  *)
(* have WordBits bits; an int is a word read as a signed number.           *)
(***************************************************************************)
EXTENDS Integers, SequencesExt

CONSTANTS
    WordBits,   \* bits of uint64 and int: 64
    FieldBits   \* bits of int32, to which a field number is truncated: 32

ASSUME WireAssumption ==
    /\ WordBits \in Nat /\ FieldBits \in Nat
    /\ 0 < FieldBits /\ FieldBits < WordBits

\* Groups of 7 bits in a word: a varint whose first bytes all say that more is to
\* come is given up when shift >= 64.
MaxVarintLen == (WordBits + 6) \div 7

\* Arithmetic: powers of two double and grow, and 7 bits are a digit to the base 128.
ASSUME PowerAssumption ==
    /\ 2^WordBits = 2 * 2^(WordBits - 1)
    /\ 2^FieldBits = 2 * 2^(FieldBits - 1)
    /\ \A n \in 0..(WordBits + 6) :
           2^n \in Nat \ {0} /\ \A m \in 0..n : 2^m <= 2^n
    /\ 128^0 = 1
    /\ \A k \in 0..MaxVarintLen : 128^k = 2^(7 * k) /\ 128^(k + 1) = 128 * 128^k

Byte == 0..255
Word == 0..(2^WordBits - 1)

\* int(x) of a word of n bits.
Signed(x, n) == IF x >= 2^(n - 1) THEN x - 2^n ELSE x

\* The sum of two ints that are not negative, which may wrap around.
AddInt(x, y) == Signed((x + y) % 2^WordBits, WordBits)

\* uint64(n) of an int that is not negative.
Uint(n) == n % 2^WordBits

\* An int can count the bytes of a byte slice: its length and the eight bytes of a
\* fixed64 behind its end do not overflow.
Fits(bz) == Len(bz) + 8 < 2^(WordBits - 1)

\* The sum of the first n numbers of a.
SumTo(a, n) ==
    LET sum[k \in 0..n] == IF k = 0 THEN 0 ELSE sum[k - 1] + a[k]
    IN  sum[n]

-----------------------------------------------------------------------------
(* Writing: a buffer is filled from its end, tail is what it holds so far *)

\* math/bits.Len64 (external)
Len64(x) == CHOOSE n \in 0..WordBits : x < 2^n /\ (n > 0 => x >= 2^(n - 1))

\* The number of bytes of the varint of x.
sov(x) == (Len64(IF x % 2 = 0 THEN x + 1 ELSE x) + 6) \div 7

\* The bytes the loop of encodeVarint writes.
Varint(v) ==
    LET n == CHOOSE k \in 1..MaxVarintLen : v < 128^k /\ (k > 1 => v >= 128^(k - 1))
        Group(k) == v \div 128^(k - 1)
    IN  [k \in 1..n |-> IF k < n THEN 128 + (Group(k) % 128) ELSE Group(k)]

\* The varint is written forward from an offset sov(v) before the tail, whatever
\* its length turns out to be.
encodeVarint(v, tail) ==
    LET g == Varint(v)
    IN  [j \in 1..(sov(v) + Len(tail)) |->
            IF j <= Len(g) THEN g[j] ELSE IF j <= sov(v) THEN 0 ELSE tail[j - sov(v)]]

\* One field in front of the tail, left out if it has the zero value.
PutUint(tag, v, tail) == IF v = 0 THEN tail ELSE <<tag>> \o encodeVarint(v, tail)

PutBool(tag, v, tail) == IF v THEN <<tag, 1>> \o tail ELSE tail

\* A length-delimited field, written even if it is empty.
PutPayload(tag, bz, tail) == <<tag>> \o encodeVarint(Uint(Len(bz)), bz \o tail)

PutBytes(tag, bz, tail) == IF bz = <<>> THEN tail ELSE PutPayload(tag, bz, tail)

PutPacked(tag, list, tail) ==
    PutBytes(tag, FlattenSeq([k \in DOMAIN list |-> Varint(list[k])]), tail)

\* What Size adds for a field.
SizeUint(v) == IF v = 0 THEN 0 ELSE 1 + sov(v)

SizeBool(v) == IF v THEN 2 ELSE 0

SizePayload(n) == 1 + n + sov(Uint(n))

SizeBytes(bz) == IF bz = <<>> THEN 0 ELSE SizePayload(Len(bz))

\* Mutant: counts the numbers, not their bytes.
SizePackedCounts(list) == IF list = <<>> THEN 0 ELSE SizePayload(Len(list))

SizePacked(list) ==
    IF list = <<>> THEN 0
    ELSE SizePayload(SumTo([k \in DOMAIN list |-> sov(list[k])], Len(list)))

\* Marshal allocates size zero bytes, lets MarshalToSizedBuffer fill them from the
\* end and returns the first n, the number of bytes written. A buffer too small
\* makes an index negative and panics.
MarshalPanics(size, body) == Len(body) > size

Marshal(size, body) ==
    LET buffer == [j \in 1..(size - Len(body)) |-> 0] \o body
    IN  SubSeq(buffer, 1, Len(body))

-----------------------------------------------------------------------------
(* Reading: a cursor is [i |-> iNdEx, m |-> the message so far, err |-> "" or *)
(* the error that was returned]                                               *)

EOF == "io.ErrUnexpectedEOF"
IntOverflow == "ErrIntOverflow"
InvalidLength == "ErrInvalidLength"
EndOfGroup == "ErrUnexpectedEndOfGroup"
WrongWireType == "wrong wireType"
IllegalTag == "illegal tag"

Errors == {EOF, IntOverflow, InvalidLength, EndOfGroup, WrongWireType, IllegalTag}

\* The cursors of a message type, M being the set of its messages. "coin" is an error
\* of the SDK's Coin.
Cursors(M) == [i : Int, m : M, err : Errors \cup {"", "coin"}]

\* The state of a loop that starts in s after n turns. A turn leaves a state in which
\* the loop has ended as it is.
Repeat(turn, s, n) ==
    LET after[k \in 0..n] == IF k = 0 THEN s ELSE turn[after[k - 1]]
    IN  after[n]

Fail(s, e) == [s EXCEPT !.err = e]

\* The value of the n bytes of d from index i on: bits beyond the word are lost.
VarintValue(d, i, n) ==
    SumTo([k \in 1..n |-> (d[i + k] % 128) * 128^(k - 1)], n) % 2^WordBits

\* The length of the varint at index i, 0 if it does not end.
VarintLen(d, i) ==
    LET ends == {k \in 1..MaxVarintLen : i + k <= Len(d) /\ d[i + k] < 128}
    IN  IF ends = {} THEN 0 ELSE CHOOSE k \in ends : \A j \in ends : k <= j

\* The varint of n bytes at index i and the index behind it.
VarintAt(d, i, n) ==
    [err |-> IF n > 0 THEN ""
             ELSE IF Len(d) - i < MaxVarintLen THEN EOF ELSE IntOverflow,
     val |-> VarintValue(d, i, n),
     i   |-> i + n]

ReadVarint(d, i) == VarintAt(d, i, VarintLen(d, i))

LengthError(d, length, postIndex) ==
    IF length < 0 \/ postIndex < 0 THEN InvalidLength
    ELSE IF postIndex > Len(d) THEN EOF
    ELSE ""

\* The payload of a length-delimited field behind its length, the varint v:
\* dAtA[from:to].
Payload(d, v, wireType) ==
    LET length == Signed(v.val, WordBits)
        postIndex == AddInt(v.i, length)
    IN  [err  |-> IF wireType # 2 THEN WrongWireType
                  ELSE IF v.err # "" THEN v.err
                  ELSE LengthError(d, length, postIndex),
         from |-> v.i,
         to   |-> postIndex]

ReadPayload(d, i, wireType) == Payload(d, ReadVarint(d, i), wireType)

Slice(d, from, to) == SubSeq(d, from + 1, to)

-----------------------------------------------------------------------------
(* Unknown fields *)

\* Mutant: a fixed64 is taken for a fixed32.
Fixed64Narrow == 4

Fixed64 == 8
Fixed32 == 4

\* One field of skip's loop, with tag t and the varint v behind it (which only some
\* wire types have): a field's bytes are stepped over, a group is stepped into. The
\* bounds of what is stepped over are left to the caller.
SkipField(s, t, v) ==
    LET wireType == t.val % 8
        length == Signed(v.val, WordBits)
        depth == CASE wireType = 3 -> s.depth + 1
                   [] wireType = 4 -> s.depth - 1
                   [] OTHER        -> s.depth
    IN  [i     |-> CASE wireType = 0 -> v.i
                     [] wireType = 1 -> t.i + Fixed64
                     [] wireType = 2 -> AddInt(v.i, length)
                     [] wireType = 5 -> t.i + Fixed32
                     [] OTHER        -> t.i,
         depth |-> depth,
         done  |-> depth = 0,
         err   |-> IF t.err # "" THEN t.err
                   ELSE IF wireType \in {0, 2} /\ v.err # "" THEN v.err
                   ELSE IF wireType = 2 /\ (length < 0 \/ AddInt(v.i, length) < 0)
                        THEN InvalidLength
                   ELSE IF wireType = 4 /\ s.depth = 0 THEN EndOfGroup
                   ELSE IF wireType > 5 THEN WrongWireType
                   ELSE ""]

SkipTagged(s, d, t) == SkipField(s, t, ReadVarint(d, t.i))

\* The states of skip's loop.
SkipStates == [i : Int, depth : Int, done : BOOLEAN, err : Errors \cup {""}]

\* The field at the start of d, a group with all that is in it: it ends as soon as
\* no group is open. Every turn takes a byte, the last one may find that there is none.
skip(d) ==
    LET turn == [s \in SkipStates |->
            IF s.err # "" \/ s.done THEN s
            ELSE IF s.i >= Len(d) THEN Fail(s, EOF)
            ELSE SkipTagged(s, d, ReadVarint(d, s.i))]
    IN  Repeat(turn, [i |-> 0, depth |-> 0, done |-> FALSE, err |-> ""], Len(d) + 1)

\* Mutant: the index is put back to preIndex and stays there.
SkipUnknownStuck(s, d, preIndex) == [s EXCEPT !.i = preIndex]

\* Mutant: the end of the data is not looked at.
SkipUnknownUnbounded(s, d, preIndex) ==
    LET k == skip(Slice(d, preIndex, Len(d)))
    IN  IF k.err # "" THEN Fail(s, k.err) ELSE [s EXCEPT !.i = preIndex + k.i]

\* The default branch of every Unmarshal: the field at preIndex, of which skip says
\* k, is stepped over.
StepOver(s, d, preIndex, k) ==
    IF k.err # "" THEN Fail(s, k.err)
    ELSE IF k.i < 0 \/ AddInt(preIndex, k.i) < 0 THEN Fail(s, InvalidLength)
    ELSE IF AddInt(preIndex, k.i) > Len(d) THEN Fail(s, EOF)
    ELSE [s EXCEPT !.i = preIndex + k.i]

SkipUnknown(s, d, preIndex) == StepOver(s, d, preIndex, skip(Slice(d, preIndex, Len(d))))

-----------------------------------------------------------------------------
(* Known fields: the case of a switch fieldNum, the cursor behind the tag. A  *)
(* failed field may leave the message half read; no caller looks at it then.  *)

\* What a field holds once its varint v (its payload p) has been read: a number, a
\* truth value, a list with one number more, bytes. A nil and an empty byte string
\* are not told apart.
SetUint(s, f, v) ==
    IF v.err # "" THEN Fail(s, v.err) ELSE [s EXCEPT !.i = v.i, !.m[f] = v.val]

SetBool(s, f, v) ==
    IF v.err # "" THEN Fail(s, v.err) ELSE [s EXCEPT !.i = v.i, !.m[f] = v.val # 0]

AddUint(s, f, v) ==
    IF v.err # "" THEN Fail(s, v.err)
    ELSE [s EXCEPT !.i = v.i, !.m[f] = Append(@, v.val)]

SetBytes(s, d, f, p) ==
    IF p.err # "" THEN Fail(s, p.err)
    ELSE [s EXCEPT !.i = p.to, !.m[f] = Slice(d, p.from, p.to)]

UintField(s, d, wireType, f) ==
    IF wireType # 0 THEN Fail(s, WrongWireType) ELSE SetUint(s, f, ReadVarint(d, s.i))

BoolField(s, d, wireType, f) ==
    IF wireType # 0 THEN Fail(s, WrongWireType) ELSE SetBool(s, f, ReadVarint(d, s.i))

BytesField(s, d, wireType, f) == SetBytes(s, d, f, ReadPayload(d, s.i, wireType))

\* A packed run of numbers with payload p. The last varint is read up to the end of
\* dAtA, beyond the end of the run if need be.
AddPacked(s, d, f, p, M) ==
    LET turn == [c \in Cursors(M) |->
            IF c.err # "" \/ c.i >= p.to THEN c
            ELSE AddUint(c, f, ReadVarint(d, c.i))]
    IN  IF p.err # "" THEN Fail(s, p.err)
        ELSE Repeat(turn, [s EXCEPT !.i = p.from], p.to - p.from)

\* A repeated uint64, packed or not.
PackedField(s, d, wireType, f, M) ==
    IF wireType = 0 THEN AddUint(s, f, ReadVarint(d, s.i))
    ELSE AddPacked(s, d, f, ReadPayload(d, s.i, wireType), M)

-----------------------------------------------------------------------------
(* Messages *)

\* The start of a turn of the loop of an Unmarshal: the tag t of the field at the
\* cursor s. The cursor moves behind it; fieldNum is 0 if there is an error.
Tag(s, t) ==
    LET fieldNum == Signed((t.val \div 8) % 2^FieldBits, FieldBits)
        wireType == t.val % 8
        e == IF t.err # "" THEN t.err
             ELSE IF wireType = 4 THEN EndOfGroup
             ELSE IF fieldNum <= 0 THEN IllegalTag
             ELSE ""
    IN  [fieldNum |-> IF e = "" THEN fieldNum ELSE 0, wireType |-> wireType,
         behind |-> [s EXCEPT !.i = t.i, !.err = e]]

ReadTag(s, d) == Tag(s, ReadVarint(d, s.i))

Start(m) == [i |-> 0, m |-> m, err |-> ""]

Finished(s, d) == s.err # "" \/ s.i >= Len(d)

\* What an Unmarshal returns when its loop has ended at s.
Returned(s, d) == IF s.i > Len(d) THEN Fail(s, EOF) ELSE s

\* An Unmarshal as a whole, from message m on; Turn is one turn of its loop.
Unmarshal(m, d, M, Turn(_, _, _)) ==
    LET turn == [s \in Cursors(M) |->
            IF Finished(s, d) THEN s ELSE Turn(s, d, ReadTag(s, d))]
    IN  Returned(Repeat(turn, Start(m), Len(d)), d)
=============================================================================
