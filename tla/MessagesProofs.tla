--------------------------- MODULE MessagesProofs ---------------------------
(***************************************************************************)
(* What the generated Unmarshal and Marshal functions do, for words of any *)
(* width and any byte strings and messages.                                *)
(*                                                                         *)
(* Reading: whatever tags and lengths a string claims, a turn of each      *)
(* Unmarshal leaves the index inside the string, the message in its type,  *)
(* and takes a byte at least unless it fails. The loops of skip, of a      *)
(* packed list and of a nested Params.Unmarshal have ended after the turns *)
(* the model gives them (SkipEnds, AddPackedReads, UnmarshalParamsEnds).   *)
(* A turn reads the same of a string as of a longer one that has it        *)
(* inside.                                                                 *)
(*                                                                         *)
(* Writing: what MarshalToSizedBuffer writes has the length Size says, and *)
(* a reader that comes to it with message m goes on behind it with m and   *)
(* the written message merged (Writes; one lemma ...Written per type).     *)
(***************************************************************************)
EXTENDS Messages, SequenceTheorems, WellFoundedInduction, TLAPS

-----------------------------------------------------------------------------
(* Induction and loops *)

\* A set of numbers has a least element.
LEMMA LeastNumber ==
    ASSUME NEW T, T \subseteq Nat, T # {}
    PROVE  \E m \in T : \A k \in T : m <= k
<1> DEFINE R == OpToRel(<, Nat)
<1>1. IsWellFoundedOn(R, Nat)
  BY NatLessThanWellFounded
<1>2. \A x, y \in Nat : x < y => <<x, y>> \in R
  BY DEF OpToRel
<1> HIDE DEF R
<1>3. PICK m \in T : \A y \in T : ~(<<y, m>> \in R)
  BY <1>1, WFMin
<1>4. \A k \in T : ~(k < m)
  BY <1>2, <1>3
<1>5. \A k \in T : k \in Nat
  OBVIOUS
<1>6. \A k \in T : m <= k
  BY <1>4, <1>5
<1> QED
  BY <1>6

\* A set that has 0, and with every number the next, has all of them.
LEMMA SetInduction ==
    ASSUME NEW P, 0 \in P, \A n \in Nat : n \in P => n + 1 \in P
    PROVE  \A n \in Nat : n \in P
<1> SUFFICES ASSUME NEW n \in Nat, n \notin P PROVE FALSE
  OBVIOUS
<1> DEFINE T == {k \in Nat : k \notin P}
<1>1. PICK m \in T : \A k \in T : m <= k
  BY LeastNumber
<1>2. m \in Nat /\ m # 0 /\ m - 1 \in Nat
  BY <1>1
<1>3. m - 1 \in P
  BY <1>1, <1>2
<1>4. (m - 1) + 1 \in P
  BY <1>2, <1>3
<1> QED
  BY <1>1, <1>2, <1>4

\* f lists the states of a loop that starts in s, over n turns.
Trace(f, turn, s, n) ==
    /\ f = [k \in 0..n |-> f[k]]
    /\ f[0] = s
    /\ \A k \in 1..n : f[k] = turn[f[k - 1]]

\* There is such a list for any turn.
LEMMA TraceExists ==
    ASSUME NEW turn, NEW s, NEW n \in Nat
    PROVE  \E f : Trace(f, turn, s, n)
<1> DEFINE P == {k \in Nat : \E f : Trace(f, turn, s, k)}
<1>1. 0 \in P
  <2>1. Trace([k \in 0..0 |-> s], turn, s, 0)
    BY DEF Trace
  <2> QED
    BY <2>1
<1>2. \A k \in Nat : k \in P => k + 1 \in P
  <2> SUFFICES ASSUME NEW k \in Nat, k \in P PROVE k + 1 \in P
    OBVIOUS
  <2>1. PICK f : Trace(f, turn, s, k)
    OBVIOUS
  <2> DEFINE g == [j \in 0..(k + 1) |-> IF j <= k THEN f[j] ELSE turn[f[k]]]
  <2>2. g = [j \in 0..(k + 1) |-> g[j]]
    OBVIOUS
  <2>3. g[0] = s /\ \A j \in 1..(k + 1) : g[j] = turn[g[j - 1]]
    <3>1. f[0] = s /\ \A j \in 1..k : f[j] = turn[f[j - 1]]
      BY <2>1 DEF Trace
    <3> QED
      BY <3>1
  <2> HIDE DEF g
  <2>4. Trace(g, turn, s, k + 1)
    BY <2>2, <2>3 DEF Trace
  <2> QED
    BY <2>4
<1> HIDE DEF P
<1>3. n \in P
  BY <1>1, <1>2, SetInduction
<1> QED
  BY <1>3 DEF P

\* Repeat is the last state of such a list.
LEMMA RepeatTrace ==
    ASSUME NEW turn, NEW s, NEW n \in Nat
    PROVE  \E f : Trace(f, turn, s, n) /\ Repeat(turn, s, n) = f[n]
<1> DEFINE Rec(f) == f = [k \in 0..n |-> IF k = 0 THEN s ELSE turn[f[k - 1]]]
           after == CHOOSE f : Rec(f)
<1>1. PICK g : Trace(g, turn, s, n)
  BY TraceExists
<1>2. Rec(g)
  <2>1. \A k \in 0..n : g[k] = IF k = 0 THEN s ELSE turn[g[k - 1]]
    <3>1. g[0] = s /\ \A k \in 1..n : g[k] = turn[g[k - 1]]
      BY <1>1, Zenon DEF Trace
    <3> QED
      BY <3>1
  <2>2. g = [k \in 0..n |-> g[k]]
    BY <1>1, Zenon DEF Trace
  <2>3. [k \in 0..n |-> g[k]] = [k \in 0..n |-> IF k = 0 THEN s ELSE turn[g[k - 1]]]
    BY <2>1, Zenon
  <2> QED
    BY <2>2, <2>3, Zenon
<1>3. Rec(after)
  BY <1>2
<1>4. Repeat(turn, s, n) = after[n]
  BY DEF Repeat
<1> HIDE DEF after
<1>5. Trace(after, turn, s, n)
  BY <1>3 DEF Trace
<1> QED
  BY <1>4, <1>5

\* What holds of the number of turns and the state at the start of a loop, and is kept
\* by every turn, holds at its end.
LEMMA RepeatInduction ==
    ASSUME NEW turn, NEW s, NEW n \in Nat, NEW J, <<0, s>> \in J,
           \A k \in 0..(n - 1) : \A x : <<k, x>> \in J => <<k + 1, turn[x]>> \in J
    PROVE  <<n, Repeat(turn, s, n)>> \in J
<1>1. PICK f : Trace(f, turn, s, n) /\ Repeat(turn, s, n) = f[n]
  BY RepeatTrace
<1> DEFINE P == {k \in Nat : k <= n => <<k, f[k]>> \in J}
<1>2. 0 \in P
  BY <1>1 DEF Trace
<1>3. ASSUME NEW k \in Nat, k \in P PROVE k + 1 \in P
  <2>1. CASE k + 1 <= n
    <3>1. f[k + 1] = turn[f[k]]
      <4>1. k + 1 \in 1..n /\ (k + 1) - 1 = k
        BY <2>1
      <4> QED
        BY <1>1, <4>1 DEF Trace
    <3>2. k \in 0..(n - 1) /\ <<k, f[k]>> \in J
      BY <1>3, <2>1
    <3> QED
      BY <3>1, <3>2
  <2> QED
    BY <2>1
<1> HIDE DEF P
<1>4. n \in P
  BY <1>2, <1>3, SetInduction
<1> QED
  BY <1>1, <1>4 DEF P

\* Two lists of the states of a loop begin alike.
LEMMA TraceUnique ==
    ASSUME NEW turn, NEW s, NEW n \in Nat, NEW m \in Nat, m <= n,
           NEW f, Trace(f, turn, s, n), NEW g, Trace(g, turn, s, m)
    PROVE  f[m] = g[m]
<1> DEFINE P == {k \in Nat : k <= m => f[k] = g[k]}
<1>1. f[0] = s /\ \A k \in 1..n : f[k] = turn[f[k - 1]]
  BY Zenon DEF Trace
<1>2. g[0] = s /\ \A k \in 1..m : g[k] = turn[g[k - 1]]
  BY Zenon DEF Trace
<1>3. 0 \in P
  BY <1>1, <1>2
<1>4. ASSUME NEW k \in Nat, k \in P PROVE k + 1 \in P
  <2>1. k + 1 <= m => k + 1 \in 1..m /\ k + 1 \in 1..n /\ (k + 1) - 1 = k /\ k <= m
    OBVIOUS
  <2> QED
    BY <1>1, <1>2, <1>4, <2>1
<1> HIDE DEF P
<1>5. m \in P
  BY <1>3, <1>4, SetInduction
<1> QED
  BY <1>5 DEF P

\* The equations of Repeat.
LEMMA RepeatStep ==
    ASSUME NEW turn, NEW s, NEW n \in Nat
    PROVE  Repeat(turn, s, 0) = s /\ Repeat(turn, s, n + 1) = turn[Repeat(turn, s, n)]
<1>1. PICK z : Trace(z, turn, s, 0) /\ Repeat(turn, s, 0) = z[0]
  BY RepeatTrace
<1>2. PICK f : Trace(f, turn, s, n + 1) /\ Repeat(turn, s, n + 1) = f[n + 1]
  <2>1. n + 1 \in Nat
    OBVIOUS
  <2> QED
    BY <2>1, RepeatTrace
<1>3. PICK g : Trace(g, turn, s, n) /\ Repeat(turn, s, n) = g[n]
  BY RepeatTrace
<1>4. f[n] = g[n]
  <2>1. n + 1 \in Nat /\ n <= n + 1
    OBVIOUS
  <2> QED
    BY <1>2, <1>3, <2>1, TraceUnique
<1>5. f[n + 1] = turn[f[n]]
  <2>1. \A k \in 1..(n + 1) : f[k] = turn[f[k - 1]]
    BY <1>2, Zenon DEF Trace
  <2>2. n + 1 \in 1..(n + 1) /\ (n + 1) - 1 = n
    OBVIOUS
  <2> QED
    BY <2>1, <2>2
<1>6. Repeat(turn, s, 0) = s
  BY <1>1, Zenon DEF Trace
<1> QED
  BY <1>2, <1>3, <1>4, <1>5, <1>6

\* The turns of a loop one after the other.
LEMMA RepeatAdd ==
    ASSUME NEW turn, NEW s, NEW n \in Nat, NEW m \in Nat
    PROVE  Repeat(turn, s, n + m) = Repeat(turn, Repeat(turn, s, n), m)
<1> DEFINE x == Repeat(turn, s, n)
           P == {k \in Nat : Repeat(turn, s, n + k) = Repeat(turn, x, k)}
<1>1. 0 \in P
  BY RepeatStep
<1>2. ASSUME NEW k \in Nat, k \in P PROVE k + 1 \in P
  <2>1. Repeat(turn, x, k + 1) = turn[Repeat(turn, x, k)]
    BY RepeatStep
  <2>2. n + k \in Nat /\ n + (k + 1) = (n + k) + 1
    OBVIOUS
  <2>3. Repeat(turn, s, (n + k) + 1) = turn[Repeat(turn, s, n + k)]
    BY <2>2, RepeatStep
  <2> QED
    BY <1>2, <2>1, <2>2, <2>3
<1> HIDE DEF P
<1>3. m \in P
  BY <1>1, <1>2, SetInduction
<1> QED
  BY <1>3 DEF P

\* A state that a turn leaves as it is stays.
LEMMA RepeatFixed ==
    ASSUME NEW turn, NEW x, turn[x] = x, NEW n \in Nat
    PROVE  Repeat(turn, x, n) = x
<1> DEFINE P == {k \in Nat : Repeat(turn, x, k) = x}
<1>1. 0 \in P
  BY RepeatStep
<1>2. ASSUME NEW k \in Nat, k \in P PROVE k + 1 \in P
  BY <1>2, RepeatStep
<1> HIDE DEF P
<1>3. n \in P
  BY <1>1, <1>2, SetInduction
<1> QED
  BY <1>3 DEF P

\* The loop comes from x to y.
Leads(turn, x, y) == \E n \in Nat : Repeat(turn, x, n) = y

\* No turn, one turn, and turns one after the other.
LEMMA LeadsTo ==
    ASSUME NEW turn
    PROVE  /\ \A x : Leads(turn, x, x) /\ Leads(turn, x, turn[x])
           /\ \A x, y, z : Leads(turn, x, y) /\ Leads(turn, y, z) => Leads(turn, x, z)
<1>1. ASSUME NEW x PROVE Leads(turn, x, x) /\ Leads(turn, x, turn[x])
  <2>1. 0 \in Nat /\ 0 + 1 \in Nat
    OBVIOUS
  <2>2. Repeat(turn, x, 0) = x /\ Repeat(turn, x, 0 + 1) = turn[x]
    BY RepeatStep
  <2> QED
    BY <2>1, <2>2 DEF Leads
<1>2. ASSUME NEW x, NEW y, NEW z, Leads(turn, x, y), Leads(turn, y, z)
      PROVE  Leads(turn, x, z)
  <2>1. PICK n \in Nat : Repeat(turn, x, n) = y
    BY <1>2 DEF Leads
  <2>2. PICK m \in Nat : Repeat(turn, y, m) = z
    BY <1>2 DEF Leads
  <2>3. Repeat(turn, x, n + m) = z /\ n + m \in Nat
    BY <2>1, <2>2, RepeatAdd
  <2> QED
    BY <2>3 DEF Leads
<1> QED
  BY <1>1, <1>2

\* There is one state in which a loop ends.
LEMMA LeadsToOneEnd ==
    ASSUME NEW turn, NEW s, NEW x, Leads(turn, s, x), turn[x] = x,
           NEW y, Leads(turn, s, y), turn[y] = y
    PROVE  x = y
<1>1. PICK n \in Nat : Repeat(turn, s, n) = x
  BY DEF Leads
<1>2. PICK m \in Nat : Repeat(turn, s, m) = y
  BY DEF Leads
<1>3. CASE n <= m
  <2>1. m - n \in Nat /\ n + (m - n) = m
    BY <1>3
  <2>2. Repeat(turn, s, n + (m - n)) = Repeat(turn, x, m - n)
    BY <1>1, <2>1, RepeatAdd
  <2>3. Repeat(turn, x, m - n) = x
    BY <2>1, RepeatFixed
  <2> QED
    BY <1>2, <2>1, <2>2, <2>3
<1>4. CASE m <= n
  <2>1. n - m \in Nat /\ m + (n - m) = n
    BY <1>4
  <2>2. Repeat(turn, s, m + (n - m)) = Repeat(turn, y, n - m)
    BY <1>2, <2>1, RepeatAdd
  <2>3. Repeat(turn, y, n - m) = y
    BY <2>1, RepeatFixed
  <2> QED
    BY <1>1, <2>1, <2>2, <2>3
<1> QED
  BY <1>3, <1>4

\* One loop follows another as long as its states are in G: then each of its states
\* x is at[x] in the other.
LEMMA LeadsAlong ==
    ASSUME NEW turn, NEW other, NEW at, NEW X, NEW G,
           \A x \in X : turn[x] \in X,
           \A x \in X : turn[x] \in G => x \in G /\ other[at[x]] = at[turn[x]],
           NEW s \in X, NEW n \in Nat, Repeat(turn, s, n) \in G
    PROVE  Repeat(other, at[s], n) = at[Repeat(turn, s, n)]
<1> DEFINE R(k) == Repeat(turn, s, k)
           P == {k \in Nat : R(k) \in X /\ (R(k) \in G => Repeat(other, at[s], k) = at[R(k)])}
<1>1. 0 \in P
  BY RepeatStep
<1>2. ASSUME NEW k \in Nat, k \in P PROVE k + 1 \in P
  <2>1. R(k + 1) = turn[R(k)]
    BY RepeatStep
  <2>2. Repeat(other, at[s], k + 1) = other[Repeat(other, at[s], k)]
    BY RepeatStep
  <2> HIDE DEF R
  <2> QED
    BY <1>2, <2>1, <2>2
<1> HIDE DEF P
<1>3. n \in P
  BY <1>1, <1>2, SetInduction
<1> QED
  BY <1>3 DEF P

-----------------------------------------------------------------------------
(* Words and ints *)

\* 2^63: the number of ints that are not negative.
Half == 2^(WordBits - 1)

\* Bytes are numbers.
LEMMA BytesAreInts == \A b \in Byte : b \in Int
BY DEF Byte

\* Half of the words are ints that are not negative.
LEMMA HalfIsNat == Half \in Nat \ {0} /\ 2^WordBits = 2 * Half
<1>1. WordBits - 1 \in 0..(WordBits + 6)
  BY WireAssumption
<1> QED
  BY <1>1, PowerAssumption DEF Half

\* The remainder of a division by a positive number.
LEMMA Remainder ==
    ASSUME NEW x \in Int, NEW b \in Nat \ {0}
    PROVE  x % b \in 0..(b - 1) /\ (x \in 0..(b - 1) => x % b = x)
OBVIOUS

\* A word read as an int.
LEMMA SignedWord ==
    ASSUME NEW x \in Word
    PROVE  /\ Signed(x, WordBits) \in (-Half)..(Half - 1)
           /\ x < Half => Signed(x, WordBits) = x
           /\ x >= Half => Signed(x, WordBits) < 0
<1>1. x \in 0..(2 * Half - 1)
  BY HalfIsNat DEF Word
<1>2. Signed(x, WordBits) = IF x >= Half THEN x - 2 * Half ELSE x
  BY HalfIsNat DEF Signed, Half
<1> QED
  BY <1>1, <1>2, HalfIsNat

\* A sum that does not come out negative has not wrapped around.
LEMMA AddIntExact ==
    ASSUME NEW x \in 0..(Half - 1), NEW y \in Int
    PROVE  /\ AddInt(x, y) \in Int /\ AddInt(x, y) < Half
           /\ y \in 0..(Half - 1) /\ AddInt(x, y) >= 0 => AddInt(x, y) = x + y
<1> DEFINE w == (x + y) % 2^WordBits
<1>1. x + y \in Int /\ 2 * Half \in Nat \ {0}
  BY HalfIsNat
<1>2. w \in 0..(2 * Half - 1) /\ (x + y \in 0..(2 * Half - 1) => w = x + y)
  <2> DEFINE z == x + y
             b == 2 * Half
  <2>1. w = z % b
    BY HalfIsNat
  <2> HIDE DEF z, b
  <2>2. z % b \in 0..(b - 1) /\ (z \in 0..(b - 1) => z % b = z)
    BY <1>1, Remainder DEF z, b
  <2> QED
    BY <2>1, <2>2 DEF z, b
<1>3. w \in Word
  BY <1>2, HalfIsNat DEF Word
<1>4. AddInt(x, y) = Signed(w, WordBits)
  BY DEF AddInt
<1> HIDE DEF w
<1>5. CASE y \in 0..(Half - 1)
  <2>1. w = x + y
    BY <1>2, <1>5, HalfIsNat
  <2> QED
    BY <1>3, <1>4, <1>5, <2>1, SignedWord, HalfIsNat
<1>6. CASE y \notin 0..(Half - 1)
  BY <1>3, <1>4, <1>6, SignedWord, HalfIsNat
<1> QED
  BY <1>5, <1>6

-----------------------------------------------------------------------------
(* Varints *)

\* f[k] is the sum of the first k of n numbers.
Sums(f, a, n) ==
    /\ f = [k \in 0..n |-> f[k]]
    /\ f[0] = 0
    /\ \A k \in 1..n : f[k] = f[k - 1] + a[k]

\* There is such a list for any numbers.
LEMMA SumsExist ==
    ASSUME NEW a, NEW n \in Nat
    PROVE  \E f : Sums(f, a, n)
<1> DEFINE P == {k \in Nat : \E f : Sums(f, a, k)}
<1>1. 0 \in P
  <2>1. Sums([k \in 0..0 |-> 0], a, 0)
    BY DEF Sums
  <2> QED
    BY <2>1
<1>2. \A k \in Nat : k \in P => k + 1 \in P
  <2> SUFFICES ASSUME NEW k \in Nat, k \in P PROVE k + 1 \in P
    OBVIOUS
  <2>1. PICK f : Sums(f, a, k)
    OBVIOUS
  <2> DEFINE g == [j \in 0..(k + 1) |-> IF j <= k THEN f[j] ELSE f[k] + a[k + 1]]
  <2>2. g = [j \in 0..(k + 1) |-> g[j]]
    OBVIOUS
  <2>3. g[0] = 0 /\ \A j \in 1..(k + 1) : g[j] = g[j - 1] + a[j]
    <3>1. f[0] = 0 /\ \A j \in 1..k : f[j] = f[j - 1] + a[j]
      BY <2>1 DEF Sums
    <3> QED
      BY <3>1
  <2> HIDE DEF g
  <2>4. Sums(g, a, k + 1)
    BY <2>2, <2>3 DEF Sums
  <2> QED
    BY <2>4
<1> HIDE DEF P
<1>3. n \in P
  BY <1>1, <1>2, SetInduction
<1> QED
  BY <1>3 DEF P

\* Two such lists begin alike.
LEMMA SumsUnique ==
    ASSUME NEW a, NEW n \in Nat, NEW m \in Nat, m <= n,
           NEW f, Sums(f, a, n), NEW g, Sums(g, a, m)
    PROVE  f[m] = g[m]
<1> DEFINE P == {k \in Nat : k <= m => f[k] = g[k]}
<1>1. f[0] = 0 /\ \A k \in 1..n : f[k] = f[k - 1] + a[k]
  BY Zenon DEF Sums
<1>2. g[0] = 0 /\ \A k \in 1..m : g[k] = g[k - 1] + a[k]
  BY Zenon DEF Sums
<1>3. 0 \in P
  BY <1>1, <1>2
<1>4. ASSUME NEW k \in Nat, k \in P PROVE k + 1 \in P
  <2>1. k + 1 <= m => k + 1 \in 1..m /\ k + 1 \in 1..n /\ (k + 1) - 1 = k /\ k <= m
    OBVIOUS
  <2> QED
    BY <1>1, <1>2, <1>4, <2>1
<1> HIDE DEF P
<1>5. m \in P
  BY <1>3, <1>4, SetInduction
<1> QED
  BY <1>5 DEF P

\* SumTo is the last number of such a list.
LEMMA SumToSums ==
    ASSUME NEW a, NEW n \in Nat
    PROVE  \E f : Sums(f, a, n) /\ SumTo(a, n) = f[n]
<1> DEFINE Rec(f) == f = [k \in 0..n |-> IF k = 0 THEN 0 ELSE f[k - 1] + a[k]]
           sum == CHOOSE f : Rec(f)
<1>1. PICK g : Sums(g, a, n)
  BY SumsExist
<1>2. Rec(g)
  <2>1. \A k \in 0..n : g[k] = IF k = 0 THEN 0 ELSE g[k - 1] + a[k]
    <3>1. g[0] = 0 /\ \A k \in 1..n : g[k] = g[k - 1] + a[k]
      BY <1>1, Zenon DEF Sums
    <3>2. \A k \in 0..n : k # 0 => k \in 1..n
      OBVIOUS
    <3> QED
      BY <3>1, <3>2
  <2>2. g = [k \in 0..n |-> g[k]]
    BY <1>1, Zenon DEF Sums
  <2>3. [k \in 0..n |-> g[k]] = [k \in 0..n |-> IF k = 0 THEN 0 ELSE g[k - 1] + a[k]]
    BY <2>1, Zenon
  <2> QED
    BY <2>2, <2>3, Zenon
<1>3. Rec(sum)
  BY <1>2, Zenon
<1>4. SumTo(a, n) = sum[n]
  BY DEF SumTo
<1> HIDE DEF sum
<1>5. Sums(sum, a, n)
  <2>1. sum[0] = 0 /\ \A k \in 1..n : sum[k] = sum[k - 1] + a[k]
    BY <1>3
  <2>2. sum = [k \in 0..n |-> sum[k]]
    BY <1>3
  <2> QED
    BY <2>1, <2>2 DEF Sums
<1> QED
  BY <1>4, <1>5

\* The equations of SumTo.
LEMMA SumToStep ==
    ASSUME NEW a, NEW n \in Nat
    PROVE  SumTo(a, 0) = 0 /\ SumTo(a, n + 1) = SumTo(a, n) + a[n + 1]
<1>1. PICK z : Sums(z, a, 0) /\ SumTo(a, 0) = z[0]
  BY SumToSums
<1>2. PICK f : Sums(f, a, n + 1) /\ SumTo(a, n + 1) = f[n + 1]
  <2>1. n + 1 \in Nat
    OBVIOUS
  <2> QED
    BY <2>1, SumToSums
<1>3. PICK g : Sums(g, a, n) /\ SumTo(a, n) = g[n]
  BY SumToSums
<1>4. f[n] = g[n]
  <2>1. n + 1 \in Nat /\ n <= n + 1
    OBVIOUS
  <2> QED
    BY <1>2, <1>3, <2>1, SumsUnique
<1>5. f[n + 1] = f[n] + a[n + 1]
  <2>1. \A k \in 1..(n + 1) : f[k] = f[k - 1] + a[k]
    BY <1>2, Zenon DEF Sums
  <2>2. n + 1 \in 1..(n + 1) /\ (n + 1) - 1 = n
    OBVIOUS
  <2> QED
    BY <2>1, <2>2
<1>6. SumTo(a, 0) = 0
  BY <1>1, Zenon DEF Sums
<1> QED
  BY <1>2, <1>3, <1>4, <1>5, <1>6

\* Sums of integers are integers.
LEMMA SumToInt ==
    ASSUME NEW n \in Nat, NEW a, \A k \in 1..n : a[k] \in Int
    PROVE  \A k \in 0..n : SumTo(a, k) \in Int
<1> DEFINE P == {k \in Nat : k <= n => SumTo(a, k) \in Int}
<1>1. 0 \in P
  BY SumToStep
<1>2. ASSUME NEW k \in Nat, k \in P PROVE k + 1 \in P
  <2>1. k + 1 <= n => k + 1 \in 1..n /\ k <= n
    OBVIOUS
  <2>2. SumTo(a, k + 1) = SumTo(a, k) + a[k + 1]
    BY SumToStep
  <2> QED
    BY <1>2, <2>1, <2>2
<1> HIDE DEF P
<1>3. \A k \in Nat : k \in P
  BY <1>1, <1>2, SetInduction
<1> QED
  BY <1>3 DEF P

\* The value of a varint is a word.
LEMMA VarintIsWord ==
    ASSUME NEW d \in Seq(Byte), NEW i \in Nat, NEW n \in Nat, i + n <= Len(d)
    PROVE  VarintValue(d, i, n) \in Word
<1> DEFINE a == [k \in 1..n |-> (d[i + k] % 128) * 128^(k - 1)]
           sum == SumTo(a, n)
<1>1. \A k \in 1..n : a[k] \in Int
  <2> SUFFICES ASSUME NEW k \in 1..n PROVE (d[i + k] % 128) * 128^(k - 1) \in Int
    OBVIOUS
  <2>1. i + k \in 1..Len(d) /\ k - 1 \in Nat
    OBVIOUS
  <2>2. d[i + k] \in Int
    <3>1. d[i + k] \in Byte
      BY <2>1, ElementOfSeq
    <3> QED
      BY <3>1, BytesAreInts
  <2>3. d[i + k] % 128 \in Int
    BY <2>2
  <2>4. 128^(k - 1) \in Int
    BY <2>1
  <2> HIDE <2>1
  <2> QED
    BY <2>3, <2>4
<1>2. VarintValue(d, i, n) = sum % 2^WordBits
  BY DEF VarintValue
<1> HIDE DEF a
<1>3. sum \in Int
  <2>1. n \in 0..n
    OBVIOUS
  <2> QED
    BY <1>1, <2>1, SumToInt
<1> HIDE DEF sum
<1>4. 2^WordBits \in Nat \ {0}
  BY HalfIsNat
<1>5. sum % 2^WordBits \in 0..(2^WordBits - 1)
  BY <1>3, <1>4, Remainder
<1> QED
  BY <1>2, <1>5 DEF Word

\* A varint that ends has a byte at least, and ends inside the string.
LEMMA VarintLength ==
    ASSUME NEW d \in Seq(Byte), NEW i \in 0..Len(d)
    PROVE  VarintLen(d, i) \in Nat /\ i + VarintLen(d, i) <= Len(d)
<1> DEFINE ends == {k \in 1..MaxVarintLen : i + k <= Len(d) /\ d[i + k] < 128}
           n == VarintLen(d, i)
<1>1. MaxVarintLen \in Int
  BY WireAssumption DEF MaxVarintLen
<1>2. \A k \in ends : k \in Nat /\ i + k <= Len(d)
  BY <1>1
<1>3. n = IF ends = {} THEN 0 ELSE CHOOSE k \in ends : \A j \in ends : k <= j
  BY DEF VarintLen
<1> HIDE DEF ends, n
<1>4. CASE ends = {}
  BY <1>3, <1>4 DEF n
<1>5. CASE ends # {}
  <2>1. \E k \in ends : \A j \in ends : k <= j
    BY <1>2, <1>5, LeastNumber
  <2>2. n \in ends
    BY <1>3, <1>5, <2>1
  <2> QED
    BY <1>2, <2>2 DEF n
<1> QED
  BY <1>4, <1>5

\* v was read without an error (v is a varint, a payload or a cursor).
Good(v) == v.err = ""

KnownError(v) == v.err \in Errors \cup {""}

\* v is a varint of d at index i.
VarintOf(v, d, i) ==
    /\ KnownError(v)
    /\ v.val \in Word
    /\ v.i \in i..Len(d)
    /\ Good(v) => v.i > i

\* A varint that is read has a byte at least, and ends inside the string.
LEMMA ReadVarintInside ==
    ASSUME NEW d \in Seq(Byte), NEW i \in 0..Len(d)
    PROVE  VarintOf(ReadVarint(d, i), d, i)
<1> DEFINE n == VarintLen(d, i)
<1>1. n \in Nat /\ i + n <= Len(d)
  BY VarintLength
<1>2. VarintValue(d, i, n) \in Word
  BY <1>1, VarintIsWord
<1>3. ReadVarint(d, i) = VarintAt(d, i, n)
  BY DEF ReadVarint
<1> HIDE DEF n
<1> DEFINE v == VarintAt(d, i, n)
<1>4. v.val \in Word /\ v.i = i + n
  BY <1>2 DEF VarintAt
<1>5. v.err = IF n > 0 THEN "" ELSE IF Len(d) - i < MaxVarintLen THEN EOF ELSE IntOverflow
  BY DEF VarintAt
<1>6. KnownError(v) /\ (Good(v) => n > 0)
  BY <1>5 DEF KnownError, Good, Errors, EOF, IntOverflow
<1> HIDE DEF v
<1>7. v.i \in i..Len(d) /\ (Good(v) => v.i > i)
  <2>1. Len(d) \in Nat /\ i \in Nat
    OBVIOUS
  <2>2. i + n \in i..Len(d) /\ (n > 0 => i + n > i)
    BY <1>1, <2>1
  <2> QED
    BY <1>4, <1>6, <2>2
<1>8. VarintOf(v, d, i)
  BY <1>4, <1>6, <1>7 DEF VarintOf
<1> QED
  BY <1>3, <1>8 DEF v

-----------------------------------------------------------------------------
(* Payloads *)

\* An int can count the bytes of d, and eight more.
Short(d) == d \in Seq(Byte) /\ Len(d) + 8 < Half

\* The indices of a short string are ints.
LEMMA LengthIsInt ==
    ASSUME NEW d, Short(d)
    PROVE  Len(d) \in Nat /\ Len(d) < Half /\ \A i \in 0..Len(d) : i \in 0..(Half - 1)
BY HalfIsNat DEF Short

\* A part of a short string is short.
LEMMA SliceIsShort ==
    ASSUME NEW d, Short(d), NEW from \in 0..Len(d), NEW to \in from..Len(d)
    PROVE  Short(Slice(d, from, to)) /\ Len(Slice(d, from, to)) = to - from
<1>1. Slice(d, from, to) \in Seq(Byte) /\ Len(Slice(d, from, to)) = to - from
  BY SubSeqProperties DEF Slice, Short
<1> QED
  BY <1>1, LengthIsInt, HalfIsNat DEF Short

\* p is the payload of a field of d whose length is at index i.
PayloadOf(p, d, i) ==
    /\ KnownError(p)
    /\ Good(p) => p.from \in (i + 1)..Len(d) /\ p.to \in (p.from)..Len(d)

\* A length the bytes claim is only believed if the payload is inside the string.
LEMMA PayloadInside ==
    ASSUME NEW d, Short(d), NEW i \in 0..Len(d), NEW wireType
    PROVE  PayloadOf(ReadPayload(d, i, wireType), d, i)
<1> DEFINE v == ReadVarint(d, i)
           length == Signed(v.val, WordBits)
           postIndex == AddInt(v.i, length)
           p == Payload(d, v, wireType)
<1>1. VarintOf(v, d, i)
  BY ReadVarintInside DEF Short
<1> HIDE DEF v
<1>2. length \in (-Half)..(Half - 1)
  BY <1>1, SignedWord DEF VarintOf
<1>3. v.i \in i..Len(d) /\ v.i \in Nat /\ v.i \in 0..(Half - 1) /\ Len(d) \in Nat
  BY <1>1, LengthIsInt DEF VarintOf
<1> HIDE DEF length
<1>4. /\ postIndex \in Int
      /\ length >= 0 /\ postIndex >= 0 => postIndex = v.i + length
  <2>1. length \in Int /\ (length >= 0 => length \in 0..(Half - 1))
    BY <1>2, HalfIsNat
  <2> QED
    BY <1>3, <2>1, AddIntExact
<1> HIDE DEF postIndex
<1>5. /\ p.err = IF wireType # 2 THEN WrongWireType
                 ELSE IF v.err # "" THEN v.err ELSE LengthError(d, length, postIndex)
      /\ p.from = v.i /\ p.to = postIndex
  BY DEF Payload, length, postIndex
<1> HIDE DEF p
<1>6. LengthError(d, length, postIndex) \in Errors \cup {""}
  BY DEF LengthError, Errors, InvalidLength, EOF
<1>7. KnownError(p)
  BY <1>1, <1>5, <1>6 DEF VarintOf, KnownError, Errors, WrongWireType
<1>8. ASSUME Good(p)
      PROVE  p.from \in (i + 1)..Len(d) /\ p.to \in (p.from)..Len(d)
  <2>1. Good(v) /\ LengthError(d, length, postIndex) = ""
    BY <1>5, <1>8, Zenon DEF Good, WrongWireType
  <2>2. ~(length < 0) /\ ~(postIndex < 0) /\ ~(postIndex > Len(d))
    BY <2>1 DEF LengthError, InvalidLength, EOF
  <2>3. v.i > i
    BY <1>1, <2>1 DEF VarintOf
  <2>4. length \in Nat /\ postIndex = v.i + length /\ postIndex <= Len(d)
    BY <1>2, <1>3, <1>4, <2>2, HalfIsNat
  <2>5. v.i \in (i + 1)..Len(d) /\ postIndex \in (v.i)..Len(d)
    BY <1>3, <2>3, <2>4
  <2> QED
    BY <1>5, <2>5
<1> QED
  BY <1>7, <1>8 DEF PayloadOf, ReadPayload, p, v

-----------------------------------------------------------------------------
(* Unknown fields *)

\* A turn of skip's loop takes a byte, and its index does not overflow.
LEMMA SkipTaggedAdvances ==
    ASSUME NEW d, Short(d), NEW s \in SkipStates, s.i \in 0..(Len(d) - 1)
    PROVE  LET y == SkipTagged(s, d, ReadVarint(d, s.i))
           IN  y \in SkipStates /\ (Good(y) => y.i \in (s.i + 1)..(Half - 1))
<1> DEFINE t == ReadVarint(d, s.i)
           v == ReadVarint(d, t.i)
           wireType == t.val % 8
           length == Signed(v.val, WordBits)
           postIndex == AddInt(v.i, length)
           y == SkipField(s, t, v)
<1>1. SkipTagged(s, d, t) = y
  BY DEF SkipTagged
<1>2. Len(d) \in Nat /\ Len(d) + 8 < Half /\ Half \in Nat /\ s.i \in Nat
  BY LengthIsInt, HalfIsNat DEF Short
<1>3. VarintOf(t, d, s.i)
  <2>1. s.i \in 0..Len(d)
    BY <1>2
  <2> QED
    BY <2>1, ReadVarintInside DEF Short
<1> HIDE DEF t
<1>4. t.i \in Nat /\ t.i \in 0..Len(d) /\ (Good(t) => t.i > s.i)
  BY <1>2, <1>3 DEF VarintOf
<1>5. VarintOf(v, d, t.i)
  BY <1>4, ReadVarintInside DEF Short
<1> HIDE DEF v
<1>6. v.i \in Nat /\ v.i >= t.i /\ v.i <= Len(d) /\ v.i \in 0..(Half - 1)
  BY <1>2, <1>4, <1>5 DEF VarintOf
<1>7. length \in Int /\ length < Half
  <2>1. length \in (-Half)..(Half - 1)
    BY <1>5, SignedWord DEF VarintOf
  <2> QED
    BY <1>2, <2>1
<1> HIDE DEF length
<1>8. /\ postIndex \in Int /\ postIndex < Half
      /\ length >= 0 /\ postIndex >= 0 => postIndex = v.i + length
  <2>1. length >= 0 => length \in 0..(Half - 1)
    BY <1>2, <1>7
  <2> QED
    BY <1>6, <1>7, <2>1, AddIntExact
<1> HIDE DEF postIndex
<1>9. y.i = CASE wireType = 0 -> v.i
              [] wireType = 1 -> t.i + 8
              [] wireType = 2 -> postIndex
              [] wireType = 5 -> t.i + 4
              [] OTHER        -> t.i
  BY DEF SkipField, wireType, length, postIndex, Fixed64, Fixed32
<1>10. y.i \in Int
  <2> HIDE DEF wireType, y
  <2> QED
    BY <1>4, <1>6, <1>8, <1>9
<1>11. y.depth \in Int
  <2>1. s.depth \in Int
    BY DEF SkipStates
  <2>2. y.depth = CASE wireType = 3 -> s.depth + 1
                    [] wireType = 4 -> s.depth - 1
                    [] OTHER        -> s.depth
    BY DEF SkipField, wireType
  <2> HIDE DEF wireType, y
  <2> QED
    BY <2>1, <2>2
<1>12. y.done \in BOOLEAN
  BY DEF SkipField
<1>13. y.err = IF t.err # "" THEN t.err
               ELSE IF wireType \in {0, 2} /\ v.err # "" THEN v.err
               ELSE IF wireType = 2 /\ (length < 0 \/ postIndex < 0) THEN InvalidLength
               ELSE IF wireType = 4 /\ s.depth = 0 THEN EndOfGroup
               ELSE IF wireType > 5 THEN WrongWireType
               ELSE ""
  BY DEF SkipField, wireType, length, postIndex
<1> HIDE DEF wireType
<1>14. KnownError(y)
  BY <1>3, <1>5, <1>13, Zenon
     DEF VarintOf, KnownError, Errors, InvalidLength, EndOfGroup, WrongWireType
<1>15. y \in SkipStates
  <2>1. y = [i |-> y.i, depth |-> y.depth, done |-> y.done, err |-> y.err]
    BY DEF SkipField
  <2> HIDE DEF y
  <2> QED
    BY <1>10, <1>11, <1>12, <1>14, <2>1, Zenon DEF SkipStates, KnownError
<1>16. ASSUME Good(y) PROVE y.i \in (s.i + 1)..(Half - 1)
  <2> HIDE DEF y
  <2>1. Good(t) /\ (wireType = 2 => ~(length < 0) /\ ~(postIndex < 0))
    BY <1>13, <1>16, Zenon DEF Good, InvalidLength, EndOfGroup, WrongWireType
  <2>2. t.i > s.i
    BY <1>4, <2>1
  <2>3. CASE wireType = 2
    <3>1. y.i = postIndex
      BY <1>9, <2>3
    <3> QED
      BY <1>2, <1>4, <1>6, <1>7, <1>8, <2>1, <2>2, <2>3, <3>1
  <2>4. CASE wireType # 2
    BY <1>2, <1>4, <1>6, <1>9, <2>2, <2>4
  <2> QED
    BY <2>3, <2>4
<1> HIDE DEF y
<1> QED
  BY <1>1, <1>15, <1>16 DEF t

\* skip fails or comes to the end of the field, a byte or more behind its start; its
\* loop has ended after as many turns as there are bytes and one more.
LEMMA SkipEnds ==
    ASSUME NEW d, Short(d)
    PROVE  LET k == skip(d)
           IN  KnownError(k) /\ (Good(k) => k.done /\ k.i \in 1..(Half - 1))
<1> DEFINE first == [i |-> 0, depth |-> 0, done |-> FALSE, err |-> ""]
           Step(s) == IF s.err # "" \/ s.done THEN s
                      ELSE IF s.i >= Len(d) THEN Fail(s, EOF)
                      ELSE SkipTagged(s, d, ReadVarint(d, s.i))
           turn == [s \in SkipStates |-> Step(s)]
           n == Len(d) + 1
           Ok(k, x) == /\ x \in SkipStates
                       /\ Good(x) => x.i \in 0..(Half - 1)
                       /\ Good(x) /\ x.done => x.i >= 1
                       /\ Good(x) /\ ~x.done => k <= Len(d) /\ x.i >= k
           J == {p \in Nat \X SkipStates : Ok(p[1], p[2])}
<1>1. Len(d) \in Nat /\ Half \in Nat /\ Half > 0 /\ n \in Nat /\ n - 1 = Len(d)
  BY LengthIsInt, HalfIsNat
<1>2. skip(d) = Repeat(turn, first, n)
  BY DEF skip
<1>3. <<0, first>> \in J
  <2>1. first \in SkipStates
    BY DEF SkipStates
  <2>2. first.i = 0 /\ first.done = FALSE
    OBVIOUS
  <2> HIDE DEF first
  <2>3. Ok(0, first)
    BY <1>1, <2>1, <2>2
  <2> QED
    BY <2>1, <2>3
<1>4. ASSUME NEW k \in 0..(n - 1), NEW x, <<k, x>> \in J
      PROVE  <<k + 1, turn[x]>> \in J
  <2>1. k \in Nat /\ k + 1 \in Nat /\ k <= Len(d)
    BY <1>1
  <2>2. x \in SkipStates /\ Ok(k, x)
    <3> HIDE DEF Ok
    <3> QED
      BY <1>4
  <2>3. turn[x] = Step(x)
    BY <2>2
  <2>4. x.i \in Int /\ x.done \in BOOLEAN
    BY <2>2 DEF SkipStates
  <2> SUFFICES Step(x) \in SkipStates /\ Ok(k + 1, Step(x))
    <3> HIDE DEF Ok, Step, turn
    <3> QED
      BY <2>1, <2>3
  <2>5. CASE x.err # "" \/ x.done
    <3>1. Step(x) = x
      BY <2>5
    <3>2. ~Good(x) \/ x.done
      BY <2>5 DEF Good
    <3> HIDE DEF Step
    <3> QED
      BY <2>2, <3>1, <3>2, Zenon
  <2>6. CASE ~(x.err # "" \/ x.done) /\ x.i >= Len(d)
    <3>1. Step(x) = Fail(x, EOF)
      BY <2>6
    <3>2. Fail(x, EOF) \in SkipStates
      BY <2>2 DEF Fail, SkipStates, EOF, Errors
    <3>3. ~Good(Fail(x, EOF))
      BY <2>2 DEF Fail, SkipStates, EOF, Good
    <3> HIDE DEF Step
    <3> QED
      BY <3>1, <3>2, <3>3
  <2>7. CASE ~(x.err # "" \/ x.done) /\ ~(x.i >= Len(d))
    <3> DEFINE y == SkipTagged(x, d, ReadVarint(d, x.i))
    <3>1. Good(x) /\ ~x.done /\ ~(x.i >= Len(d))
      BY <2>7 DEF Good
    <3>2. x.i >= k /\ x.i < Len(d) /\ x.i \in 0..(Len(d) - 1)
      BY <1>1, <2>1, <2>2, <2>4, <3>1
    <3>3. y \in SkipStates /\ (Good(y) => y.i \in (x.i + 1)..(Half - 1))
      BY <2>2, <3>2, SkipTaggedAdvances
    <3>4. Step(x) = y
      BY <2>7
    <3> HIDE DEF y
    <3>5. Good(y) => y.i \in 0..(Half - 1) /\ y.i >= 1 /\ y.i >= k + 1 /\ k + 1 <= Len(d)
      BY <1>1, <2>1, <2>4, <3>2, <3>3
    <3>6. Ok(k + 1, y)
      BY <3>3, <3>5
    <3> HIDE DEF Step
    <3> QED
      BY <3>3, <3>4, <3>6
  <2> QED
    BY <2>5, <2>6, <2>7
<1>5. <<n, Repeat(turn, first, n)>> \in J
  <2> HIDE DEF J, turn, first, n
  <2> QED
    BY <1>1, <1>3, <1>4, RepeatInduction
<1> DEFINE k == skip(d)
<1>6. k \in SkipStates /\ Ok(n, k)
  <2> HIDE DEF Ok, turn, first, n
  <2> QED
    BY <1>2, <1>5
<1> HIDE DEF k
<1>7. Good(k) => k.done /\ k.i \in 0..(Half - 1) /\ k.i >= 1
  <2>1. ~(n <= Len(d))
    BY <1>1
  <2> HIDE DEF n
  <2> QED
    BY <1>6, <2>1
<1>8. KnownError(k)
  BY <1>6 DEF SkipStates, KnownError
<1>9. Good(k) => k.done /\ k.i \in 1..(Half - 1)
  BY <1>1, <1>7
<1> QED
  BY <1>8, <1>9 DEF k

-----------------------------------------------------------------------------
(* Cursors *)

\* The cursor c is inside d.
Within(c, d, M) == c \in Cursors(M) /\ c.i \in 0..Len(d)

\* The cursor c is inside d, and behind index j unless there was an error.
Reads(c, d, j, M) == Within(c, d, M) /\ (Good(c) => c.i > j)

\* The field f of a message of M holds a value of V.
HasField(M, f, V) == \A m \in M : m[f] \in V /\ \A v \in V : [m EXCEPT ![f] = v] \in M

\* A cursor with error e, at index i with message m.
At(i, m, e) == [i |-> i, m |-> m, err |-> e]

\* A cursor moves to i and takes the message m.
LEMMA CursorAt ==
    ASSUME NEW M, NEW s \in Cursors(M), NEW i, NEW m
    PROVE  [s EXCEPT !.i = i, !.m = m] = At(i, m, s.err)
<1>1. [s EXCEPT !.i = i, !.m = m] \in [i : {i}, m : {m}, err : {s.err}]
  BY DEF Cursors
<1>2. \A x \in [i : {i}, m : {m}, err : {s.err}] : x = At(i, m, s.err)
  BY DEF At
<1> QED
  BY <1>1, <1>2

\* A cursor moves to i.
LEMMA CursorAtIndex ==
    ASSUME NEW M, NEW s \in Cursors(M), NEW i
    PROVE  [s EXCEPT !.i = i] = At(i, s.m, s.err)
<1>1. [s EXCEPT !.i = i] \in [i : {i}, m : {s.m}, err : {s.err}]
  BY DEF Cursors
<1>2. \A x \in [i : {i}, m : {s.m}, err : {s.err}] : x = At(i, s.m, s.err)
  BY DEF At
<1> QED
  BY <1>1, <1>2

\* An Unmarshal starts at index 0.
LEMMA StartIsCursor ==
    ASSUME NEW M, NEW m \in M
    PROVE  Start(m) \in Cursors(M) /\ Start(m).i = 0
BY DEF Start, Cursors

\* A cursor that moves on is in the string.
LEMMA MoveReads ==
    ASSUME NEW d, Short(d), NEW M, NEW s \in Cursors(M), NEW j \in 0..Len(d),
           NEW i \in (j + 1)..Len(d), NEW m \in M
    PROVE  Reads(At(i, m, s.err), d, j, M)
<1> DEFINE c == At(i, m, s.err)
<1>1. Len(d) \in Nat
  BY LengthIsInt
<1>2. i \in Int /\ i \in 0..Len(d) /\ i > j
  BY <1>1
<1>3. c \in Cursors(M)
  BY <1>2 DEF At, Cursors
<1>4. c.i = i
  BY DEF At
<1> HIDE DEF c
<1> QED
  BY <1>2, <1>3, <1>4 DEF Reads, Within, c

\* One that fails stays where it is.
LEMMA FailReads ==
    ASSUME NEW d, NEW M, NEW s, Within(s, d, M), NEW e \in Errors \cup {"coin"}, NEW j
    PROVE  Reads(Fail(s, e), d, j, M)
<1>1. Fail(s, e) \in Cursors(M) /\ Fail(s, e).i = s.i /\ Fail(s, e).err = e
  BY DEF Within, Cursors, Fail
<1>2. e # ""
  BY DEF Errors, EOF, IntOverflow, InvalidLength, EndOfGroup, WrongWireType, IllegalTag
<1> QED
  BY <1>1, <1>2, Zenon DEF Reads, Within, Good

\* So does one that fails with the error of what it has read.
LEMMA FailKnownReads ==
    ASSUME NEW d, NEW M, NEW s, Within(s, d, M), NEW j, NEW v, KnownError(v), ~Good(v)
    PROVE  Reads(Fail(s, v.err), d, j, M)
<1>1. v.err \in Errors \cup {"coin"}
  BY DEF KnownError, Good
<1> QED
  BY <1>1, FailReads

\* The parts of a cursor inside a string.
LEMMA CursorParts ==
    ASSUME NEW d, Short(d), NEW M, NEW s, Within(s, d, M)
    PROVE  s \in Cursors(M) /\ s.m \in M /\ s.i \in 0..Len(d) /\ Len(d) \in Nat
<1>1. s \in Cursors(M) /\ s.i \in 0..Len(d)
  BY DEF Within
<1>2. s.m \in M
  BY <1>1 DEF Cursors
<1> QED
  BY <1>1, <1>2, LengthIsInt

\* The default branch: an unknown field is stepped over, and not beyond the string.
LEMMA SkipUnknownReads ==
    ASSUME NEW d, Short(d), NEW M, NEW s, Within(s, d, M), NEW j \in 0..Len(d)
    PROVE  Reads(SkipUnknown(s, d, j), d, j, M)
<1> DEFINE k == skip(Slice(d, j, Len(d)))
           c == StepOver(s, d, j, k)
<1>1. Len(d) \in Nat /\ j \in 0..(Half - 1) /\ Half \in Nat
  BY LengthIsInt, HalfIsNat
<1>2. Short(Slice(d, j, Len(d)))
  <2>1. Len(d) \in j..Len(d)
    BY <1>1
  <2> QED
    BY <2>1, SliceIsShort
<1>3. KnownError(k) /\ (Good(k) => k.i \in 1..(Half - 1))
  BY <1>2, SkipEnds
<1> HIDE DEF k
<1>4. CASE ~Good(k)
  <2>1. c = Fail(s, k.err)
    BY <1>4 DEF StepOver, Good
  <2> QED
    BY <1>3, <1>4, <2>1, FailKnownReads DEF SkipUnknown, k
<1>5. CASE Good(k)
  <2>1. k.i \in 1..(Half - 1) /\ k.i \in Int
    BY <1>1, <1>3, <1>5
  <2>2. /\ AddInt(j, k.i) \in Int
        /\ AddInt(j, k.i) >= 0 => AddInt(j, k.i) = j + k.i
    <3>1. k.i \in 0..(Half - 1)
      BY <1>1, <2>1
    <3> QED
      BY <1>1, <2>1, <3>1, AddIntExact
  <2>3. c = IF k.i < 0 \/ AddInt(j, k.i) < 0 THEN Fail(s, InvalidLength)
            ELSE IF AddInt(j, k.i) > Len(d) THEN Fail(s, EOF)
            ELSE [s EXCEPT !.i = j + k.i]
    BY <1>5, Zenon DEF StepOver, Good
  <2>4. CASE k.i < 0 \/ AddInt(j, k.i) < 0
    <3>1. InvalidLength \in Errors \cup {"coin"}
      BY DEF Errors
    <3> QED
      BY <2>3, <2>4, <3>1, FailReads DEF SkipUnknown, k
  <2>5. CASE ~(k.i < 0 \/ AddInt(j, k.i) < 0) /\ AddInt(j, k.i) > Len(d)
    <3>1. EOF \in Errors \cup {"coin"}
      BY DEF Errors
    <3> QED
      BY <2>3, <2>5, <3>1, FailReads DEF SkipUnknown, k
  <2>6. CASE ~(k.i < 0 \/ AddInt(j, k.i) < 0) /\ ~(AddInt(j, k.i) > Len(d))
    <3>1. j + k.i \in (j + 1)..Len(d)
      BY <1>1, <2>1, <2>2, <2>6
    <3>2. s \in Cursors(M) /\ s.m \in M
      BY CursorParts
    <3>3. [s EXCEPT !.i = j + k.i] = At(j + k.i, s.m, s.err)
      BY <3>2, CursorAtIndex
    <3> QED
      BY <2>3, <2>6, <3>1, <3>2, <3>3, MoveReads DEF SkipUnknown, k
  <2> QED
    BY <2>4, <2>5, <2>6
<1> QED
  BY <1>4, <1>5

-----------------------------------------------------------------------------
(* Known fields *)

\* A field of the wrong wire type is an error.
LEMMA WrongWireTypeIsError == WrongWireType \in Errors \cup {"coin"}
BY DEF Errors

\* A varint at a cursor ends behind it, in the string.
LEMMA VarintAtCursor ==
    ASSUME NEW d, Short(d), NEW M, NEW s, Within(s, d, M)
    PROVE  LET v == ReadVarint(d, s.i)
           IN  KnownError(v) /\ v.val \in Word /\ (Good(v) => v.i \in (s.i + 1)..Len(d))
<1> DEFINE v == ReadVarint(d, s.i)
<1>1. s.i \in 0..Len(d) /\ Len(d) \in Nat
  BY CursorParts
<1>2. VarintOf(v, d, s.i)
  BY <1>1, ReadVarintInside DEF Short
<1> HIDE DEF v
<1>3. Good(v) => v.i \in (s.i + 1)..Len(d)
  BY <1>1, <1>2 DEF VarintOf
<1> QED
  BY <1>2, <1>3 DEF VarintOf, v

\* A field is set and the cursor moves behind it.
LEMMA SetFieldReads ==
    ASSUME NEW d, Short(d), NEW M, NEW s, Within(s, d, M), NEW i \in (s.i + 1)..Len(d),
           NEW f, NEW V, HasField(M, f, V), NEW v \in V
    PROVE  Reads([s EXCEPT !.i = i, !.m[f] = v], d, s.i, M)
<1> DEFINE m == [s.m EXCEPT ![f] = v]
<1>1. s \in Cursors(M) /\ s.m \in M /\ s.i \in 0..Len(d)
  BY CursorParts
<1>2. m \in M
  BY <1>1 DEF HasField
<1>3. [s EXCEPT !.i = i, !.m[f] = v] = [s EXCEPT !.i = i, !.m = m]
  OBVIOUS
<1> HIDE DEF m
<1>4. [s EXCEPT !.i = i, !.m = m] = At(i, m, s.err)
  BY <1>1, CursorAt
<1>5. Reads(At(i, m, s.err), d, s.i, M)
  BY <1>1, <1>2, MoveReads
<1> QED
  BY <1>3, <1>4, <1>5, Zenon

\* A field that holds a number.
LEMMA UintFieldReads ==
    ASSUME NEW d, Short(d), NEW M, NEW s, Within(s, d, M), NEW wireType, NEW f,
           HasField(M, f, Word)
    PROVE  Reads(UintField(s, d, wireType, f), d, s.i, M)
<1> DEFINE v == ReadVarint(d, s.i)
<1>1. KnownError(v) /\ v.val \in Word /\ (Good(v) => v.i \in (s.i + 1)..Len(d))
  BY VarintAtCursor
<1>2. UintField(s, d, wireType, f) =
          IF wireType # 0 THEN Fail(s, WrongWireType) ELSE SetUint(s, f, v)
  BY DEF UintField
<1> HIDE DEF v
<1>3. Reads(Fail(s, WrongWireType), d, s.i, M)
  BY WrongWireTypeIsError, FailReads
<1>4. Reads(SetUint(s, f, v), d, s.i, M)
  <2>1. CASE ~Good(v)
    <3>1. SetUint(s, f, v) = Fail(s, v.err)
      BY <2>1 DEF SetUint, Good
    <3> QED
      BY <1>1, <2>1, <3>1, FailKnownReads
  <2>2. CASE Good(v)
    <3>1. SetUint(s, f, v) = [s EXCEPT !.i = v.i, !.m[f] = v.val]
      BY <2>2, Zenon DEF SetUint, Good
    <3>2. v.i \in (s.i + 1)..Len(d)
      BY <1>1, <2>2
    <3>3. Reads([s EXCEPT !.i = v.i, !.m[f] = v.val], d, s.i, M)
      BY <1>1, <3>2, SetFieldReads
    <3> QED
      BY <3>1, <3>3, Zenon
  <2> QED
    BY <2>1, <2>2
<1> QED
  BY <1>2, <1>3, <1>4

\* A field that holds a truth value.
LEMMA BoolFieldReads ==
    ASSUME NEW d, Short(d), NEW M, NEW s, Within(s, d, M), NEW wireType, NEW f,
           HasField(M, f, BOOLEAN)
    PROVE  Reads(BoolField(s, d, wireType, f), d, s.i, M)
<1> DEFINE v == ReadVarint(d, s.i)
           b == v.val # 0
<1>1. KnownError(v) /\ (Good(v) => v.i \in (s.i + 1)..Len(d))
  BY VarintAtCursor
<1>2. BoolField(s, d, wireType, f) =
          IF wireType # 0 THEN Fail(s, WrongWireType) ELSE SetBool(s, f, v)
  BY DEF BoolField
<1> HIDE DEF v
<1>3. Reads(Fail(s, WrongWireType), d, s.i, M)
  BY WrongWireTypeIsError, FailReads
<1>4. Reads(SetBool(s, f, v), d, s.i, M)
  <2>1. CASE ~Good(v)
    <3>1. SetBool(s, f, v) = Fail(s, v.err)
      BY <2>1, Zenon DEF SetBool, Good
    <3> QED
      BY <1>1, <2>1, <3>1, FailKnownReads
  <2>2. CASE Good(v)
    <3>1. SetBool(s, f, v) = [s EXCEPT !.i = v.i, !.m[f] = b]
      BY <2>2, Zenon DEF SetBool, Good
    <3>2. b \in BOOLEAN
      OBVIOUS
    <3> HIDE DEF b
    <3>3. v.i \in (s.i + 1)..Len(d)
      BY <1>1, <2>2
    <3>4. Reads([s EXCEPT !.i = v.i, !.m[f] = b], d, s.i, M)
      BY <3>2, <3>3, SetFieldReads
    <3> QED
      BY <3>1, <3>4, Zenon
  <2> QED
    BY <2>1, <2>2
<1> QED
  BY <1>2, <1>3, <1>4

\* A payload at a cursor: it is a byte string behind it.
LEMMA PayloadAtCursor ==
    ASSUME NEW d, Short(d), NEW M, NEW s, Within(s, d, M), NEW wireType
    PROVE  LET p == ReadPayload(d, s.i, wireType)
           IN  /\ KnownError(p)
               /\ Good(p) => /\ p.from \in (s.i + 1)..Len(d)
                             /\ p.to \in (p.from)..Len(d)
                             /\ p.to \in (s.i + 1)..Len(d)
                             /\ Short(Slice(d, p.from, p.to))
<1> DEFINE p == ReadPayload(d, s.i, wireType)
<1>1. s.i \in 0..Len(d) /\ Len(d) \in Nat
  BY CursorParts
<1>2. PayloadOf(p, d, s.i)
  BY <1>1, PayloadInside
<1> HIDE DEF p
<1>3. ASSUME Good(p)
      PROVE  /\ p.from \in (s.i + 1)..Len(d) /\ p.to \in (p.from)..Len(d)
             /\ p.to \in (s.i + 1)..Len(d) /\ Short(Slice(d, p.from, p.to))
  <2>1. p.from \in (s.i + 1)..Len(d) /\ p.to \in (p.from)..Len(d)
    BY <1>2, <1>3 DEF PayloadOf
  <2>2. p.from \in 0..Len(d) /\ p.to \in (s.i + 1)..Len(d)
    BY <1>1, <2>1
  <2> QED
    BY <2>1, <2>2, SliceIsShort
<1> QED
  BY <1>2, <1>3 DEF PayloadOf, p

\* A field that holds bytes.
LEMMA BytesFieldReads ==
    ASSUME NEW d, Short(d), NEW M, NEW s, Within(s, d, M), NEW wireType, NEW f,
           HasField(M, f, Seq(Byte))
    PROVE  Reads(BytesField(s, d, wireType, f), d, s.i, M)
<1> DEFINE p == ReadPayload(d, s.i, wireType)
           bz == Slice(d, p.from, p.to)
<1>1. KnownError(p) /\ (Good(p) => p.to \in (s.i + 1)..Len(d) /\ Short(bz))
  BY PayloadAtCursor
<1>2. BytesField(s, d, wireType, f) = SetBytes(s, d, f, p)
  BY DEF BytesField
<1> HIDE DEF p
<1>3. CASE ~Good(p)
  <2>1. SetBytes(s, d, f, p) = Fail(s, p.err)
    BY <1>3, Zenon DEF SetBytes, Good
  <2> QED
    BY <1>1, <1>2, <1>3, <2>1, FailKnownReads
<1>4. CASE Good(p)
  <2>1. SetBytes(s, d, f, p) = [s EXCEPT !.i = p.to, !.m[f] = bz]
    BY <1>4, Zenon DEF SetBytes, Good
  <2> HIDE DEF bz
  <2>2. p.to \in (s.i + 1)..Len(d) /\ bz \in Seq(Byte)
    BY <1>1, <1>4 DEF Short
  <2>3. Reads([s EXCEPT !.i = p.to, !.m[f] = bz], d, s.i, M)
    BY <2>2, SetFieldReads
  <2> QED
    BY <1>2, <2>1, <2>3, Zenon
<1> QED
  BY <1>3, <1>4

\* A list gets one element more.
LEMMA AppendFieldReads ==
    ASSUME NEW d, Short(d), NEW M, NEW s, Within(s, d, M), NEW i \in (s.i + 1)..Len(d),
           NEW f, NEW V, HasField(M, f, Seq(V)), NEW v \in V
    PROVE  Reads([s EXCEPT !.i = i, !.m[f] = Append(@, v)], d, s.i, M)
<1> DEFINE list == Append(s.m[f], v)
           m == [s.m EXCEPT ![f] = list]
<1>1. s \in Cursors(M) /\ s.m \in M /\ s.i \in 0..Len(d)
  BY CursorParts
<1>2. list \in Seq(V)
  <2>1. s.m[f] \in Seq(V)
    BY <1>1 DEF HasField
  <2> QED
    BY <2>1
<1>3. [s EXCEPT !.i = i, !.m[f] = Append(@, v)] = [s EXCEPT !.i = i, !.m = m]
  OBVIOUS
<1> HIDE DEF list
<1>4. m \in M
  BY <1>1, <1>2 DEF HasField
<1> HIDE DEF m
<1>5. [s EXCEPT !.i = i, !.m = m] = At(i, m, s.err)
  BY <1>1, CursorAt
<1>6. Reads(At(i, m, s.err), d, s.i, M)
  BY <1>1, <1>4, MoveReads
<1> QED
  BY <1>3, <1>5, <1>6, Zenon

\* A number is added to a list.
LEMMA AddUintReads ==
    ASSUME NEW d, Short(d), NEW M, NEW s, Within(s, d, M), NEW f,
           HasField(M, f, Seq(Word))
    PROVE  Reads(AddUint(s, f, ReadVarint(d, s.i)), d, s.i, M)
<1> DEFINE v == ReadVarint(d, s.i)
<1>1. KnownError(v) /\ v.val \in Word /\ (Good(v) => v.i \in (s.i + 1)..Len(d))
  BY VarintAtCursor
<1> HIDE DEF v
<1>2. CASE ~Good(v)
  <2>1. AddUint(s, f, v) = Fail(s, v.err)
    BY <1>2, Zenon DEF AddUint, Good
  <2>2. Reads(Fail(s, v.err), d, s.i, M)
    BY <1>1, <1>2, FailKnownReads
  <2> QED
    BY <2>1, <2>2 DEF v
<1>3. CASE Good(v)
  <2>1. AddUint(s, f, v) = [s EXCEPT !.i = v.i, !.m[f] = Append(@, v.val)]
    BY <1>3, Zenon DEF AddUint, Good
  <2>2. Reads([s EXCEPT !.i = v.i, !.m[f] = Append(@, v.val)], d, s.i, M)
    BY <1>1, <1>3, AppendFieldReads
  <2>3. Reads(AddUint(s, f, v), d, s.i, M)
    BY <2>1, <2>2, Zenon
  <2> QED
    BY <2>3 DEF v
<1> QED
  BY <1>2, <1>3

\* A packed run of numbers: its loop has ended when every byte had a turn. The last
\* number may reach beyond the run, but not beyond the string.
LEMMA AddPackedReads ==
    ASSUME NEW d, Short(d), NEW M, NEW s, Within(s, d, M), NEW f,
           HasField(M, f, Seq(Word)), NEW p, Good(p),
           p.from \in (s.i + 1)..Len(d), p.to \in (p.from)..Len(d)
    PROVE  LET c == AddPacked(s, d, f, p, M)
           IN  Reads(c, d, s.i, M) /\ (Good(c) => c.i >= p.to)
<1> DEFINE from == p.from
           to == p.to
           first == [s EXCEPT !.i = from]
           Step(c) == IF c.err # "" \/ c.i >= to THEN c
                      ELSE AddUint(c, f, ReadVarint(d, c.i))
           turn == [c \in Cursors(M) |-> Step(c)]
           n == to - from
           Ok(k, x) == /\ Within(x, d, M)
                       /\ Good(x) => x.i >= from /\ (x.i < to => x.i >= from + k)
           J == {q \in Nat \X Cursors(M) : Ok(q[1], q[2])}
           c == AddPacked(s, d, f, p, M)
<1>1. c = Repeat(turn, first, n)
  BY Zenon DEF AddPacked, Good
<1>2. s \in Cursors(M) /\ s.m \in M /\ s.i \in 0..Len(d) /\ Len(d) \in Nat
  BY CursorParts
<1>3. /\ from \in Nat /\ to \in Nat /\ n \in Nat /\ from + n = to
      /\ from > s.i /\ to >= from /\ to <= Len(d)
  BY <1>2
<1> HIDE DEF from, to, c
<1>4. <<0, first>> \in J
  <2>1. first = At(from, s.m, s.err)
    BY <1>2, CursorAtIndex
  <2>2. At(from, s.m, s.err) \in Cursors(M) /\ At(from, s.m, s.err).i = from
    <3>1. s.err \in Errors \cup {"", "coin"}
      BY <1>2 DEF Cursors
    <3>2. from \in Int
      BY <1>3
    <3> QED
      BY <1>2, <3>1, <3>2 DEF At, Cursors
  <2>3. first \in Cursors(M) /\ first.i = from
    BY <2>1, <2>2
  <2> HIDE DEF first
  <2>4. Ok(0, first)
    BY <1>2, <1>3, <2>3 DEF Within
  <2> QED
    BY <2>3, <2>4
<1>5. ASSUME NEW k \in 0..(n - 1), NEW x, <<k, x>> \in J
      PROVE  <<k + 1, turn[x]>> \in J
  <2>1. k \in Nat /\ k + 1 \in Nat
    BY <1>3
  <2>2. x \in Cursors(M) /\ Ok(k, x)
    <3> HIDE DEF Ok
    <3> QED
      BY <1>5
  <2>3. turn[x] = Step(x)
    BY <2>2
  <2>4. Within(x, d, M) /\ x.i \in Int
    <3>1. x.i \in 0..Len(d)
      BY <2>2 DEF Within
    <3> QED
      BY <1>2, <2>2, <3>1
  <2> SUFFICES Step(x) \in Cursors(M) /\ Ok(k + 1, Step(x))
    <3> HIDE DEF Ok, Step, turn
    <3> QED
      BY <2>1, <2>3
  <2>5. CASE x.err # "" \/ x.i >= to
    <3>1. Step(x) = x
      BY <2>5
    <3>2. ~Good(x) \/ x.i >= to
      BY <2>5 DEF Good
    <3> HIDE DEF Step
    <3>3. Ok(k + 1, x)
      BY <1>3, <2>1, <2>2, <2>4, <3>2
    <3> QED
      BY <2>2, <3>1, <3>3, Zenon
  <2>6. CASE ~(x.err # "" \/ x.i >= to)
    <3> DEFINE y == AddUint(x, f, ReadVarint(d, x.i))
    <3>1. Step(x) = y
      BY <2>6
    <3>2. Good(x) /\ ~(x.i >= to)
      BY <2>6 DEF Good
    <3>3. Reads(y, d, x.i, M)
      BY <2>4, AddUintReads
    <3> HIDE DEF y, Step
    <3>4. /\ y \in Cursors(M) /\ Within(y, d, M) /\ y.i \in 0..Len(d)
          /\ Good(y) => y.i > x.i
      BY <3>3 DEF Reads, Within
    <3>5. y.i \in Int
      BY <1>2, <3>4
    <3>6. Ok(k + 1, y)
      BY <1>3, <2>1, <2>2, <2>4, <3>2, <3>4, <3>5
    <3> QED
      BY <3>1, <3>4, <3>6, Zenon
  <2> QED
    BY <2>5, <2>6
<1>6. <<n, Repeat(turn, first, n)>> \in J
  <2> HIDE DEF J, turn, first, n
  <2> QED
    BY <1>3, <1>4, <1>5, RepeatInduction
<1>7. Ok(n, c)
  <2> HIDE DEF Ok, turn, first, n
  <2> QED
    BY <1>1, <1>6
<1>8. Within(c, d, M) /\ c.i \in Int
  <2>1. Within(c, d, M) /\ c.i \in 0..Len(d)
    BY <1>7 DEF Within
  <2> QED
    BY <1>2, <2>1
<1>9. Good(c) => c.i >= to /\ c.i > s.i
  BY <1>2, <1>3, <1>7, <1>8
<1> QED
  BY <1>8, <1>9 DEF Reads, c, to

\* A repeated uint64.
LEMMA PackedFieldReads ==
    ASSUME NEW d, Short(d), NEW M, NEW s, Within(s, d, M), NEW wireType, NEW f,
           HasField(M, f, Seq(Word))
    PROVE  Reads(PackedField(s, d, wireType, f, M), d, s.i, M)
<1> DEFINE p == ReadPayload(d, s.i, wireType)
<1>1. PackedField(s, d, wireType, f, M) =
          IF wireType = 0 THEN AddUint(s, f, ReadVarint(d, s.i))
          ELSE AddPacked(s, d, f, p, M)
  BY DEF PackedField
<1>2. /\ KnownError(p)
      /\ Good(p) => p.from \in (s.i + 1)..Len(d) /\ p.to \in (p.from)..Len(d)
  BY PayloadAtCursor
<1> HIDE DEF p
<1>3. Reads(AddUint(s, f, ReadVarint(d, s.i)), d, s.i, M)
  BY AddUintReads
<1>4. Reads(AddPacked(s, d, f, p, M), d, s.i, M)
  <2>1. CASE ~Good(p)
    <3>1. AddPacked(s, d, f, p, M) = Fail(s, p.err)
      BY <2>1, Zenon DEF AddPacked, Good
    <3> QED
      BY <1>2, <2>1, <3>1, FailKnownReads
  <2>2. CASE Good(p)
    BY <1>2, <2>2, AddPackedReads
  <2> QED
    BY <2>1, <2>2
<1> QED
  BY <1>1, <1>3, <1>4

-----------------------------------------------------------------------------
(* Turns of the loop *)

\* t is a tag at the cursor s.
TagOf(t, s, d, M) ==
    /\ Within(t.behind, d, M)
    /\ t.behind.i >= s.i
    /\ Good(t.behind) => t.behind.i > s.i

\* The cursor behind a tag is inside the string, and behind the tag if it is valid.
LEMMA ReadTagInside ==
    ASSUME NEW d, Short(d), NEW M, NEW s, Within(s, d, M)
    PROVE  TagOf(ReadTag(s, d), s, d, M)
<1> DEFINE t == ReadVarint(d, s.i)
           fieldNum == Signed((t.val \div 8) % 2^FieldBits, FieldBits)
           e == IF t.err # "" THEN t.err
                ELSE IF t.val % 8 = 4 THEN EndOfGroup
                ELSE IF fieldNum <= 0 THEN IllegalTag
                ELSE ""
           b == [s EXCEPT !.i = t.i, !.err = e]
<1>1. s \in Cursors(M) /\ s.m \in M /\ s.i \in 0..Len(d) /\ Len(d) \in Nat
  BY CursorParts
<1>2. VarintOf(t, d, s.i)
  BY <1>1, ReadVarintInside DEF Short
<1>3. ReadTag(s, d).behind = b
  BY DEF ReadTag, Tag
<1> HIDE DEF t, fieldNum
<1>4. e \in Errors \cup {"", "coin"} /\ (e = "" => Good(t))
  BY <1>2, Zenon DEF VarintOf, KnownError, Good, Errors, EndOfGroup, IllegalTag
<1> HIDE DEF e
<1>5. t.i \in Int /\ t.i \in 0..Len(d) /\ t.i >= s.i /\ (Good(t) => t.i > s.i)
  BY <1>1, <1>2 DEF VarintOf
<1>6. b \in Cursors(M) /\ b.i = t.i /\ b.err = e
  <2>1. b \in [i : {t.i}, m : {s.m}, err : {e}]
    BY <1>1 DEF Cursors
  <2> HIDE DEF b
  <2> QED
    BY <1>1, <1>4, <1>5, <2>1 DEF Cursors
<1> HIDE DEF b
<1>7. Good(b) => Good(t)
  BY <1>4, <1>6, Zenon DEF Good
<1>8. b \in Cursors(M) /\ b.i = t.i
  BY <1>6
<1> QED
  BY <1>3, <1>5, <1>7, <1>8 DEF TagOf, Within

\* What is read behind a tag is behind the cursor.
LEMMA BehindTag ==
    ASSUME NEW d, Short(d), NEW M, NEW s, Within(s, d, M), NEW t, TagOf(t, s, d, M),
           NEW c, Reads(c, d, t.behind.i, M)
    PROVE  Reads(c, d, s.i, M)
<1> DEFINE b == t.behind
<1>1. Within(b, d, M) /\ b.i >= s.i
  BY DEF TagOf
<1> HIDE DEF b
<1>2. b.i \in 0..Len(d) /\ s.i \in 0..Len(d) /\ Len(d) \in Nat
  BY <1>1, CursorParts
<1>3. Within(c, d, M) /\ (Good(c) => c.i > b.i)
  BY DEF Reads, b
<1>4. c.i \in 0..Len(d)
  BY <1>3, CursorParts
<1>5. Good(c) => c.i > s.i
  BY <1>1, <1>2, <1>3, <1>4
<1> QED
  BY <1>3, <1>5 DEF Reads

\* The branches of a turn: an error in the tag, an unknown field, and the fields that
\* hold numbers, truth values, bytes and lists of numbers.
LEMMA BranchesRead ==
    ASSUME NEW d, Short(d), NEW M, NEW s, Within(s, d, M), NEW t, TagOf(t, s, d, M)
    PROVE  /\ Reads(t.behind, d, s.i, M)
           /\ Reads(SkipUnknown(t.behind, d, s.i), d, s.i, M)
           /\ \A f : HasField(M, f, Word) =>
                  Reads(UintField(t.behind, d, t.wireType, f), d, s.i, M)
           /\ \A f : HasField(M, f, BOOLEAN) =>
                  Reads(BoolField(t.behind, d, t.wireType, f), d, s.i, M)
           /\ \A f : HasField(M, f, Seq(Byte)) =>
                  Reads(BytesField(t.behind, d, t.wireType, f), d, s.i, M)
           /\ \A f : HasField(M, f, Seq(Word)) =>
                  Reads(PackedField(t.behind, d, t.wireType, f, M), d, s.i, M)
<1> DEFINE b == t.behind
<1>1. Within(b, d, M) /\ (Good(b) => b.i > s.i)
  BY DEF TagOf
<1>2. s.i \in 0..Len(d)
  BY CursorParts
<1> HIDE DEF b
<1>3. Reads(b, d, s.i, M)
  BY <1>1 DEF Reads
<1>4. Reads(SkipUnknown(b, d, s.i), d, s.i, M)
  BY <1>1, <1>2, SkipUnknownReads
<1>5. ASSUME NEW f, HasField(M, f, Word)
      PROVE  Reads(UintField(b, d, t.wireType, f), d, s.i, M)
  <2>1. Reads(UintField(b, d, t.wireType, f), d, b.i, M)
    BY <1>1, <1>5, UintFieldReads
  <2> QED
    BY <2>1, BehindTag DEF b
<1>6. ASSUME NEW f, HasField(M, f, BOOLEAN)
      PROVE  Reads(BoolField(b, d, t.wireType, f), d, s.i, M)
  <2>1. Reads(BoolField(b, d, t.wireType, f), d, b.i, M)
    BY <1>1, <1>6, BoolFieldReads
  <2> QED
    BY <2>1, BehindTag DEF b
<1>7. ASSUME NEW f, HasField(M, f, Seq(Byte))
      PROVE  Reads(BytesField(b, d, t.wireType, f), d, s.i, M)
  <2>1. Reads(BytesField(b, d, t.wireType, f), d, b.i, M)
    BY <1>1, <1>7, BytesFieldReads
  <2> QED
    BY <2>1, BehindTag DEF b
<1>8. ASSUME NEW f, HasField(M, f, Seq(Word))
      PROVE  Reads(PackedField(b, d, t.wireType, f, M), d, s.i, M)
  <2>1. Reads(PackedField(b, d, t.wireType, f, M), d, b.i, M)
    BY <1>1, <1>8, PackedFieldReads
  <2> QED
    BY <2>1, BehindTag DEF b
<1> QED
  BY <1>3, <1>4, <1>5, <1>6, <1>7, <1>8 DEF b

-----------------------------------------------------------------------------
(* Params, and messages with a field of that type *)

\* The fields of Params.
LEMMA ParamsFields ==
    /\ HasField(ParamsMessages, "AllowAllCodeIDs", BOOLEAN)
    /\ HasField(ParamsMessages, "AllowedCodeIDs", Seq(Word))
    /\ HasField(ParamsMessages, "MaxGasBefore", Word)
    /\ HasField(ParamsMessages, "MaxGasAfter", Word)
BY DEF ParamsMessages, HasField

\* A turn of Params.Unmarshal.
LEMMA ParamsTurn ==
    ASSUME NEW d, Short(d), NEW s, Within(s, d, ParamsMessages)
    PROVE  Reads(Params_Unmarshal(s, d, ReadTag(s, d)), d, s.i, ParamsMessages)
<1> DEFINE t == ReadTag(s, d)
<1>1. TagOf(t, s, d, ParamsMessages)
  BY ReadTagInside
<1> HIDE DEF t
<1>2. Reads(Params_Unmarshal(s, d, t), d, s.i, ParamsMessages)
  BY <1>1, BranchesRead, ParamsFields DEF Params_Unmarshal
<1> QED
  BY <1>2 DEF t

\* Params.Unmarshal comes to the end of the string or fails, after as many turns as
\* there are bytes.
LEMMA UnmarshalParamsEnds ==
    ASSUME NEW d, Short(d), NEW m \in ParamsMessages
    PROVE  LET c == UnmarshalParams(m, d)
           IN  c \in Cursors(ParamsMessages) /\ (Good(c) => c.i = Len(d))
<1> DEFINE M == ParamsMessages
           first == Start(m)
           Step(s) == IF Finished(s, d) THEN s
                      ELSE Params_Unmarshal(s, d, ReadTag(s, d))
           turn == [s \in Cursors(M) |-> Step(s)]
           n == Len(d)
           Ok(k, x) == Within(x, d, M) /\ (Good(x) /\ x.i < n => x.i >= k)
           J == {q \in Nat \X Cursors(M) : Ok(q[1], q[2])}
           c == Repeat(turn, first, n)
<1>1. UnmarshalParams(m, d) = Returned(c, d)
  BY DEF UnmarshalParams, Unmarshal
<1>2. n \in Nat
  BY LengthIsInt
<1>3. <<0, first>> \in J
  <2>1. first \in Cursors(M) /\ first.i = 0
    BY StartIsCursor
  <2> HIDE DEF first
  <2>2. Ok(0, first)
    BY <1>2, <2>1 DEF Within
  <2> QED
    BY <2>1, <2>2
<1> HIDE DEF M
<1>4. ASSUME NEW k \in 0..(n - 1), NEW x, <<k, x>> \in J
      PROVE  <<k + 1, turn[x]>> \in J
  <2>1. k \in Nat /\ k + 1 \in Nat
    BY <1>2
  <2>2. x \in Cursors(M) /\ Ok(k, x)
    <3> HIDE DEF Ok
    <3> QED
      BY <1>4
  <2>3. turn[x] = Step(x)
    BY <2>2
  <2>4. Within(x, d, M) /\ x.i \in 0..n
    BY <2>2 DEF Within
  <2> SUFFICES Step(x) \in Cursors(M) /\ Ok(k + 1, Step(x))
    <3> HIDE DEF Ok, Step, turn
    <3> QED
      BY <2>1, <2>3
  <2>5. CASE Finished(x, d)
    <3>1. Step(x) = x
      BY <2>5
    <3>2. ~Good(x) \/ x.i >= n
      BY <2>5 DEF Good, Finished
    <3> HIDE DEF Step
    <3>3. Ok(k + 1, x)
      BY <1>2, <2>1, <2>4, <3>2
    <3> QED
      BY <2>2, <3>1, <3>3, Zenon
  <2>6. CASE ~Finished(x, d)
    <3> DEFINE y == Params_Unmarshal(x, d, ReadTag(x, d))
    <3>1. Step(x) = y
      BY <2>6
    <3>2. Good(x) /\ ~(x.i >= n)
      BY <2>6 DEF Good, Finished
    <3>3. Reads(y, d, x.i, M)
      BY <2>4, ParamsTurn DEF M
    <3> HIDE DEF y, Step
    <3>4. y \in Cursors(M) /\ Within(y, d, M) /\ y.i \in 0..n /\ (Good(y) => y.i > x.i)
      BY <3>3 DEF Reads, Within
    <3>5. Ok(k + 1, y)
      BY <1>2, <2>1, <2>2, <2>4, <3>2, <3>4
    <3> QED
      BY <3>1, <3>4, <3>5, Zenon
  <2> QED
    BY <2>5, <2>6
<1>5. <<n, Repeat(turn, first, n)>> \in J
  <2> HIDE DEF J, turn, first, n
  <2> QED
    BY <1>2, <1>3, <1>4, RepeatInduction
<1>6. Ok(n, c)
  <2> HIDE DEF Ok, turn, first, n
  <2> QED
    BY <1>5
<1> HIDE DEF c
<1>7. c \in Cursors(M) /\ c.i \in 0..n
  BY <1>6 DEF Within
<1>8. Good(c) => c.i = n
  BY <1>2, <1>6, <1>7
<1>9. Returned(c, d) = c
  <2>1. ~(c.i > Len(d))
    BY <1>2, <1>7
  <2> QED
    BY <2>1 DEF Returned
<1> QED
  BY <1>1, <1>7, <1>8, <1>9 DEF M

\* The zero value of Params.
LEMMA EmptyParamsIsParams == EmptyParams \in ParamsMessages
<1>1. 0 \in Word
  BY HalfIsNat DEF Word
<1> QED
  BY <1>1 DEF EmptyParams, ParamsMessages

\* A field of type *Params.
LEMMA ParamsFieldReads ==
    ASSUME NEW d, Short(d), NEW M, NEW s, Within(s, d, M), NEW wireType,
           HasField(M, "Params", ParamsMessages \cup {Nil})
    PROVE  Reads(ParamsField(s, d, wireType), d, s.i, M)
<1> DEFINE p == ReadPayload(d, s.i, wireType)
           old == s.m.Params
           into == IF old = Nil THEN EmptyParams ELSE old
           sub == UnmarshalParams(into, Slice(d, p.from, p.to))
<1>1. /\ KnownError(p)
      /\ Good(p) => p.to \in (s.i + 1)..Len(d) /\ Short(Slice(d, p.from, p.to))
  BY PayloadAtCursor
<1>2. into \in ParamsMessages
  <2>1. old \in ParamsMessages \cup {Nil}
    BY CursorParts DEF HasField
  <2> QED
    BY <2>1, EmptyParamsIsParams
<1>3. ParamsField(s, d, wireType) =
          IF p.err # "" THEN Fail(s, p.err) ELSE SetParamsField(s, p, sub)
  BY DEF ParamsField, ParamsInto
<1> HIDE DEF p, into
<1>4. CASE ~Good(p)
  <2>1. ParamsField(s, d, wireType) = Fail(s, p.err)
    BY <1>3, <1>4, Zenon DEF Good
  <2> QED
    BY <1>1, <1>4, <2>1, FailKnownReads
<1>5. CASE Good(p)
  <2>1. sub \in Cursors(ParamsMessages)
    BY <1>1, <1>2, <1>5, UnmarshalParamsEnds
  <2> HIDE DEF sub
  <2>2. sub.m \in ParamsMessages \cup {Nil} /\ sub.err \in Errors \cup {"", "coin"}
    BY <2>1 DEF Cursors
  <2>3. ParamsField(s, d, wireType) =
            IF sub.err # "" THEN Fail(s, sub.err)
            ELSE [s EXCEPT !.i = p.to, !.m["Params"] = sub.m]
    BY <1>3, <1>5, Zenon DEF Good, SetParamsField
  <2>4. CASE sub.err # ""
    <3>1. sub.err \in Errors \cup {"coin"}
      BY <2>2, <2>4
    <3> QED
      BY <2>3, <2>4, <3>1, FailReads
  <2>5. CASE sub.err = ""
    <3>1. p.to \in (s.i + 1)..Len(d)
      BY <1>1, <1>5
    <3>2. Reads([s EXCEPT !.i = p.to, !.m["Params"] = sub.m], d, s.i, M)
      BY <2>2, <3>1, SetFieldReads
    <3> QED
      BY <2>3, <2>5, <3>2, Zenon
  <2> QED
    BY <2>4, <2>5
<1> QED
  BY <1>4, <1>5

\* The repeated field Funds.
LEMMA FundsFieldReads ==
    ASSUME NEW d, Short(d), NEW M, NEW s, Within(s, d, M), NEW wireType,
           HasField(M, "Funds", Seq(Coins))
    PROVE  Reads(FundsField(s, d, wireType), d, s.i, M)
<1> DEFINE p == ReadPayload(d, s.i, wireType)
           coin == Slice(d, p.from, p.to)
<1>1. KnownError(p) /\ (Good(p) => p.to \in (s.i + 1)..Len(d))
  BY PayloadAtCursor
<1>2. FundsField(s, d, wireType) =
          IF p.err # "" THEN Fail(s, p.err)
          ELSE IF coin \notin Coins THEN Fail(s, "coin")
          ELSE [s EXCEPT !.i = p.to, !.m["Funds"] = Append(@, coin)]
  BY Zenon DEF FundsField, AddCoin
<1> HIDE DEF p, coin
<1>3. CASE ~Good(p)
  <2>1. FundsField(s, d, wireType) = Fail(s, p.err)
    BY <1>2, <1>3, Zenon DEF Good
  <2> QED
    BY <1>1, <1>3, <2>1, FailKnownReads
<1>4. CASE Good(p) /\ coin \notin Coins
  <2>1. FundsField(s, d, wireType) = Fail(s, "coin")
    BY <1>2, <1>4, Zenon DEF Good
  <2> QED
    BY <2>1, FailReads
<1>5. CASE Good(p) /\ coin \in Coins
  <2>1. FundsField(s, d, wireType) =
            [s EXCEPT !.i = p.to, !.m["Funds"] = Append(@, coin)]
    BY <1>2, <1>5, Zenon DEF Good
  <2>2. Reads([s EXCEPT !.i = p.to, !.m["Funds"] = Append(@, coin)], d, s.i, M)
    BY <1>1, <1>5, AppendFieldReads
  <2> QED
    BY <2>1, <2>2, Zenon
<1> QED
  BY <1>3, <1>4, <1>5

\* The branches for these two fields.
LEMMA MessageBranchesRead ==
    ASSUME NEW d, Short(d), NEW M, NEW s, Within(s, d, M), NEW t, TagOf(t, s, d, M)
    PROVE  /\ HasField(M, "Params", ParamsMessages \cup {Nil}) =>
                  Reads(ParamsField(t.behind, d, t.wireType), d, s.i, M)
           /\ HasField(M, "Funds", Seq(Coins)) =>
                  Reads(FundsField(t.behind, d, t.wireType), d, s.i, M)
<1> DEFINE b == t.behind
<1>1. Within(b, d, M)
  BY DEF TagOf
<1> HIDE DEF b
<1>2. ASSUME HasField(M, "Params", ParamsMessages \cup {Nil})
      PROVE  Reads(ParamsField(b, d, t.wireType), d, s.i, M)
  <2>1. Reads(ParamsField(b, d, t.wireType), d, b.i, M)
    BY <1>1, <1>2, ParamsFieldReads
  <2> QED
    BY <2>1, BehindTag DEF b
<1>3. ASSUME HasField(M, "Funds", Seq(Coins))
      PROVE  Reads(FundsField(b, d, t.wireType), d, s.i, M)
  <2>1. Reads(FundsField(b, d, t.wireType), d, b.i, M)
    BY <1>1, <1>3, FundsFieldReads
  <2> QED
    BY <2>1, BehindTag DEF b
<1> QED
  BY <1>2, <1>3 DEF b

-----------------------------------------------------------------------------
(* The Unmarshal of every type *)

\* A turn of the Unmarshal of any message type fails, or moves the index behind a
\* byte at least and leaves it inside the string.
LEMMA TurnReads ==
    ASSUME NEW d, Short(d), NEW ty \in MessageTypes, NEW s, Within(s, d, MessagesOf(ty))
    PROVE  Reads(Turn(ty, s, d, ReadTag(s, d)), d, s.i, MessagesOf(ty))
<1> DEFINE t == ReadTag(s, d)
           M == MessagesOf(ty)
<1>1. TagOf(t, s, d, M)
  BY ReadTagInside
<1> HIDE DEF t
<1>2. CASE ty = "AbstractAccount"
  <2>1. /\ HasField(M, "Address", Seq(Byte)) /\ HasField(M, "AccountNumber", Word)
        /\ HasField(M, "Sequence", Word)
    BY <1>2 DEF MessagesOf, HasField, Bytes
  <2> HIDE DEF M
  <2>2. Reads(AbstractAccount_Unmarshal(s, d, t), d, s.i, M)
    BY <1>1, <2>1, BranchesRead DEF AbstractAccount_Unmarshal, M
  <2> QED
    BY <1>2, <2>2 DEF Turn, M, t
<1>3. CASE ty = "NilPubKey"
  <2>1. HasField(M, "AddressBytes", Seq(Byte))
    BY <1>3 DEF MessagesOf, HasField, Bytes
  <2> HIDE DEF M
  <2>2. Reads(NilPubKey_Unmarshal(s, d, t), d, s.i, M)
    BY <1>1, <2>1, BranchesRead DEF NilPubKey_Unmarshal, M
  <2> QED
    BY <1>3, <2>2 DEF Turn, M, t
<1>4. CASE ty = "EventAccountRegistered"
  <2>1. /\ HasField(M, "Creator", Seq(Byte)) /\ HasField(M, "CodeID", Word)
        /\ HasField(M, "ContractAddr", Seq(Byte))
    BY <1>4 DEF MessagesOf, HasField, Bytes
  <2> HIDE DEF M
  <2>2. Reads(EventAccountRegistered_Unmarshal(s, d, t), d, s.i, M)
    BY <1>1, <2>1, BranchesRead DEF EventAccountRegistered_Unmarshal, M
  <2> QED
    BY <1>4, <2>2 DEF Turn, M, t
<1>5. CASE ty = "Params"
  <2>1. M = ParamsMessages
    BY <1>5 DEF MessagesOf
  <2> HIDE DEF M
  <2>2. Reads(Params_Unmarshal(s, d, t), d, s.i, M)
    BY <2>1, ParamsTurn DEF M, t
  <2> QED
    BY <1>5, <2>2 DEF Turn, M, t
<1>6. CASE ty = "GenesisState"
  <2>1. /\ HasField(M, "Params", ParamsMessages \cup {Nil})
        /\ HasField(M, "NextAccountId", Word)
    BY <1>6 DEF MessagesOf, HasField
  <2> HIDE DEF M
  <2>2. Reads(GenesisState_Unmarshal(s, d, t), d, s.i, M)
    BY <1>1, <2>1, BranchesRead, MessageBranchesRead DEF GenesisState_Unmarshal, M
  <2> QED
    BY <1>6, <2>2 DEF Turn, M, t
<1>7. CASE ty = "QueryParamsRequest"
  <2> HIDE DEF M
  <2>1. Reads(QueryParamsRequest_Unmarshal(s, d, t), d, s.i, M)
    BY <1>1, BranchesRead DEF QueryParamsRequest_Unmarshal, M
  <2> QED
    BY <1>7, <2>1 DEF Turn, M, t
<1>8. CASE ty = "QueryParamsResponse"
  <2>1. HasField(M, "Params", ParamsMessages \cup {Nil})
    BY <1>8 DEF MessagesOf, HasField
  <2> HIDE DEF M
  <2>2. Reads(QueryParamsResponse_Unmarshal(s, d, t), d, s.i, M)
    BY <1>1, <2>1, BranchesRead, MessageBranchesRead DEF QueryParamsResponse_Unmarshal, M
  <2> QED
    BY <1>8, <2>2 DEF Turn, M, t
<1>9. CASE ty = "MsgUpdateParams"
  <2>1. /\ HasField(M, "Sender", Seq(Byte))
        /\ HasField(M, "Params", ParamsMessages \cup {Nil})
    BY <1>9 DEF MessagesOf, HasField, Bytes
  <2> HIDE DEF M
  <2>2. Reads(MsgUpdateParams_Unmarshal(s, d, t), d, s.i, M)
    BY <1>1, <2>1, BranchesRead, MessageBranchesRead DEF MsgUpdateParams_Unmarshal, M
  <2> QED
    BY <1>9, <2>2 DEF Turn, M, t
<1>10. CASE ty = "MsgUpdateParamsResponse"
  <2> HIDE DEF M
  <2>1. Reads(MsgUpdateParamsResponse_Unmarshal(s, d, t), d, s.i, M)
    BY <1>1, BranchesRead DEF MsgUpdateParamsResponse_Unmarshal, M
  <2> QED
    BY <1>10, <2>1 DEF Turn, M, t
<1>11. CASE ty = "MsgRegisterAccount"
  <2>1. /\ HasField(M, "Sender", Seq(Byte)) /\ HasField(M, "CodeID", Word)
        /\ HasField(M, "Msg", Seq(Byte)) /\ HasField(M, "Funds", Seq(Coins))
        /\ HasField(M, "Salt", Seq(Byte))
    BY <1>11 DEF MessagesOf, HasField, Bytes
  <2> HIDE DEF M
  <2>2. Reads(MsgRegisterAccount_Unmarshal(s, d, t), d, s.i, M)
    BY <1>1, <2>1, BranchesRead, MessageBranchesRead DEF MsgRegisterAccount_Unmarshal, M
  <2> QED
    BY <1>11, <2>2 DEF Turn, M, t
<1>12. CASE ty = "MsgRegisterAccountResponse"
  <2>1. HasField(M, "Address", Seq(Byte)) /\ HasField(M, "Data", Seq(Byte))
    BY <1>12 DEF MessagesOf, HasField, Bytes
  <2> HIDE DEF M
  <2>2. Reads(MsgRegisterAccountResponse_Unmarshal(s, d, t), d, s.i, M)
    BY <1>1, <2>1, BranchesRead DEF MsgRegisterAccountResponse_Unmarshal, M
  <2> QED
    BY <1>12, <2>2 DEF Turn, M, t
<1>13. ty \in {"AbstractAccount", "NilPubKey", "EventAccountRegistered", "Params",
               "GenesisState", "QueryParamsRequest", "QueryParamsResponse",
               "MsgUpdateParams", "MsgUpdateParamsResponse", "MsgRegisterAccount",
               "MsgRegisterAccountResponse"}
  BY DEF MessageTypes, Empty
<1> QED
  BY <1>2, <1>3, <1>4, <1>5, <1>6, <1>7, <1>8, <1>9, <1>10, <1>11, <1>12, <1>13

\* The zero value of every type is a message of it.
LEMMA EmptyIsMessage ==
    ASSUME NEW ty \in MessageTypes
    PROVE  Empty[ty] \in MessagesOf(ty)
<1>1. 0 \in Word
  BY HalfIsNat DEF Word
<1>2. CASE ty = "AbstractAccount"
  BY <1>1, <1>2 DEF Empty, MessagesOf, Bytes
<1>3. CASE ty = "NilPubKey"
  BY <1>1, <1>3 DEF Empty, MessagesOf, Bytes
<1>4. CASE ty = "EventAccountRegistered"
  BY <1>1, <1>4 DEF Empty, MessagesOf, Bytes
<1>5. CASE ty = "Params"
  BY <1>1, <1>5, EmptyParamsIsParams DEF Empty, MessagesOf, Bytes
<1>6. CASE ty = "GenesisState"
  BY <1>1, <1>6 DEF Empty, MessagesOf, Bytes
<1>7. CASE ty = "QueryParamsRequest"
  BY <1>1, <1>7 DEF Empty, MessagesOf, Bytes
<1>8. CASE ty = "QueryParamsResponse"
  BY <1>1, <1>8 DEF Empty, MessagesOf, Bytes
<1>9. CASE ty = "MsgUpdateParams"
  BY <1>1, <1>9 DEF Empty, MessagesOf, Bytes
<1>10. CASE ty = "MsgUpdateParamsResponse"
  BY <1>1, <1>10 DEF Empty, MessagesOf, Bytes
<1>11. CASE ty = "MsgRegisterAccount"
  BY <1>1, <1>11 DEF Empty, MessagesOf, Bytes
<1>12. CASE ty = "MsgRegisterAccountResponse"
  BY <1>1, <1>12 DEF Empty, MessagesOf, Bytes
<1>13. ty \in {"AbstractAccount", "NilPubKey", "EventAccountRegistered", "Params",
               "GenesisState", "QueryParamsRequest", "QueryParamsResponse",
               "MsgUpdateParams", "MsgUpdateParamsResponse", "MsgRegisterAccount",
               "MsgRegisterAccountResponse"}
  BY DEF MessageTypes, Empty
<1> QED
  BY <1>2, <1>3, <1>4, <1>5, <1>6, <1>7, <1>8, <1>9, <1>10, <1>11, <1>12, <1>13

-----------------------------------------------------------------------------
(* What is read of a string is read of a longer one that has it inside *)

\* d is in e, from index off on.
Holds(e, off, d) ==
    /\ off \in Nat
    /\ off + Len(d) <= Len(e)
    /\ \A k \in 1..Len(d) : e[off + k] = d[k]

\* The n bytes of d from index i on are a varint.
EndsAfter(d, i, n) ==
    /\ n \in 1..MaxVarintLen
    /\ i + n <= Len(d)
    /\ \A k \in 1..n : d[i + k] < 128 <=> k = n

\* VarintLen finds the end of a varint.
LEMMA VarintLenIs ==
    ASSUME NEW d \in Seq(Byte), NEW i \in Nat, NEW n, EndsAfter(d, i, n)
    PROVE  VarintLen(d, i) = n
<1> DEFINE ends == {k \in 1..MaxVarintLen : i + k <= Len(d) /\ d[i + k] < 128}
<1>1. MaxVarintLen \in Int /\ Len(d) \in Nat
  BY WireAssumption DEF MaxVarintLen
<1>2. n \in 1..MaxVarintLen /\ n \in Nat /\ i + n <= Len(d)
  BY <1>1 DEF EndsAfter
<1>3. d[i + n] < 128 /\ \A k \in 1..n : d[i + k] < 128 => k = n
  <2>1. n \in 1..n
    BY <1>2
  <2>2. \A k \in 1..n : d[i + k] < 128 <=> k = n
    BY Zenon DEF EndsAfter
  <2> QED
    BY <2>1, <2>2, Zenon
<1>4. n \in ends
  BY <1>2, <1>3
<1>5. \A j \in ends : j \in Nat /\ n <= j
  <2> SUFFICES ASSUME NEW j \in ends PROVE j \in Nat /\ n <= j
    OBVIOUS
  <2>1. j \in Nat /\ j >= 1 /\ d[i + j] < 128
    BY <1>1
  <2>2. j < n => j \in 1..n /\ j # n
    BY <1>2, <2>1
  <2> QED
    BY <1>2, <1>3, <2>1, <2>2
<1>6. VarintLen(d, i) = IF ends = {} THEN 0 ELSE CHOOSE k \in ends : \A j \in ends : k <= j
  BY DEF VarintLen
<1> HIDE DEF ends
<1> DEFINE c == CHOOSE k \in ends : \A j \in ends : k <= j
<1>7. c \in ends /\ \A j \in ends : c <= j
  BY <1>4, <1>5
<1>8. VarintLen(d, i) = c
  BY <1>4, <1>6
<1> HIDE DEF c
<1>9. c \in Nat /\ n <= c /\ c <= n
  BY <1>4, <1>5, <1>7
<1> QED
  BY <1>2, <1>8, <1>9

\* What it finds is the end of a varint.
LEMMA VarintLenEnds ==
    ASSUME NEW d \in Seq(Byte), NEW i \in Nat, VarintLen(d, i) # 0
    PROVE  EndsAfter(d, i, VarintLen(d, i))
<1> DEFINE ends == {k \in 1..MaxVarintLen : i + k <= Len(d) /\ d[i + k] < 128}
           c == CHOOSE k \in ends : \A j \in ends : k <= j
<1>1. MaxVarintLen \in Int /\ Len(d) \in Nat
  BY WireAssumption DEF MaxVarintLen
<1>2. VarintLen(d, i) = IF ends = {} THEN 0 ELSE c
  BY DEF VarintLen
<1>3. ends \subseteq Nat
  BY <1>1
<1>4. \A k : k \in ends <=> k \in 1..MaxVarintLen /\ i + k <= Len(d) /\ d[i + k] < 128
  OBVIOUS
<1> HIDE DEF ends
<1>5. ends # {} /\ VarintLen(d, i) = c
  BY <1>2
<1>6. c \in ends /\ \A j \in ends : c <= j
  BY <1>3, <1>5, LeastNumber
<1> HIDE DEF c
<1>7. c \in 1..MaxVarintLen /\ c \in Nat /\ i + c <= Len(d) /\ d[i + c] < 128
  BY <1>3, <1>4, <1>6
<1>8. ASSUME NEW k \in 1..c, d[i + k] < 128 PROVE k = c
  <2>1. k \in 1..MaxVarintLen /\ i + k <= Len(d) /\ k \in Nat
    BY <1>1, <1>7
  <2>2. c <= k
    BY <1>4, <1>6, <1>8, <2>1
  <2> QED
    BY <1>7, <2>2
<1> QED
  BY <1>5, <1>7, <1>8 DEF EndsAfter

\* Both strings have the same varint.
LEMMA VarintHeld ==
    ASSUME NEW d \in Seq(Byte), NEW e \in Seq(Byte), NEW off, Holds(e, off, d),
           NEW i \in Nat, NEW n, EndsAfter(d, i, n)
    PROVE  EndsAfter(e, off + i, n) /\ VarintValue(e, off + i, n) = VarintValue(d, i, n)
<1>1. /\ MaxVarintLen \in Int /\ Len(d) \in Nat /\ Len(e) \in Nat /\ off \in Nat
      /\ off + Len(d) <= Len(e) /\ n \in 1..MaxVarintLen /\ i + n <= Len(d)
  BY WireAssumption DEF MaxVarintLen, Holds, EndsAfter
<1>2. \A k \in 1..n : e[(off + i) + k] = d[i + k]
  <2> SUFFICES ASSUME NEW k \in 1..n PROVE e[(off + i) + k] = d[i + k]
    OBVIOUS
  <2>1. i + k \in 1..Len(d) /\ (off + i) + k = off + (i + k)
    BY <1>1
  <2> QED
    BY <2>1 DEF Holds
<1>3. EndsAfter(e, off + i, n)
  <2>1. (off + i) + n <= Len(e)
    BY <1>1
  <2> QED
    BY <1>1, <1>2, <2>1 DEF EndsAfter
<1>4. [k \in 1..n |-> (e[(off + i) + k] % 128) * 128^(k - 1)] =
          [k \in 1..n |-> (d[i + k] % 128) * 128^(k - 1)]
  BY <1>2, Zenon
<1> QED
  BY <1>3, <1>4, Zenon DEF VarintValue

\* A varint that ends is read without an error.
LEMMA ReadVarintIs ==
    ASSUME NEW d \in Seq(Byte), NEW i \in Nat, NEW n, EndsAfter(d, i, n)
    PROVE  LET v == ReadVarint(d, i)
           IN  Good(v) /\ v.val = VarintValue(d, i, n) /\ v.i = i + n
<1>1. VarintLen(d, i) = n
  BY VarintLenIs
<1>2. n > 0
  BY WireAssumption DEF EndsAfter, MaxVarintLen
<1> QED
  BY <1>1, <1>2 DEF ReadVarint, VarintAt, Good

\* One that is read without an error ends.
LEMMA ReadVarintEnds ==
    ASSUME NEW d \in Seq(Byte), NEW i \in 0..Len(d), Good(ReadVarint(d, i))
    PROVE  \E n : EndsAfter(d, i, n)
<1>1. VarintLen(d, i) \in Nat /\ i \in Nat
  BY VarintLength
<1>2. VarintLen(d, i) > 0
  BY DEF ReadVarint, VarintAt, Good, EOF, IntOverflow
<1>3. EndsAfter(d, i, VarintLen(d, i))
  BY <1>1, <1>2, VarintLenEnds
<1> QED
  BY <1>3

\* Both strings are read alike.
LEMMA ReadVarintHeld ==
    ASSUME NEW d \in Seq(Byte), NEW e \in Seq(Byte), NEW off, Holds(e, off, d),
           NEW i \in 0..Len(d), Good(ReadVarint(d, i))
    PROVE  LET v == ReadVarint(d, i)
               w == ReadVarint(e, off + i)
           IN  Good(w) /\ w.val = v.val /\ w.i = off + v.i
<1>1. PICK n : EndsAfter(d, i, n)
  BY ReadVarintEnds
<1>2. off \in Nat /\ i \in Nat /\ off + i \in Nat /\ n \in Nat
  BY <1>1, WireAssumption DEF Holds, EndsAfter, MaxVarintLen
<1>3. EndsAfter(e, off + i, n) /\ VarintValue(e, off + i, n) = VarintValue(d, i, n)
  BY <1>1, <1>2, VarintHeld
<1> DEFINE v == ReadVarint(d, i)
           w == ReadVarint(e, off + i)
<1>4. v.val = VarintValue(d, i, n) /\ v.i = i + n
  BY <1>1, <1>2, ReadVarintIs
<1>5. Good(w) /\ w.val = VarintValue(e, off + i, n) /\ w.i = (off + i) + n
  BY <1>2, <1>3, ReadVarintIs
<1> HIDE DEF v, w
<1>6. w.i = off + v.i
  BY <1>2, <1>4, <1>5
<1>7. w.val = v.val
  BY <1>3, <1>4, <1>5
<1> QED
  BY <1>5, <1>6, <1>7 DEF v, w

\* A sum that an int can hold does not wrap around.
LEMMA AddIntFits ==
    ASSUME NEW x \in Nat, NEW y \in Nat, x + y < Half
    PROVE  AddInt(x, y) = x + y
<1> DEFINE z == x + y
           b == 2 * Half
<1>1. z \in Int /\ b \in Nat \ {0} /\ z \in 0..(b - 1)
  BY HalfIsNat
<1>2. AddInt(x, y) = Signed(z % b, WordBits)
  BY HalfIsNat DEF AddInt
<1>3. z < Half
  OBVIOUS
<1>4. z \in Word
  BY <1>1, HalfIsNat DEF Word
<1> HIDE DEF z, b
<1>5. z % b = z
  BY <1>1, Remainder
<1>6. Signed(z, WordBits) = z
  BY <1>3, <1>4, SignedWord
<1> QED
  BY <1>2, <1>5, <1>6 DEF z

\* A payload that is inside the string.
LEMMA PayloadIs ==
    ASSUME NEW d, Short(d), NEW v, Good(v), v.i \in Nat, v.val \in Nat,
           v.i + v.val <= Len(d)
    PROVE  LET p == Payload(d, v, 2)
           IN  Good(p) /\ p.from = v.i /\ p.to = v.i + v.val
<1> DEFINE length == Signed(v.val, WordBits)
           postIndex == AddInt(v.i, length)
           p == Payload(d, v, 2)
<1>1. Len(d) \in Nat /\ Len(d) < Half
  BY LengthIsInt
<1>2. v.val < Half /\ v.i + v.val < Half
  BY <1>1, HalfIsNat
<1>3. v.val \in Word
  BY <1>2, HalfIsNat DEF Word
<1>4. length = v.val
  BY <1>2, <1>3, SignedWord
<1> HIDE DEF length
<1>5. postIndex = v.i + v.val
  BY <1>2, <1>4, AddIntFits
<1>6. p.from = v.i /\ p.to = postIndex
  BY DEF Payload, length, postIndex
<1>7. p.err = IF v.err # "" THEN v.err ELSE LengthError(d, length, postIndex)
  BY DEF Payload, length, postIndex
<1> HIDE DEF postIndex, p
<1>8. LengthError(d, length, postIndex) = ""
  <2>1. ~(length < 0) /\ ~(postIndex < 0) /\ ~(postIndex > Len(d))
    BY <1>1, <1>4, <1>5
  <2> QED
    BY <2>1, Zenon DEF LengthError
<1>9. Good(p)
  BY <1>7, <1>8, Zenon DEF Good
<1> QED
  BY <1>5, <1>6, <1>9 DEF p

\* A payload that was read is inside the string.
LEMMA PayloadGood ==
    ASSUME NEW d, Short(d), NEW i \in 0..Len(d), NEW wireType,
           Good(ReadPayload(d, i, wireType))
    PROVE  LET v == ReadVarint(d, i)
               p == ReadPayload(d, i, wireType)
           IN  /\ wireType = 2 /\ Good(v)
               /\ v.i \in (i + 1)..Len(d) /\ v.val \in Nat /\ v.i + v.val <= Len(d)
               /\ p.from = v.i /\ p.to = v.i + v.val
<1> DEFINE v == ReadVarint(d, i)
           length == Signed(v.val, WordBits)
           postIndex == AddInt(v.i, length)
           p == Payload(d, v, wireType)
<1>1. VarintOf(v, d, i)
  BY ReadVarintInside DEF Short
<1>2. ReadPayload(d, i, wireType) = p
  BY DEF ReadPayload
<1> HIDE DEF v
<1>3. v.val \in Word /\ v.val \in Nat /\ v.i \in Nat /\ v.i <= Len(d) /\ Len(d) \in Nat
  BY <1>1, LengthIsInt, HalfIsNat DEF VarintOf, Word
<1>4. /\ p.err = IF wireType # 2 THEN WrongWireType
                 ELSE IF v.err # "" THEN v.err ELSE LengthError(d, length, postIndex)
      /\ p.from = v.i /\ p.to = postIndex
  BY DEF Payload, length, postIndex
<1>5. length \in Int /\ (v.val < Half => length = v.val) /\ (v.val >= Half => length < 0)
  <2>1. /\ length \in (-Half)..(Half - 1)
        /\ (v.val < Half => length = v.val) /\ (v.val >= Half => length < 0)
    BY <1>3, SignedWord
  <2> HIDE DEF length
  <2>2. Half \in Nat
    BY HalfIsNat
  <2> QED
    BY <2>1, <2>2
<1> HIDE DEF p, length, postIndex
<1>6. wireType = 2 /\ Good(v) /\ LengthError(d, length, postIndex) = ""
  BY <1>2, <1>4, Zenon DEF Good, WrongWireType
<1>7. ~(length < 0) /\ ~(postIndex < 0) /\ ~(postIndex > Len(d))
  BY <1>6 DEF LengthError, InvalidLength, EOF
<1>8. v.val < Half /\ length = v.val
  BY <1>3, <1>5, <1>7, HalfIsNat
<1>9. v.i \in 0..(Half - 1) /\ v.val \in 0..(Half - 1) /\ v.val \in Int
  BY <1>3, <1>8, LengthIsInt, HalfIsNat
<1>10. postIndex \in Int /\ (postIndex >= 0 => postIndex = v.i + v.val)
  BY <1>8, <1>9, AddIntExact DEF postIndex
<1>11. postIndex = v.i + v.val /\ v.i + v.val <= Len(d)
  BY <1>3, <1>7, <1>10
<1>12. v.i \in (i + 1)..Len(d)
  <2>1. v.i \in i..Len(d) /\ v.i > i
    BY <1>1, <1>6, Zenon DEF VarintOf
  <2> QED
    BY <1>3, <2>1
<1> QED
  BY <1>2, <1>3, <1>4, <1>6, <1>11, <1>12 DEF v

\* A part of d is a part of e.
LEMMA SliceHeld ==
    ASSUME NEW d \in Seq(Byte), NEW e \in Seq(Byte), NEW off, Holds(e, off, d),
           NEW from \in 0..Len(d), NEW to \in from..Len(d)
    PROVE  Slice(e, off + from, off + to) = Slice(d, from, to)
<1>1. /\ off \in Nat /\ Len(d) \in Nat /\ Len(e) \in Nat /\ off + Len(d) <= Len(e)
      /\ from \in Nat /\ to \in Nat /\ from <= to /\ to <= Len(d)
  BY DEF Holds
<1> DEFINE x == Slice(d, from, to)
           y == Slice(e, off + from, off + to)
<1>2. x = [k \in 1..(to - from) |-> d[from + k]]
  <2>1. SubSeq(d, from + 1, to) = [k \in 1..(to - (from + 1) + 1) |-> d[k + (from + 1) - 1]]
    BY <1>1
  <2>2. to - (from + 1) + 1 = to - from
    BY <1>1
  <2>3. \A k \in 1..(to - from) : k + (from + 1) - 1 = from + k
    BY <1>1
  <2> QED
    BY <2>1, <2>2, <2>3 DEF Slice
<1>3. y = [k \in 1..(to - from) |-> e[(off + from) + k]]
  <2>1. SubSeq(e, (off + from) + 1, off + to) =
            [k \in 1..((off + to) - ((off + from) + 1) + 1) |-> e[k + ((off + from) + 1) - 1]]
    BY <1>1
  <2>2. (off + to) - ((off + from) + 1) + 1 = to - from
    BY <1>1
  <2>3. \A k \in 1..(to - from) : k + ((off + from) + 1) - 1 = (off + from) + k
    BY <1>1
  <2> QED
    BY <2>1, <2>2, <2>3 DEF Slice
<1>4. \A k \in 1..(to - from) : e[(off + from) + k] = d[from + k]
  <2> SUFFICES ASSUME NEW k \in 1..(to - from) PROVE e[(off + from) + k] = d[from + k]
    OBVIOUS
  <2>1. from + k \in 1..Len(d) /\ (off + from) + k = off + (from + k)
    BY <1>1
  <2> QED
    BY <2>1 DEF Holds
<1>5. [k \in 1..(to - from) |-> e[(off + from) + k]] = [k \in 1..(to - from) |-> d[from + k]]
  BY <1>4, Zenon
<1> QED
  BY <1>2, <1>3, <1>5, Zenon

\* Both strings have the same payload.
LEMMA PayloadHeld ==
    ASSUME NEW d, Short(d), NEW e, Short(e), NEW off, Holds(e, off, d),
           NEW i \in 0..Len(d), NEW wireType, Good(ReadPayload(d, i, wireType))
    PROVE  LET p == ReadPayload(d, i, wireType)
               q == ReadPayload(e, off + i, wireType)
           IN  /\ Good(q) /\ q.from = off + p.from /\ q.to = off + p.to
               /\ Slice(e, q.from, q.to) = Slice(d, p.from, p.to)
<1> DEFINE v == ReadVarint(d, i)
           w == ReadVarint(e, off + i)
           p == ReadPayload(d, i, wireType)
           q == ReadPayload(e, off + i, wireType)
<1>1. /\ wireType = 2 /\ Good(v)
      /\ v.i \in (i + 1)..Len(d) /\ v.val \in Nat /\ v.i + v.val <= Len(d)
      /\ p.from = v.i /\ p.to = v.i + v.val
  BY PayloadGood
<1>2. d \in Seq(Byte) /\ e \in Seq(Byte) /\ Len(d) \in Nat /\ Len(e) \in Nat
  BY LengthIsInt DEF Short
<1>3. Good(w) /\ w.val = v.val /\ w.i = off + v.i
  BY <1>1, <1>2, ReadVarintHeld
<1>4. q = Payload(e, w, 2)
  BY <1>1 DEF ReadPayload
<1> HIDE DEF v, w, p
<1>5. off \in Nat /\ off + Len(d) <= Len(e) /\ v.i \in Nat
  BY <1>1, <1>2 DEF Holds
<1>6. w.i \in Nat /\ w.val \in Nat /\ w.i + w.val <= Len(e)
  BY <1>1, <1>2, <1>3, <1>5
<1>7. Good(q) /\ q.from = w.i /\ q.to = w.i + w.val
  BY <1>3, <1>4, <1>6, PayloadIs
<1> HIDE DEF q
<1>8. q.from = off + p.from /\ q.to = off + p.to
  BY <1>1, <1>3, <1>5, <1>7
<1>9. p.from \in 0..Len(d) /\ p.to \in (p.from)..Len(d)
  BY <1>1, <1>2, <1>5
<1>10. Slice(e, q.from, q.to) = Slice(d, p.from, p.to)
  BY <1>2, <1>8, <1>9, SliceHeld
<1> QED
  BY <1>7, <1>8, <1>10 DEF p, q

\* The loop of skip.
SkipTurn(d) ==
    [s \in SkipStates |->
        IF s.err # "" \/ s.done THEN s
        ELSE IF s.i >= Len(d) THEN Fail(s, EOF)
        ELSE SkipTagged(s, d, ReadVarint(d, s.i))]

SkipStart == [i |-> 0, depth |-> 0, done |-> FALSE, err |-> ""]

SkipCursors == {x \in SkipStates : Good(x) => x.i \in Nat}

\* It is the loop of skip, and its states are states.
LEMMA SkipIsLoop ==
    /\ \A d : skip(d) = Repeat(SkipTurn(d), SkipStart, Len(d) + 1)
    /\ SkipStart \in SkipCursors
<1>1. \A d : skip(d) = Repeat(SkipTurn(d), SkipStart, Len(d) + 1)
  BY DEF skip, SkipTurn, SkipStart
<1>2. SkipStart \in SkipStates /\ SkipStart.i = 0
  BY DEF SkipStart, SkipStates
<1> QED
  BY <1>1, <1>2 DEF SkipCursors

\* The three cases of a turn.
LEMMA SkipTurnCases ==
    ASSUME NEW d, Short(d), NEW x \in SkipCursors
    PROVE  LET y == SkipTurn(d)[x]
               z == SkipTagged(x, d, ReadVarint(d, x.i))
           IN  /\ y \in SkipCursors
               /\ ~Good(x) \/ x.done => y = x
               /\ Good(x) /\ ~x.done /\ x.i >= Len(d) => ~Good(y)
               /\ Good(x) /\ ~x.done /\ x.i < Len(d) =>
                      y = z /\ x.i \in Nat /\ (Good(y) => y.i > x.i)
<1> DEFINE y == SkipTurn(d)[x]
           z == SkipTagged(x, d, ReadVarint(d, x.i))
<1>1. x \in SkipStates /\ (Good(x) => x.i \in Nat) /\ Len(d) \in Nat /\ Half \in Nat
  BY LengthIsInt, HalfIsNat DEF SkipCursors
<1>2. y = IF x.err # "" \/ x.done THEN x
          ELSE IF x.i >= Len(d) THEN Fail(x, EOF) ELSE z
  BY <1>1, Zenon DEF SkipTurn
<1>3. y = IF ~Good(x) \/ x.done THEN x
          ELSE IF x.i >= Len(d) THEN Fail(x, EOF) ELSE z
  BY <1>2, Zenon DEF Good
<1>4. Fail(x, EOF) \in SkipStates
  BY <1>1 DEF Fail, SkipStates, EOF, Errors
<1>5. ~Good(Fail(x, EOF))
  BY <1>1 DEF Fail, SkipStates, EOF, Good
<1>6. CASE ~Good(x) \/ x.done
  <2>1. y = x
    BY <1>3, <1>6, Zenon
  <2> QED
    BY <1>6, <2>1, Zenon
<1>7. CASE Good(x) /\ ~x.done /\ x.i >= Len(d)
  <2>1. y = Fail(x, EOF)
    BY <1>3, <1>7, Zenon
  <2>2. ~(x.i < Len(d))
    BY <1>1, <1>7
  <2> HIDE DEF y
  <2> QED
    BY <1>4, <1>5, <1>7, <2>1, <2>2 DEF SkipCursors, y
<1>8. CASE Good(x) /\ ~x.done /\ ~(x.i >= Len(d))
  <2>1. y = z
    BY <1>3, <1>8, Zenon
  <2>2. x.i \in 0..(Len(d) - 1)
    BY <1>1, <1>8
  <2>3. z \in SkipStates /\ (Good(z) => z.i \in (x.i + 1)..(Half - 1))
    BY <1>1, <2>2, SkipTaggedAdvances
  <2> HIDE DEF y, z
  <2>4. Good(z) => z.i \in Nat /\ z.i > x.i
    BY <1>1, <2>2, <2>3
  <2>5. z \in SkipCursors
    BY <2>3, <2>4 DEF SkipCursors
  <2> QED
    BY <1>1, <1>8, <2>1, <2>4, <2>5 DEF y, z
<1> QED
  BY <1>6, <1>7, <1>8

\* A field is stepped over alike if its tag and its varint are the same.
LEMMA SkipFieldSame ==
    ASSUME NEW s, NEW t, NEW v, NEW t2, NEW v2, Good(t), Good(t2), t.val = t2.val,
           t.i = t2.i,
           t.val % 8 \in {0, 2} => Good(v) /\ Good(v2) /\ v.val = v2.val /\ v.i = v2.i
    PROVE  SkipField(s, t, v) = SkipField(s, t2, v2)
<1> DEFINE w == t.val % 8
<1>1. CASE w \in {0, 2}
  <2>1. t.err = "" /\ t2.err = "" /\ v.err = "" /\ v2.err = ""
    BY <1>1 DEF Good
  <2> QED
    BY <1>1, <2>1, Zenon DEF SkipField
<1>2. CASE w \notin {0, 2}
  <2>1. t.err = "" /\ t2.err = "" /\ t2.val % 8 = w
    BY DEF Good
  <2> DEFINE depth == CASE w = 3 -> s.depth + 1
                        [] w = 4 -> s.depth - 1
                        [] OTHER -> s.depth
             I(a, b) == CASE w = 0 -> a
                          [] w = 1 -> t.i + Fixed64
                          [] w = 2 -> b
                          [] w = 5 -> t.i + Fixed32
                          [] OTHER -> t.i
             E(a, p) == IF w \in {0, 2} /\ a # "" THEN a
                        ELSE IF w = 2 /\ p THEN InvalidLength
                        ELSE IF w = 4 /\ s.depth = 0 THEN EndOfGroup
                        ELSE IF w > 5 THEN WrongWireType
                        ELSE ""
             F(a, b, e, p) == [i |-> I(a, b), depth |-> depth, done |-> depth = 0,
                               err |-> E(e, p)]
             len == Signed(v.val, WordBits)
             len2 == Signed(v2.val, WordBits)
  <2>2. \A a, b, a2, b2 : I(a, b) = I(a2, b2)
    BY <1>2
  <2>3. \A a, p, a2, p2 : E(a, p) = E(a2, p2)
    BY <1>2, Zenon
  <2>4. SkipField(s, t, v) = F(v.i, AddInt(v.i, len), v.err, len < 0 \/ AddInt(v.i, len) < 0)
    BY <2>1, Zenon DEF SkipField
  <2>5. SkipField(s, t2, v2)
            = F(v2.i, AddInt(v2.i, len2), v2.err, len2 < 0 \/ AddInt(v2.i, len2) < 0)
    BY <2>1, Zenon DEF SkipField
  <2> HIDE DEF I, E, depth
  <2> QED
    BY <2>2, <2>3, <2>4, <2>5, Zenon
<1> QED
  BY <1>1, <1>2

\* If a field of wire type 0 or 2 was stepped over, its varint was read.
LEMMA SkipFieldGood ==
    ASSUME NEW s, NEW t, NEW v, Good(SkipField(s, t, v))
    PROVE  Good(t) /\ (t.val % 8 \in {0, 2} => Good(v))
<1> DEFINE w == t.val % 8
           length == Signed(v.val, WordBits)
           post == AddInt(v.i, length)
           y == SkipField(s, t, v)
<1>1. y.err = IF t.err # "" THEN t.err
              ELSE IF w \in {0, 2} /\ v.err # "" THEN v.err
              ELSE IF w = 2 /\ (length < 0 \/ post < 0) THEN InvalidLength
              ELSE IF w = 4 /\ s.depth = 0 THEN EndOfGroup
              ELSE IF w > 5 THEN WrongWireType
              ELSE ""
  BY DEF SkipField
<1> HIDE DEF w, y, length, post
<1>2. y.err = ""
  BY DEF Good, y
<1>3. t.err = "" /\ (w \in {0, 2} => v.err = "")
  BY <1>1, <1>2, Zenon
<1> QED
  BY <1>3 DEF Good, w

\* A field that skip finds in d, it finds in a string that begins with d.
LEMMA SkipHeld ==
    ASSUME NEW d, Short(d), NEW e, Short(e), Holds(e, 0, d),
           Good(skip(d)), skip(d).i <= Len(d)
    PROVE  skip(e) = skip(d)
<1> DEFINE turn == SkipTurn(d)
           other == SkipTurn(e)
           X == SkipCursors
           G == {x \in X : Good(x) /\ x.i <= Len(d)}
           at == [x \in X |-> x]
           n == Len(d) + 1
           k == skip(d)
<1>1. /\ d \in Seq(Byte) /\ e \in Seq(Byte) /\ Len(d) \in Nat /\ Len(e) \in Nat
      /\ Len(d) <= Len(e) /\ n \in Nat
  BY LengthIsInt DEF Short, Holds
<1>2. k = Repeat(turn, SkipStart, n) /\ SkipStart \in X
  BY SkipIsLoop
<1>3. \A x \in X : turn[x] \in X
  BY SkipTurnCases
<1>4. ASSUME NEW x \in X, turn[x] \in G
      PROVE  x \in G /\ other[at[x]] = at[turn[x]]
  <2> DEFINE y == turn[x]
             z == SkipTagged(x, d, ReadVarint(d, x.i))
             z2 == SkipTagged(x, e, ReadVarint(e, x.i))
  <2>1. /\ y \in X
        /\ ~Good(x) \/ x.done => y = x
        /\ Good(x) /\ ~x.done /\ x.i >= Len(d) => ~Good(y)
        /\ Good(x) /\ ~x.done /\ x.i < Len(d) =>
               y = z /\ x.i \in Nat /\ (Good(y) => y.i > x.i)
    BY SkipTurnCases
  <2>2. /\ ~Good(x) \/ x.done => other[x] = x
        /\ Good(x) /\ ~x.done /\ x.i < Len(e) => other[x] = z2
    BY SkipTurnCases
  <2>3. Good(y) /\ y.i <= Len(d)
    BY <1>4
  <2>4. at[x] = x /\ at[y] = y
    BY <2>1
  <2>5. CASE ~Good(x) \/ x.done
    <3>1. y = x /\ other[x] = x
      BY <2>1, <2>2, <2>5
    <3> HIDE DEF y
    <3> QED
      BY <2>3, <2>4, <3>1 DEF y
  <2>6. CASE Good(x) /\ ~x.done
    <3>1. ~(x.i >= Len(d)) /\ x.i \in Nat
      BY <2>1, <2>3, <2>6 DEF SkipCursors
    <3>2. x.i < Len(d) /\ x.i < Len(e) /\ x.i \in 0..Len(d)
      BY <1>1, <3>1
    <3>3. y = z /\ other[x] = z2
      BY <2>1, <2>2, <2>6, <3>2
    <3> DEFINE t == ReadVarint(d, x.i)
               v == ReadVarint(d, t.i)
               t2 == ReadVarint(e, x.i)
               v2 == ReadVarint(e, t2.i)
    <3>4. z = SkipField(x, t, v) /\ z2 = SkipField(x, t2, v2)
      BY DEF SkipTagged
    <3>5. Good(t) /\ (t.val % 8 \in {0, 2} => Good(v))
      BY <2>3, <3>3, <3>4, SkipFieldGood
    <3>6. t.i \in 0..Len(d)
      <4>1. VarintOf(t, d, x.i)
        BY <1>1, <3>2, ReadVarintInside
      <4> HIDE DEF t
      <4> QED
        BY <1>1, <3>2, <4>1 DEF VarintOf
    <3>7. Good(t2) /\ t2.val = t.val /\ t2.i = t.i
      <4>1. 0 + x.i = x.i /\ 0 + t.i = t.i
        BY <3>1, <3>6, <1>1
      <4> QED
        BY <1>1, <3>2, <3>5, <4>1, ReadVarintHeld
    <3>8. t.val % 8 \in {0, 2} => Good(v2) /\ v2.val = v.val /\ v2.i = v.i
      <4> SUFFICES ASSUME t.val % 8 \in {0, 2}
                   PROVE  Good(v2) /\ v2.val = v.val /\ v2.i = v.i
        OBVIOUS
      <4>1. v2 = ReadVarint(e, t.i)
        BY <3>7
      <4> HIDE DEF t, t2, v2
      <4>2. Good(v)
        BY <3>5
      <4>3. t.i \in 0..Len(d) /\ 0 + t.i = t.i /\ VarintOf(v, d, t.i)
        BY <1>1, <3>6, ReadVarintInside
      <4>4. v.i \in Int /\ 0 + v.i = v.i
        <5> HIDE DEF v
        <5> QED
          BY <1>1, <4>3 DEF VarintOf
      <4> QED
        BY <1>1, <4>1, <4>2, <4>3, <4>4, ReadVarintHeld
    <3> HIDE DEF t, v, t2, v2
    <3>9. SkipField(x, t, v) = SkipField(x, t2, v2)
      BY <3>5, <3>7, <3>8, SkipFieldSame
    <3>10. x.i <= Len(d)
      BY <1>1, <3>2
    <3> QED
      BY <2>4, <2>6, <3>3, <3>4, <3>9, <3>10
  <2> QED
    BY <2>5, <2>6
<1>5. k \in G /\ k.done
  <2>1. k.done
    BY SkipEnds
  <2>2. k \in X
    <3>1. k \in X /\ Good(k) => k \in X
      OBVIOUS
    <3>2. KnownError(k) /\ k.i \in 1..(Half - 1)
      BY SkipEnds
    <3> HIDE DEF turn, X
    <3> DEFINE J == Nat \X X
    <3>3. <<0, SkipStart>> \in J
      BY <1>2
    <3>4. \A j \in 0..(n - 1) : \A x : <<j, x>> \in J => <<j + 1, turn[x]>> \in J
      BY <1>1, <1>3
    <3>5. <<n, Repeat(turn, SkipStart, n)>> \in J
      <4> HIDE DEF J, n
      <4> QED
        BY <1>1, <3>3, <3>4, RepeatInduction
    <3> QED
      BY <1>2, <3>5
  <2> QED
    BY <2>1, <2>2
<1>6. Repeat(other, SkipStart, n) = k
  <2> HIDE DEF turn, other, X, G, n
  <2>1. at[SkipStart] = SkipStart /\ at[k] = k
    BY <1>2, <1>5 DEF G
  <2>2. Repeat(turn, SkipStart, n) \in G
    BY <1>2, <1>5
  <2> HIDE DEF at
  <2>3. Repeat(other, at[SkipStart], n) = at[Repeat(turn, SkipStart, n)]
    BY <1>1, <1>2, <1>3, <1>4, <2>2, LeadsAlong
  <2> QED
    BY <1>2, <2>1, <2>3
<1>7. other[k] = k
  <2>1. k \in SkipCursors
    BY <1>5
  <2> QED
    BY <1>5, <2>1, SkipTurnCases
<1>8. skip(e) = Repeat(other, SkipStart, Len(e) + 1)
  BY SkipIsLoop
<1> HIDE DEF other, k
<1>9. Len(e) - Len(d) \in Nat /\ n + (Len(e) - Len(d)) = Len(e) + 1
  BY <1>1
<1>10. Repeat(other, SkipStart, n + (Len(e) - Len(d))) = Repeat(other, k, Len(e) - Len(d))
  <2> HIDE DEF n
  <2> QED
    BY <1>1, <1>6, <1>9, RepeatAdd
<1>11. Repeat(other, k, Len(e) - Len(d)) = k
  BY <1>7, <1>9, RepeatFixed
<1> QED
  BY <1>8, <1>9, <1>10, <1>11 DEF k

\* The bytes of a part of a string.
LEMMA SliceIs ==
    ASSUME NEW d \in Seq(Byte), NEW from \in 0..Len(d), NEW to \in from..Len(d)
    PROVE  Slice(d, from, to) = [k \in 1..(to - from) |-> d[from + k]]
<1>1. Len(d) \in Nat /\ from \in Nat /\ to \in Nat /\ from <= to /\ to <= Len(d)
  OBVIOUS
<1>2. SubSeq(d, from + 1, to) = [k \in 1..(to - (from + 1) + 1) |-> d[k + (from + 1) - 1]]
  BY <1>1
<1>3. to - (from + 1) + 1 = to - from
  BY <1>1
<1>4. \A k \in 1..(to - from) : k + (from + 1) - 1 = from + k
  BY <1>1
<1> QED
  BY <1>2, <1>3, <1>4 DEF Slice

\* What is behind an index of d is behind the same place of e.
LEMMA RestHeld ==
    ASSUME NEW d, Short(d), NEW e, Short(e), NEW off, Holds(e, off, d), NEW j \in 0..Len(d)
    PROVE  /\ Holds(Slice(e, off + j, Len(e)), 0, Slice(d, j, Len(d)))
           /\ Short(Slice(d, j, Len(d))) /\ Len(Slice(d, j, Len(d))) = Len(d) - j
           /\ Short(Slice(e, off + j, Len(e)))
<1>1. /\ d \in Seq(Byte) /\ e \in Seq(Byte) /\ Len(d) \in Nat /\ Len(e) \in Nat /\ off \in Nat
      /\ off + Len(d) <= Len(e) /\ \A k \in 1..Len(d) : e[off + k] = d[k]
  BY LengthIsInt DEF Short, Holds
<1>2. off + j \in 0..Len(e) /\ Len(e) \in (off + j)..Len(e) /\ Len(d) \in j..Len(d)
  BY <1>1
<1> DEFINE x == Slice(d, j, Len(d))
           y == Slice(e, off + j, Len(e))
           n == Len(d) - j
           m == Len(e) - (off + j)
<1>3. x = [k \in 1..n |-> d[j + k]] /\ y = [k \in 1..m |-> e[(off + j) + k]]
  BY <1>1, <1>2, SliceIs
<1>4. Short(x) /\ Short(y) /\ Len(x) = n /\ Len(y) = m
  BY <1>1, <1>2, SliceIsShort
<1> HIDE DEF x, y
<1>5. n \in Nat /\ m \in Nat /\ n <= m
  BY <1>1, <1>2
<1>6. ASSUME NEW k \in 1..n PROVE y[0 + k] = x[k]
  <2>1. /\ k \in 1..m /\ 0 + k = k /\ j + k \in 1..Len(d) /\ (off + j) + k = off + (j + k)
    BY <1>1, <1>5
  <2>2. y[k] = e[(off + j) + k] /\ x[k] = d[j + k]
    BY <1>3, <2>1
  <2> QED
    BY <1>1, <2>1, <2>2
<1>7. Holds(y, 0, x)
  <2>1. 0 + n <= m
    BY <1>5
  <2> QED
    BY <1>4, <1>6, <2>1 DEF Holds
<1> QED
  BY <1>4, <1>7 DEF x, y

\* The cursor c of d, in e.
Sh(c, off) == At(off + c.i, c.m, c.err)

\* It is a cursor.
LEMMA ShiftIsCursor ==
    ASSUME NEW d, Short(d), NEW M, NEW c, Within(c, d, M), NEW off \in Nat
    PROVE  /\ Sh(c, off) \in Cursors(M)
           /\ Sh(c, off).i = off + c.i /\ Sh(c, off).m = c.m /\ Sh(c, off).err = c.err
           /\ off + c.i \in Nat
<1>1. c \in Cursors(M) /\ c.i \in 0..Len(d) /\ Len(d) \in Nat /\ off + c.i \in Nat
  BY CursorParts
<1>2. c.m \in M /\ c.err \in Errors \cup {"", "coin"}
  BY <1>1 DEF Cursors
<1>3. off + c.i \in Int
  BY <1>1
<1> HIDE DEF Errors
<1> QED
  BY <1>1, <1>2, <1>3, Zenon DEF Sh, At, Cursors

\* A cursor that has failed is not good.
LEMMA FailIsBad ==
    ASSUME NEW M, NEW c \in Cursors(M)
    PROVE  /\ \A v : ~Good(v) => ~Good(Fail(c, v.err))
           /\ \A x \in Errors \cup {"coin"} : ~Good(Fail(c, x))
<1>1. \A x : Fail(c, x).err = x
  BY DEF Fail, Cursors
<1>2. "" \notin Errors \cup {"coin"}
  BY DEF Errors, EOF, IntOverflow, InvalidLength, EndOfGroup, WrongWireType, IllegalTag
<1> QED
  BY <1>1, <1>2, Zenon DEF Good

\* What became of c became of it in both strings, unless there was an error.
Same(y, x, off) == Good(x) => y = Sh(x, off)

\* A cursor moves to i and takes the value v of field f.
Set(c, i, f, v) == [c EXCEPT !.i = i, !.m[f] = v]

\* It does so in both strings.
LEMMA SetHeld ==
    ASSUME NEW d, Short(d), NEW M, NEW c, Within(c, d, M), NEW off \in Nat,
           NEW i \in Int, NEW f, NEW v
    PROVE  Set(Sh(c, off), off + i, f, v) = Sh(Set(c, i, f, v), off)
<1> DEFINE b == Sh(c, off)
           m == [c.m EXCEPT ![f] = v]
<1>1. b \in Cursors(M) /\ c \in Cursors(M) /\ b.err = c.err /\ b.m = c.m
  BY ShiftIsCursor DEF Within
<1>2. Set(c, i, f, v) = [c EXCEPT !.i = i, !.m = m]
  BY DEF Set
<1>3. Set(b, off + i, f, v) = [b EXCEPT !.i = off + i, !.m = [b.m EXCEPT ![f] = v]]
  BY DEF Set
<1> HIDE DEF b
<1>4. Set(b, off + i, f, v) = [b EXCEPT !.i = off + i, !.m = m]
  BY <1>1, <1>3
<1> HIDE DEF m
<1>5. [b EXCEPT !.i = off + i, !.m = m] = At(off + i, m, c.err)
  BY <1>1, CursorAt
<1>6. [c EXCEPT !.i = i, !.m = m] = At(i, m, c.err)
  BY <1>1, CursorAt
<1>7. Sh(At(i, m, c.err), off) = At(off + i, m, c.err)
  BY DEF Sh, At
<1> QED
  BY <1>2, <1>4, <1>5, <1>6, <1>7 DEF b

\* A number at a cursor.
LEMMA VarintHeldAt ==
    ASSUME NEW d, Short(d), NEW e, Short(e), NEW off, Holds(e, off, d),
           NEW M, NEW c, Within(c, d, M), Good(ReadVarint(d, c.i))
    PROVE  LET v == ReadVarint(d, c.i)
               w == ReadVarint(e, Sh(c, off).i)
           IN  Good(w) /\ w.val = v.val /\ w.i = off + v.i /\ v.i \in Int
<1>1. off \in Nat /\ d \in Seq(Byte) /\ e \in Seq(Byte) /\ c.i \in 0..Len(d) /\ Len(d) \in Nat
  BY CursorParts DEF Holds, Short
<1>2. Sh(c, off).i = off + c.i
  BY <1>1, ShiftIsCursor
<1>3. ReadVarint(d, c.i).i \in Int
  <2> DEFINE v == ReadVarint(d, c.i)
  <2>1. VarintOf(v, d, c.i)
    BY <1>1, ReadVarintInside
  <2> HIDE DEF v
  <2>2. v.i \in (c.i)..Len(d)
    BY <2>1 DEF VarintOf
  <2> QED
    BY <1>1, <2>2 DEF v
<1> QED
  BY <1>1, <1>2, <1>3, ReadVarintHeld

\* A payload at a cursor.
LEMMA PayloadHeldAt ==
    ASSUME NEW d, Short(d), NEW e, Short(e), NEW off, Holds(e, off, d),
           NEW M, NEW c, Within(c, d, M), NEW wireType, Good(ReadPayload(d, c.i, wireType))
    PROVE  LET p == ReadPayload(d, c.i, wireType)
               q == ReadPayload(e, Sh(c, off).i, wireType)
           IN  /\ Good(q) /\ q.from = off + p.from /\ q.to = off + p.to
               /\ p.from \in Nat /\ p.to \in Nat /\ p.from <= p.to /\ p.to <= Len(d)
               /\ Slice(e, q.from, q.to) = Slice(d, p.from, p.to)
<1>1. off \in Nat /\ d \in Seq(Byte) /\ e \in Seq(Byte) /\ c.i \in 0..Len(d) /\ Len(d) \in Nat
  BY CursorParts DEF Holds, Short
<1>2. Sh(c, off).i = off + c.i
  BY <1>1, ShiftIsCursor
<1> DEFINE p == ReadPayload(d, c.i, wireType)
<1>3. p.from \in (c.i + 1)..Len(d) /\ p.to \in (p.from)..Len(d)
  BY PayloadAtCursor
<1>4. p.from \in Nat /\ p.to \in Nat /\ p.from <= p.to /\ p.to <= Len(d)
  <2> HIDE DEF p
  <2> QED
    BY <1>1, <1>3
<1> QED
  BY <1>1, <1>2, <1>4, PayloadHeld
\* A field that holds a number.
LEMMA UintFieldHeld ==
    ASSUME NEW d, Short(d), NEW e, Short(e), NEW off, Holds(e, off, d),
           NEW M, NEW c, Within(c, d, M), NEW wireType, NEW f
    PROVE  Same(UintField(Sh(c, off), e, wireType, f), UintField(c, d, wireType, f), off)
<1> DEFINE x == UintField(c, d, wireType, f)
           v == ReadVarint(d, c.i)
           w == ReadVarint(e, Sh(c, off).i)
<1> SUFFICES ASSUME Good(x) PROVE UintField(Sh(c, off), e, wireType, f) = Sh(x, off)
  BY DEF Same
<1>1. c \in Cursors(M) /\ off \in Nat
  BY CursorParts DEF Holds
<1>2. wireType = 0
  <2>1. wireType # 0 => x = Fail(c, WrongWireType)
    BY DEF UintField
  <2> QED
    BY <1>1, <2>1, FailIsBad, WrongWireTypeIsError
<1>3. x = SetUint(c, f, v) /\ UintField(Sh(c, off), e, wireType, f) = SetUint(Sh(c, off), f, w)
  BY <1>2 DEF UintField
<1>4. Good(v)
  <2>1. ~Good(v) => x = Fail(c, v.err)
    BY <1>3, Zenon DEF SetUint, Good
  <2> QED
    BY <1>1, <2>1, FailIsBad
<1>5. Good(w) /\ w.val = v.val /\ w.i = off + v.i /\ v.i \in Int
  BY <1>4, VarintHeldAt
<1>6. x = [c EXCEPT !.i = v.i, !.m[f] = v.val]
  BY <1>3, <1>4, Zenon DEF SetUint, Good
<1>7. SetUint(Sh(c, off), f, w) = [Sh(c, off) EXCEPT !.i = off + v.i, !.m[f] = v.val]
  BY <1>5, Zenon DEF SetUint, Good
<1> HIDE DEF x, v, w
<1>8. Set(Sh(c, off), off + v.i, f, v.val) = Sh(Set(c, v.i, f, v.val), off)
  BY <1>1, <1>5, SetHeld
<1> QED
  BY <1>3, <1>6, <1>7, <1>8, Zenon DEF Set

\* A field that holds a truth value.
LEMMA BoolFieldHeld ==
    ASSUME NEW d, Short(d), NEW e, Short(e), NEW off, Holds(e, off, d),
           NEW M, NEW c, Within(c, d, M), NEW wireType, NEW f
    PROVE  Same(BoolField(Sh(c, off), e, wireType, f), BoolField(c, d, wireType, f), off)
<1> DEFINE x == BoolField(c, d, wireType, f)
           v == ReadVarint(d, c.i)
           w == ReadVarint(e, Sh(c, off).i)
           b == v.val # 0
<1> SUFFICES ASSUME Good(x) PROVE BoolField(Sh(c, off), e, wireType, f) = Sh(x, off)
  BY DEF Same
<1>1. c \in Cursors(M) /\ off \in Nat
  BY CursorParts DEF Holds
<1>2. wireType = 0
  <2>1. wireType # 0 => x = Fail(c, WrongWireType)
    BY DEF BoolField
  <2> QED
    BY <1>1, <2>1, FailIsBad, WrongWireTypeIsError
<1>3. x = SetBool(c, f, v) /\ BoolField(Sh(c, off), e, wireType, f) = SetBool(Sh(c, off), f, w)
  BY <1>2 DEF BoolField
<1>4. Good(v)
  <2>1. ~Good(v) => x = Fail(c, v.err)
    BY <1>3, Zenon DEF SetBool, Good
  <2> QED
    BY <1>1, <2>1, FailIsBad
<1>5. Good(w) /\ w.val = v.val /\ w.i = off + v.i /\ v.i \in Int
  BY <1>4, VarintHeldAt
<1>6. x = [c EXCEPT !.i = v.i, !.m[f] = b]
  BY <1>3, <1>4, Zenon DEF SetBool, Good
<1>7. SetBool(Sh(c, off), f, w) = [Sh(c, off) EXCEPT !.i = off + v.i, !.m[f] = b]
  BY <1>5, Zenon DEF SetBool, Good
<1> HIDE DEF x, v, w, b
<1>8. Set(Sh(c, off), off + v.i, f, b) = Sh(Set(c, v.i, f, b), off)
  BY <1>1, <1>5, SetHeld
<1> QED
  BY <1>3, <1>6, <1>7, <1>8, Zenon DEF Set

\* A number that is added to a list.
LEMMA AddUintHeld ==
    ASSUME NEW d, Short(d), NEW e, Short(e), NEW off, Holds(e, off, d),
           NEW M, NEW c, Within(c, d, M), NEW f
    PROVE  Same(AddUint(Sh(c, off), f, ReadVarint(e, Sh(c, off).i)),
                AddUint(c, f, ReadVarint(d, c.i)), off)
<1> DEFINE v == ReadVarint(d, c.i)
           w == ReadVarint(e, Sh(c, off).i)
           x == AddUint(c, f, v)
           l == Append(c.m[f], v.val)
<1> SUFFICES ASSUME Good(x) PROVE AddUint(Sh(c, off), f, w) = Sh(x, off)
  BY DEF Same
<1>1. c \in Cursors(M) /\ off \in Nat /\ Sh(c, off).m = c.m
  BY CursorParts, ShiftIsCursor DEF Holds
<1>2. Good(v)
  <2>1. ~Good(v) => x = Fail(c, v.err)
    BY Zenon DEF AddUint, Good
  <2> QED
    BY <1>1, <2>1, FailIsBad
<1>3. Good(w) /\ w.val = v.val /\ w.i = off + v.i /\ v.i \in Int
  BY <1>2, VarintHeldAt
<1>4. x = [c EXCEPT !.i = v.i, !.m[f] = Append(@, v.val)]
  BY <1>2, Zenon DEF AddUint, Good
<1>5. AddUint(Sh(c, off), f, w) = [Sh(c, off) EXCEPT !.i = off + v.i, !.m[f] = Append(@, v.val)]
  BY <1>3, Zenon DEF AddUint, Good
<1> HIDE DEF x, v, w
<1>6. /\ [c EXCEPT !.i = v.i, !.m[f] = Append(@, v.val)] = [c EXCEPT !.i = v.i, !.m[f] = l]
      /\ [Sh(c, off) EXCEPT !.i = off + v.i, !.m[f] = Append(@, v.val)]
          = [Sh(c, off) EXCEPT !.i = off + v.i, !.m[f] = l]
  BY <1>1
<1> HIDE DEF l
<1>8. Set(Sh(c, off), off + v.i, f, l) = Sh(Set(c, v.i, f, l), off)
  BY <1>1, <1>3, SetHeld
<1> QED
  BY <1>4, <1>5, <1>6, <1>8, Zenon DEF Set, x, v, w

\* A field that holds bytes.
LEMMA BytesFieldHeld ==
    ASSUME NEW d, Short(d), NEW e, Short(e), NEW off, Holds(e, off, d),
           NEW M, NEW c, Within(c, d, M), NEW wireType, NEW f
    PROVE  Same(BytesField(Sh(c, off), e, wireType, f), BytesField(c, d, wireType, f), off)
<1> DEFINE x == BytesField(c, d, wireType, f)
           p == ReadPayload(d, c.i, wireType)
           q == ReadPayload(e, Sh(c, off).i, wireType)
           b == Slice(d, p.from, p.to)
<1> SUFFICES ASSUME Good(x) PROVE BytesField(Sh(c, off), e, wireType, f) = Sh(x, off)
  BY DEF Same
<1>1. c \in Cursors(M) /\ off \in Nat
  BY CursorParts DEF Holds
<1>3. x = SetBytes(c, d, f, p) /\ BytesField(Sh(c, off), e, wireType, f) = SetBytes(Sh(c, off), e, f, q)
  BY DEF BytesField
<1>4. Good(p)
  <2>1. ~Good(p) => x = Fail(c, p.err)
    BY <1>3, Zenon DEF SetBytes, Good
  <2> QED
    BY <1>1, <2>1, FailIsBad
<1>5. Good(q) /\ q.to = off + p.to /\ p.to \in Nat /\ Slice(e, q.from, q.to) = b
  BY <1>4, PayloadHeldAt
<1>6. x = [c EXCEPT !.i = p.to, !.m[f] = b]
  BY <1>3, <1>4, Zenon DEF SetBytes, Good
<1>7. SetBytes(Sh(c, off), e, f, q) = [Sh(c, off) EXCEPT !.i = off + p.to, !.m[f] = b]
  BY <1>5, Zenon DEF SetBytes, Good
<1> HIDE DEF x, p, q, b
<1>8. Set(Sh(c, off), off + p.to, f, b) = Sh(Set(c, p.to, f, b), off)
  <2>1. p.to \in Int
    BY <1>5
  <2> QED
    BY <1>1, <2>1, SetHeld
<1> QED
  BY <1>3, <1>6, <1>7, <1>8, Zenon DEF Set

\* An unknown field.
LEMMA SkipUnknownHeld ==
    ASSUME NEW d, Short(d), NEW e, Short(e), NEW off, Holds(e, off, d),
           NEW M, NEW c, Within(c, d, M), NEW j \in 0..Len(d)
    PROVE  Same(SkipUnknown(Sh(c, off), e, off + j), SkipUnknown(c, d, j), off)
<1> DEFINE x == SkipUnknown(c, d, j)
           k == skip(Slice(d, j, Len(d)))
           k2 == skip(Slice(e, off + j, Len(e)))
<1> SUFFICES ASSUME Good(x) PROVE SkipUnknown(Sh(c, off), e, off + j) = Sh(x, off)
  BY DEF Same
<1>1. /\ c \in Cursors(M) /\ off \in Nat /\ Len(d) \in Nat /\ Len(e) \in Nat
      /\ off + Len(d) <= Len(e) /\ Len(e) < Half /\ Half \in Nat /\ j \in 0..(Half - 1)
      /\ Sh(c, off) \in Cursors(M) /\ Sh(c, off).m = c.m /\ Sh(c, off).err = c.err
  BY CursorParts, ShiftIsCursor, HalfIsNat, LengthIsInt DEF Holds
<1>2. x = StepOver(c, d, j, k) /\ SkipUnknown(Sh(c, off), e, off + j) = StepOver(Sh(c, off), e, off + j, k2)
  BY DEF SkipUnknown
<1>3. Good(k)
  <2>1. ~Good(k) => x = Fail(c, k.err)
    BY <1>2, Zenon DEF StepOver, Good
  <2> QED
    BY <1>1, <2>1, FailIsBad
<1>4. /\ Holds(Slice(e, off + j, Len(e)), 0, Slice(d, j, Len(d)))
      /\ Short(Slice(d, j, Len(d))) /\ Len(Slice(d, j, Len(d))) = Len(d) - j
      /\ Short(Slice(e, off + j, Len(e)))
  BY RestHeld
<1>5. k.i \in 1..(Half - 1)
  BY <1>3, <1>4, SkipEnds
<1>6. x = IF k.i < 0 \/ AddInt(j, k.i) < 0 THEN Fail(c, InvalidLength)
          ELSE IF AddInt(j, k.i) > Len(d) THEN Fail(c, EOF)
          ELSE [c EXCEPT !.i = j + k.i]
  BY <1>2, <1>3, Zenon DEF StepOver, Good
<1>7. ~Good(Fail(c, InvalidLength)) /\ ~Good(Fail(c, EOF))
  BY <1>1, FailIsBad DEF Errors
<1>8. ~(k.i < 0 \/ AddInt(j, k.i) < 0) /\ ~(AddInt(j, k.i) > Len(d)) /\ x = [c EXCEPT !.i = j + k.i]
  BY <1>6, <1>7, Zenon
<1>9. k.i \in Nat /\ j + k.i <= Len(d)
  <2> HIDE DEF k
  <2>1. k.i \in 0..(Half - 1) /\ k.i \in Int
    BY <1>1, <1>5
  <2>2. AddInt(j, k.i) \in Int /\ (AddInt(j, k.i) >= 0 => AddInt(j, k.i) = j + k.i)
    BY <1>1, <2>1, AddIntExact
  <2> QED
    BY <1>1, <1>8, <2>1, <2>2
<1>10. k2 = k
  <2>1. k.i <= Len(Slice(d, j, Len(d)))
    <3> HIDE DEF k
    <3> QED
      BY <1>1, <1>4, <1>9
  <2> QED
    BY <1>3, <1>4, <2>1, SkipHeld
<1>11. StepOver(Sh(c, off), e, off + j, k)
           = IF k.i < 0 \/ AddInt(off + j, k.i) < 0 THEN Fail(Sh(c, off), InvalidLength)
             ELSE IF AddInt(off + j, k.i) > Len(e) THEN Fail(Sh(c, off), EOF)
             ELSE [Sh(c, off) EXCEPT !.i = (off + j) + k.i]
  BY <1>3, Zenon DEF StepOver, Good
<1> HIDE DEF x, k, k2
<1>12. off + j \in Nat /\ (off + j) + k.i < Half /\ (off + j) + k.i <= Len(e)
  BY <1>1, <1>9
<1>13. AddInt(off + j, k.i) = (off + j) + k.i
  BY <1>9, <1>12, AddIntFits
<1>14. ~(k.i < 0) /\ ~(AddInt(off + j, k.i) < 0) /\ ~(AddInt(off + j, k.i) > Len(e))
  BY <1>1, <1>9, <1>12, <1>13
<1>15. StepOver(Sh(c, off), e, off + j, k) = [Sh(c, off) EXCEPT !.i = (off + j) + k.i]
  BY <1>11, <1>14, Zenon
<1>16. [Sh(c, off) EXCEPT !.i = (off + j) + k.i] = At((off + j) + k.i, c.m, c.err)
  BY <1>1, CursorAtIndex
<1>17. [c EXCEPT !.i = j + k.i] = At(j + k.i, c.m, c.err)
  BY <1>1, CursorAtIndex
<1>18. Sh(At(j + k.i, c.m, c.err), off) = At((off + j) + k.i, c.m, c.err)
  <2>1. off + (j + k.i) = (off + j) + k.i
    BY <1>1, <1>9
  <2> QED
    BY <2>1 DEF Sh, At
<1> QED
  BY <1>2, <1>8, <1>10, <1>15, <1>16, <1>17, <1>18
\* A packed run of numbers.
LEMMA AddPackedHeld ==
    ASSUME NEW d, Short(d), NEW e, Short(e), NEW off, Holds(e, off, d),
           NEW M, NEW c, Within(c, d, M), NEW f, HasField(M, f, Seq(Word)),
           NEW p, Good(p), p.from \in 0..Len(d), p.to \in (p.from)..Len(d),
           NEW q, Good(q), q.from = off + p.from, q.to = off + p.to
    PROVE  Same(AddPacked(Sh(c, off), e, f, q, M), AddPacked(c, d, f, p, M), off)
<1> DEFINE turn == [x \in Cursors(M) |->
                        IF x.err # "" \/ x.i >= p.to THEN x
                        ELSE AddUint(x, f, ReadVarint(d, x.i))]
           other == [x \in Cursors(M) |->
                        IF x.err # "" \/ x.i >= q.to THEN x
                        ELSE AddUint(x, f, ReadVarint(e, x.i))]
           X == {x \in Cursors(M) : Within(x, d, M)}
           G == {x \in X : Good(x)}
           at == [x \in X |-> Sh(x, off)]
           s == [c EXCEPT !.i = p.from]
           s2 == [Sh(c, off) EXCEPT !.i = q.from]
           n == p.to - p.from
<1>1. /\ c \in Cursors(M) /\ off \in Nat /\ Len(d) \in Nat /\ p.from \in Nat /\ p.to \in Nat
      /\ p.from <= p.to /\ p.to <= Len(d) /\ n \in Nat /\ q.to - q.from = n /\ q.to \in Nat
  BY CursorParts DEF Holds
<1>2. AddPacked(c, d, f, p, M) = Repeat(turn, s, n)
  BY Zenon DEF AddPacked, Good
<1>3. AddPacked(Sh(c, off), e, f, q, M) = Repeat(other, s2, q.to - q.from)
  BY Zenon DEF AddPacked, Good
<1>4. s = At(p.from, c.m, c.err) /\ s2 = Sh(s, off) /\ s \in X
  <2>1. s = At(p.from, c.m, c.err)
    BY <1>1, CursorAtIndex
  <2>2. s2 = At(q.from, c.m, c.err)
    <3>1. Sh(c, off) \in Cursors(M) /\ Sh(c, off).m = c.m /\ Sh(c, off).err = c.err
      BY <1>1, ShiftIsCursor
    <3> QED
      BY <3>1, CursorAtIndex
  <2>3. Sh(At(p.from, c.m, c.err), off) = At(off + p.from, c.m, c.err)
    BY DEF Sh, At
  <2>4. s \in Cursors(M) /\ s.i = p.from
    <3>1. p.from \in Int
      BY <1>1
    <3> QED
      BY <1>1, <3>1 DEF Cursors
  <2> QED
    BY <2>1, <2>2, <2>3, <2>4 DEF Within
<1> HIDE DEF s, s2
<1>5. ASSUME NEW x \in X
      PROVE  turn[x] \in X /\ (turn[x] \in G => x \in G /\ other[at[x]] = at[turn[x]])
  <2> DEFINE y == AddUint(x, f, ReadVarint(d, x.i))
             b == Sh(x, off)
             z == AddUint(b, f, ReadVarint(e, b.i))
  <2>1. Within(x, d, M) /\ x \in Cursors(M) /\ x.i \in 0..Len(d)
    BY DEF Within
  <2>2. b \in Cursors(M) /\ b.i = off + x.i /\ b.err = x.err /\ at[x] = b
    BY <1>1, <2>1, ShiftIsCursor
  <2>3. turn[x] = IF ~Good(x) \/ x.i >= p.to THEN x ELSE y
    BY <2>1, Zenon DEF Good
  <2>4. other[b] = IF ~Good(b) \/ b.i >= q.to THEN b ELSE z
    BY <2>2, Zenon DEF Good
  <2>5. (Good(b) <=> Good(x)) /\ (b.i >= q.to <=> x.i >= p.to)
    <3>1. Good(b) <=> Good(x)
      BY <2>2, Zenon DEF Good
    <3>2. b.i >= q.to <=> x.i >= p.to
      <4> HIDE DEF b
      <4> QED
        BY <1>1, <2>1, <2>2
    <3> QED
      BY <3>1, <3>2
  <2>6. Reads(y, d, x.i, M)
    BY <2>1, AddUintReads
  <2>7. y \in X
    BY <2>6 DEF Reads, Within
  <2>8. Same(z, y, off)
    BY <2>1, AddUintHeld
  <2> HIDE DEF y, z, b, turn, other
  <2>9. CASE ~Good(x) \/ x.i >= p.to
    <3>1. turn[x] = x /\ other[b] = b
      BY <2>3, <2>4, <2>5, <2>9, Zenon
    <3> QED
      BY <2>2, <3>1
  <2>10. CASE ~(~Good(x) \/ x.i >= p.to)
    <3>1. turn[x] = y /\ other[b] = z
      BY <2>3, <2>4, <2>5, <2>10, Zenon
    <3>2. at[y] = Sh(y, off)
      BY <2>7
    <3> QED
      BY <2>2, <2>7, <2>8, <2>10, <3>1, <3>2 DEF Same
  <2> QED
    BY <2>9, <2>10
<1>a. \A x \in X : turn[x] \in X
  BY <1>5
<1>b. \A x \in X : turn[x] \in G => x \in G /\ other[at[x]] = at[turn[x]]
  BY <1>5
<1>c. n \in Nat
  BY <1>1
<1>6. at[s] = s2
  BY <1>4
<1>7. \A x \in G : x \in X /\ at[x] = Sh(x, off)
  OBVIOUS
<1>8. \A x \in X : Good(x) => x \in G
  OBVIOUS
<1>9. Repeat(turn, s, n) \in X
  <2> DEFINE J == Nat \X X
  <2> HIDE DEF turn, X, n
  <2>1. <<0, s>> \in J
    BY <1>4
  <2>2. \A k \in 0..(n - 1) : \A x : <<k, x>> \in J => <<k + 1, turn[x]>> \in J
    BY <1>c, <1>a
  <2>3. <<n, Repeat(turn, s, n)>> \in J
    <3> HIDE DEF J
    <3> QED
      BY <1>c, <2>1, <2>2, RepeatInduction
  <2> QED
    BY <2>3
<1> HIDE DEF turn, other, X, G, at, n
<1>10. Repeat(turn, s, n) \in G => Repeat(other, at[s], n) = at[Repeat(turn, s, n)]
  BY <1>c, <1>4, <1>a, <1>b, LeadsAlong
<1> QED
  BY <1>1, <1>2, <1>3, <1>6, <1>7, <1>8, <1>9, <1>10 DEF Same

\* A repeated uint64.
LEMMA PackedFieldHeld ==
    ASSUME NEW d, Short(d), NEW e, Short(e), NEW off, Holds(e, off, d),
           NEW M, NEW c, Within(c, d, M), NEW wireType, NEW f, HasField(M, f, Seq(Word))
    PROVE  Same(PackedField(Sh(c, off), e, wireType, f, M),
                PackedField(c, d, wireType, f, M), off)
<1>1. CASE wireType = 0
  BY <1>1, AddUintHeld DEF PackedField
<1>2. CASE wireType # 0
  <2> DEFINE p == ReadPayload(d, c.i, wireType)
             q == ReadPayload(e, Sh(c, off).i, wireType)
             x == AddPacked(c, d, f, p, M)
  <2>1. /\ PackedField(c, d, wireType, f, M) = x
        /\ PackedField(Sh(c, off), e, wireType, f, M) = AddPacked(Sh(c, off), e, f, q, M)
    BY <1>2 DEF PackedField
  <2> SUFFICES ASSUME Good(x) PROVE AddPacked(Sh(c, off), e, f, q, M) = Sh(x, off)
    BY <2>1 DEF Same
  <2>2. Good(p)
    <3>1. ~Good(p) => x = Fail(c, p.err)
      BY Zenon DEF AddPacked, Good
    <3>2. c \in Cursors(M)
      BY CursorParts
    <3> QED
      BY <3>1, <3>2, FailIsBad
  <2>3. /\ Good(q) /\ q.from = off + p.from /\ q.to = off + p.to
        /\ p.from \in Nat /\ p.to \in Nat /\ p.from <= p.to /\ p.to <= Len(d)
    BY <2>2, PayloadHeldAt
  <2> HIDE DEF p, q
  <2>4. p.from \in 0..Len(d) /\ p.to \in (p.from)..Len(d)
    BY <2>3, LengthIsInt
  <2>5. Same(AddPacked(Sh(c, off), e, f, q, M), x, off)
    BY <2>2, <2>3, <2>4, AddPackedHeld
  <2> QED
    BY <2>5 DEF Same
<1> QED
  BY <1>1, <1>2

\* A field of type *Params.
LEMMA ParamsFieldHeld ==
    ASSUME NEW d, Short(d), NEW e, Short(e), NEW off, Holds(e, off, d),
           NEW M, NEW c, Within(c, d, M), NEW wireType
    PROVE  Same(ParamsField(Sh(c, off), e, wireType), ParamsField(c, d, wireType), off)
<1> DEFINE x == ParamsField(c, d, wireType)
           p == ReadPayload(d, c.i, wireType)
           q == ReadPayload(e, Sh(c, off).i, wireType)
           sub == UnmarshalParams(IF c.m.Params = Nil THEN EmptyParams ELSE c.m.Params,
                                  Slice(d, p.from, p.to))
           y == ParamsField(Sh(c, off), e, wireType)
<1> SUFFICES ASSUME Good(x) PROVE y = Sh(x, off)
  BY DEF Same
<1>1. c \in Cursors(M) /\ off \in Nat /\ Sh(c, off).m = c.m
  BY CursorParts, ShiftIsCursor DEF Holds
<1>2. x = IF p.err # "" THEN Fail(c, p.err) ELSE SetParamsField(c, p, sub)
  BY DEF ParamsField, ParamsInto
<1>3. Good(p)
  <2>1. ~Good(p) => x = Fail(c, p.err)
    BY <1>2, Zenon DEF Good
  <2> QED
    BY <1>1, <2>1, FailIsBad
<1>4. x = SetParamsField(c, p, sub)
  BY <1>2, <1>3, Zenon DEF Good
<1>5. Good(sub)
  <2>1. ~Good(sub) => x = Fail(c, sub.err)
    BY <1>4, Zenon DEF SetParamsField, Good
  <2> QED
    BY <1>1, <2>1, FailIsBad
<1>6. Good(q) /\ q.to = off + p.to /\ p.to \in Nat /\ Slice(e, q.from, q.to) = Slice(d, p.from, p.to)
  BY <1>3, PayloadHeldAt
<1>7. y = SetParamsField(Sh(c, off), q, sub)
  BY <1>1, <1>6, Zenon DEF ParamsField, ParamsInto, Good
<1> HIDE DEF x, p, q, sub, y
<1>8. x = Set(c, p.to, "Params", sub.m)
  BY <1>4, <1>5, Zenon DEF SetParamsField, Good, Set
<1>9. y = Set(Sh(c, off), q.to, "Params", sub.m)
  BY <1>5, <1>7, Zenon DEF SetParamsField, Good, Set
<1>10. p.to \in Int
  BY <1>6
<1> QED
  BY <1>1, <1>6, <1>8, <1>9, <1>10, SetHeld

\* The repeated field Funds.
LEMMA FundsFieldHeld ==
    ASSUME NEW d, Short(d), NEW e, Short(e), NEW off, Holds(e, off, d),
           NEW M, NEW c, Within(c, d, M), NEW wireType
    PROVE  Same(FundsField(Sh(c, off), e, wireType), FundsField(c, d, wireType), off)
<1> DEFINE x == FundsField(c, d, wireType)
           p == ReadPayload(d, c.i, wireType)
           q == ReadPayload(e, Sh(c, off).i, wireType)
           b == Slice(d, p.from, p.to)
           l == Append(c.m.Funds, b)
           y == FundsField(Sh(c, off), e, wireType)
<1> SUFFICES ASSUME Good(x) PROVE y = Sh(x, off)
  BY DEF Same
<1>1. c \in Cursors(M) /\ off \in Nat /\ Sh(c, off).m = c.m
  BY CursorParts, ShiftIsCursor DEF Holds
<1>2. x = IF p.err # "" THEN Fail(c, p.err)
          ELSE IF b \notin Coins THEN Fail(c, "coin")
          ELSE [c EXCEPT !.i = p.to, !.m.Funds = Append(@, b)]
  BY DEF FundsField, AddCoin
<1>3. Good(p)
  <2>1. ~Good(p) => x = Fail(c, p.err)
    BY <1>2, Zenon DEF Good
  <2> QED
    BY <1>1, <2>1, FailIsBad
<1>4. b \in Coins
  <2>1. b \notin Coins => x = Fail(c, "coin")
    BY <1>2, <1>3, Zenon DEF Good
  <2> QED
    BY <1>1, <2>1, FailIsBad
<1>5. x = [c EXCEPT !.i = p.to, !.m.Funds = Append(@, b)]
  BY <1>2, <1>3, <1>4, Zenon DEF Good
<1>6. Good(q) /\ q.to = off + p.to /\ p.to \in Nat /\ Slice(e, q.from, q.to) = b
  BY <1>3, PayloadHeldAt
<1>7. y = [Sh(c, off) EXCEPT !.i = q.to, !.m.Funds = Append(@, b)]
  BY <1>4, <1>6, Zenon DEF FundsField, AddCoin, Good
<1> HIDE DEF x, p, q, b, y
<1>8. x = Set(c, p.to, "Funds", l)
  BY <1>5 DEF Set
<1>9. y = Set(Sh(c, off), q.to, "Funds", l)
  BY <1>1, <1>7 DEF Set
<1>10. p.to \in Int
  BY <1>6
<1> HIDE DEF l
<1> QED
  BY <1>1, <1>6, <1>8, <1>9, <1>10, SetHeld
\* What the varint v says as a tag.
FieldNumber(v) == Signed((v.val \div 8) % 2^FieldBits, FieldBits)

TagError(v) ==
    IF v.err # "" THEN v.err
    ELSE IF v.val % 8 = 4 THEN EndOfGroup
    ELSE IF FieldNumber(v) <= 0 THEN IllegalTag
    ELSE ""

\* The parts of a tag.
LEMMA TagIs ==
    ASSUME NEW M, NEW c \in Cursors(M), NEW v
    PROVE  LET t == Tag(c, v)
           IN  /\ t.fieldNum = IF TagError(v) = "" THEN FieldNumber(v) ELSE 0
               /\ t.wireType = v.val % 8
               /\ t.behind = At(v.i, c.m, TagError(v))
<1> DEFINE x == TagError(v)
           n == FieldNumber(v)
           w == v.val % 8
           b == [c EXCEPT !.i = v.i, !.err = x]
           t == Tag(c, v)
<1>1. t = [fieldNum |-> IF x = "" THEN n ELSE 0, wireType |-> w, behind |-> b]
  BY Zenon DEF Tag, TagError, FieldNumber
<1> HIDE DEF x, n, w
<1>2. b = At(v.i, c.m, x)
  <2>1. b \in [i : {v.i}, m : {c.m}, err : {x}]
    BY DEF Cursors
  <2>2. \A y \in [i : {v.i}, m : {c.m}, err : {x}] : y = At(v.i, c.m, x)
    BY DEF At
  <2> QED
    BY <2>1, <2>2
<1> HIDE DEF b, t
<1>3. t.wireType = w /\ t.behind = b
  BY <1>1
<1>4. t.fieldNum = IF x = "" THEN n ELSE 0
  BY <1>1, Zenon
<1> QED
  BY <1>2, <1>3, <1>4 DEF t, x, n, w

\* The field number is 0 if and only if there was an error.
LEMMA TagIsGood ==
    ASSUME NEW M, NEW c \in Cursors(M), NEW v
    PROVE  /\ Tag(c, v).fieldNum = 0 <=> ~Good(Tag(c, v).behind)
           /\ Good(Tag(c, v).behind) => Good(v)
<1> DEFINE t == Tag(c, v)
           x == TagError(v)
           n == FieldNumber(v)
<1>1. t.fieldNum = (IF x = "" THEN n ELSE 0) /\ t.behind = At(v.i, c.m, x)
  BY TagIs
<1>2. x = "" => v.err = "" /\ ~(n <= 0)
  BY Zenon DEF TagError, EndOfGroup, IllegalTag
<1> HIDE DEF x, n, t
<1>3. ~(n <= 0) => n # 0
  OBVIOUS
<1>4. t.behind.err = x
  <2>1. t.behind = At(v.i, c.m, x)
    BY <1>1, Zenon
  <2>2. At(v.i, c.m, x).err = x
    BY DEF At
  <2> QED
    BY <2>1, <2>2, Zenon
<1> QED
  BY <1>1, <1>2, <1>3, <1>4, Zenon DEF Good, t

\* The tag at a cursor.
LEMMA ReadTagHeld ==
    ASSUME NEW d, Short(d), NEW e, Short(e), NEW off, Holds(e, off, d),
           NEW M, NEW c, Within(c, d, M), Good(ReadTag(c, d).behind)
    PROVE  LET t == ReadTag(c, d)
               u == ReadTag(Sh(c, off), e)
           IN  u.fieldNum = t.fieldNum /\ u.wireType = t.wireType /\ u.behind = Sh(t.behind, off)
<1> DEFINE v == ReadVarint(d, c.i)
           b == Sh(c, off)
           v2 == ReadVarint(e, b.i)
           x == TagError(v)
           t == Tag(c, v)
           u == Tag(b, v2)
<1>1. c \in Cursors(M) /\ off \in Nat /\ b \in Cursors(M) /\ b.m = c.m
  BY CursorParts, ShiftIsCursor DEF Holds
<1>2. Good(v)
  BY <1>1, TagIsGood DEF ReadTag
<1>3. Good(v2) /\ v2.val = v.val /\ v2.i = off + v.i /\ v.i \in Int
  BY <1>2, VarintHeldAt
<1> HIDE DEF v, v2, b, x
<1>4. FieldNumber(v2) = FieldNumber(v)
  BY <1>3 DEF FieldNumber
<1>5. TagError(v2) = x
  BY <1>2, <1>3, <1>4, Zenon DEF TagError, Good, x
<1>6. t.fieldNum = (IF x = "" THEN FieldNumber(v) ELSE 0) /\ t.wireType = v.val % 8
      /\ t.behind = At(v.i, c.m, x)
  BY <1>1, TagIs DEF x
<1>7. u.fieldNum = (IF TagError(v2) = "" THEN FieldNumber(v2) ELSE 0)
      /\ u.wireType = v2.val % 8 /\ u.behind = At(v2.i, b.m, TagError(v2))
  BY <1>1, TagIs
<1>8. Sh(At(v.i, c.m, x), off) = At(off + v.i, c.m, x)
  BY DEF Sh, At
<1> HIDE DEF t, u
<1>9. u.fieldNum = t.fieldNum
  BY <1>4, <1>5, <1>6, <1>7, Zenon
<1>10. u.wireType = t.wireType /\ u.behind = Sh(t.behind, off)
  BY <1>1, <1>3, <1>5, <1>6, <1>7, <1>8
<1> QED
  BY <1>9, <1>10 DEF t, u, v, v2, b, ReadTag

\* The branches of a turn.
LEMMA BranchesHeld ==
    ASSUME NEW d, Short(d), NEW e, Short(e), NEW off, Holds(e, off, d),
           NEW M, NEW s, Within(s, d, M), NEW t, TagOf(t, s, d, M),
           NEW u, u.fieldNum = t.fieldNum, u.wireType = t.wireType, u.behind = Sh(t.behind, off)
    PROVE  /\ Same(SkipUnknown(u.behind, e, off + s.i), SkipUnknown(t.behind, d, s.i), off)
           /\ \A f : Same(UintField(u.behind, e, u.wireType, f),
                          UintField(t.behind, d, t.wireType, f), off)
           /\ \A f : Same(BoolField(u.behind, e, u.wireType, f),
                          BoolField(t.behind, d, t.wireType, f), off)
           /\ \A f : Same(BytesField(u.behind, e, u.wireType, f),
                          BytesField(t.behind, d, t.wireType, f), off)
           /\ \A f : HasField(M, f, Seq(Word)) =>
                  Same(PackedField(u.behind, e, u.wireType, f, M),
                       PackedField(t.behind, d, t.wireType, f, M), off)
           /\ Same(ParamsField(u.behind, e, u.wireType),
                   ParamsField(t.behind, d, t.wireType), off)
           /\ Same(FundsField(u.behind, e, u.wireType),
                   FundsField(t.behind, d, t.wireType), off)
<1>1. Within(t.behind, d, M)
  BY DEF TagOf
<1>2. s.i \in 0..Len(d)
  BY CursorParts
<1>3. Same(SkipUnknown(u.behind, e, off + s.i), SkipUnknown(t.behind, d, s.i), off)
  BY <1>1, <1>2, SkipUnknownHeld
<1>4. \A f : Same(UintField(u.behind, e, u.wireType, f),
                  UintField(t.behind, d, t.wireType, f), off)
  BY <1>1, UintFieldHeld
<1>5. \A f : Same(BoolField(u.behind, e, u.wireType, f),
                  BoolField(t.behind, d, t.wireType, f), off)
  BY <1>1, BoolFieldHeld
<1>6. \A f : Same(BytesField(u.behind, e, u.wireType, f),
                  BytesField(t.behind, d, t.wireType, f), off)
  BY <1>1, BytesFieldHeld
<1>7. \A f : HasField(M, f, Seq(Word)) =>
          Same(PackedField(u.behind, e, u.wireType, f, M),
               PackedField(t.behind, d, t.wireType, f, M), off)
  BY <1>1, PackedFieldHeld
<1>8. Same(ParamsField(u.behind, e, u.wireType), ParamsField(t.behind, d, t.wireType), off)
  BY <1>1, ParamsFieldHeld
<1>9. Same(FundsField(u.behind, e, u.wireType), FundsField(t.behind, d, t.wireType), off)
  BY <1>1, FundsFieldHeld
<1> QED
  BY <1>3, <1>4, <1>5, <1>6, <1>7, <1>8, <1>9

\* A turn that succeeds in d leads to the same message in e.
LEMMA TurnHeld ==
    ASSUME NEW d, Short(d), NEW e, Short(e), NEW off, Holds(e, off, d),
           NEW ty \in MessageTypes, NEW s, Within(s, d, MessagesOf(ty))
    PROVE  Same(Turn(ty, Sh(s, off), e, ReadTag(Sh(s, off), e)),
                Turn(ty, s, d, ReadTag(s, d)), off)
<1> DEFINE t == ReadTag(s, d)
           b == Sh(s, off)
           u == ReadTag(b, e)
           M == MessagesOf(ty)
<1>1. TagOf(t, s, d, M)
  BY ReadTagInside
<1>2. s \in Cursors(M) /\ off \in Nat /\ b.i = off + s.i
  BY CursorParts, ShiftIsCursor DEF Holds
<1>3. t.fieldNum = 0 <=> ~Good(t.behind)
  BY <1>2, TagIsGood DEF ReadTag
<1>4. CASE t.fieldNum = 0
  <2>1. Turn(ty, s, d, t) = t.behind
    <3> HIDE DEF t
    <3> QED
      BY <1>4 DEF Turn, MessageTypes, Empty, AbstractAccount_Unmarshal, NilPubKey_Unmarshal,
          EventAccountRegistered_Unmarshal, Params_Unmarshal, GenesisState_Unmarshal,
          QueryParamsRequest_Unmarshal, QueryParamsResponse_Unmarshal,
          MsgUpdateParams_Unmarshal, MsgUpdateParamsResponse_Unmarshal,
          MsgRegisterAccount_Unmarshal, MsgRegisterAccountResponse_Unmarshal
  <2> QED
    BY <1>3, <1>4, <2>1 DEF Same
<1>5. CASE t.fieldNum # 0
  <2>1. u.fieldNum = t.fieldNum /\ u.wireType = t.wireType /\ u.behind = Sh(t.behind, off)
    BY <1>3, <1>5, ReadTagHeld
  <2> DEFINE Is(y, x) == Same(y, x, off)
  <2>2. /\ Is(SkipUnknown(u.behind, e, b.i), SkipUnknown(t.behind, d, s.i))
        /\ \A f : Is(UintField(u.behind, e, u.wireType, f), UintField(t.behind, d, t.wireType, f))
        /\ \A f : Is(BoolField(u.behind, e, u.wireType, f), BoolField(t.behind, d, t.wireType, f))
        /\ \A f : Is(BytesField(u.behind, e, u.wireType, f), BytesField(t.behind, d, t.wireType, f))
        /\ Is(ParamsField(u.behind, e, u.wireType), ParamsField(t.behind, d, t.wireType))
        /\ Is(FundsField(u.behind, e, u.wireType), FundsField(t.behind, d, t.wireType))
    BY <1>1, <1>2, <2>1, BranchesHeld
  <2>3. ty = "Params" =>
            Is(PackedField(u.behind, e, u.wireType, "AllowedCodeIDs", ParamsMessages),
               PackedField(t.behind, d, t.wireType, "AllowedCodeIDs", ParamsMessages))
    <3> SUFFICES ASSUME ty = "Params"
                 PROVE  Is(PackedField(u.behind, e, u.wireType, "AllowedCodeIDs", ParamsMessages),
                           PackedField(t.behind, d, t.wireType, "AllowedCodeIDs", ParamsMessages))
      OBVIOUS
    <3>1. M = ParamsMessages
      BY DEF MessagesOf
    <3> HIDE DEF t, u, M
    <3> QED
      BY <1>1, <2>1, <3>1, ParamsFields, BranchesHeld DEF M
  <2> HIDE DEF t, u, b, Is
  <2>4. CASE ty = "AbstractAccount"
    <3>1. Is(AbstractAccount_Unmarshal(b, e, u), AbstractAccount_Unmarshal(s, d, t))
      BY <1>5, <2>1, <2>2, <2>4 DEF AbstractAccount_Unmarshal
    <3> QED
      BY <2>4, <3>1 DEF Turn, Is, t, u, b
  <2>5. CASE ty = "NilPubKey"
    <3>1. Is(NilPubKey_Unmarshal(b, e, u), NilPubKey_Unmarshal(s, d, t))
      BY <1>5, <2>1, <2>2, <2>5 DEF NilPubKey_Unmarshal
    <3> QED
      BY <2>5, <3>1 DEF Turn, Is, t, u, b
  <2>6. CASE ty = "EventAccountRegistered"
    <3>1. Is(EventAccountRegistered_Unmarshal(b, e, u), EventAccountRegistered_Unmarshal(s, d, t))
      BY <1>5, <2>1, <2>2, <2>6 DEF EventAccountRegistered_Unmarshal
    <3> QED
      BY <2>6, <3>1 DEF Turn, Is, t, u, b
  <2>7. CASE ty = "Params"
    <3>1. Is(Params_Unmarshal(b, e, u), Params_Unmarshal(s, d, t))
      BY <1>5, <2>1, <2>2, <2>3, <2>7 DEF Params_Unmarshal
    <3> QED
      BY <2>7, <3>1 DEF Turn, Is, t, u, b
  <2>8. CASE ty = "GenesisState"
    <3>1. Is(GenesisState_Unmarshal(b, e, u), GenesisState_Unmarshal(s, d, t))
      BY <1>5, <2>1, <2>2, <2>8 DEF GenesisState_Unmarshal
    <3> QED
      BY <2>8, <3>1 DEF Turn, Is, t, u, b
  <2>9. CASE ty = "QueryParamsRequest"
    <3>1. Is(QueryParamsRequest_Unmarshal(b, e, u), QueryParamsRequest_Unmarshal(s, d, t))
      BY <1>5, <2>1, <2>2, <2>9 DEF QueryParamsRequest_Unmarshal
    <3> QED
      BY <2>9, <3>1 DEF Turn, Is, t, u, b
  <2>10. CASE ty = "QueryParamsResponse"
    <3>1. Is(QueryParamsResponse_Unmarshal(b, e, u), QueryParamsResponse_Unmarshal(s, d, t))
      BY <1>5, <2>1, <2>2, <2>10 DEF QueryParamsResponse_Unmarshal
    <3> QED
      BY <2>10, <3>1 DEF Turn, Is, t, u, b
  <2>11. CASE ty = "MsgUpdateParams"
    <3>1. Is(MsgUpdateParams_Unmarshal(b, e, u), MsgUpdateParams_Unmarshal(s, d, t))
      BY <1>5, <2>1, <2>2, <2>11 DEF MsgUpdateParams_Unmarshal
    <3> QED
      BY <2>11, <3>1 DEF Turn, Is, t, u, b
  <2>12. CASE ty = "MsgUpdateParamsResponse"
    <3>1. Is(MsgUpdateParamsResponse_Unmarshal(b, e, u), MsgUpdateParamsResponse_Unmarshal(s, d, t))
      BY <1>5, <2>1, <2>2, <2>12 DEF MsgUpdateParamsResponse_Unmarshal
    <3> QED
      BY <2>12, <3>1 DEF Turn, Is, t, u, b
  <2>13. CASE ty = "MsgRegisterAccount"
    <3>1. Is(MsgRegisterAccount_Unmarshal(b, e, u), MsgRegisterAccount_Unmarshal(s, d, t))
      BY <1>5, <2>1, <2>2, <2>13 DEF MsgRegisterAccount_Unmarshal
    <3> QED
      BY <2>13, <3>1 DEF Turn, Is, t, u, b
  <2>14. CASE ty = "MsgRegisterAccountResponse"
    <3>1. Is(MsgRegisterAccountResponse_Unmarshal(b, e, u), MsgRegisterAccountResponse_Unmarshal(s, d, t))
      BY <1>5, <2>1, <2>2, <2>14 DEF MsgRegisterAccountResponse_Unmarshal
    <3> QED
      BY <2>14, <3>1 DEF Turn, Is, t, u, b
  <2> QED
    BY <2>4, <2>5, <2>6, <2>7, <2>8, <2>9, <2>10, <2>11, <2>12, <2>13, <2>14 DEF MessageTypes, Empty
<1> QED
  BY <1>4, <1>5
-----------------------------------------------------------------------------
(* The loop of every Unmarshal *)

\* A turn of the loop of UnmarshalMsg.
LoopTurn(ty, d) ==
    [s \in Cursors(MessagesOf(ty)) |->
        IF Finished(s, d) THEN s ELSE Turn(ty, s, d, ReadTag(s, d))]

\* It is the loop of UnmarshalMsg and of UnmarshalParams.
LEMMA LoopIs ==
    /\ \A ty, d : UnmarshalMsg(ty, d) =
           Returned(Repeat(LoopTurn(ty, d), Start(Empty[ty]), Len(d)), d)
    /\ \A m, d : UnmarshalParams(m, d) =
           Returned(Repeat(LoopTurn("Params", d), Start(m), Len(d)), d)
<1>1. ASSUME NEW ty, NEW d
      PROVE  UnmarshalMsg(ty, d) =
                 Returned(Repeat(LoopTurn(ty, d), Start(Empty[ty]), Len(d)), d)
  BY DEF UnmarshalMsg, Unmarshal, LoopTurn
<1>2. ASSUME NEW m, NEW d
      PROVE  UnmarshalParams(m, d) =
                 Returned(Repeat(LoopTurn("Params", d), Start(m), Len(d)), d)
  <2> DEFINE turn == [s \in Cursors(ParamsMessages) |->
                         IF Finished(s, d) THEN s ELSE Params_Unmarshal(s, d, ReadTag(s, d))]
  <2>1. UnmarshalParams(m, d) = Returned(Repeat(turn, Start(m), Len(d)), d)
    BY DEF UnmarshalParams, Unmarshal
  <2>2. MessagesOf("Params") = ParamsMessages
    BY DEF MessagesOf
  <2>3. \A s : Turn("Params", s, d, ReadTag(s, d)) = Params_Unmarshal(s, d, ReadTag(s, d))
    BY DEF Turn
  <2>4. LoopTurn("Params", d) = turn
    BY <2>2, <2>3, Zenon DEF LoopTurn
  <2> QED
    BY <2>1, <2>4
<1> QED
  BY <1>1, <1>2

\* The two cases of a turn.
LEMMA LoopCases ==
    ASSUME NEW d, Short(d), NEW ty \in MessageTypes, NEW s, Within(s, d, MessagesOf(ty))
    PROVE  LET y == LoopTurn(ty, d)[s]
               z == Turn(ty, s, d, ReadTag(s, d))
           IN  /\ Within(y, d, MessagesOf(ty))
               /\ ~Good(s) \/ s.i >= Len(d) => y = s
               /\ Good(s) /\ ~(s.i >= Len(d)) => y = z /\ (Good(z) => z.i > s.i)
<1> DEFINE M == MessagesOf(ty)
           y == LoopTurn(ty, d)[s]
           z == Turn(ty, s, d, ReadTag(s, d))
<1>1. s \in Cursors(M)
  BY DEF Within
<1>2. y = IF Finished(s, d) THEN s ELSE z
  BY <1>1, Zenon DEF LoopTurn
<1>3. Finished(s, d) <=> ~Good(s) \/ s.i >= Len(d)
  BY Zenon DEF Finished, Good
<1>4. Within(z, d, M) /\ (Good(z) => z.i > s.i)
  BY TurnReads DEF Reads
<1> HIDE DEF y, z
<1>5. CASE Finished(s, d)
  <2>1. y = s
    BY <1>2, <1>5
  <2> QED
    BY <1>3, <1>5, <2>1 DEF y, z
<1>6. CASE ~Finished(s, d)
  <2>1. y = z
    BY <1>2, <1>6
  <2> QED
    BY <1>3, <1>4, <1>6, <2>1 DEF y, z
<1> QED
  BY <1>5, <1>6

\* The loop stays inside the string.
LEMMA LoopWithin ==
    ASSUME NEW d, Short(d), NEW ty \in MessageTypes, NEW s, Within(s, d, MessagesOf(ty)),
           NEW y, Leads(LoopTurn(ty, d), s, y)
    PROVE  Within(y, d, MessagesOf(ty))
<1> DEFINE M == MessagesOf(ty)
           X == {x \in Cursors(M) : Within(x, d, M)}
           turn == LoopTurn(ty, d)
           J == Nat \X X
<1>1. PICK n \in Nat : Repeat(turn, s, n) = y
  BY DEF Leads
<1>2. s \in X
  BY DEF Within
<1>3. \A x \in X : turn[x] \in X
  <2> TAKE x \in X
  <2>1. Within(turn[x], d, M)
    BY LoopCases
  <2> QED
    BY <2>1 DEF Within
<1> HIDE DEF turn, X
<1>4. <<0, s>> \in J
  BY <1>2
<1>5. \A k \in 0..(n - 1) : \A x : <<k, x>> \in J => <<k + 1, turn[x]>> \in J
  BY <1>3
<1>6. <<n, Repeat(turn, s, n)>> \in J
  <2> HIDE DEF J
  <2> QED
    BY <1>4, <1>5, RepeatInduction
<1>7. y \in X
  BY <1>1, <1>6
<1> QED
  BY <1>7 DEF X

\* After as many turns as there are bytes the loop has ended.
LEMMA LoopEnds ==
    ASSUME NEW d, Short(d), NEW ty \in MessageTypes, NEW m \in MessagesOf(ty)
    PROVE  LET x == Repeat(LoopTurn(ty, d), Start(m), Len(d))
           IN  Within(x, d, MessagesOf(ty)) /\ LoopTurn(ty, d)[x] = x
<1> DEFINE M == MessagesOf(ty)
           turn == LoopTurn(ty, d)
           first == Start(m)
           n == Len(d)
           Ok(k, x) == Within(x, d, M) /\ (Good(x) /\ ~(x.i >= n) => x.i >= k)
           J == {q \in Nat \X Cursors(M) : Ok(q[1], q[2])}
           c == Repeat(turn, first, n)
<1>1. n \in Nat
  BY LengthIsInt
<1>2. <<0, first>> \in J
  <2>1. first \in Cursors(M) /\ first.i = 0
    BY StartIsCursor
  <2> HIDE DEF first
  <2>2. Ok(0, first)
    BY <1>1, <2>1 DEF Within
  <2> QED
    BY <2>1, <2>2
<1> HIDE DEF M
<1>3. ASSUME NEW k \in 0..(n - 1), NEW x, <<k, x>> \in J
      PROVE  <<k + 1, turn[x]>> \in J
  <2> DEFINE y == turn[x]
             z == Turn(ty, x, d, ReadTag(x, d))
  <2>1. k \in Nat /\ k + 1 \in Nat
    BY <1>1
  <2>2. x \in Cursors(M) /\ Ok(k, x)
    <3> HIDE DEF Ok
    <3> QED
      BY <1>3
  <2>3. Within(x, d, M) /\ x.i \in 0..n
    BY <2>2 DEF Within
  <2>4. /\ Within(y, d, M)
        /\ ~Good(x) \/ x.i >= n => y = x
        /\ Good(x) /\ ~(x.i >= n) => y = z /\ (Good(z) => z.i > x.i)
    BY <2>3, LoopCases DEF M
  <2> HIDE DEF y, z
  <2>5. y \in Cursors(M) /\ y.i \in 0..n
    BY <2>4 DEF Within
  <2>6. Ok(k + 1, y)
    <3>1. CASE ~Good(x) \/ x.i >= n
      <4>1. y = x
        BY <2>4, <3>1
      <4>2. ~(Good(y) /\ ~(y.i >= n))
        BY <3>1, <4>1
      <4> QED
        BY <2>4, <4>2
    <3>2. CASE Good(x) /\ ~(x.i >= n)
      <4>1. y = z /\ (Good(y) => y.i > x.i) /\ x.i >= k
        BY <2>2, <2>4, <3>2
      <4>2. Good(y) => y.i >= k + 1
        BY <1>1, <2>1, <2>3, <2>5, <4>1
      <4> QED
        BY <2>4, <4>2
    <3> QED
      BY <3>1, <3>2
  <2> HIDE DEF Ok
  <2> QED
    BY <2>1, <2>5, <2>6 DEF y
<1>4. <<n, Repeat(turn, first, n)>> \in J
  <2> HIDE DEF J, turn, first, n
  <2> QED
    BY <1>1, <1>2, <1>3, RepeatInduction
<1>5. Ok(n, c)
  <2> HIDE DEF Ok, turn, first, n
  <2> QED
    BY <1>4
<1>6. Within(c, d, M) /\ (~Good(c) \/ c.i >= n)
  <2> HIDE DEF c
  <2>1. c.i \in 0..n
    BY <1>5 DEF Within
  <2> QED
    BY <1>1, <1>5, <2>1
<1>7. turn[c] = c
  BY <1>6, LoopCases DEF M
<1> QED
  BY <1>6, <1>7 DEF M

\* From the message m on, d is read as a whole, and gives n.
Parses(ty, d, m, n) == Leads(LoopTurn(ty, d), At(0, m, ""), At(Len(d), n, ""))

\* Then n is what the loop ends with.
LEMMA ParsesEnds ==
    ASSUME NEW d, Short(d), NEW ty \in MessageTypes, NEW m \in MessagesOf(ty), NEW n,
           Parses(ty, d, m, n)
    PROVE  /\ n \in MessagesOf(ty)
           /\ Repeat(LoopTurn(ty, d), Start(m), Len(d)) = At(Len(d), n, "")
<1> DEFINE M == MessagesOf(ty)
           s == Start(m)
           x == Repeat(LoopTurn(ty, d), s, Len(d))
           y == At(Len(d), n, "")
<1>1. s = At(0, m, "") /\ Within(s, d, M) /\ Len(d) \in Nat
  <2>1. Len(d) \in Nat
    BY LengthIsInt
  <2>2. s \in Cursors(M) /\ s.i = 0
    BY StartIsCursor
  <2>3. Within(s, d, M)
    <3> HIDE DEF s
    <3> QED
      BY <2>1, <2>2 DEF Within
  <2> QED
    BY <2>1, <2>3 DEF Start, At
<1>2. Within(x, d, M) /\ LoopTurn(ty, d)[x] = x
  BY LoopEnds
<1>3. Leads(LoopTurn(ty, d), s, x)
  BY <1>1 DEF Leads
<1>4. Leads(LoopTurn(ty, d), s, y)
  BY <1>1 DEF Parses
<1> HIDE DEF x, s
<1>5. Within(y, d, M)
  BY <1>1, <1>4, LoopWithin
<1>6. y.i = Len(d) /\ y.m = n
  BY DEF At
<1>7. LoopTurn(ty, d)[y] = y
  <2> HIDE DEF y
  <2>1. y.i >= Len(d)
    BY <1>6, LengthIsInt
  <2> QED
    BY <1>5, <2>1, LoopCases
<1>8. n \in M
  <2>1. y \in Cursors(M)
    BY <1>5 DEF Within
  <2> HIDE DEF y
  <2> QED
    BY <1>6, <2>1 DEF Cursors
<1> HIDE DEF y
<1>9. x = y
  BY <1>2, <1>3, <1>4, <1>7, LeadsToOneEnd
<1> QED
  BY <1>8, <1>9 DEF x, y, s

\* And what Unmarshal returns.
LEMMA ParsesReturned ==
    ASSUME NEW d, Short(d), NEW n
    PROVE  Returned(At(Len(d), n, ""), d) = At(Len(d), n, "")
<1> DEFINE y == At(Len(d), n, "")
<1>1. y.i = Len(d) /\ Len(d) \in Nat
  BY LengthIsInt DEF At
<1> HIDE DEF y
<1>2. ~(y.i > Len(d))
  BY <1>1
<1> QED
  BY <1>2, Zenon DEF Returned, y

\* Bytes that are a message's fields, one after the other, are read as that message.
LEMMA ParsesUnmarshal ==
    ASSUME NEW d, Short(d), NEW ty \in MessageTypes, NEW n, Parses(ty, d, Empty[ty], n)
    PROVE  UnmarshalMsg(ty, d) = At(Len(d), n, "")
BY EmptyIsMessage, LoopIs, ParsesEnds, ParsesReturned

\* The same for a nested Params that goes on from m.
LEMMA ParsesParams ==
    ASSUME NEW d, Short(d), NEW m \in ParamsMessages, NEW n, Parses("Params", d, m, n)
    PROVE  UnmarshalParams(m, d) = At(Len(d), n, "")
<1>1. "Params" \in MessageTypes /\ MessagesOf("Params") = ParamsMessages
  BY DEF MessageTypes, Empty, MessagesOf
<1> QED
  BY <1>1, LoopIs, ParsesEnds, ParsesReturned

\* A string that is read as a whole is read inside another.
LEMMA ParsesHeld ==
    ASSUME NEW d, Short(d), NEW e, Short(e), NEW off, Holds(e, off, d),
           NEW ty \in MessageTypes, NEW m \in MessagesOf(ty), NEW n, Parses(ty, d, m, n)
    PROVE  Leads(LoopTurn(ty, e), At(off, m, ""), At(off + Len(d), n, ""))
<1> DEFINE M == MessagesOf(ty)
           s == At(0, m, "")
           y == At(Len(d), n, "")
           turn == LoopTurn(ty, d)
           other == LoopTurn(ty, e)
           Ok(x) == Within(x, d, M) /\ (Good(x) => Leads(other, Sh(s, off), Sh(x, off)))
           J == {q \in Nat \X Cursors(M) : Ok(q[2])}
<1>1. /\ Len(d) \in Nat /\ Len(e) \in Nat /\ off \in Nat /\ off + Len(d) <= Len(e)
  BY LengthIsInt DEF Holds
<1>2. Sh(s, off) = At(off, m, "") /\ Sh(y, off) = At(off + Len(d), n, "")
  <2>1. off + 0 = off
    BY <1>1
  <2> QED
    BY <2>1 DEF Sh, At
<1>3. Within(s, d, M)
  <2>1. s = Start(m)
    BY DEF Start, At
  <2>2. s \in Cursors(M) /\ s.i = 0
    BY <2>1, StartIsCursor
  <2> HIDE DEF s
  <2> QED
    BY <1>1, <2>2 DEF Within
<1>4. PICK l \in Nat : Repeat(turn, s, l) = y
  BY DEF Parses, Leads
<1>5. Good(y)
  BY DEF At, Good
<1> HIDE DEF turn, other, s, y
<1>6. Ok(s)
  BY <1>3, LeadsTo
<1>7. ASSUME NEW x, Ok(x) PROVE Ok(turn[x])
  <2> DEFINE z == Turn(ty, x, d, ReadTag(x, d))
             b == Sh(x, off)
             z2 == Turn(ty, b, e, ReadTag(b, e))
  <2>1. /\ Within(turn[x], d, M)
        /\ ~Good(x) \/ x.i >= Len(d) => turn[x] = x
        /\ Good(x) /\ ~(x.i >= Len(d)) => turn[x] = z
    BY <1>7, LoopCases DEF turn
  <2>2. CASE ~Good(x) \/ x.i >= Len(d)
    BY <1>7, <2>1, <2>2
  <2>3. CASE Good(x) /\ ~(x.i >= Len(d))
    <3>1. x.i \in 0..Len(d) /\ x \in Cursors(M)
      BY <1>7 DEF Within
    <3>2. b \in Cursors(M) /\ b.i = off + x.i /\ b.err = x.err
      BY <1>1, <1>7, ShiftIsCursor
    <3>3. Same(z2, z, off)
      BY <1>7, TurnHeld
    <3> HIDE DEF z, b, z2
    <3>4. b.i \in 0..Len(e) /\ ~(b.i >= Len(e))
      BY <1>1, <2>3, <3>1, <3>2
    <3>5. Good(b)
      BY <2>3, <3>2, Zenon DEF Good
    <3>6. Within(b, e, M)
      BY <3>2, <3>4 DEF Within
    <3>7. other[b] = z2
      BY <3>4, <3>5, <3>6, LoopCases DEF other, z2
    <3>8. Good(z) => Leads(other, Sh(s, off), Sh(z, off))
      <4>1. Leads(other, Sh(s, off), b)
        BY <1>7, <2>3 DEF b
      <4>2. Leads(other, b, other[b])
        BY LeadsTo
      <4> QED
        BY <3>3, <3>7, <4>1, <4>2, LeadsTo DEF Same
    <3> QED
      BY <2>1, <2>3, <3>8
  <2> QED
    BY <2>2, <2>3
<1>8. \A x : Ok(x) => x \in Cursors(M)
  BY DEF Within
<1> HIDE DEF Ok
<1>9. <<0, s>> \in J
  BY <1>6, <1>8
<1>10. \A k \in 0..(l - 1) : \A x : <<k, x>> \in J => <<k + 1, turn[x]>> \in J
  BY <1>7, <1>8
<1>11. <<l, Repeat(turn, s, l)>> \in J
  <2> HIDE DEF J
  <2> QED
    BY <1>9, <1>10, RepeatInduction
<1>12. Ok(y)
  BY <1>4, <1>11
<1> QED
  BY <1>2, <1>5, <1>12 DEF Ok, other

\* Two byte strings one after the other are short only if both are.
LEMMA ConcatHolds ==
    ASSUME NEW d \in Seq(Byte), NEW e \in Seq(Byte), Short(d \o e)
    PROVE  /\ Short(d) /\ Short(e) /\ Len(d \o e) = Len(d) + Len(e)
           /\ Holds(d \o e, 0, d) /\ Holds(d \o e, Len(d), e)
<1>1. Len(d) \in Nat /\ Len(e) \in Nat /\ Len(d \o e) = Len(d) + Len(e) /\ Half \in Nat
  BY HalfIsNat
<1>2. \A k \in 1..Len(d) : (d \o e)[0 + k] = d[k]
  <2> TAKE k \in 1..Len(d)
  <2>1. 0 + k = k
    BY <1>1
  <2> QED
    BY <2>1
<1>3. \A k \in 1..Len(e) : (d \o e)[Len(d) + k] = e[k]
  OBVIOUS
<1> QED
  BY <1>1, <1>2, <1>3 DEF Short, Holds

\* What is read of one string and then of another is read of both.
LEMMA ParsesConcat ==
    ASSUME NEW d \in Seq(Byte), NEW e \in Seq(Byte), Short(d \o e),
           NEW ty \in MessageTypes, NEW m \in MessagesOf(ty),
           NEW n, Parses(ty, d, m, n), NEW o, Parses(ty, e, n, o)
    PROVE  Parses(ty, d \o e, m, o)
<1> DEFINE b == d \o e
<1>1. /\ Short(d) /\ Short(e) /\ Len(b) = Len(d) + Len(e)
      /\ Holds(b, 0, d) /\ Holds(b, Len(d), e)
  BY ConcatHolds
<1> HIDE DEF b
<1>2. Short(b)
  BY DEF b
<1>3. n \in MessagesOf(ty)
  BY <1>1, ParsesEnds
<1>4. Leads(LoopTurn(ty, b), At(0, m, ""), At(0 + Len(d), n, ""))
  BY <1>1, <1>2, ParsesHeld
<1>5. Leads(LoopTurn(ty, b), At(Len(d), n, ""), At(Len(d) + Len(e), o, ""))
  BY <1>1, <1>2, <1>3, ParsesHeld
<1>6. 0 + Len(d) = Len(d)
  BY <1>1, LengthIsInt
<1> QED
  BY <1>1, <1>4, <1>5, <1>6, LeadsTo DEF Parses, b

\* The empty string adds nothing.
LEMMA ParsesEmpty == \A ty, m : Parses(ty, <<>>, m, m)
<1>1. Len(<<>>) = 0
  OBVIOUS
<1> QED
  BY <1>1, LeadsTo DEF Parses

\* The start of a string.
LEMMA StartWithin ==
    ASSUME NEW d, Short(d), NEW M, NEW m \in M
    PROVE  /\ Within(Start(m), d, M) /\ Good(Start(m)) /\ Start(m) = At(0, m, "")
           /\ Len(d) > 0 => ~(Start(m).i >= Len(d))
<1> DEFINE s == Start(m)
<1>1. s = At(0, m, "") /\ Good(s)
  BY DEF Start, At, Good
<1>2. s \in Cursors(M) /\ s.i = 0
  BY StartIsCursor
<1> HIDE DEF s
<1>3. Within(s, d, M) /\ (Len(d) > 0 => ~(s.i >= Len(d)))
  BY <1>2, LengthIsInt DEF Within
<1> QED
  BY <1>1, <1>3 DEF s

\* A string with one field.
LEMMA ParsesField ==
    ASSUME NEW d, Short(d), Len(d) > 0, NEW ty \in MessageTypes, NEW m \in MessagesOf(ty),
           NEW n, Turn(ty, Start(m), d, ReadTag(Start(m), d)) = At(Len(d), n, "")
    PROVE  Parses(ty, d, m, n)
<1> DEFINE s == Start(m)
<1>1. Within(s, d, MessagesOf(ty)) /\ Good(s) /\ s = At(0, m, "") /\ ~(s.i >= Len(d))
  BY StartWithin, Zenon
<1>2. LoopTurn(ty, d)[s] = Turn(ty, s, d, ReadTag(s, d))
  BY <1>1, LoopCases, Zenon
<1>3. Leads(LoopTurn(ty, d), s, LoopTurn(ty, d)[s])
  BY LeadsTo
<1> QED
  BY <1>1, <1>2, <1>3, Zenon DEF Parses
-----------------------------------------------------------------------------
(* A number that is written is read back *)

\* The powers of 128 a varint has digits for.
LEMMA Powers ==
    /\ MaxVarintLen \in Nat \ {0}
    /\ 128^0 = 1
    /\ \A k \in 0..MaxVarintLen : 128^k \in Nat \ {0} /\ 128^(k + 1) = 128 * 128^k
    /\ \A k \in 0..MaxVarintLen : \A j \in 0..k : 128^j <= 128^k
    /\ 2^WordBits <= 128^MaxVarintLen
<1> DEFINE N == MaxVarintLen
<1>1. N \in Nat \ {0} /\ 7 * N >= WordBits /\ 7 * N <= WordBits + 6 /\ WordBits \in Nat
  BY WireAssumption DEF MaxVarintLen
<1> HIDE DEF N
<1>2. \A k \in 0..N : 7 * k \in 0..(WordBits + 6) /\ \A j \in 0..k : 7 * j \in 0..(7 * k)
  BY <1>1
<1>3. \A k \in 0..N : 128^k = 2^(7 * k) /\ 128^(k + 1) = 128 * 128^k
  BY PowerAssumption DEF N
<1>4. /\ 128^0 = 1
      /\ \A n \in 0..(WordBits + 6) : 2^n \in Nat \ {0} /\ \A m \in 0..n : 2^m <= 2^n
  BY PowerAssumption
<1>5. \A k \in 0..N : 128^k \in Nat \ {0} /\ 128^(k + 1) = 128 * 128^k
  <2> TAKE k \in 0..N
  <2>1. 7 * k \in 0..(WordBits + 6)
    BY <1>2
  <2>2. 2^(7 * k) \in Nat \ {0}
    BY <1>4, <2>1
  <2> QED
    BY <1>3, <2>2
<1>6. \A k \in 0..N : \A j \in 0..k : 128^j <= 128^k
  <2> TAKE k \in 0..N
  <2> TAKE j \in 0..k
  <2>1. 7 * k \in 0..(WordBits + 6) /\ 7 * j \in 0..(7 * k) /\ j \in 0..N
    BY <1>1, <1>2
  <2>2. 2^(7 * j) <= 2^(7 * k)
    BY <1>4, <2>1
  <2> QED
    BY <1>3, <2>1, <2>2
<1>7. 2^WordBits <= 128^N
  <2>1. N \in 0..N /\ 7 * N \in 0..(WordBits + 6) /\ WordBits \in 0..(7 * N)
    BY <1>1
  <2>2. 2^WordBits <= 2^(7 * N)
    BY <1>4, <2>1
  <2> QED
    BY <1>3, <2>1, <2>2
<1> QED
  BY <1>1, <1>4, <1>5, <1>6, <1>7 DEF N

\* Division.
LEMMA Quotient ==
    ASSUME NEW v \in Nat, NEW b \in Nat \ {0}
    PROVE  /\ v \div b \in Nat
           /\ (v \div b) * b <= v /\ v < ((v \div b) + 1) * b
           /\ \A q \in Nat : q * b <= v /\ v < (q + 1) * b => q = v \div b
OBVIOUS

\* The next digit to the base 128.
LEMMA NextQuotient ==
    ASSUME NEW v \in Nat, NEW b \in Nat \ {0}
    PROVE  LET q == v \div b
               r == v \div (128 * b)
           IN  r = q \div 128 /\ q = 128 * r + (q % 128)
<1> DEFINE q == v \div b
           r == q \div 128
<1>1. q \in Nat /\ q * b <= v /\ v < (q + 1) * b
  BY Quotient
<1> HIDE DEF q
<1>2. r \in Nat /\ 128 * r <= q /\ q + 1 <= 128 * r + 128 /\ q = 128 * r + (q % 128)
  BY <1>1
<1> HIDE DEF r
<1>3. (128 * r) * b <= q * b
  BY <1>1, <1>2
<1>4. (q + 1) * b <= (128 * r + 128) * b
  BY <1>1, <1>2
<1>5. (128 * r) * b = r * (128 * b) /\ (128 * r + 128) * b = (r + 1) * (128 * b)
  BY <1>2
<1>6. 128 * b \in Nat \ {0}
  OBVIOUS
<1>7. r * (128 * b) <= v /\ v < (r + 1) * (128 * b)
  <2>1. q * b \in Int /\ (q + 1) * b \in Int /\ r * (128 * b) \in Int /\ (r + 1) * (128 * b) \in Int
    BY <1>1, <1>2
  <2> QED
    BY <1>1, <1>3, <1>4, <1>5, <2>1
<1>8. r = v \div (128 * b)
  BY <1>2, <1>6, <1>7, Quotient
<1> QED
  BY <1>2, <1>8 DEF q, r

\* n bytes are what the varint of v takes.
IsSize(v, n) == n \in 1..MaxVarintLen /\ v < 128^n /\ (n > 1 => v >= 128^(n - 1))

\* Every word has such a number, and one only.
LEMMA SizeExists ==
    ASSUME NEW v \in Word
    PROVE  \E n : IsSize(v, n)
<1> DEFINE N == MaxVarintLen
           T == {k \in 1..N : v < 128^k}
<1>1. N \in Nat \ {0} /\ 2^WordBits <= 128^N /\ 128^N \in Nat
  <2>1. N \in 0..N
    BY Powers
  <2> QED
    BY <2>1, Powers
<1>2. v \in Nat /\ v < 2^WordBits /\ 2^WordBits \in Nat
  BY HalfIsNat DEF Word
<1>3. N \in T
  BY <1>1, <1>2
<1>4. PICK n \in T : \A k \in T : n <= k
  <2>1. T \subseteq Nat /\ T # {}
    BY <1>3
  <2> HIDE DEF T
  <2> QED
    BY <2>1, LeastNumber
<1>5. n > 1 => v >= 128^(n - 1)
  <2> SUFFICES ASSUME n > 1 PROVE v >= 128^(n - 1)
    OBVIOUS
  <2>1. n - 1 \in 1..N /\ n - 1 \in 0..N /\ ~(n <= n - 1)
    BY <1>1
  <2>2. ~(v < 128^(n - 1))
    BY <1>4, <2>1
  <2>3. 128^(n - 1) \in Nat
    BY <2>1, Powers
  <2> QED
    BY <1>2, <2>2, <2>3
<1> QED
  BY <1>5 DEF IsSize

\* A number has one size.
LEMMA SizeUnique ==
    ASSUME NEW v \in Word, NEW n, IsSize(v, n), NEW m, IsSize(v, m)
    PROVE  n = m
<1>1. v \in Nat
  BY HalfIsNat DEF Word
<1>2. ASSUME NEW a, IsSize(v, a), NEW b, IsSize(v, b) PROVE ~(a < b)
  <2> SUFFICES ASSUME a < b PROVE FALSE
    OBVIOUS
  <2>1. a \in 1..MaxVarintLen /\ b \in 1..MaxVarintLen /\ MaxVarintLen \in Nat
    BY <1>2, Powers DEF IsSize
  <2>2. b > 1 /\ b - 1 \in 0..MaxVarintLen /\ a \in 0..(b - 1) /\ a \in 0..MaxVarintLen
    BY <2>1
  <2>3. 128^a <= 128^(b - 1) /\ 128^a \in Nat /\ 128^(b - 1) \in Nat
    BY <2>2, Powers
  <2>4. v < 128^a /\ v >= 128^(b - 1)
    BY <1>2, <2>2 DEF IsSize
  <2> QED
    BY <1>1, <2>3, <2>4
<1>3. n \in Int /\ m \in Int
  BY Powers DEF IsSize
<1>4. ~(n < m) /\ ~(m < n)
  BY <1>2
<1> QED
  BY <1>3, <1>4

\* The bytes of a varint.
LEMMA VarintShape ==
    ASSUME NEW v \in Word
    PROVE  LET g == Varint(v)
           IN  /\ g \in Seq(Byte) /\ IsSize(v, Len(g))
               /\ \A k \in 1..Len(g) :
                      /\ g[k] % 128 = (v \div 128^(k - 1)) % 128
                      /\ g[k] < 128 <=> k = Len(g)
<1> DEFINE n == CHOOSE k \in 1..MaxVarintLen : v < 128^k /\ (k > 1 => v >= 128^(k - 1))
           G(k) == v \div 128^(k - 1)
           B(k) == IF k < n THEN 128 + (G(k) % 128) ELSE G(k)
           g == Varint(v)
<1>1. IsSize(v, n)
  <2>1. \E k \in 1..MaxVarintLen : v < 128^k /\ (k > 1 => v >= 128^(k - 1))
    BY SizeExists DEF IsSize
  <2> QED
    BY <2>1, Zenon DEF IsSize
<1>2. g = [k \in 1..n |-> B(k)]
  BY DEF Varint
<1>3. v \in Nat
  BY HalfIsNat DEF Word
<1> HIDE DEF n
<1>4. n \in 1..MaxVarintLen /\ n \in Nat \ {0} /\ MaxVarintLen \in Nat /\ v < 128^n
  BY <1>1, Powers DEF IsSize
<1>5. ASSUME NEW k \in 1..n PROVE G(k) \in Nat /\ (k = n => G(k) < 128)
  <2>1. k - 1 \in 0..MaxVarintLen /\ k - 1 + 1 = k
    BY <1>4
  <2> DEFINE b == 128^(k - 1)
  <2>2. b \in Nat \ {0} /\ 128^k = 128 * b
    BY <2>1, Powers
  <2> HIDE DEF b
  <2>3. v \div b \in Nat /\ (v \div b) * b <= v
    BY <1>3, <2>2, Quotient
  <2>4. k = n => (v \div b) < 128
    <3> SUFFICES ASSUME k = n, (v \div b) >= 128 PROVE FALSE
      BY <2>3
    <3>1. v < 128 * b
      BY <1>4, <2>2
    <3>2. (v \div b) * b >= 128 * b
      <4> DEFINE q == v \div b
      <4>1. q \in Nat /\ q >= 128
        BY <2>3
      <4> HIDE DEF q
      <4> QED
        BY <2>2, <4>1 DEF q
    <3> DEFINE x == (v \div b) * b
    <3>3. x \in Int /\ x <= v /\ x >= 128 * b
      BY <2>2, <2>3, <3>2
    <3> HIDE DEF x
    <3> QED
      BY <1>3, <2>2, <3>1, <3>3
  <2> QED
    BY <2>3, <2>4 DEF b
<1> HIDE DEF G
<1>6. ASSUME NEW k \in 1..n
      PROVE  B(k) \in Byte /\ B(k) % 128 = G(k) % 128 /\ (B(k) < 128 <=> k = n)
  <2>1. G(k) \in Nat /\ (k = n => G(k) < 128) /\ k \in Int
    BY <1>4, <1>5
  <2>2. CASE k < n
    <3>1. B(k) = 128 + (G(k) % 128)
      BY <2>2
    <3>2. G(k) % 128 \in 0..127
      BY <2>1
    <3> HIDE DEF B
    <3> QED
      BY <1>4, <2>1, <2>2, <3>1, <3>2 DEF Byte
  <2>3. CASE ~(k < n)
    <3>1. B(k) = G(k) /\ k = n
      BY <1>4, <2>3
    <3> HIDE DEF B
    <3> QED
      BY <2>1, <3>1 DEF Byte
  <2> QED
    BY <2>2, <2>3
<1> HIDE DEF B
<1>7. g \in Seq(Byte) /\ Len(g) = n
  <2>1. g \in [1..n -> Byte]
    BY <1>2, <1>6
  <2> QED
    BY <1>4, <2>1
<1>8. \A k \in 1..n : g[k] = B(k)
  BY <1>2
<1> QED
  BY <1>1, <1>6, <1>7, <1>8 DEF G
\* The digits of v add up to v.
LEMMA VarintValueIs ==
    ASSUME NEW v \in Word
    PROVE  VarintValue(Varint(v), 0, Len(Varint(v))) = v
<1> DEFINE g == Varint(v)
           n == Len(g)
           a == [k \in 1..n |-> (g[0 + k] % 128) * 128^(k - 1)]
           Q(j) == v \div 128^j
           P == {j \in Nat : j <= n => SumTo(a, j) = v - Q(j) * 128^j}
<1>1. /\ g \in Seq(Byte) /\ IsSize(v, n)
      /\ \A k \in 1..n : g[k] % 128 = (v \div 128^(k - 1)) % 128
  BY VarintShape
<1> HIDE DEF g
<1>2. v \in Nat /\ v < 2^WordBits /\ 2^WordBits \in Nat \ {0}
  BY HalfIsNat DEF Word
<1>3. n \in 1..MaxVarintLen /\ MaxVarintLen \in Nat /\ n \in Nat /\ v < 128^n
  BY <1>1, Powers DEF IsSize
<1> HIDE DEF n
<1>4. 0 \in P
  <2>1. SumTo(a, 0) = 0
    <3> HIDE DEF a
    <3> QED
      BY <1>3, SumToStep
  <2>2. 128^0 = 1
    BY Powers
  <2>3. v \div 1 = v
    BY <1>2
  <2> HIDE DEF a
  <2> QED
    BY <1>2, <2>1, <2>2, <2>3
<1>5. ASSUME NEW j \in Nat, j \in P PROVE j + 1 \in P
  <2> SUFFICES ASSUME j + 1 <= n PROVE SumTo(a, j + 1) = v - Q(j + 1) * 128^(j + 1)
    OBVIOUS
  <2> DEFINE b == 128^j
             q == v \div b
             r == v \div (128 * b)
  <2>1. j \in 0..MaxVarintLen /\ j + 1 \in 1..n /\ 0 + (j + 1) = j + 1 /\ (j + 1) - 1 = j
    BY <1>3
  <2>2. b \in Nat \ {0} /\ 128^(j + 1) = 128 * b
    BY <2>1, Powers
  <2>3. SumTo(a, j) = v - q * b
    BY <1>3, <1>5
  <2>4. a[j + 1] = (q % 128) * b
    <3>1. a[j + 1] = (g[0 + (j + 1)] % 128) * 128^((j + 1) - 1)
      BY <2>1
    <3>2. g[j + 1] % 128 = (v \div 128^((j + 1) - 1)) % 128
      BY <1>1, <2>1
    <3> QED
      BY <2>1, <3>1, <3>2
  <2>5. SumTo(a, j + 1) = SumTo(a, j) + a[j + 1]
    <3> HIDE DEF a
    <3> QED
      BY SumToStep
  <2>6. Q(j + 1) = r
    BY <2>2
  <2> HIDE DEF b, a
  <2>7. q = 128 * r + (q % 128)
    BY <1>2, <2>2, NextQuotient
  <2>8. q \in Nat /\ r \in Nat /\ q % 128 \in Int
    <3>1. 128 * b \in Nat \ {0}
      BY <2>2
    <3>2. q \in Nat /\ r \in Nat
      BY <1>2, <2>2, <3>1, Quotient
    <3> HIDE DEF q, r
    <3> QED
      BY <3>2
  <2> DEFINE x == q % 128
  <2> HIDE DEF q, r, Q, x
  <2>9. q * b = r * (128 * b) + x * b
    <3>1. q = 128 * r + x /\ x \in Int
      BY <2>7, <2>8 DEF x
    <3> QED
      BY <2>2, <2>8, <3>1
  <2>10. r * (128 * b) \in Int /\ x * b \in Int /\ q * b \in Int
    BY <2>2, <2>8 DEF x
  <2>11. a[j + 1] = x * b
    BY <2>4 DEF x
  <2>12. SumTo(a, j + 1) = (v - q * b) + x * b
    BY <2>3, <2>5, <2>11 DEF q
  <2>13. Q(j + 1) * 128^(j + 1) = r * (128 * b)
    BY <2>2, <2>6
  <2> QED
    BY <1>2, <2>9, <2>10, <2>12, <2>13
<1>6. n \in P
  <2> HIDE DEF P
  <2> QED
    BY <1>3, <1>4, <1>5, SetInduction
<1>7. Q(n) = 0
  <2> DEFINE b == 128^n
  <2>1. b \in Nat \ {0}
    <3>1. n \in 0..MaxVarintLen
      BY <1>3
    <3> QED
      BY <3>1, Powers
  <2>2. v < b
    BY <1>3
  <2> HIDE DEF b
  <2>3. 0 * b <= v /\ v < (0 + 1) * b
    BY <1>2, <2>1, <2>2
  <2>4. 0 = v \div b
    BY <1>2, <2>1, <2>3, Quotient
  <2> QED
    BY <2>4 DEF b
<1>8. SumTo(a, n) = v
  <2>1. SumTo(a, n) = v - Q(n) * 128^n
    BY <1>3, <1>6
  <2>2. 0 * 128^n = 0
    <3>1. n \in 0..MaxVarintLen
      BY <1>3
    <3>2. 128^n \in Nat
      BY <3>1, Powers
    <3> QED
      BY <3>2
  <2> HIDE DEF a, Q
  <2> QED
    BY <1>2, <1>7, <2>1, <2>2
<1>9. VarintValue(g, 0, n) = SumTo(a, n) % 2^WordBits
  BY DEF VarintValue
<1>10. v % 2^WordBits = v
  <2> DEFINE w == 2^WordBits
  <2>1. w \in Nat \ {0} /\ v \in 0..(w - 1) /\ v \in Int
    BY <1>2
  <2> HIDE DEF w
  <2>2. v % w = v
    BY <2>1, Remainder
  <2> QED
    BY <2>2 DEF w
<1> QED
  BY <1>8, <1>9, <1>10 DEF g, n

\* A string that has the varint of v at off: v is read there.
LEMMA VarintReads ==
    ASSUME NEW d \in Seq(Byte), NEW v \in Word, NEW off, Holds(d, off, Varint(v))
    PROVE  LET r == ReadVarint(d, off)
           IN  Good(r) /\ r.val = v /\ r.i = off + Len(Varint(v))
<1> DEFINE g == Varint(v)
           n == Len(g)
<1>1. /\ g \in Seq(Byte) /\ IsSize(v, n)
      /\ \A k \in 1..n : g[k] < 128 <=> k = n
  BY VarintShape
<1>2. VarintValue(g, 0, n) = v
  BY VarintValueIs
<1> HIDE DEF g
<1>3. off \in Nat /\ off + 0 = off /\ n \in Nat
  BY <1>1 DEF Holds
<1>4. EndsAfter(g, 0, n)
  <2>1. 0 + n <= Len(g)
    BY <1>3
  <2>2. \A k \in 1..n : 0 + k = k
    BY <1>3
  <2> QED
    BY <1>1, <2>1, <2>2 DEF EndsAfter, IsSize
<1>5. Holds(d, off, g)
  BY DEF g
<1>6. EndsAfter(d, off + 0, n) /\ VarintValue(d, off + 0, n) = VarintValue(g, 0, n)
  <2> HIDE DEF n
  <2> QED
    BY <1>1, <1>4, <1>5, VarintHeld
<1>7. EndsAfter(d, off, n) /\ VarintValue(d, off, n) = v
  BY <1>2, <1>3, <1>6
<1> HIDE DEF n
<1> QED
  BY <1>3, <1>7, ReadVarintIs DEF g, n

\* What Size foresees for a varint is its length.
LEMMA SovIsLength ==
    ASSUME NEW v \in Word
    PROVE  sov(v) = Len(Varint(v))
<1> DEFINE x == IF v % 2 = 0 THEN v + 1 ELSE v
           W == WordBits
           T == {n \in 0..W : x < 2^n}
           l == Len64(x)
           c == (l + 6) \div 7
<1>1. /\ v \in Nat /\ v < 2^W /\ 2^W = 2 * Half /\ Half \in Nat /\ W \in Nat
  BY HalfIsNat, WireAssumption DEF Word
<1>2. /\ x \in Nat /\ x >= 1 /\ x < 2^W /\ v <= x /\ x % 2 = 1 /\ x <= v + 1
      /\ (x # v => x = v + 1)
  <2> DEFINE w == 2^W
  <2>1. w = 2 * Half
    BY <1>1
  <2>2. v < w
    BY <1>1
  <2> HIDE DEF w
  <2>3. x < w
    BY <1>1, <2>1, <2>2
  <2> QED
    BY <1>1, <2>3 DEF w
<1> HIDE DEF x
<1>3. \A n \in 0..(W + 6) : 2^n \in Nat \ {0} /\ \A m \in 0..n : 2^m <= 2^n
  BY PowerAssumption
<1>4. \E n \in 0..W : x < 2^n /\ (n > 0 => x >= 2^(n - 1))
  <2>1. W \in T /\ T \subseteq Nat /\ T # {}
    <3>1. W \in 0..W /\ x < 2^W
      BY <1>1, <1>2
    <3>2. W \in T
      BY <3>1
    <3> QED
      BY <3>2
  <2>2. PICK n \in T : \A k \in T : n <= k
    <3> HIDE DEF T
    <3> QED
      BY <2>1, LeastNumber
  <2>3. n > 0 => x >= 2^(n - 1)
    <3> SUFFICES ASSUME n > 0 PROVE x >= 2^(n - 1)
      OBVIOUS
    <3>1. n - 1 \in 0..W /\ n - 1 \in 0..(W + 6) /\ ~(n <= n - 1)
      BY <1>1
    <3>2. ~(x < 2^(n - 1))
      BY <2>2, <3>1
    <3>3. 2^(n - 1) \in Nat
      BY <1>3, <3>1
    <3> QED
      BY <1>2, <3>2, <3>3
  <2> QED
    BY <2>2, <2>3
<1>5. l \in 0..W /\ x < 2^l /\ (l > 0 => x >= 2^(l - 1))
  BY <1>4, Zenon DEF Len64
<1> HIDE DEF l
<1>6. l # 0
  <2>1. 2^0 = 1
    <3>1. 0 \in 0..MaxVarintLen /\ 7 * 0 = 0
      BY Powers
    <3>2. 128^0 = 2^(7 * 0) /\ 128^0 = 1
      BY <3>1, PowerAssumption
    <3> QED
      BY <3>1, <3>2
  <2> SUFFICES ASSUME l = 0 PROVE FALSE
    OBVIOUS
  <2>2. x < 2^0
    BY <1>5, Zenon
  <2>3. x < 1
    BY <2>1, <2>2
  <2> QED
    BY <1>2, <2>3
<1>7. l \in 1..W /\ l \in Nat
  BY <1>1, <1>5, <1>6
<1>8. /\ c \in 1..MaxVarintLen /\ c \in Nat /\ l <= 7 * c /\ 7 * c <= l + 6
      /\ 7 * (c - 1) <= l - 1
  BY <1>1, <1>7 DEF MaxVarintLen
<1> HIDE DEF c
<1>9. sov(v) = c
  BY DEF sov, c, l, x
<1>10. x < 128^c
  <2>1. 7 * c \in 0..(W + 6) /\ l \in 0..(7 * c) /\ c \in 0..MaxVarintLen /\ l \in 0..(W + 6)
    BY <1>1, <1>7, <1>8, Powers
  <2>2. 2^l <= 2^(7 * c) /\ 2^l \in Nat /\ 2^(7 * c) \in Nat
    BY <1>3, <2>1
  <2>3. 128^c = 2^(7 * c)
    BY <2>1, PowerAssumption
  <2> QED
    BY <1>2, <1>5, <2>2, <2>3
<1>11. c > 1 => v >= 128^(c - 1)
  <2> SUFFICES ASSUME c > 1 PROVE v >= 128^(c - 1)
    OBVIOUS
  <2> DEFINE e == c - 1
             f == c - 2
  <2>1. /\ e \in 0..MaxVarintLen /\ 7 * e \in 0..(l - 1) /\ l - 1 \in 0..(W + 6)
        /\ f \in 0..MaxVarintLen /\ f + 1 = e
    BY <1>1, <1>7, <1>8, Powers
  <2>2. 2^(7 * e) <= 2^(l - 1) /\ 2^(l - 1) \in Nat
    BY <1>3, <2>1
  <2>3. 128^e = 2^(7 * e)
    BY <2>1, PowerAssumption
  <2>4. 128^f \in Nat /\ 128^(f + 1) = 128 * 128^f
    BY <2>1, Powers
  <2>5. x >= 2^(l - 1)
    BY <1>5, <1>7
  <2> HIDE DEF e, f
  <2>6. 128^e = 128 * 128^f
    BY <2>1, <2>4
  <2> DEFINE p == 128^f
             o == 128^e
  <2>7. x >= o /\ o = 128 * p /\ p \in Nat
    BY <1>2, <2>2, <2>3, <2>4, <2>5, <2>6
  <2> HIDE DEF o, p
  <2>8. v >= o
    BY <1>1, <1>2, <2>7
  <2> QED
    BY <2>8 DEF o, e
<1>12. IsSize(v, c)
  <2>1. 128^c \in Nat
    <3>1. c \in 0..MaxVarintLen
      BY <1>8
    <3> QED
      BY <3>1, Powers
  <2>2. v < 128^c
    BY <1>1, <1>2, <1>10, <2>1
  <2> QED
    BY <1>8, <1>11, <2>2 DEF IsSize
<1>13. IsSize(v, Len(Varint(v)))
  BY VarintShape
<1> QED
  BY <1>9, <1>12, <1>13, SizeUnique

\* A varint is written in front of the tail.
LEMMA EncodeIsVarint ==
    ASSUME NEW v \in Word, NEW tail \in Seq(Byte)
    PROVE  encodeVarint(v, tail) = Varint(v) \o tail
<1> DEFINE g == Varint(v)
           n == Len(g)
           h == [j \in 1..(n + Len(tail)) |->
                    IF j <= n THEN g[j] ELSE IF j <= n THEN 0 ELSE tail[j - n]]
<1>1. sov(v) = n /\ g \in Seq(Byte)
  BY SovIsLength, VarintShape
<1>2. encodeVarint(v, tail) = h
  BY <1>1, Zenon DEF encodeVarint
<1> HIDE DEF g
<1>3. n \in Nat /\ Len(tail) \in Nat
  BY <1>1
<1>4. g \o tail = [j \in 1..(n + Len(tail)) |-> IF j <= n THEN g[j] ELSE tail[j - n]]
  <2> DEFINE b == g \o tail
  <2>1. /\ b \in Seq(Byte) /\ Len(b) = n + Len(tail)
        /\ \A j \in 1..(n + Len(tail)) : b[j] = IF j <= n THEN g[j] ELSE tail[j - n]
    BY <1>1, <1>3
  <2> HIDE DEF b
  <2>2. b = [j \in 1..Len(b) |-> b[j]]
    BY <2>1
  <2> QED
    BY <2>1, <2>2 DEF b
<1>5. h = [j \in 1..(n + Len(tail)) |-> IF j <= n THEN g[j] ELSE tail[j - n]]
  <2> HIDE DEF n
  <2> QED
    BY Zenon
<1> QED
  BY <1>2, <1>4, <1>5 DEF g
-----------------------------------------------------------------------------
(* What is written in front of a tail *)

\* uint64 of a length.
LEMMA UintIsWord ==
    ASSUME NEW n \in Nat
    PROVE  Uint(n) \in Word /\ (n < Half => Uint(n) = n /\ n \in Word)
<1> DEFINE w == 2^WordBits
<1>1. w = 2 * Half /\ Half \in Nat \ {0}
  BY HalfIsNat
<1>2. w \in Nat \ {0} /\ n \in Int
  BY <1>1
<1>3. Half <= w
  BY <1>1
<1> HIDE DEF w
<1>4. n % w \in 0..(w - 1) /\ (n \in 0..(w - 1) => n % w = n)
  BY <1>2, Remainder
<1> QED
  BY <1>1, <1>2, <1>3, <1>4 DEF Uint, Word, w

\* The bytes of a field.
UintBytes(tag, v) == IF v = 0 THEN <<>> ELSE <<tag>> \o Varint(v)

BoolBytes(tag, v) == IF v THEN <<tag, 1>> ELSE <<>>

PayloadBytes(tag, bz) == (<<tag>> \o Varint(Uint(Len(bz)))) \o bz

BytesBytes(tag, bz) == IF bz = <<>> THEN <<>> ELSE PayloadBytes(tag, bz)

\* They are bytes, and as many as Size foresees.
LEMMA UintBytesAre ==
    ASSUME NEW tag \in Byte, NEW v \in Word, NEW tail \in Seq(Byte)
    PROVE  /\ UintBytes(tag, v) \in Seq(Byte) /\ Len(UintBytes(tag, v)) = SizeUint(v)
           /\ PutUint(tag, v, tail) = UintBytes(tag, v) \o tail
<1>1. CASE v = 0
  BY <1>1 DEF UintBytes, SizeUint, PutUint
<1>2. CASE v # 0
  <2> DEFINE g == Varint(v)
  <2>1. g \in Seq(Byte) /\ sov(v) = Len(g) /\ encodeVarint(v, tail) = g \o tail
    BY VarintShape, SovIsLength, EncodeIsVarint
  <2>2. UintBytes(tag, v) = <<tag>> \o g /\ SizeUint(v) = 1 + sov(v)
        /\ PutUint(tag, v, tail) = <<tag>> \o encodeVarint(v, tail)
    BY <1>2 DEF UintBytes, SizeUint, PutUint
  <2> HIDE DEF g
  <2>3. <<tag>> \in Seq(Byte) /\ Len(<<tag>>) = 1
    OBVIOUS
  <2>4. <<tag>> \o g \in Seq(Byte) /\ Len(<<tag>> \o g) = 1 + Len(g)
    BY <2>1, <2>3
  <2>5. (<<tag>> \o g) \o tail = <<tag>> \o (g \o tail)
    BY <2>1, <2>3, ConcatAssociative
  <2> QED
    BY <2>1, <2>2, <2>4, <2>5
<1> QED
  BY <1>1, <1>2

\* The bytes of a bool, their number, and where they go.
LEMMA BoolBytesAre ==
    ASSUME NEW tag \in Byte, NEW v \in BOOLEAN, NEW tail \in Seq(Byte)
    PROVE  /\ BoolBytes(tag, v) \in Seq(Byte) /\ Len(BoolBytes(tag, v)) = SizeBool(v)
           /\ PutBool(tag, v, tail) = BoolBytes(tag, v) \o tail
<1>1. CASE v = TRUE
  <2>1. <<tag, 1>> \in Seq(Byte) /\ Len(<<tag, 1>>) = 2
    BY DEF Byte
  <2> QED
    BY <1>1, <2>1 DEF BoolBytes, SizeBool, PutBool
<1>2. CASE v = FALSE
  BY <1>2 DEF BoolBytes, SizeBool, PutBool
<1> QED
  BY <1>1, <1>2

\* The same for tag, length and payload: they are longer than the payload.
LEMMA PayloadBytesAre ==
    ASSUME NEW tag \in Byte, NEW bz \in Seq(Byte), NEW tail \in Seq(Byte)
    PROVE  LET h == PayloadBytes(tag, bz)
           IN  /\ h \in Seq(Byte) /\ Len(h) = SizePayload(Len(bz)) /\ Len(h) > Len(bz)
               /\ PutPayload(tag, bz, tail) = h \o tail
<1> DEFINE l == Len(bz)
           v == Uint(l)
           g == Varint(v)
           h == (<<tag>> \o g) \o bz
<1>1. l \in Nat /\ v \in Word
  BY UintIsWord
<1>2. g \in Seq(Byte) /\ sov(v) = Len(g) /\ encodeVarint(v, bz \o tail) = g \o (bz \o tail)
  <2>1. bz \o tail \in Seq(Byte)
    OBVIOUS
  <2> HIDE DEF v
  <2> QED
    BY <1>1, <2>1, VarintShape, SovIsLength, EncodeIsVarint
<1>3. PayloadBytes(tag, bz) = h /\ SizePayload(l) = 1 + l + sov(v)
      /\ PutPayload(tag, bz, tail) = <<tag>> \o encodeVarint(v, bz \o tail)
  BY DEF PayloadBytes, SizePayload, PutPayload
<1> HIDE DEF g, v
<1>4. <<tag>> \in Seq(Byte) /\ Len(<<tag>>) = 1 /\ <<tag>> \o g \in Seq(Byte)
      /\ Len(<<tag>> \o g) = 1 + Len(g) /\ Len(g) \in Nat
  BY <1>2
<1>5. h \in Seq(Byte) /\ Len(h) = 1 + Len(g) + l
  BY <1>4
<1>6. h \o tail = (<<tag>> \o g) \o (bz \o tail)
  BY <1>4, ConcatAssociative
<1>7. (<<tag>> \o g) \o (bz \o tail) = <<tag>> \o (g \o (bz \o tail))
  <2>1. bz \o tail \in Seq(Byte)
    OBVIOUS
  <2> QED
    BY <1>2, <1>4, <2>1, ConcatAssociative
<1> HIDE DEF h
<1>8. Len(h) = SizePayload(l) /\ Len(h) > l
  BY <1>1, <1>2, <1>3, <1>4, <1>5
<1> QED
  BY <1>2, <1>3, <1>5, <1>6, <1>7, <1>8

\* The same for a string or byte slice, which is left out if it is empty.
LEMMA BytesBytesAre ==
    ASSUME NEW tag \in Byte, NEW bz \in Seq(Byte), NEW tail \in Seq(Byte)
    PROVE  /\ BytesBytes(tag, bz) \in Seq(Byte) /\ Len(BytesBytes(tag, bz)) = SizeBytes(bz)
           /\ PutBytes(tag, bz, tail) = BytesBytes(tag, bz) \o tail
<1>1. CASE bz = <<>>
  BY <1>1 DEF BytesBytes, SizeBytes, PutBytes
<1>2. CASE bz # <<>>
  BY <1>2, PayloadBytesAre DEF BytesBytes, SizeBytes, PutBytes
<1> QED
  BY <1>1, <1>2

\* f lists the strings that the first of the strings of s make together.
Flattens(f, s) ==
    /\ f \in [0..Len(s) -> Seq(Byte)]
    /\ f[0] = <<>>
    /\ \A k \in 1..Len(s) : f[k] = f[k - 1] \o s[k]

\* There is such a list.
LEMMA FlattensExists ==
    ASSUME NEW s \in Seq(Seq(Byte))
    PROVE  \E f : Flattens(f, s)
<1> DEFINE n == Len(s)
           X == [k : Nat, b : Seq(Byte)]
           turn == [x \in X |-> [k |-> x.k + 1, b |-> x.b \o s[x.k + 1]]]
           first == [k |-> 0, b |-> <<>>]
<1>1. n \in Nat /\ \A k \in 1..n : s[k] \in Seq(Byte)
  OBVIOUS
<1>2. PICK g : Trace(g, turn, first, n)
  <2> HIDE DEF turn, n, first
  <2> QED
    BY <1>1, TraceExists
<1>3. g[0] = first /\ \A k \in 1..n : g[k] = turn[g[k - 1]]
  BY <1>2, Zenon DEF Trace
<1> DEFINE P == {k \in Nat : k <= n => g[k] \in X /\ g[k].k = k}
<1> HIDE DEF n
<1>4. 0 \in P
  <2>1. g[0] \in X /\ g[0].k = 0
    BY <1>3
  <2> QED
    BY <2>1
<1>5. ASSUME NEW k \in Nat, k + 1 <= n, g[k] \in X, g[k].k = k
      PROVE  g[k + 1] = [k |-> k + 1, b |-> g[k].b \o s[k + 1]] /\ g[k].b \o s[k + 1] \in Seq(Byte)
  <2>1. k + 1 \in 1..n /\ (k + 1) - 1 = k /\ k < n
    BY <1>1, <1>5
  <2>2. g[k + 1] = turn[g[k]]
    BY <1>3, <2>1
  <2>3. turn[g[k]] = [k |-> g[k].k + 1, b |-> g[k].b \o s[g[k].k + 1]]
    BY <1>5
  <2>4. s[k + 1] \in Seq(Byte) /\ g[k].b \in Seq(Byte)
    BY <1>1, <1>5, <2>1
  <2> QED
    BY <1>5, <2>1, <2>2, <2>3, <2>4
<1>6. ASSUME NEW k \in Nat, k \in P PROVE k + 1 \in P
  <2> SUFFICES ASSUME k + 1 <= n PROVE g[k + 1] \in X /\ g[k + 1].k = k + 1
    OBVIOUS
  <2>1. g[k] \in X /\ g[k].k = k
    BY <1>1, <1>6
  <2>2. g[k + 1] = [k |-> k + 1, b |-> g[k].b \o s[k + 1]] /\ g[k].b \o s[k + 1] \in Seq(Byte)
    BY <1>5, <2>1
  <2> QED
    BY <2>2
<1>7. \A k \in Nat : k \in P
  <2> HIDE DEF P
  <2> QED
    BY <1>4, <1>6, SetInduction
<1>8. \A k \in 0..n : g[k] \in X /\ g[k].k = k
  BY <1>1, <1>7
<1> DEFINE f == [k \in 0..n |-> g[k].b]
<1>9. f \in [0..n -> Seq(Byte)]
  BY <1>8
<1>10. f[0] = <<>>
  BY <1>1, <1>3
<1>11. ASSUME NEW k \in 1..n PROVE f[k] = f[k - 1] \o s[k]
  <2> DEFINE j == k - 1
  <2>1. j \in Nat /\ j + 1 = k /\ j + 1 <= n /\ j \in 0..n /\ k \in 0..n
    BY <1>1
  <2> HIDE DEF j
  <2>2. g[j + 1] = [k |-> j + 1, b |-> g[j].b \o s[j + 1]]
    BY <1>5, <1>8, <2>1
  <2>3. f[k] = g[k].b /\ f[j] = g[j].b
    BY <2>1
  <2>4. g[j + 1].b = g[j].b \o s[j + 1]
    <3>1. \A x, y : [k |-> x, b |-> y].b = y
      OBVIOUS
    <3> QED
      BY <2>2, <3>1, Zenon
  <2> QED
    BY <2>1, <2>3, <2>4, Zenon DEF j
<1> HIDE DEF f
<1>12. Flattens(f, s)
  BY <1>9, <1>10, <1>11 DEF Flattens, n
<1> QED
  BY <1>12

\* FlattenSeq is the last of them.
LEMMA FlattenSeqIs ==
    ASSUME NEW s \in Seq(Seq(Byte))
    PROVE  \E f : Flattens(f, s) /\ FlattenSeq(s) = f[Len(s)]
<1> DEFINE n == Len(s)
           Rec(h) == h = [i \in 1..n |-> IF i = 1 THEN s[i] ELSE h[i - 1] \o s[i]]
           flatten == CHOOSE h : Rec(h)
<1>1. PICK f : Flattens(f, s)
  BY FlattensExists
<1>2. /\ f \in [0..n -> Seq(Byte)] /\ f[0] = <<>> /\ n \in Nat
      /\ \A k \in 1..n : f[k] = f[k - 1] \o s[k] /\ s[k] \in Seq(Byte)
  <2>1. n \in Nat /\ \A k \in 1..n : s[k] \in Seq(Byte)
    OBVIOUS
  <2> QED
    BY <1>1, <2>1, Zenon DEF Flattens
<1>3. CASE n = 0
  <2>1. s = <<>>
    BY <1>3
  <2>2. FlattenSeq(s) = s
    BY <1>3 DEF FlattenSeq
  <2> QED
    BY <1>1, <1>2, <1>3, <2>1, <2>2
<1>4. CASE n # 0
  <2>1. FlattenSeq(s) = flatten[n]
    BY <1>4 DEF FlattenSeq
  <2> DEFINE g == [i \in 1..n |-> f[i]]
  <2>2. Rec(g)
    <3>1. \A i \in 1..n : g[i] = IF i = 1 THEN s[i] ELSE g[i - 1] \o s[i]
      <4> TAKE i \in 1..n
      <4>1. g[i] = f[i] /\ f[i] = f[i - 1] \o s[i] /\ s[i] \in Seq(Byte)
        BY <1>2
      <4>2. CASE i = 1
        <5>1. i - 1 = 0
          BY <4>2
        <5>2. f[i - 1] \o s[i] = s[i]
          <6>1. f[i - 1] = <<>>
            BY <1>2, <5>1
          <6>2. <<>> \o s[i] = s[i]
            BY <4>1, ConcatEmptySeq
          <6> QED
            BY <6>1, <6>2
        <5> QED
          BY <4>1, <4>2, <5>2
      <4>3. CASE i # 1
        <5>1. g[i - 1] = f[i - 1]
          BY <1>2, <4>3
        <5> HIDE DEF g
        <5> QED
          BY <4>1, <4>3, <5>1
      <4> QED
        BY <4>2, <4>3
    <3>2. g = [i \in 1..n |-> g[i]]
      OBVIOUS
    <3> HIDE DEF g
    <3> QED
      BY <3>1, <3>2, Zenon
  <2>3. Rec(flatten)
    <3> HIDE DEF g
    <3> QED
      BY <2>2, Zenon
  <2> HIDE DEF flatten
  <2>4. \A i \in 1..n : flatten[i] = IF i = 1 THEN s[i] ELSE flatten[i - 1] \o s[i]
    BY <2>3
  <2> DEFINE P == {k \in Nat : k + 1 <= n => flatten[k + 1] = f[k + 1]}
  <2> HIDE DEF n
  <2>5. 0 \in P
    <3> SUFFICES ASSUME 0 + 1 <= n PROVE flatten[0 + 1] = f[0 + 1]
      OBVIOUS
    <3>1. 0 + 1 = 1 /\ 1 \in 1..n /\ 1 - 1 = 0
      BY <1>2
    <3>2. flatten[1] = s[1] /\ f[1] = f[0] \o s[1] /\ s[1] \in Seq(Byte)
      BY <1>2, <2>4, <3>1
    <3> QED
      BY <1>2, <3>1, <3>2
  <2>6. ASSUME NEW k \in Nat, k \in P PROVE k + 1 \in P
    <3> SUFFICES ASSUME (k + 1) + 1 <= n PROVE flatten[(k + 1) + 1] = f[(k + 1) + 1]
      OBVIOUS
    <3> DEFINE i == (k + 1) + 1
    <3>1. i \in 1..n /\ i # 1 /\ i - 1 = k + 1 /\ k + 1 <= n
      BY <1>2
    <3> HIDE DEF i
    <3>2. flatten[i] = flatten[k + 1] \o s[i] /\ f[i] = f[k + 1] \o s[i]
      BY <1>2, <2>4, <3>1
    <3> QED
      BY <2>6, <3>1, <3>2 DEF i
  <2>7. n - 1 \in P /\ n - 1 \in Nat /\ (n - 1) + 1 = n
    <3>1. n - 1 \in Nat /\ (n - 1) + 1 = n
      BY <1>2, <1>4
    <3> HIDE DEF P
    <3> QED
      BY <2>5, <2>6, <3>1, SetInduction
  <2>8. flatten[n] = f[n]
    BY <1>2, <2>7
  <2> QED
    BY <1>1, <2>1, <2>8 DEF n
<1> QED
  BY <1>3, <1>4
-----------------------------------------------------------------------------
(* A field that is written is read back *)

\* What the turn of the Unmarshal of ty does with the field of number num.
IsUint(ty, num, f) ==
    \A s, d, t : t.fieldNum = num => Turn(ty, s, d, t) = UintField(t.behind, d, t.wireType, f)

IsBool(ty, num, f) ==
    \A s, d, t : t.fieldNum = num => Turn(ty, s, d, t) = BoolField(t.behind, d, t.wireType, f)

IsBytes(ty, num, f) ==
    \A s, d, t : t.fieldNum = num => Turn(ty, s, d, t) = BytesField(t.behind, d, t.wireType, f)

\* A varint of one byte.
LEMMA OneByte ==
    ASSUME NEW v \in Word, v < 128
    PROVE  Varint(v) = <<v>>
<1> DEFINE g == Varint(v)
<1>1. v \in Nat
  BY HalfIsNat DEF Word
<1>2. IsSize(v, 1)
  <2>1. 1 \in 1..MaxVarintLen /\ 0 \in 0..MaxVarintLen /\ 0 + 1 = 1
    BY Powers
  <2>2. 128^(0 + 1) = 128 * 128^0 /\ 128^0 = 1
    BY <2>1, Powers
  <2>3. 128^1 = 128
    BY <2>1, <2>2
  <2> QED
    BY <2>1, <2>3 DEF IsSize
<1>3. /\ g \in Seq(Byte) /\ IsSize(v, Len(g))
      /\ \A k \in 1..Len(g) : /\ g[k] % 128 = (v \div 128^(k - 1)) % 128
                              /\ g[k] < 128 <=> k = Len(g)
  BY VarintShape
<1> HIDE DEF g
<1>4. Len(g) = 1
  BY <1>2, <1>3, SizeUnique
<1>5. g[1] = v
  <2>1. 1 \in 1..Len(g) /\ 1 - 1 = 0 /\ 128^0 = 1
    BY <1>4, Powers
  <2>2. g[1] % 128 = (v \div 1) % 128 /\ g[1] < 128 /\ g[1] \in Byte
    <3>1. g[1] % 128 = (v \div 128^(1 - 1)) % 128 /\ g[1] < 128
      BY <1>3, <1>4, <2>1
    <3>2. g[1] \in Byte
      BY <1>3, <1>4
    <3> QED
      BY <2>1, <3>1, <3>2
  <2>3. (v \div 1) % 128 = v
    BY <1>1
  <2> QED
    BY <2>2, <2>3 DEF Byte
<1>6. g = [k \in 1..Len(g) |-> g[k]]
  BY <1>3
<1> QED
  BY <1>3, <1>4, <1>5, <1>6 DEF g

\* A tag of a known field is one byte.
LEMMA TagReads ==
    ASSUME NEW M, NEW m \in M, NEW num \in 1..5, NEW w \in {0, 2},
           NEW d, Short(d), Holds(d, 0, <<8 * num + w>>)
    PROVE  LET t == ReadTag(Start(m), d)
           IN  t.fieldNum = num /\ t.wireType = w /\ t.behind = At(1, m, "")
<1> DEFINE tag == 8 * num + w
           v == ReadVarint(d, 0)
           s == Start(m)
<1>1. tag \in Word /\ tag < 128 /\ tag \div 8 = num /\ tag % 8 = w /\ tag \in Nat
  BY MessagesAssumption, HalfIsNat DEF Word
<1> HIDE DEF tag
<1>2. d \in Seq(Byte) /\ Holds(d, 0, <<tag>>) /\ Len(<<tag>>) = 1
  BY DEF Short, tag
<1>3. Varint(tag) = <<tag>>
  BY <1>1, OneByte
<1>4. Good(v) /\ v.val = tag /\ v.i = 1
  <2>1. Holds(d, 0, Varint(tag))
    BY <1>2, <1>3
  <2>2. Good(v) /\ v.val = tag /\ v.i = 0 + Len(Varint(tag))
    BY <1>1, <1>2, <2>1, VarintReads
  <2>3. 0 + Len(Varint(tag)) = 1
    BY <1>2, <1>3
  <2> QED
    BY <2>2, <2>3
<1>5. FieldNumber(v) = num
  <2> DEFINE b == 2^FieldBits
             h == 2^(FieldBits - 1)
  <2>1. b = 2 * h /\ 5 < h /\ h \in Nat
    <3>1. FieldBits - 1 \in 0..(WordBits + 6)
      BY WireAssumption
    <3> QED
      BY <3>1, PowerAssumption, MessagesAssumption
  <2>2. FieldNumber(v) = Signed(num % b, FieldBits)
    BY <1>1, <1>4 DEF FieldNumber
  <2>3. Signed(num % b, FieldBits) = IF num % b >= h THEN (num % b) - b ELSE num % b
    BY DEF Signed
  <2> HIDE DEF b, h
  <2>4. num % b = num
    <3>1. b \in Nat \ {0} /\ num \in 0..(b - 1) /\ num \in Int
      BY <2>1
    <3> QED
      BY <3>1, Remainder
  <2> QED
    BY <2>1, <2>2, <2>3, <2>4
<1> HIDE DEF v
<1>6. TagError(v) = ""
  <2>1. v.val % 8 # 4 /\ ~(FieldNumber(v) <= 0)
    BY <1>1, <1>4, <1>5
  <2> QED
    BY <1>4, <2>1, Zenon DEF TagError, Good
<1>7. s \in Cursors(M) /\ s.i = 0
  BY StartIsCursor
<1>8. s.m = m
  BY DEF Start
<1> HIDE DEF s
<1> DEFINE t == Tag(s, v)
<1>9. /\ t.fieldNum = IF TagError(v) = "" THEN FieldNumber(v) ELSE 0
      /\ t.wireType = v.val % 8
      /\ t.behind = At(v.i, s.m, TagError(v))
  BY <1>7, TagIs
<1> HIDE DEF t
<1>10. ReadTag(s, d) = t
  BY <1>7 DEF ReadTag, t, v
<1>11. t.fieldNum = num
  BY <1>5, <1>6, <1>9, Zenon
<1>12. t.wireType = w
  BY <1>1, <1>4, <1>9, Zenon
<1>13. t.behind = At(1, m, "")
  BY <1>4, <1>6, <1>8, <1>9, Zenon
<1> QED
  BY <1>10, <1>11, <1>12, <1>13 DEF s

\* The message m with the value v of field f.
With(m, f, v) == [m EXCEPT ![f] = v]

\* The cursor behind a tag takes the value v of field f.
LEMMA SetBehindTag ==
    ASSUME NEW m, NEW i, NEW f, NEW v
    PROVE  Set(At(1, m, ""), i, f, v) = At(i, With(m, f, v), "")
<1> DEFINE c == At(1, m, "")
           n == With(m, f, v)
<1>1. c \in Cursors({m}) /\ c.m = m /\ c.err = ""
  BY DEF At, Cursors
<1>2. Set(c, i, f, v) = [c EXCEPT !.i = i, !.m = [c.m EXCEPT ![f] = v]]
  BY DEF Set
<1> HIDE DEF c
<1>3. Set(c, i, f, v) = [c EXCEPT !.i = i, !.m = n]
  BY <1>1, <1>2 DEF With
<1> HIDE DEF n
<1>4. [c EXCEPT !.i = i, !.m = n] = At(i, n, c.err)
  BY <1>1, CursorAt
<1> QED
  BY <1>1, <1>3, <1>4 DEF c, n

\* Two strings one after the other, three strings one after the other.
LEMMA TwoHeld ==
    ASSUME NEW a \in Seq(Byte), NEW b \in Seq(Byte)
    PROVE  /\ a \o b \in Seq(Byte) /\ Len(a \o b) = Len(a) + Len(b)
           /\ Holds(a \o b, 0, a) /\ Holds(a \o b, Len(a), b)
<1>1. Len(a) \in Nat /\ Len(b) \in Nat /\ Len(a \o b) = Len(a) + Len(b)
  OBVIOUS
<1>2. \A k \in 1..Len(a) : (a \o b)[0 + k] = a[k]
  <2> TAKE k \in 1..Len(a)
  <2>1. 0 + k = k
    BY <1>1
  <2> QED
    BY <2>1
<1>3. \A k \in 1..Len(b) : (a \o b)[Len(a) + k] = b[k]
  OBVIOUS
<1>4. a \o b \in Seq(Byte)
  OBVIOUS
<1> QED
  BY <1>1, <1>2, <1>3, <1>4 DEF Holds

\* A string in a string in a string.
LEMMA HoldsTrans ==
    ASSUME NEW e, NEW off \in Nat, NEW d \in Seq(Byte), Holds(e, off, d), NEW at \in Nat,
           NEW c \in Seq(Byte), Holds(d, at, c), Len(e) \in Nat
    PROVE  Holds(e, off + at, c)
<1>1. /\ Len(c) \in Nat /\ Len(d) \in Nat /\ at + Len(c) <= Len(d) /\ off + Len(d) <= Len(e)
      /\ (off + at) + Len(c) <= Len(e) /\ off + at \in Nat
  BY DEF Holds
<1>2. ASSUME NEW k \in 1..Len(c) PROVE e[(off + at) + k] = c[k]
  <2>1. at + k \in 1..Len(d) /\ (off + at) + k = off + (at + k)
    BY <1>1
  <2> QED
    BY <2>1 DEF Holds
<1> QED
  BY <1>1, <1>2 DEF Holds

\* A field that holds a number.
LEMMA UintParses ==
    ASSUME NEW ty \in MessageTypes, NEW num \in 1..5, NEW f, IsUint(ty, num, f),
           NEW m \in MessagesOf(ty), NEW v \in Word, Short(UintBytes(8 * num, v))
    PROVE  Parses(ty, UintBytes(8 * num, v), m, IF v = 0 THEN m ELSE With(m, f, v))
<1>1. CASE v = 0
  BY <1>1, ParsesEmpty DEF UintBytes
<1>2. CASE v # 0
  <2> DEFINE tag == <<8 * num + 0>>
             g == Varint(v)
             d == tag \o g
             r == ReadVarint(d, 1)
             t == ReadTag(Start(m), d)
             n == With(m, f, v)
  <2>1. 8 * num + 0 \in Byte /\ 8 * num + 0 = 8 * num
    BY DEF Byte
  <2>2. tag \in Seq(Byte) /\ Len(tag) = 1 /\ g \in Seq(Byte)
    BY <2>1, VarintShape
  <2>3. UintBytes(8 * num, v) = d
    BY <1>2, <2>1 DEF UintBytes
  <2> HIDE DEF tag, g
  <2>4. d \in Seq(Byte) /\ Len(d) = 1 + Len(g) /\ Holds(d, 0, tag) /\ Holds(d, 1, g)
        /\ Len(g) \in Nat
    <3>1. /\ d \in Seq(Byte) /\ Len(d) = Len(tag) + Len(g)
          /\ Holds(d, 0, tag) /\ Holds(d, Len(tag), g)
      BY <2>2, TwoHeld
    <3>2. Len(g) \in Nat
      BY <2>2
    <3> HIDE DEF d
    <3> QED
      BY <2>2, <3>1, <3>2
  <2>5. Good(r) /\ r.val = v /\ r.i = Len(d)
    BY <2>4, VarintReads DEF g
  <2>6. t.fieldNum = num /\ t.wireType = 0 /\ t.behind = At(1, m, "")
    <3> HIDE DEF d
    <3>1. Holds(d, 0, <<8 * num + 0>>)
      BY <2>4 DEF tag
    <3>2. Short(d) /\ 0 \in {0, 2}
      BY <2>3
    <3> QED
      BY <3>1, <3>2, TagReads, Zenon
  <2> HIDE DEF d, r, t
  <2>7. Turn(ty, Start(m), d, t) = UintField(At(1, m, ""), d, 0, f)
    BY <2>6, Zenon DEF IsUint
  <2>8. UintField(At(1, m, ""), d, 0, f) = SetUint(At(1, m, ""), f, r)
    <3>1. At(1, m, "").i = 1
      BY DEF At
    <3> QED
      BY <3>1, Zenon DEF UintField, r
  <2>9. SetUint(At(1, m, ""), f, r) = Set(At(1, m, ""), r.i, f, r.val)
    BY <2>5, Zenon DEF SetUint, Good, Set
  <2>10. Turn(ty, Start(m), d, t) = At(Len(d), n, "")
    <3>1. Set(At(1, m, ""), Len(d), f, v) = At(Len(d), n, "")
      BY SetBehindTag, Zenon
    <3> QED
      BY <2>5, <2>7, <2>8, <2>9, <3>1, Zenon
  <2>11. Len(d) > 0
    BY <2>4
  <2> HIDE DEF n
  <2>12. Parses(ty, d, m, n)
    BY <2>3, <2>10, <2>11, ParsesField, Zenon DEF t
  <2> QED
    BY <1>2, <2>3, <2>12, Zenon DEF n
<1> QED
  BY <1>1, <1>2
\* Two numbers in a row.
LEMMA PairIs ==
    ASSUME NEW x \in Int, NEW y \in Int
    PROVE  <<x>> \o <<y>> = <<x, y>>
<1> DEFINE b == <<x>> \o <<y>>
           c == <<x, y>>
           h == [j \in 1..2 |-> IF j = 1 THEN x ELSE y]
<1>1. <<x>> \in Seq(Int) /\ <<y>> \in Seq(Int) /\ Len(<<x>>) = 1 /\ Len(<<y>>) = 1
  OBVIOUS
<1>2. b \in Seq(Int) /\ Len(b) = 2 /\ b[1] = x /\ b[2] = y
  BY <1>1, ConcatProperties
<1>3. c \in Seq(Int) /\ Len(c) = 2 /\ c[1] = x /\ c[2] = y
  OBVIOUS
<1> HIDE DEF b, c
<1>4. ASSUME NEW s \in Seq(Int), Len(s) = 2, s[1] = x, s[2] = y
      PROVE  s = h
  <2>1. s = [j \in 1..2 |-> s[j]]
    BY <1>4
  <2>2. \A j \in 1..2 : s[j] = h[j]
    BY <1>4
  <2> HIDE DEF h
  <2>3. h = [j \in 1..2 |-> h[j]]
    BY DEF h
  <2> QED
    BY <2>1, <2>2, <2>3
<1> QED
  BY <1>2, <1>3, <1>4 DEF b, c

\* A field that holds a truth value.
LEMMA BoolParses ==
    ASSUME NEW ty \in MessageTypes, NEW num \in 1..5, NEW f, IsBool(ty, num, f),
           NEW m \in MessagesOf(ty), NEW v \in BOOLEAN, Short(BoolBytes(8 * num, v))
    PROVE  Parses(ty, BoolBytes(8 * num, v), m, IF v THEN With(m, f, TRUE) ELSE m)
<1>1. CASE v = FALSE
  BY <1>1, ParsesEmpty DEF BoolBytes
<1>2. CASE v = TRUE
  <2> DEFINE tag == <<8 * num + 0>>
             d == tag \o <<1>>
             r == ReadVarint(d, 1)
             t == ReadTag(Start(m), d)
             n == With(m, f, TRUE)
  <2>1. 8 * num + 0 \in Byte /\ 8 * num + 0 = 8 * num
    BY DEF Byte
  <2>2. tag \in Seq(Byte) /\ Len(tag) = 1 /\ <<1>> \in Seq(Byte) /\ Len(<<1>>) = 1
    BY <2>1 DEF Byte
  <2>3. BoolBytes(8 * num, v) = d
    <3>1. BoolBytes(8 * num, v) = <<8 * num, 1>>
      BY <1>2 DEF BoolBytes
    <3>2. <<8 * num>> \o <<1>> = <<8 * num, 1>>
      BY PairIs
    <3> QED
      BY <2>1, <3>1, <3>2
  <2> HIDE DEF tag
  <2>4. d \in Seq(Byte) /\ Len(d) = 2 /\ Holds(d, 0, tag) /\ Holds(d, 1, <<1>>)
    <3>1. /\ d \in Seq(Byte) /\ Len(d) = Len(tag) + Len(<<1>>)
          /\ Holds(d, 0, tag) /\ Holds(d, Len(tag), <<1>>)
      BY <2>2, TwoHeld
    <3> HIDE DEF d
    <3> QED
      BY <2>2, <3>1
  <2>5. Good(r) /\ r.val = 1 /\ r.i = Len(d)
    <3>1. 1 \in Word
      BY MessagesAssumption, HalfIsNat DEF Word
    <3>2. Varint(1) = <<1>>
      BY <3>1, OneByte
    <3> HIDE DEF d
    <3>3. Holds(d, 1, Varint(1))
      BY <2>4, <3>2
    <3>4. Good(r) /\ r.val = 1 /\ r.i = 1 + Len(Varint(1))
      BY <2>4, <3>1, <3>3, VarintReads
    <3>5. 1 + Len(Varint(1)) = Len(d)
      <4>1. Len(Varint(1)) = 1
        BY <3>2
      <4> QED
        BY <2>4, <4>1
    <3> QED
      BY <3>4, <3>5
  <2>6. t.fieldNum = num /\ t.wireType = 0 /\ t.behind = At(1, m, "")
    <3> HIDE DEF d
    <3>1. Holds(d, 0, <<8 * num + 0>>)
      BY <2>4 DEF tag
    <3>2. Short(d) /\ 0 \in {0, 2}
      BY <2>3
    <3> QED
      BY <3>1, <3>2, TagReads, Zenon
  <2> HIDE DEF d, r, t
  <2>7. Turn(ty, Start(m), d, t) = BoolField(At(1, m, ""), d, 0, f)
    BY <2>6, Zenon DEF IsBool
  <2>8. BoolField(At(1, m, ""), d, 0, f) = SetBool(At(1, m, ""), f, r)
    <3>1. At(1, m, "").i = 1
      BY DEF At
    <3> QED
      BY <3>1, Zenon DEF BoolField, r
  <2>9. SetBool(At(1, m, ""), f, r) = Set(At(1, m, ""), r.i, f, r.val # 0)
    BY <2>5, Zenon DEF SetBool, Good, Set
  <2>10. Turn(ty, Start(m), d, t) = At(Len(d), n, "")
    <3>1. Set(At(1, m, ""), Len(d), f, TRUE) = At(Len(d), n, "")
      BY SetBehindTag, Zenon
    <3>2. (r.val # 0) = TRUE
      BY <2>5
    <3> QED
      BY <2>5, <2>7, <2>8, <2>9, <3>1, <3>2, Zenon
  <2>11. Len(d) > 0
    BY <2>4
  <2> HIDE DEF n
  <2>12. Parses(ty, d, m, n)
    BY <2>3, <2>10, <2>11, ParsesField, Zenon DEF t
  <2> QED
    BY <1>2, <2>3, <2>12, Zenon DEF n
<1> QED
  BY <1>1, <1>2

\* The payload of a field that was written.
LEMMA PayloadReads ==
    ASSUME NEW M, NEW m \in M, NEW num \in 1..5, NEW bz \in Seq(Byte),
           Short(PayloadBytes(8 * num + 2, bz))
    PROVE  LET d == PayloadBytes(8 * num + 2, bz)
               t == ReadTag(Start(m), d)
               p == ReadPayload(d, 1, 2)
           IN  /\ t.fieldNum = num /\ t.wireType = 2 /\ t.behind = At(1, m, "")
               /\ Good(p) /\ p.from = Len(d) - Len(bz) /\ p.to = Len(d)
               /\ Slice(d, p.from, p.to) = bz /\ Short(bz) /\ Len(d) > Len(bz)
<1> DEFINE tag == <<8 * num + 2>>
           d == PayloadBytes(8 * num + 2, bz)
           l == Len(bz)
           g == Varint(l)
           b == tag \o g
           t == ReadTag(Start(m), d)
           r == ReadVarint(d, 1)
           p == ReadPayload(d, 1, 2)
<1>1. 8 * num + 2 \in Byte /\ l \in Nat
  BY DEF Byte
<1>2. d \in Seq(Byte) /\ Len(d) > l /\ Len(d) < Half /\ Half \in Nat /\ Len(d) \in Nat
  <2>1. d \in Seq(Byte) /\ Len(d) > l
    BY <1>1, PayloadBytesAre
  <2> QED
    BY <2>1, LengthIsInt, HalfIsNat
<1>3. Short(bz) /\ l < Half
  <2> HIDE DEF d
  <2>1. Len(d) + 8 < Half
    BY DEF Short, d
  <2> QED
    BY <1>1, <1>2, <2>1 DEF Short
<1>4. Uint(l) = l /\ l \in Word
  BY <1>1, <1>3, UintIsWord
<1>5. d = b \o bz
  BY <1>4 DEF PayloadBytes
<1>6. tag \in Seq(Byte) /\ Len(tag) = 1 /\ g \in Seq(Byte)
  BY <1>1, <1>4, VarintShape
<1>7. Short(d)
  OBVIOUS
<1> HIDE DEF tag, g, d
<1>8. Len(g) \in Nat
  BY <1>6
<1>9. /\ b \in Seq(Byte) /\ Len(b) = 1 + Len(g)
      /\ Holds(b, 0, tag) /\ Holds(b, 1, g)
  <2>1. /\ b \in Seq(Byte) /\ Len(b) = Len(tag) + Len(g)
        /\ Holds(b, 0, tag) /\ Holds(b, Len(tag), g)
    BY <1>6, TwoHeld
  <2> HIDE DEF b
  <2> QED
    BY <1>6, <2>1
<1> HIDE DEF b
<1>10. Len(d) = Len(b) + l /\ Holds(d, 0, b) /\ Holds(d, Len(b), bz)
  BY <1>5, <1>9, TwoHeld
<1>11. Holds(d, 0, tag) /\ Holds(d, 1, g)
  <2>1. 0 + 0 = 0 /\ 0 + 1 = 1
    OBVIOUS
  <2>2. Holds(d, 0 + 0, tag)
    BY <1>2, <1>6, <1>9, <1>10, HoldsTrans
  <2>3. Holds(d, 0 + 1, g)
    BY <1>2, <1>6, <1>9, <1>10, HoldsTrans
  <2> QED
    BY <2>1, <2>2, <2>3
<1>12. t.fieldNum = num /\ t.wireType = 2 /\ t.behind = At(1, m, "")
  <2>1. Holds(d, 0, <<8 * num + 2>>) /\ 2 \in {0, 2}
    BY <1>11 DEF tag
  <2> QED
    BY <1>7, <2>1, TagReads, Zenon
<1>13. Good(r) /\ r.val = l /\ r.i = Len(b)
  BY <1>2, <1>4, <1>9, <1>11, VarintReads DEF g
<1>14. Good(p) /\ p.from = Len(b) /\ p.to = Len(d)
  <2>1. p = Payload(d, r, 2)
    BY DEF ReadPayload
  <2> HIDE DEF r, p
  <2>2. r.i \in Nat /\ r.val \in Nat /\ r.i + r.val <= Len(d) /\ r.i + r.val = Len(d)
    BY <1>1, <1>8, <1>9, <1>10, <1>13
  <2>3. Good(p) /\ p.from = r.i /\ p.to = r.i + r.val
    BY <1>7, <1>13, <2>1, <2>2, PayloadIs
  <2> QED
    BY <1>13, <2>2, <2>3
<1>15. Slice(d, Len(b), Len(d)) = bz
  <2>1. 0 \in 0..l /\ l \in 0..l /\ Len(b) + 0 = Len(b) /\ Len(b) + l = Len(d)
    BY <1>1, <1>8, <1>9, <1>10
  <2>2. Slice(d, Len(b) + 0, Len(b) + l) = Slice(bz, 0, l)
    BY <1>2, <1>10, <2>1, SliceHeld
  <2>3. Slice(bz, 0, l) = bz
    <3>1. 0 + 1 = 1 /\ SubSeq(bz, 1, l) = bz
      OBVIOUS
    <3> QED
      BY <3>1 DEF Slice
  <2> QED
    BY <2>1, <2>2, <2>3
<1> HIDE DEF p, t
<1>16. p.from = Len(d) - l
  BY <1>1, <1>8, <1>9, <1>10, <1>14
<1>17. Slice(d, p.from, p.to) = bz
  BY <1>14, <1>15
<1> QED
  BY <1>2, <1>3, <1>12, <1>14, <1>16, <1>17 DEF d, p, t

\* A field that holds bytes.
LEMMA BytesParses ==
    ASSUME NEW ty \in MessageTypes, NEW num \in 1..5, NEW f, IsBytes(ty, num, f),
           NEW m \in MessagesOf(ty), NEW bz \in Seq(Byte), Short(BytesBytes(8 * num + 2, bz))
    PROVE  Parses(ty, BytesBytes(8 * num + 2, bz), m, IF bz = <<>> THEN m ELSE With(m, f, bz))
<1>1. CASE bz = <<>>
  BY <1>1, ParsesEmpty DEF BytesBytes
<1>2. CASE bz # <<>>
  <2> DEFINE d == PayloadBytes(8 * num + 2, bz)
             t == ReadTag(Start(m), d)
             p == ReadPayload(d, 1, 2)
             n == With(m, f, bz)
  <2>1. BytesBytes(8 * num + 2, bz) = d
    BY <1>2 DEF BytesBytes
  <2>2. /\ t.fieldNum = num /\ t.wireType = 2 /\ t.behind = At(1, m, "")
        /\ Good(p) /\ p.from = Len(d) - Len(bz) /\ p.to = Len(d)
        /\ Slice(d, p.from, p.to) = bz /\ Short(bz) /\ Len(d) > Len(bz)
    BY <2>1, PayloadReads
  <2> HIDE DEF d, t, p
  <2>3. Turn(ty, Start(m), d, t) = BytesField(At(1, m, ""), d, 2, f)
    BY <2>2, Zenon DEF IsBytes
  <2>4. BytesField(At(1, m, ""), d, 2, f) = SetBytes(At(1, m, ""), d, f, p)
    <3>1. At(1, m, "").i = 1
      BY DEF At
    <3> QED
      BY <3>1, Zenon DEF BytesField, p
  <2>5. SetBytes(At(1, m, ""), d, f, p) = Set(At(1, m, ""), Len(d), f, bz)
    BY <2>2, Zenon DEF SetBytes, Good, Set
  <2>6. Set(At(1, m, ""), Len(d), f, bz) = At(Len(d), n, "")
    BY SetBehindTag, Zenon
  <2>7. Short(d) /\ Len(d) > 0
    <3>1. Short(d) /\ Len(d) > Len(bz) /\ Len(bz) \in Nat
      BY <2>1, <2>2, Zenon, LengthIsInt
    <3> QED
      BY <3>1, LengthIsInt
  <2> HIDE DEF n
  <2>8. Parses(ty, d, m, n)
    BY <2>3, <2>4, <2>5, <2>6, <2>7, ParsesField, Zenon DEF t
  <2> QED
    BY <1>2, <2>1, <2>8, Zenon DEF n
<1> QED
  BY <1>1, <1>2

\* A byte string has a length.
LEMMA BytesHaveLength == \A b \in Seq(Byte) : Len(b) \in Nat
OBVIOUS

\* The sum of numbers that were added up step by step.
LEMMA SumIs ==
    ASSUME NEW n \in Nat, NEW a, NEW g, g[0] = 0, \A k \in 1..n : g[k] = g[k - 1] + a[k]
    PROVE  SumTo(a, n) = g[n]
<1> DEFINE h == [k \in 0..n |-> g[k]]
<1>1. Sums(h, a, n)
  <2>1. h[0] = 0 /\ \A k \in 1..n : h[k] = h[k - 1] + a[k]
    <3>1. \A k \in 1..n : k \in 0..n /\ k - 1 \in 0..n
      OBVIOUS
    <3> QED
      BY <3>1
  <2>2. h = [k \in 0..n |-> h[k]]
    OBVIOUS
  <2> QED
    BY <2>1, <2>2 DEF Sums
<1>2. PICK f : Sums(f, a, n) /\ SumTo(a, n) = f[n]
  BY SumToSums
<1>3. n <= n
  OBVIOUS
<1> HIDE DEF h
<1>4. f[n] = h[n]
  BY <1>1, <1>2, <1>3, SumsUnique
<1>5. h[n] = g[n]
  BY DEF h
<1> QED
  BY <1>2, <1>4, <1>5

\* The pieces of a byte string put together lie one behind the other.
LEMMA FlattensHeld ==
    ASSUME NEW s \in Seq(Seq(Byte)), NEW f, Flattens(f, s), NEW k \in 1..Len(s)
    PROVE  /\ f[Len(s)] \in Seq(Byte) /\ f[k - 1] \in Seq(Byte) /\ f[k] \in Seq(Byte)
           /\ s[k] \in Seq(Byte)
           /\ Len(f[k]) = Len(f[k - 1]) + Len(s[k])
           /\ Len(f[k]) <= Len(f[Len(s)])
           /\ Holds(f[Len(s)], Len(f[k - 1]), s[k])
<1> DEFINE l == Len(s)
           P == {n \in Nat : n <= l => \A j \in 0..n : Holds(f[n], 0, f[j])}
<1>1. l \in Nat /\ \A j \in 1..l : s[j] \in Seq(Byte)
  OBVIOUS
<1>2. \A j \in 0..l : f[j] \in Seq(Byte)
  BY DEF Flattens
<1>3. \A j \in 1..l : f[j] = f[j - 1] \o s[j]
  BY DEF Flattens
<1> HIDE DEF l
<1>4. \A j \in 0..l : Holds(f[j], 0, f[j])
  <2> TAKE j \in 0..l
  <2>1. f[j] \in Seq(Byte)
    BY <1>2
  <2> QED
    BY <2>1 DEF Holds
<1>5. ASSUME NEW j \in 1..l
      PROVE  /\ f[j - 1] \in Seq(Byte) /\ f[j] \in Seq(Byte) /\ s[j] \in Seq(Byte)
             /\ Len(f[j]) = Len(f[j - 1]) + Len(s[j])
             /\ Holds(f[j], 0, f[j - 1]) /\ Holds(f[j], Len(f[j - 1]), s[j])
  <2>1. j - 1 \in 0..l /\ j \in 0..l
    BY <1>1
  <2>2. f[j - 1] \in Seq(Byte) /\ f[j] \in Seq(Byte) /\ s[j] \in Seq(Byte)
    BY <1>1, <1>2, <2>1
  <2> QED
    BY <1>3, <2>2, TwoHeld
<1>6. \A n \in Nat : n \in P
  <2>1. 0 \in P
    <3>1. 0 \in 0..l /\ \A j \in 0..0 : j = 0
      BY <1>1
    <3> QED
      BY <1>4, <3>1
  <2>2. \A n \in Nat : n \in P => n + 1 \in P
    <3> SUFFICES ASSUME NEW n \in Nat, n \in P, n + 1 <= l, NEW j \in 0..(n + 1)
                 PROVE  Holds(f[n + 1], 0, f[j])
      OBVIOUS
    <3>1. CASE j = n + 1
      <4>1. n + 1 \in 0..l
        BY <1>1
      <4> QED
        BY <1>4, <3>1, <4>1
    <3>2. CASE j # n + 1
      <4>1. j \in 0..n /\ n <= l /\ n + 1 \in 1..l /\ (n + 1) - 1 = n /\ j \in 0..l
        BY <1>1, <3>2
      <4>2. Holds(f[n], 0, f[j]) /\ f[j] \in Seq(Byte)
        BY <1>2, <4>1
      <4>3. Holds(f[n + 1], 0, f[n]) /\ f[n] \in Seq(Byte) /\ f[n + 1] \in Seq(Byte)
        BY <1>5, <4>1
      <4>4. Len(f[n + 1]) \in Nat /\ 0 + 0 = 0
        BY <4>3
      <4> QED
        BY <4>2, <4>3, <4>4, HoldsTrans
    <3> QED
      BY <3>1, <3>2
  <2> HIDE DEF P
  <2> QED
    BY <2>1, <2>2, SetInduction
<1>7. Holds(f[l], 0, f[k]) /\ k \in 1..l /\ f[l] \in Seq(Byte)
  <2>1. k \in 0..l /\ l <= l /\ k \in 1..l /\ l \in 0..l
    BY <1>1 DEF l
  <2> QED
    BY <1>1, <1>2, <1>6, <2>1
<1> HIDE DEF P
<1>8. /\ f[k - 1] \in Seq(Byte) /\ f[k] \in Seq(Byte) /\ s[k] \in Seq(Byte)
      /\ Len(f[k]) = Len(f[k - 1]) + Len(s[k])
      /\ Holds(f[k], Len(f[k - 1]), s[k])
  BY <1>5, <1>7
<1>9. Holds(f[l], Len(f[k - 1]), s[k])
  <2>1. Len(f[l]) \in Nat /\ Len(f[k - 1]) \in Nat /\ 0 + Len(f[k - 1]) = Len(f[k - 1])
    BY <1>7, <1>8
  <2>2. Holds(f[l], 0 + Len(f[k - 1]), s[k])
    BY <1>7, <1>8, <2>1, HoldsTrans
  <2> QED
    BY <2>1, <2>2
<1>10. Len(f[k]) <= Len(f[l])
  <2>1. 0 + Len(f[k]) <= Len(f[l])
    BY <1>7, Zenon DEF Holds
  <2>2. Len(f[k]) \in Nat
    BY <1>8, BytesHaveLength, Zenon
  <2> QED
    BY <2>1, <2>2
<1> QED
  BY <1>7, <1>8, <1>9, <1>10 DEF l

\* What a list of numbers is written as.
PackedBytes(tag, list) ==
    BytesBytes(tag, FlattenSeq([k \in DOMAIN list |-> Varint(list[k])]))

\* The bytes b are the varints of a list.
Packs(b, list) == b = FlattenSeq([k \in DOMAIN list |-> Varint(list[k])])

\* The varints of a list of numbers, one behind the other.
LEMMA PackedPieces ==
    ASSUME NEW list \in Seq(Word)
    PROVE  LET s == [k \in DOMAIN list |-> Varint(list[k])]
           IN  /\ s \in Seq(Seq(Byte)) /\ Len(s) = Len(list)
               /\ \A k \in 1..Len(list) : s[k] = Varint(list[k]) /\ Len(s[k]) > 0
<1> DEFINE s == [k \in DOMAIN list |-> Varint(list[k])]
<1>1. DOMAIN list = 1..Len(list) /\ Len(list) \in Nat /\ \A k \in 1..Len(list) : list[k] \in Word
  OBVIOUS
<1>2. \A k \in 1..Len(list) : Varint(list[k]) \in Seq(Byte) /\ Len(Varint(list[k])) > 0
  <2> TAKE k \in 1..Len(list)
  <2>1. list[k] \in Word
    BY <1>1
  <2>2. Varint(list[k]) \in Seq(Byte) /\ IsSize(list[k], Len(Varint(list[k])))
    BY <2>1, VarintShape
  <2> QED
    BY <2>2, Powers DEF IsSize
<1>3. s = [k \in 1..Len(list) |-> Varint(list[k])]
  BY <1>1
<1>4. s \in [1..Len(list) -> Seq(Byte)]
  BY <1>2, <1>3
<1>5. s \in Seq(Seq(Byte)) /\ Len(s) = Len(list)
  <2> HIDE DEF s
  <2> QED
    BY <1>1, <1>4
<1>6. \A k \in 1..Len(list) : s[k] = Varint(list[k])
  BY <1>3
<1> HIDE DEF s
<1>7. \A k \in 1..Len(list) : Len(s[k]) > 0
  BY <1>2, <1>6
<1> QED
  BY <1>5, <1>6, <1>7 DEF s

\* The same for a packed list.
LEMMA PackedBytesAre ==
    ASSUME NEW tag \in Byte, NEW list \in Seq(Word), NEW tail \in Seq(Byte)
    PROVE  LET h == PackedBytes(tag, list)
           IN  /\ h \in Seq(Byte) /\ Len(h) = SizePacked(list)
               /\ PutPacked(tag, list, tail) = h \o tail
               /\ \E b \in Seq(Byte) : /\ Packs(b, list) /\ h = BytesBytes(tag, b)
                                       /\ list = <<>> <=> b = <<>>
<1> DEFINE s == [k \in DOMAIN list |-> Varint(list[k])]
           b == FlattenSeq(s)
           a == [k \in DOMAIN list |-> sov(list[k])]
           n == Len(list)
<1>1. /\ s \in Seq(Seq(Byte)) /\ Len(s) = n /\ n \in Nat /\ DOMAIN list = 1..n
      /\ \A k \in 1..n : s[k] = Varint(list[k]) /\ Len(s[k]) > 0
  <2>1. n \in Nat /\ DOMAIN list = 1..n
    OBVIOUS
  <2> QED
    BY <2>1, PackedPieces, Zenon
<1>2. \A k \in 1..n : a[k] = Len(s[k])
  <2> TAKE k \in 1..n
  <2>1. list[k] \in Word
    OBVIOUS
  <2>2. sov(list[k]) = Len(Varint(list[k]))
    BY <2>1, SovIsLength
  <2>3. a[k] = sov(list[k])
    OBVIOUS
  <2> QED
    BY <1>1, <2>2, <2>3
<1>3. SizePacked(list) = IF list = <<>> THEN 0 ELSE SizePayload(SumTo(a, n))
  BY DEF SizePacked
<1> HIDE DEF s, a
<1>4. PICK f : Flattens(f, s) /\ FlattenSeq(s) = f[Len(s)]
  BY <1>1, FlattenSeqIs
<1>5. b = f[n] /\ b \in Seq(Byte) /\ f[0] = <<>>
  <2>1. n \in 0..n
    BY <1>1
  <2> QED
    BY <1>1, <1>4, <2>1 DEF Flattens
<1> HIDE DEF b
<1>6. SumTo(a, n) = Len(b)
  <2> DEFINE g == [k \in 0..n |-> Len(f[k])]
  <2>1. g[0] = 0
    BY <1>1, <1>5
  <2>2. \A k \in 1..n : g[k] = g[k - 1] + a[k]
    <3> TAKE k \in 1..n
    <3>1. k \in 0..n /\ k - 1 \in 0..n
      BY <1>1
    <3>2. Len(f[k]) = Len(f[k - 1]) + Len(s[k])
      BY <1>1, <1>4, FlattensHeld
    <3> QED
      BY <1>2, <3>1, <3>2
  <2>3. g[n] = Len(b)
    BY <1>1, <1>5
  <2> HIDE DEF g
  <2> QED
    BY <1>1, <2>1, <2>2, <2>3, SumIs
<1>7. list = <<>> <=> b = <<>>
  <2>1. CASE n = 0
    <3>1. list = <<>>
      BY <2>1
    <3> QED
      BY <1>5, <2>1, <3>1
  <2>2. CASE n # 0
    <3>1. n \in 1..n /\ list # <<>>
      BY <1>1, <2>2
    <3>2. Len(f[n]) = Len(f[n - 1]) + Len(s[n]) /\ f[n - 1] \in Seq(Byte) /\ s[n] \in Seq(Byte)
      BY <1>1, <1>4, <3>1, FlattensHeld
    <3>3. Len(s[n]) > 0
      BY <1>1, <3>1
    <3>4. Len(b) > 0
      <4>1. Len(f[n - 1]) \in Nat /\ Len(s[n]) \in Nat 
        BY <3>2, BytesHaveLength, Zenon
      <4>2. Len(b) = Len(f[n - 1]) + Len(s[n])
        BY <1>5, <3>2, Zenon
      <4>3. \A x, y \in Nat : y > 0 => x + y > 0
        OBVIOUS
      <4> QED
        BY <3>3, <4>1, <4>2, <4>3, Zenon
    <3>5. b # <<>>
      BY <3>4
    <3> QED
      BY <3>1, <3>5
  <2> QED
    BY <2>1, <2>2
<1>8. SizePacked(list) = SizeBytes(b)
  BY <1>3, <1>6, <1>7 DEF SizeBytes
<1>9. PackedBytes(tag, list) = BytesBytes(tag, b) /\ PutPacked(tag, list, tail) = PutBytes(tag, b, tail)
  BY DEF PackedBytes, PutPacked, b, s
<1> QED
  <2>1. /\ BytesBytes(tag, b) \in Seq(Byte) /\ Len(BytesBytes(tag, b)) = SizeBytes(b)
        /\ PutBytes(tag, b, tail) = BytesBytes(tag, b) \o tail
    BY <1>5, BytesBytesAre
  <2>2. Packs(b, list)
    BY Zenon DEF Packs, b, s
  <2> QED
    BY <1>5, <1>7, <1>8, <1>9, <2>1, <2>2, Zenon

\* Setting field f of a record twice, and to what it is.
HasName(m, f) == m = [x \in DOMAIN m |-> m[x]] /\ f \in DOMAIN m

\* A field that is set has the value it was set to last.
LEMMA WithTwice ==
    ASSUME NEW m, NEW f, HasName(m, f), NEW a, NEW b
    PROVE  /\ With(m, f, a)[f] = a /\ With(With(m, f, a), f, b) = With(m, f, b)
           /\ With(m, f, m[f]) = m
BY DEF With, HasName

\* A list that takes the next number of another.
LEMMA AppendNext ==
    ASSUME NEW S, NEW a \in Seq(S), NEW list \in Seq(S), NEW k \in 1..Len(list)
    PROVE  /\ a \o SubSeq(list, 1, k - 1) \in Seq(S) /\ list[k] \in S
           /\ Append(a \o SubSeq(list, 1, k - 1), list[k]) = a \o SubSeq(list, 1, k)
<1> DEFINE b == SubSeq(list, 1, k - 1)
           x == list[k]
<1>1. x \in S /\ b \in Seq(S) /\ <<x>> \in Seq(S) /\ a \o b \in Seq(S)
  OBVIOUS
<1>2. SubSeq(list, 1, k) = b \o <<x>>
  BY SubSeqRecursiveSecond
<1> HIDE DEF b, x
<1>3. Append(a \o b, x) = (a \o b) \o <<x>>
  BY <1>1, AppendIsConcat
<1>4. (a \o b) \o <<x>> = a \o (b \o <<x>>)
  BY <1>1, ConcatAssociative
<1> QED
  BY <1>1, <1>2, <1>3, <1>4 DEF b, x

\* A cursor adds a number to a list.
LEMMA AddUintAt ==
    ASSUME NEW M, NEW c \in Cursors(M), Good(c), NEW f, NEW v, Good(v)
    PROVE  AddUint(c, f, v) = At(v.i, With(c.m, f, Append(c.m[f], v.val)), "")
<1> DEFINE m == c.m
           n == With(m, f, Append(m[f], v.val))
           i == v.i
<1>1. AddUint(c, f, v) = [c EXCEPT !.i = i, !.m[f] = Append(@, v.val)]
  BY Zenon DEF AddUint, Good
<1>2. c.err = ""
  BY DEF Good
<1>3. n = [m EXCEPT ![f] = Append(@, v.val)]
  BY DEF With
<1> HIDE DEF i
<1>4. [c EXCEPT !.i = i, !.m[f] = Append(@, v.val)]
        = [c EXCEPT !.i = i, !.m = [c.m EXCEPT ![f] = Append(@, v.val)]]
  OBVIOUS
<1>5. [c EXCEPT !.i = i, !.m[f] = Append(@, v.val)] = [c EXCEPT !.i = i, !.m = n]
  BY <1>3, <1>4
<1> HIDE DEF n
<1>6. [c EXCEPT !.i = i, !.m = n] \in [i : {i}, m : {n}, err : {c.err}]
  BY DEF Cursors
<1>7. \A x \in [i : {i}, m : {n}, err : {c.err}] : x = At(i, n, c.err)
  BY DEF At
<1>8. AddUint(c, f, v) = At(i, n, c.err)
  BY <1>1, <1>5, <1>6, <1>7
<1> QED
  BY <1>2, <1>8, Zenon DEF n, i

\* The bounds E of the numbers of a list in d, from an index on to the end.
Run(d, from, list, E) ==
    /\ E \in [0..Len(list) -> Nat]
    /\ E[0] = from /\ E[Len(list)] = Len(d)
    /\ \A k \in 1..Len(list) :
           LET v == ReadVarint(d, E[k - 1])
           IN  /\ E[k - 1] < E[k] /\ E[k] <= Len(d)
               /\ Good(v) /\ v.val = list[k] /\ v.i = E[k]

\* The varints of a list are read one after the other.
LEMMA PackedRun ==
    ASSUME NEW d, Short(d), NEW list \in Seq(Word), NEW from \in 0..Len(d),
           Packs(Slice(d, from, Len(d)), list)
    PROVE  \E E : Run(d, from, list, E)
<1> DEFINE s == [k \in DOMAIN list |-> Varint(list[k])]
           b == FlattenSeq(s)
           n == Len(list)
           l == Len(d)
<1>1. /\ s \in Seq(Seq(Byte)) /\ Len(s) = n /\ n \in Nat
      /\ \A k \in 1..n : s[k] = Varint(list[k]) /\ Len(s[k]) > 0
  <2>1. n \in Nat
    OBVIOUS
  <2> QED
    BY <2>1, PackedPieces, Zenon
<1>2. l \in Nat /\ d \in Seq(Byte) /\ from \in Nat /\ from <= l
  BY LengthIsInt DEF Short
<1>3. b = Slice(d, from, l)
  BY DEF Packs
<1>4. \A k \in 1..n : list[k] \in Word
  OBVIOUS
<1> HIDE DEF s
<1>5. PICK g : Flattens(g, s) /\ b = g[n]
  BY <1>1, FlattenSeqIs, Zenon
<1> HIDE DEF b, n
<1>6. g[0] = <<>> /\ \A k \in 0..n : g[k] \in Seq(Byte)
  BY <1>1, <1>5, Zenon DEF Flattens
<1>7. Len(g[0]) = 0 /\ \A k \in 0..n : Len(g[k]) \in Nat
  <2>1. Len(<<>>) = 0
    OBVIOUS
  <2> QED
    BY <1>6, <2>1, BytesHaveLength, Zenon
<1>8. b \in Seq(Byte) /\ Holds(d, from, b) /\ from + Len(b) = l
  <2>1. from \in 0..Len(d) /\ l \in from..Len(d) /\ l - from \in Nat
    BY <1>2
  <2>2. b = [j \in 1..(l - from) |-> d[from + j]]
    BY <1>2, <1>3, <2>1, SliceIs, Zenon
  <2>3. n \in 0..n
    BY <1>1
  <2>4. b \in Seq(Byte)
    BY <1>5, <1>6, <2>3, Zenon
  <2>5. Len(b) = l - from
    BY <2>1, <2>2
  <2>6. \A j \in 1..Len(b) : d[from + j] = b[j]
    BY <2>2, <2>5
  <2> HIDE DEF l
  <2>7. from + Len(b) <= l /\ from + Len(b) = l
    BY <1>2, <2>5
  <2> QED
    BY <1>2, <2>4, <2>6, <2>7, Zenon DEF Holds, l
<1> DEFINE E == [k \in 0..n |-> from + Len(g[k])]
<1>9. ASSUME NEW k \in 1..n
      PROVE  LET v == ReadVarint(d, E[k - 1])
             IN  /\ E[k - 1] < E[k] /\ E[k] <= l
                 /\ Good(v) /\ v.val = list[k] /\ v.i = E[k]
  <2> DEFINE w == Varint(list[k])
             a == Len(g[k - 1])
             c == Len(g[k])
             v == ReadVarint(d, from + a)
  <2>1. k - 1 \in 0..n /\ k \in 0..n /\ E[k - 1] = from + a /\ E[k] = from + c
    BY <1>1
  <2>2. k \in 1..Len(s) /\ s[k] = w /\ Len(w) > 0
    BY <1>1, Zenon
  <2>3. c = a + Len(w) /\ c <= Len(b) /\ Holds(b, a, w)
    <3>1. /\ c = a + Len(s[k]) /\ c <= Len(g[Len(s)])
          /\ Holds(g[Len(s)], a, s[k])
      BY <1>1, <1>5, <2>2, FlattensHeld, Zenon
    <3> QED
      BY <1>1, <1>5, <2>2, <3>1, Zenon
  <2>4. list[k] \in Word /\ w \in Seq(Byte)
    BY <1>4, VarintShape, Zenon
  <2>5. a \in Nat /\ c \in Nat /\ Len(w) \in Nat /\ Len(b) \in Nat
    BY <1>7, <1>8, <2>1, <2>4, BytesHaveLength, Zenon
  <2>6. Holds(d, from + a, w)
    BY <1>2, <1>8, <2>3, <2>4, <2>5, HoldsTrans, Zenon
  <2>7. Good(v) /\ v.val = list[k] /\ v.i = (from + a) + Len(w)
    BY <1>2, <2>4, <2>6, VarintReads, Zenon
  <2> HIDE DEF E, a, c, w, v, l
  <2>8. /\ from + a < from + c /\ from + c <= l /\ (from + a) + Len(w) = from + c
    BY <1>2, <1>8, <2>2, <2>3, <2>5
  <2> QED
    BY <2>1, <2>7, <2>8, Zenon DEF v, l
<1>10. E \in [0..n -> Nat] /\ E[0] = from /\ E[n] = l
  <2> HIDE DEF l
  <2>1. 0 \in 0..n /\ n \in 0..n
    BY <1>1
  <2>2. \A k \in 0..n : from + Len(g[k]) \in Nat
    BY <1>2, <1>7
  <2>3. from + Len(g[0]) = from
    BY <1>2, <1>7
  <2>4. from + Len(g[n]) = l
    BY <1>5, <1>8, Zenon
  <2> QED
    BY <2>1, <2>2, <2>3, <2>4
<1> HIDE DEF E
<1>11. Run(d, from, list, E)
  BY <1>9, <1>10, Zenon DEF Run, n, l
<1> QED
  BY <1>11

\* The packed run p of d adds a list to field f of m.
Adds(d, f, p, M, m, list) ==
    AddPacked(At(1, m, ""), d, f, p, M) = At(Len(d), With(m, f, m[f] \o list), "")

\* A packed run that holds the varints of a list adds the list.
LEMMA AddPackedIs ==
    ASSUME NEW d, Len(d) \in Nat, NEW M, NEW m \in M, NEW f, HasField(M, f, Seq(Word)),
           HasName(m, f), NEW list \in Seq(Word), NEW from \in Nat,
           NEW p, Good(p), p.from = from, p.to = Len(d), NEW E, Run(d, from, list, E)
    PROVE  Adds(d, f, p, M, m, list)
<1> DEFINE turn == [c \in Cursors(M) |->
               IF c.err # "" \/ c.i >= p.to THEN c ELSE AddUint(c, f, ReadVarint(d, c.i))]
           n == Len(list)
           x == At(from, m, "")
           l == Len(d)
           L(k) == m[f] \o SubSeq(list, 1, k)
<1>1. AddPacked(At(1, m, ""), d, f, p, M) = Repeat(turn, x, l - from)
  <2>1. [At(1, m, "") EXCEPT !.i = from] = x
    <3>1. At(1, m, "") \in Cursors(M) /\ At(1, m, "").m = m /\ At(1, m, "").err = ""
      BY DEF At, Cursors
    <3> QED
      BY <3>1, CursorAtIndex
  <2> QED
    BY <2>1, Zenon DEF AddPacked, Good
<1>2. n \in Nat /\ l \in Nat
  OBVIOUS
<1>3. m[f] \in Seq(Word) /\ \A v \in Seq(Word) : With(m, f, v) \in M
  BY DEF HasField, With
<1>4. \A k \in 1..n : /\ L(k - 1) \in Seq(Word) /\ list[k] \in Word
                      /\ Append(L(k - 1), list[k]) = L(k)
  BY <1>3, AppendNext
<1>5. L(0) = m[f] /\ L(n) = m[f] \o list /\ L(n) \in Seq(Word)
  <2>1. SubSeq(list, 1, 0) = <<>> /\ SubSeq(list, 1, n) = list
    BY SubSeqEmpty, SubSeqFull
  <2>2. m[f] \o <<>> = m[f] /\ m[f] \o list \in Seq(Word)
    BY <1>3, ConcatEmptySeq
  <2> QED
    BY <2>1, <2>2
<1>6. E \in [0..n -> Nat] /\ E[0] = from /\ E[n] = l
  BY DEF Run
<1>7. \A k \in 1..n :
           /\ E[k - 1] < E[k] /\ E[k] <= l /\ Good(ReadVarint(d, E[k - 1]))
           /\ ReadVarint(d, E[k - 1]).val = list[k] /\ ReadVarint(d, E[k - 1]).i = E[k]
  BY Zenon DEF Run
<1>17. (\A a : With(m, f, a)[f] = a) /\ \A a, b : With(With(m, f, a), f, b) = With(m, f, b)
  BY WithTwice
<1>8. \A y \in Cursors(M) : /\ y.i >= l => turn[y] = y
                            /\ Good(y) /\ ~(y.i >= l) =>
                                   turn[y] = AddUint(y, f, ReadVarint(d, y.i))
  BY Zenon DEF Good
<1> HIDE DEF L, n, l, turn
<1> DEFINE St(k) == At(E[k], With(m, f, L(k)), "")
<1>9. ASSUME NEW k \in 1..n PROVE turn[St(k - 1)] = St(k)
  <2> DEFINE o == E[k - 1]
             q == With(m, f, L(k - 1))
             c == At(o, q, "")
             v == ReadVarint(d, o)
  <2>1. o \in Int /\ ~(o >= l)
    <3>1. k - 1 \in 0..n /\ k \in 0..n
      BY <1>2
    <3>2. o \in Nat /\ E[k] \in Nat
      BY <1>6, <3>1
    <3>3. o < E[k] /\ E[k] <= l
      BY <1>7
    <3> HIDE DEF o
    <3> QED
      BY <1>2, <3>2, <3>3
  <2>2. Good(v) /\ v.val = list[k] /\ v.i = E[k]
    BY <1>7, Zenon
  <2>3. list[k] \in Word /\ Append(L(k - 1), list[k]) = L(k) /\ L(k - 1) \in Seq(Word)
    BY <1>4, Zenon
  <2>4. q \in M
    BY <1>3, <2>3, Zenon
  <2>5. q[f] = L(k - 1) /\ With(q, f, L(k)) = With(m, f, L(k))
    BY <1>17, Zenon
  <2> HIDE DEF q, o
  <2>6. c \in Cursors(M) /\ c.i = o /\ c.m = q /\ Good(c)
    BY <2>1, <2>4 DEF At, Cursors, Good
  <2> HIDE DEF c
  <2>7. turn[c] = AddUint(c, f, v)
    BY <1>8, <2>1, <2>6, Zenon DEF v
  <2> HIDE DEF v
  <2>8. AddUint(c, f, v) = At(v.i, With(c.m, f, Append(c.m[f], v.val)), "")
    BY <2>2, <2>6, AddUintAt, Zenon
  <2> QED
    BY <2>2, <2>3, <2>5, <2>6, <2>7, <2>8, Zenon DEF c, o, q
<1>10. St(0) = x
  BY <1>5, <1>6, WithTwice, Zenon
<1>11. St(n) = At(l, With(m, f, m[f] \o list), "") /\ turn[St(n)] = St(n)
  <2>1. St(n) = At(l, With(m, f, L(n)), "") /\ L(n) = m[f] \o list
    BY <1>5, <1>6, Zenon
  <2> DEFINE q == With(m, f, L(n))
             y == At(l, q, "")
  <2>2. q \in M
    BY <1>3, <1>5, Zenon
  <2>3. l \in Int /\ l >= l
    BY <1>2
  <2> HIDE DEF q
  <2>4. y \in Cursors(M) /\ y.i = l
    BY <2>2, <2>3 DEF At, Cursors
  <2> HIDE DEF y
  <2>5. turn[y] = y
    BY <1>8, <2>3, <2>4, Zenon
  <2> QED
    BY <2>1, <2>5, Zenon DEF q, y
<1> DEFINE P == {k \in Nat : k <= n => Repeat(turn, x, k) = St(k) /\ k + from <= E[k]}
<1> HIDE DEF St, x
<1>12. \A k \in Nat : k \in P
  <2>1. 0 \in P
    <3>1. Repeat(turn, x, 0) = St(0)
      BY <1>10, RepeatStep
    <3> QED
      BY <1>6, <3>1
  <2>2. \A k \in Nat : k \in P => k + 1 \in P
    <3> SUFFICES ASSUME NEW k \in Nat, k \in P, k + 1 <= n
                 PROVE  Repeat(turn, x, k + 1) = St(k + 1) /\ (k + 1) + from <= E[k + 1]
      OBVIOUS
    <3>1. k <= n /\ k + 1 \in 1..n /\ (k + 1) - 1 = k /\ k \in 0..n /\ k + 1 \in 0..n
      BY <1>2
    <3>2. Repeat(turn, x, k) = St(k) /\ k + from <= E[k]
      BY <3>1
    <3>3. turn[St(k)] = St(k + 1) /\ E[k] < E[k + 1]
      BY <1>7, <1>9, <3>1, Zenon
    <3>4. Repeat(turn, x, k + 1) = St(k + 1)
      BY <3>2, <3>3, RepeatStep
    <3>5. E[k] \in Nat /\ E[k + 1] \in Nat
      BY <1>6, <3>1
    <3>6. \A a, b, c, e \in Nat : a + b <= c /\ c < e => (a + 1) + b <= e
      OBVIOUS
    <3>7. (k + 1) + from <= E[k + 1]
      BY <3>2, <3>3, <3>5, <3>6, Zenon
    <3> QED
      BY <3>4, <3>7
  <2> HIDE DEF P
  <2> QED
    BY <2>1, <2>2, SetInduction
<1>13. Repeat(turn, x, n) = St(n) /\ n + from <= l
  <2>1. n <= n
    BY <1>2
  <2> QED
    BY <1>2, <1>6, <1>12, <2>1, Zenon
<1> DEFINE r == (l - from) - n
<1>14. r \in Nat /\ n + r = l - from
  BY <1>2, <1>13
<1> HIDE DEF r
<1>15. Repeat(turn, x, n + r) = Repeat(turn, St(n), r)
  BY <1>2, <1>13, <1>14, RepeatAdd
<1>16. Repeat(turn, St(n), r) = St(n)
  BY <1>11, <1>14, RepeatFixed
<1> QED
  BY <1>1, <1>11, <1>14, <1>15, <1>16, Zenon DEF l, Adds

\* Field num is a list of numbers, the parameters, the coins.
IsPacked(ty, num, f) ==
    \A s, d, t : t.fieldNum = num =>
        Turn(ty, s, d, t) = PackedField(t.behind, d, t.wireType, f, MessagesOf(ty))

IsParams(ty, num) ==
    \A s, d, t : t.fieldNum = num => Turn(ty, s, d, t) = ParamsField(t.behind, d, t.wireType)

IsFunds(ty, num) ==
    \A s, d, t : t.fieldNum = num => Turn(ty, s, d, t) = FundsField(t.behind, d, t.wireType)

\* A field that holds a list of numbers.
LEMMA PackedParses ==
    ASSUME NEW ty \in MessageTypes, NEW num \in 1..5, NEW f, IsPacked(ty, num, f),
           HasField(MessagesOf(ty), f, Seq(Word)), NEW m \in MessagesOf(ty), HasName(m, f),
           NEW list \in Seq(Word), Short(PackedBytes(8 * num + 2, list))
    PROVE  Parses(ty, PackedBytes(8 * num + 2, list), m, With(m, f, m[f] \o list))
<1> DEFINE tag == 8 * num + 2
<1>1. tag \in Byte /\ <<>> \in Seq(Byte)
  BY DEF Byte
<1>2. PICK b \in Seq(Byte) : /\ Packs(b, list) /\ PackedBytes(tag, list) = BytesBytes(tag, b)
                             /\ list = <<>> <=> b = <<>>
  BY <1>1, PackedBytesAre
<1>3. CASE list = <<>>
  <2>1. m[f] \in Seq(Word)
    BY DEF HasField
  <2>2. m[f] \o list = m[f]
    BY <1>3, <2>1, ConcatEmptySeq
  <2>3. With(m, f, m[f]) = m
    BY WithTwice, Zenon
  <2>4. PackedBytes(tag, list) = <<>>
    BY <1>2, <1>3 DEF BytesBytes
  <2> QED
    BY <2>2, <2>3, <2>4, ParsesEmpty
<1>4. CASE list # <<>>
  <2> DEFINE d == PayloadBytes(tag, b)
             t == ReadTag(Start(m), d)
             p == ReadPayload(d, 1, 2)
             M == MessagesOf(ty)
             n == With(m, f, m[f] \o list)
             from == Len(d) - Len(b)
  <2>1. PackedBytes(tag, list) = d
    BY <1>2, <1>4 DEF BytesBytes
  <2>2. /\ t.fieldNum = num /\ t.wireType = 2 /\ t.behind = At(1, m, "")
        /\ Good(p) /\ p.from = from /\ p.to = Len(d)
        /\ Slice(d, p.from, p.to) = b /\ Short(b) /\ Len(d) > Len(b)
    BY <2>1, PayloadReads
  <2> HIDE DEF d, t, p
  <2>3. Short(d)
    BY <2>1
  <2>4. Len(d) \in Nat /\ from \in 0..Len(d) /\ from \in Nat /\ Len(d) > 0
    <3>1. Len(d) \in Nat /\ Len(b) \in Nat /\ Len(d) > Len(b)
      BY <2>2, <2>3, LengthIsInt
    <3> QED
      BY <3>1
  <2>5. Turn(ty, Start(m), d, t) = PackedField(At(1, m, ""), d, 2, f, M)
    BY <2>2, Zenon DEF IsPacked
  <2>6. PackedField(At(1, m, ""), d, 2, f, M) = AddPacked(At(1, m, ""), d, f, p, M)
    <3>1. At(1, m, "").i = 1 /\ 2 # 0
      BY DEF At
    <3> QED
      BY <3>1, Zenon DEF PackedField, p
  <2> HIDE DEF from
  <2>7. Packs(Slice(d, from, Len(d)), list)
    BY <1>2, <2>2, Zenon
  <2>8. PICK E : Run(d, from, list, E)
    BY <2>3, <2>4, <2>7, PackedRun
  <2>9. AddPacked(At(1, m, ""), d, f, p, M) = At(Len(d), n, "")
    <3>1. m \in M /\ HasField(M, f, Seq(Word))
      OBVIOUS
    <3> HIDE DEF M
    <3>2. Len(d) \in Nat /\ from \in Nat /\ Good(p) /\ p.from = from /\ p.to = Len(d)
      BY <2>2, <2>4
    <3>3. Adds(d, f, p, M, m, list)
      BY <2>8, <3>1, <3>2, AddPackedIs, Zenon
    <3> QED
      BY <3>3, Zenon DEF Adds
  <2> HIDE DEF n
  <2>10. Parses(ty, d, m, n)
    BY <2>3, <2>4, <2>5, <2>6, <2>9, ParsesField, Zenon DEF t
  <2> QED
    BY <2>1, <2>10, Zenon DEF n
<1> QED
  BY <1>3, <1>4

\* A field that holds parameters: what they are written as reads like r in a message
\* with these parameters.
LEMMA ParamsParses ==
    ASSUME NEW ty \in MessageTypes, NEW num \in 1..5, IsParams(ty, num),
           NEW m \in MessagesOf(ty), NEW bz \in Seq(Byte), Short(PayloadBytes(8 * num + 2, bz)),
           NEW q \in ParamsMessages, q = (IF m.Params = Nil THEN EmptyParams ELSE m.Params),
           NEW r, Parses("Params", bz, q, r)
    PROVE  Parses(ty, PayloadBytes(8 * num + 2, bz), m, With(m, "Params", r))
<1> DEFINE d == PayloadBytes(8 * num + 2, bz)
           t == ReadTag(Start(m), d)
           p == ReadPayload(d, 1, 2)
           c == At(1, m, "")
           n == With(m, "Params", r)
           u == UnmarshalParams(q, bz)
<1>1. /\ t.fieldNum = num /\ t.wireType = 2 /\ t.behind = At(1, m, "")
      /\ Good(p) /\ p.from = Len(d) - Len(bz) /\ p.to = Len(d)
      /\ Slice(d, p.from, p.to) = bz /\ Short(bz) /\ Len(d) > Len(bz)
  BY PayloadReads
<1>2. Short(d)
  OBVIOUS
<1> HIDE DEF d, t, p
<1>3. Len(d) > 0
  <2>1. Len(d) \in Nat /\ Len(bz) \in Nat /\ Len(d) > Len(bz)
    BY <1>1, <1>2, LengthIsInt
  <2> QED
    BY <2>1
<1>4. Turn(ty, Start(m), d, t) = ParamsField(c, d, 2)
  BY <1>1, Zenon DEF IsParams
<1>5. c.i = 1 /\ c.m = m
  BY DEF At
<1>6. u = At(Len(bz), r, "")
  BY <1>1, ParsesParams, Zenon
<1> HIDE DEF c, u
<1>7. ParamsField(c, d, 2) = ParamsInto(c, d, p, m.Params)
  BY <1>5, Zenon DEF ParamsField, p
<1>8. ParamsInto(c, d, p, m.Params) = SetParamsField(c, p, u)
  BY <1>1, Zenon DEF ParamsInto, Good, u
<1>9. u.err = "" /\ u.m = r
  BY <1>6 DEF At
<1>10. SetParamsField(c, p, u) = [c EXCEPT !.i = Len(d), !.m.Params = r]
  BY <1>1, <1>9, Zenon DEF SetParamsField
<1>11. [c EXCEPT !.i = Len(d), !.m.Params = r] = Set(c, Len(d), "Params", r)
  BY DEF Set
<1>12. Set(c, Len(d), "Params", r) = At(Len(d), n, "")
  BY SetBehindTag, Zenon DEF c
<1> HIDE DEF n
<1>13. Parses(ty, d, m, n)
  BY <1>2, <1>3, <1>4, <1>7, <1>8, <1>10, <1>11, <1>12, ParsesField, Zenon DEF t
<1> QED
  BY <1>13, Zenon DEF n, d

\* One coin.
LEMMA CoinParses ==
    ASSUME NEW ty \in MessageTypes, NEW num \in 1..5, IsFunds(ty, num),
           NEW m \in MessagesOf(ty), NEW bz \in Seq(Byte), bz \in Coins,
           Short(PayloadBytes(8 * num + 2, bz))
    PROVE  Parses(ty, PayloadBytes(8 * num + 2, bz), m, With(m, "Funds", Append(m.Funds, bz)))
<1> DEFINE d == PayloadBytes(8 * num + 2, bz)
           t == ReadTag(Start(m), d)
           p == ReadPayload(d, 1, 2)
           c == At(1, m, "")
           l == Append(m.Funds, bz)
           n == With(m, "Funds", l)
<1>1. /\ t.fieldNum = num /\ t.wireType = 2 /\ t.behind = At(1, m, "")
      /\ Good(p) /\ p.from = Len(d) - Len(bz) /\ p.to = Len(d)
      /\ Slice(d, p.from, p.to) = bz /\ Short(bz) /\ Len(d) > Len(bz)
  BY PayloadReads
<1>2. Short(d)
  OBVIOUS
<1> HIDE DEF d, t, p
<1>3. Len(d) > 0
  <2>1. Len(d) \in Nat /\ Len(bz) \in Nat /\ Len(d) > Len(bz)
    BY <1>1, <1>2, LengthIsInt
  <2> QED
    BY <2>1
<1>4. Turn(ty, Start(m), d, t) = FundsField(c, d, 2)
  BY <1>1, Zenon DEF IsFunds
<1>5. c.i = 1 /\ c.m = m
  BY DEF At
<1> HIDE DEF c
<1>6. FundsField(c, d, 2) = AddCoin(c, d, p)
  BY <1>5, Zenon DEF FundsField, p
<1>7. AddCoin(c, d, p) = [c EXCEPT !.i = Len(d), !.m.Funds = Append(@, bz)]
  BY <1>1, Zenon DEF AddCoin, Good
<1>8. [c EXCEPT !.i = Len(d), !.m.Funds = Append(@, bz)] = [c EXCEPT !.i = Len(d), !.m.Funds = l]
  BY <1>5
<1> HIDE DEF l
<1>9. [c EXCEPT !.i = Len(d), !.m.Funds = l] = Set(c, Len(d), "Funds", l)
  BY DEF Set
<1>10. Set(c, Len(d), "Funds", l) = At(Len(d), n, "")
  BY SetBehindTag, Zenon DEF c
<1> HIDE DEF n
<1>11. Parses(ty, d, m, n)
  BY <1>2, <1>3, <1>4, <1>6, <1>7, <1>8, <1>9, <1>10, ParsesField, Zenon DEF t
<1> QED
  BY <1>11, Zenon DEF n, l, d

\* The same for all values at once.
LEMMA WithFacts ==
    ASSUME NEW m, NEW f, HasName(m, f)
    PROVE  /\ \A a : With(m, f, a)[f] = a
           /\ \A a, b : With(With(m, f, a), f, b) = With(m, f, b)
           /\ With(m, f, m[f]) = m
BY WithTwice

\* What a list of coins is written as.
FundsBytes(tag, funds) == FlattenSeq([k \in DOMAIN funds |-> PutPayload(tag, funds[k], <<>>)])

\* The coins, one behind the other.
LEMMA FundsPieces ==
    ASSUME NEW tag \in Byte, NEW funds \in Seq(Coins)
    PROVE  LET s == [k \in DOMAIN funds |-> PutPayload(tag, funds[k], <<>>)]
           IN  /\ s \in Seq(Seq(Byte)) /\ Len(s) = Len(funds)
               /\ \A k \in 1..Len(funds) :
                      /\ s[k] = PayloadBytes(tag, funds[k])
                      /\ Len(s[k]) = SizePayload(Len(funds[k]))
                      /\ funds[k] \in Seq(Byte) /\ funds[k] \in Coins
<1> DEFINE s == [k \in DOMAIN funds |-> PutPayload(tag, funds[k], <<>>)]
           n == Len(funds)
<1>1. DOMAIN funds = 1..n /\ n \in Nat /\ \A k \in 1..n : funds[k] \in Coins
  OBVIOUS
<1>2. \A k \in 1..n : funds[k] \in Seq(Byte)
  BY <1>1, MessagesAssumption
<1>3. s = [k \in 1..n |-> PutPayload(tag, funds[k], <<>>)]
  BY <1>1
<1> HIDE DEF n
<1>4. ASSUME NEW k \in 1..n
      PROVE  /\ PutPayload(tag, funds[k], <<>>) = PayloadBytes(tag, funds[k])
             /\ PayloadBytes(tag, funds[k]) \in Seq(Byte)
             /\ Len(PayloadBytes(tag, funds[k])) = SizePayload(Len(funds[k]))
  <2> DEFINE x == funds[k]
             h == PayloadBytes(tag, x)
  <2>1. x \in Seq(Byte) /\ <<>> \in Seq(Byte)
    BY <1>2
  <2> HIDE DEF x
  <2>2. h \in Seq(Byte) /\ Len(h) = SizePayload(Len(x)) /\ PutPayload(tag, x, <<>>) = h \o <<>>
    BY <2>1, PayloadBytesAre
  <2> HIDE DEF h
  <2>3. h \o <<>> = h
    BY <2>2, ConcatEmptySeq
  <2> QED
    BY <2>2, <2>3 DEF x, h
<1>5. \A k \in 1..n : s[k] = PayloadBytes(tag, funds[k])
  BY <1>3, <1>4
<1>6. s \in [1..n -> Seq(Byte)]
  BY <1>3, <1>4
<1> HIDE DEF s
<1>7. s \in Seq(Seq(Byte)) /\ Len(s) = n
  BY <1>1, <1>6
<1> QED
  BY <1>1, <1>2, <1>4, <1>5, <1>7, Zenon DEF s, n

\* The bytes of the funds, their number, and where they go.
LEMMA FundsBytesAre ==
    ASSUME NEW tag \in Byte, NEW funds \in Seq(Coins), NEW tail \in Seq(Byte)
    PROVE  LET h == FundsBytes(tag, funds)
           IN  /\ h \in Seq(Byte) /\ Len(h) = SizeFunds(funds)
               /\ PutFunds(tag, funds, tail) = h \o tail
<1> DEFINE s == [k \in DOMAIN funds |-> PutPayload(tag, funds[k], <<>>)]
           b == FlattenSeq(s)
           a == [k \in DOMAIN funds |-> SizePayload(Len(funds[k]))]
           n == Len(funds)
<1>1. /\ s \in Seq(Seq(Byte)) /\ Len(s) = n /\ n \in Nat /\ DOMAIN funds = 1..n
      /\ \A k \in 1..n : Len(s[k]) = SizePayload(Len(funds[k]))
  <2>1. n \in Nat /\ DOMAIN funds = 1..n
    OBVIOUS
  <2> QED
    BY <2>1, FundsPieces, Zenon
<1>2. \A k \in 1..n : a[k] = Len(s[k])
  <2>1. \A k \in 1..n : a[k] = SizePayload(Len(funds[k]))
    BY <1>1
  <2> QED
    BY <1>1, <2>1, Zenon
<1>3. SizeFunds(funds) = SumTo(a, n)
  BY DEF SizeFunds
<1> HIDE DEF s, a
<1>4. PICK f : Flattens(f, s) /\ FlattenSeq(s) = f[Len(s)]
  BY <1>1, FlattenSeqIs, Zenon
<1>5. b = f[n] /\ b \in Seq(Byte) /\ f[0] = <<>>
  <2>1. n \in 0..n
    BY <1>1
  <2> QED
    BY <1>1, <1>4, <2>1 DEF Flattens
<1> HIDE DEF b
<1>6. SumTo(a, n) = Len(b)
  <2> DEFINE g == [k \in 0..n |-> Len(f[k])]
  <2>1. g[0] = 0
    BY <1>1, <1>5
  <2>2. \A k \in 1..n : g[k] = g[k - 1] + a[k]
    <3> TAKE k \in 1..n
    <3>1. k \in 0..n /\ k - 1 \in 0..n
      BY <1>1
    <3>2. Len(f[k]) = Len(f[k - 1]) + Len(s[k])
      <4>1. k \in 1..Len(s)
        BY <1>1
      <4> QED
        BY <1>1, <1>4, <4>1, FlattensHeld, Zenon
    <3> QED
      BY <1>2, <3>1, <3>2
  <2>3. g[n] = Len(b)
    BY <1>1, <1>5
  <2> HIDE DEF g
  <2> QED
    BY <1>1, <2>1, <2>2, <2>3, SumIs
<1>7. FundsBytes(tag, funds) = b /\ PutFunds(tag, funds, tail) = b \o tail
  BY DEF FundsBytes, PutFunds, b, s
<1> QED
  BY <1>3, <1>5, <1>6, <1>7, Zenon

\* A field that holds coins.
LEMMA FundsParses ==
    ASSUME NEW ty \in MessageTypes, NEW num \in 1..5, IsFunds(ty, num),
           HasField(MessagesOf(ty), "Funds", Seq(Coins)), NEW m \in MessagesOf(ty),
           HasName(m, "Funds"), NEW funds \in Seq(Coins), Short(FundsBytes(8 * num + 2, funds))
    PROVE  Parses(ty, FundsBytes(8 * num + 2, funds), m, With(m, "Funds", m.Funds \o funds))
<1> DEFINE tag == 8 * num + 2
           s == [k \in DOMAIN funds |-> PutPayload(tag, funds[k], <<>>)]
           n == Len(funds)
           M == MessagesOf(ty)
           L(k) == m.Funds \o SubSeq(funds, 1, k)
           Q(k) == With(m, "Funds", L(k))
<1>1. tag \in Byte
  BY DEF Byte
<1>2. /\ s \in Seq(Seq(Byte)) /\ Len(s) = n /\ n \in Nat
      /\ \A k \in 1..n : s[k] = PayloadBytes(tag, funds[k]) /\ funds[k] \in Seq(Byte)
                         /\ funds[k] \in Coins
  <2>1. n \in Nat
    OBVIOUS
  <2> QED
    BY <1>1, <2>1, FundsPieces, Zenon
<1>3. m.Funds \in Seq(Coins) /\ \A v \in Seq(Coins) : With(m, "Funds", v) \in M
  BY DEF HasField, With
<1>4. \A k \in 1..n : L(k - 1) \in Seq(Coins) /\ Append(L(k - 1), funds[k]) = L(k)
  BY <1>3, AppendNext
<1>5. L(0) = m.Funds /\ L(n) = m.Funds \o funds
  <2>1. SubSeq(funds, 1, 0) = <<>> /\ SubSeq(funds, 1, n) = funds
    BY SubSeqEmpty, SubSeqFull
  <2>2. m.Funds \o <<>> = m.Funds
    BY <1>3, ConcatEmptySeq
  <2> QED
    BY <2>1, <2>2
<1>6. /\ \A a : With(m, "Funds", a).Funds = a
      /\ \A a, b : With(With(m, "Funds", a), "Funds", b) = With(m, "Funds", b)
      /\ With(m, "Funds", m.Funds) = m
  <2>1. \A a : With(m, "Funds", a).Funds = a
    <3>1. PICK f : f = "Funds"
      OBVIOUS
    <3>2. HasName(m, f)
      BY <3>1, Zenon
    <3>3. \A a : With(m, f, a)[f] = a
      BY <3>2, WithFacts
    <3> QED
      BY <3>1, <3>3
  <2>2. \A a, b : With(With(m, "Funds", a), "Funds", b) = With(m, "Funds", b)
    BY WithFacts, Zenon
  <2>3. With(m, "Funds", m["Funds"]) = m
    BY WithFacts, Zenon
  <2> QED
    BY <2>1, <2>2, <2>3
<1>7. Short(FlattenSeq(s))
  BY DEF FundsBytes
<1> HIDE DEF s, n, M, L
<1>8. PICK f : Flattens(f, s) /\ FlattenSeq(s) = f[Len(s)]
  BY <1>2, FlattenSeqIs, Zenon
<1>9. f[0] = <<>> /\ \A k \in 1..n : f[k] = f[k - 1] \o s[k]
  BY <1>2, <1>8 DEF Flattens
<1>10. ASSUME NEW k \in 1..n
       PROVE  Short(f[k]) /\ f[k - 1] \in Seq(Byte) /\ s[k] \in Seq(Byte)
  <2>1. k \in 1..Len(s)
    BY <1>2
  <2>2. /\ f[k - 1] \in Seq(Byte) /\ f[k] \in Seq(Byte) /\ s[k] \in Seq(Byte)
        /\ Len(f[k]) <= Len(f[Len(s)])
    BY <1>2, <1>8, <2>1, FlattensHeld, Zenon
  <2>3. Len(f[Len(s)]) + 8 < Half /\ f[Len(s)] \in Seq(Byte)
    BY <1>7, <1>8, Zenon DEF Short
  <2>4. Len(f[k]) \in Nat /\ Len(f[Len(s)]) \in Nat /\ Half \in Nat
    BY <2>2, <2>3, BytesHaveLength, HalfIsNat
  <2>5. \A a, b, c \in Nat : a <= b /\ b + 8 < c => a + 8 < c
    OBVIOUS
  <2>6. Len(f[k]) + 8 < Half
    BY <2>2, <2>3, <2>4, <2>5, Zenon
  <2> QED
    BY <2>2, <2>6, Zenon DEF Short
<1> DEFINE P == {k \in Nat : k <= n => Parses(ty, f[k], m, Q(k))}
<1>11. \A k \in Nat : k \in P
  <2>1. 0 \in P
    <3>1. Q(0) = m
      BY <1>5, <1>6, Zenon
    <3>2. Parses(ty, f[0], m, Q(0))
      BY <1>9, <3>1, ParsesEmpty, Zenon
    <3> HIDE DEF Q
    <3> QED
      BY <3>2
  <2>2. \A k \in Nat : k \in P => k + 1 \in P
    <3> SUFFICES ASSUME NEW k \in Nat, k \in P, k + 1 <= n
                 PROVE  Parses(ty, f[k + 1], m, Q(k + 1))
      OBVIOUS
    <3> DEFINE x == funds[k + 1]
               e == s[k + 1]
    <3>1. k <= n /\ k + 1 \in 1..n /\ (k + 1) - 1 = k
      BY <1>2
    <3>2. Parses(ty, f[k], m, Q(k))
      BY <3>1
    <3>3. Short(f[k + 1]) /\ f[k] \in Seq(Byte) /\ e \in Seq(Byte) /\ f[k + 1] = f[k] \o e
      BY <1>9, <1>10, <3>1, Zenon
    <3>4. e = PayloadBytes(tag, x) /\ x \in Seq(Byte) /\ x \in Coins
      BY <1>2, <3>1, Zenon
    <3>5. L(k) \in Seq(Coins) /\ Append(L(k), x) = L(k + 1)
      BY <1>4, <3>1, Zenon
    <3>6. Q(k) \in M /\ Q(k).Funds = L(k) /\ With(Q(k), "Funds", L(k + 1)) = Q(k + 1)
      BY <1>3, <1>6, <3>5, Zenon
    <3>7. Short(e)
      BY <3>3, ConcatHolds
    <3> HIDE DEF x, Q
    <3>8. Parses(ty, e, Q(k), With(Q(k), "Funds", Append(Q(k).Funds, x)))
      BY <3>4, <3>6, <3>7, CoinParses DEF M
    <3>9. Parses(ty, e, Q(k), Q(k + 1))
      BY <3>5, <3>6, <3>8, Zenon
    <3> HIDE DEF e
    <3> QED
      BY <3>2, <3>3, <3>9, ParsesConcat
  <2> HIDE DEF P
  <2> QED
    BY <2>1, <2>2, SetInduction
<1>12. Parses(ty, f[n], m, Q(n))
  <2>1. n <= n
    BY <1>2
  <2> QED
    BY <1>2, <1>11, <2>1, Zenon
<1>13. FundsBytes(tag, funds) = f[n]
  BY <1>2, <1>8, Zenon DEF FundsBytes, s
<1> QED
  BY <1>5, <1>12, <1>13, Zenon

\* A field after a second value v was read: the old value if v is the zero value z.
Newer(v, z, old) == IF v = z THEN old ELSE v

\* Messages of type ty have a field f with the values V.
IsField(ty, f, V) ==
    HasField(MessagesOf(ty), f, V) /\ \A m \in MessagesOf(ty) : HasName(m, f)

\* The bytes b, size of them, turn m into n if they are unmarshalled into it.
Writes(ty, b, size, m, n) ==
    b \in Seq(Byte) /\ Len(b) = size /\ (Short(b) => Parses(ty, b, m, n))

\* Nothing at all.
LEMMA NothingWrites ==
    ASSUME NEW ty, NEW m
    PROVE  Writes(ty, <<>>, 0, m, m)
BY ParsesEmpty DEF Writes

\* A field in front of others.
LEMMA WritesFront ==
    ASSUME NEW ty \in MessageTypes, NEW m \in MessagesOf(ty), NEW h \in Seq(Byte), NEW x,
           Short(h) => Parses(ty, h, m, x), NEW tail, NEW size, NEW n,
           Writes(ty, tail, size, x, n)
    PROVE  Writes(ty, h \o tail, Len(h) + size, m, n)
<1>1. tail \in Seq(Byte) /\ Len(tail) = size /\ (Short(tail) => Parses(ty, tail, x, n))
  BY Zenon DEF Writes
<1>2. h \o tail \in Seq(Byte) /\ Len(h \o tail) = Len(h) + size
  BY <1>1, TwoHeld
<1>3. ASSUME Short(h \o tail) PROVE Parses(ty, h \o tail, m, n)
  <2>1. Short(h) /\ Short(tail)
    BY <1>1, <1>3, ConcatHolds, Zenon
  <2> QED
    BY <1>1, <1>3, <2>1, ParsesConcat, Zenon
<1> QED
  BY <1>2, <1>3, Zenon DEF Writes

\* A message that took a value of one of its fields.
LEMMA FieldIsSet ==
    ASSUME NEW ty, NEW f, NEW V, IsField(ty, f, V), NEW m \in MessagesOf(ty), NEW v \in V
    PROVE  /\ With(m, f, v) \in MessagesOf(ty) /\ m[f] \in V /\ With(m, f, m[f]) = m
           /\ \A z : With(m, f, Newer(v, z, m[f])) \in MessagesOf(ty)
<1>1. HasName(m, f) /\ HasField(MessagesOf(ty), f, V)
  BY Zenon DEF IsField
<1>2. m[f] \in V /\ \A w \in V : With(m, f, w) \in MessagesOf(ty)
  BY <1>1 DEF HasField, With
<1>3. With(m, f, m[f]) = m
  BY <1>1, WithTwice, Zenon
<1>4. \A z : Newer(v, z, m[f]) \in V
  BY <1>2, Zenon DEF Newer
<1> QED
  BY <1>2, <1>3, <1>4, Zenon

\* The fields in front of others, one lemma for each kind of them.
LEMMA UintWrites ==
    ASSUME NEW ty \in MessageTypes, NEW num \in 1..5, NEW f, IsUint(ty, num, f),
           IsField(ty, f, Word), NEW m \in MessagesOf(ty), NEW v \in Word,
           NEW tail, NEW size, NEW n, Writes(ty, tail, size, With(m, f, Newer(v, 0, m[f])), n)
    PROVE  Writes(ty, PutUint(8 * num, v, tail), SizeUint(v) + size, m, n)
<1> DEFINE h == UintBytes(8 * num, v)
           x == With(m, f, Newer(v, 0, m[f]))
<1>1. 8 * num \in Byte
  BY DEF Byte
<1>2. tail \in Seq(Byte)
  BY DEF Writes
<1>3. h \in Seq(Byte) /\ Len(h) = SizeUint(v) /\ PutUint(8 * num, v, tail) = h \o tail
  BY <1>1, <1>2, UintBytesAre
<1>4. x = IF v = 0 THEN m ELSE With(m, f, v)
  BY FieldIsSet, Zenon DEF Newer
<1>5. Short(h) => Parses(ty, h, m, x)
  BY <1>4, UintParses, Zenon
<1> HIDE DEF h, x
<1>6. Writes(ty, tail, size, x, n)
  BY DEF x
<1> QED
  BY <1>3, <1>5, <1>6, WritesFront

\* A bool in front of a tail, read after what came before.
LEMMA BoolWrites ==
    ASSUME NEW ty \in MessageTypes, NEW num \in 1..5, NEW f, IsBool(ty, num, f),
           IsField(ty, f, BOOLEAN), NEW m \in MessagesOf(ty), NEW v \in BOOLEAN,
           NEW tail, NEW size, NEW n, Writes(ty, tail, size, With(m, f, Newer(v, FALSE, m[f])), n)
    PROVE  Writes(ty, PutBool(8 * num, v, tail), SizeBool(v) + size, m, n)
<1> DEFINE h == BoolBytes(8 * num, v)
           x == With(m, f, Newer(v, FALSE, m[f]))
<1>1. 8 * num \in Byte
  BY DEF Byte
<1>2. tail \in Seq(Byte)
  BY DEF Writes
<1>3. h \in Seq(Byte) /\ Len(h) = SizeBool(v) /\ PutBool(8 * num, v, tail) = h \o tail
  BY <1>1, <1>2, BoolBytesAre
<1>4. x = IF v THEN With(m, f, TRUE) ELSE m
  BY FieldIsSet, Zenon DEF Newer
<1>5. Short(h) => Parses(ty, h, m, x)
  BY <1>4, BoolParses, Zenon
<1> HIDE DEF h, x
<1>6. Writes(ty, tail, size, x, n)
  BY DEF x
<1> QED
  BY <1>3, <1>5, <1>6, WritesFront

\* The same for a string or byte slice.
LEMMA BytesWrites ==
    ASSUME NEW ty \in MessageTypes, NEW num \in 1..5, NEW f, IsBytes(ty, num, f),
           IsField(ty, f, Seq(Byte)), NEW m \in MessagesOf(ty), NEW v \in Seq(Byte),
           NEW tail, NEW size, NEW n, Writes(ty, tail, size, With(m, f, Newer(v, <<>>, m[f])), n)
    PROVE  Writes(ty, PutBytes(8 * num + 2, v, tail), SizeBytes(v) + size, m, n)
<1> DEFINE h == BytesBytes(8 * num + 2, v)
           x == With(m, f, Newer(v, <<>>, m[f]))
<1>1. 8 * num + 2 \in Byte
  BY DEF Byte
<1>2. tail \in Seq(Byte)
  BY DEF Writes
<1>3. h \in Seq(Byte) /\ Len(h) = SizeBytes(v) /\ PutBytes(8 * num + 2, v, tail) = h \o tail
  BY <1>1, <1>2, BytesBytesAre
<1>4. x = IF v = <<>> THEN m ELSE With(m, f, v)
  BY FieldIsSet, Zenon DEF Newer
<1>5. Short(h) => Parses(ty, h, m, x)
  BY <1>4, BytesParses, Zenon
<1> HIDE DEF h, x
<1>6. Writes(ty, tail, size, x, n)
  BY DEF x
<1> QED
  BY <1>3, <1>5, <1>6, WritesFront

\* The same for a packed list, which is appended.
LEMMA PackedWrites ==
    ASSUME NEW ty \in MessageTypes, NEW num \in 1..5, NEW f, IsPacked(ty, num, f),
           IsField(ty, f, Seq(Word)), NEW m \in MessagesOf(ty), NEW v \in Seq(Word),
           NEW tail, NEW size, NEW n, Writes(ty, tail, size, With(m, f, m[f] \o v), n)
    PROVE  Writes(ty, PutPacked(8 * num + 2, v, tail), SizePacked(v) + size, m, n)
<1> DEFINE h == PackedBytes(8 * num + 2, v)
           x == With(m, f, m[f] \o v)
<1>1. 8 * num + 2 \in Byte
  BY DEF Byte
<1>2. tail \in Seq(Byte)
  BY DEF Writes
<1>3. h \in Seq(Byte) /\ Len(h) = SizePacked(v) /\ PutPacked(8 * num + 2, v, tail) = h \o tail
  BY <1>1, <1>2, PackedBytesAre
<1>4. HasName(m, f) /\ HasField(MessagesOf(ty), f, Seq(Word))
  BY Zenon DEF IsField
<1>5. Short(h) => Parses(ty, h, m, x)
  BY <1>4, PackedParses, Zenon
<1> HIDE DEF h, x
<1>6. Writes(ty, tail, size, x, n)
  BY DEF x
<1> QED
  BY <1>3, <1>5, <1>6, WritesFront

\* The same for the funds, which are appended.
LEMMA FundsWrites ==
    ASSUME NEW ty \in MessageTypes, NEW num \in 1..5, IsFunds(ty, num),
           IsField(ty, "Funds", Seq(Coins)), NEW m \in MessagesOf(ty), NEW v \in Seq(Coins),
           NEW tail, NEW size, NEW n, Writes(ty, tail, size, With(m, "Funds", m.Funds \o v), n)
    PROVE  Writes(ty, PutFunds(8 * num + 2, v, tail), SizeFunds(v) + size, m, n)
<1> DEFINE h == FundsBytes(8 * num + 2, v)
           x == With(m, "Funds", m.Funds \o v)
<1>1. 8 * num + 2 \in Byte
  BY DEF Byte
<1>2. tail \in Seq(Byte)
  BY DEF Writes
<1>3. h \in Seq(Byte) /\ Len(h) = SizeFunds(v) /\ PutFunds(8 * num + 2, v, tail) = h \o tail
  BY <1>1, <1>2, FundsBytesAre
<1>4. HasName(m, "Funds") /\ HasField(MessagesOf(ty), "Funds", Seq(Coins))
  BY Zenon DEF IsField
<1>5. Short(h) => Parses(ty, h, m, x)
  BY <1>4, FundsParses, Zenon
<1> HIDE DEF h, x
<1>6. Writes(ty, tail, size, x, n)
  BY DEF x
<1> QED
  BY <1>3, <1>5, <1>6, WritesFront

\* Parameters in another message. Written alone they turn the old ones, or an empty
\* message, into r.
LEMMA ParamsWrites ==
    ASSUME NEW ty \in MessageTypes, NEW num \in 1..5, IsParams(ty, num),
           IsField(ty, "Params", ParamsMessages \cup {Nil}), NEW m \in MessagesOf(ty),
           NEW v \in ParamsMessages \cup {Nil}, NEW r,
           v = Nil => r = m.Params,
           v # Nil => Writes("Params", Params_MarshalToSizedBuffer(v), Params_Size(v),
                             IF m.Params = Nil THEN EmptyParams ELSE m.Params, r),
           NEW tail, NEW size, NEW n, Writes(ty, tail, size, With(m, "Params", r), n)
    PROVE  Writes(ty, PutParams(8 * num + 2, v, tail), SizeParams(v) + size, m, n)
<1> DEFINE tag == 8 * num + 2
           x == With(m, "Params", r)
<1>1. tag \in Byte
  BY DEF Byte
<1>2. tail \in Seq(Byte) /\ Len(tail) = size
  BY DEF Writes
<1>3. CASE v = Nil
  <2>1. x = m
    BY <1>3, FieldIsSet
  <2>2. PutParams(tag, v, tail) = tail /\ SizeParams(v) = 0
    BY <1>3 DEF PutParams, SizeParams
  <2>3. 0 + size = size
    BY <1>2
  <2> QED
    BY <2>1, <2>2, <2>3, Zenon
<1>4. CASE v # Nil
  <2> DEFINE b == Params_MarshalToSizedBuffer(v)
             q == IF m.Params = Nil THEN EmptyParams ELSE m.Params
             h == PayloadBytes(tag, b)
  <2>1. Writes("Params", b, Params_Size(v), q, r)
    BY <1>4
  <2>2. b \in Seq(Byte) /\ Len(b) = Params_Size(v)
    BY <2>1 DEF Writes
  <2>3. m.Params \in ParamsMessages \cup {Nil}
    BY FieldIsSet
  <2>4. q \in ParamsMessages
    BY <2>3, EmptyParamsIsParams, Zenon
  <2> HIDE DEF b
  <2>5. h \in Seq(Byte) /\ Len(h) = SizePayload(Len(b)) /\ PutPayload(tag, b, tail) = h \o tail
    BY <1>1, <1>2, <2>2, PayloadBytesAre
  <2>6. PutParams(tag, v, tail) = h \o tail /\ SizeParams(v) = Len(h)
    BY <1>4, <2>2, <2>5, Zenon DEF PutParams, SizeParams, b
  <2>7. ASSUME Short(h) PROVE Parses(ty, h, m, x)
    <3> DEFINE M == MessagesOf(ty)
    <3>1. Short(b)
      BY <1>1, <2>2, <2>7, PayloadReads
    <3>2. Parses("Params", b, q, r)
      BY <2>1, <3>1, Zenon DEF Writes
    <3> QED
      BY <2>2, <2>4, <2>7, <3>2, ParamsParses
  <2> HIDE DEF h, x
  <2>8. Writes(ty, tail, size, x, n)
    BY DEF x
  <2>9. Writes(ty, h \o tail, Len(h) + size, m, n)
    BY <2>5, <2>7, <2>8, WritesFront
  <2> QED
    BY <2>6, <2>9
<1> QED
  BY <1>3, <1>4

\* The sizes are numbers.
LEMMA SizesAreNumbers ==
    /\ \A v \in Word : SizeUint(v) \in Nat
    /\ \A v \in BOOLEAN : SizeBool(v) \in Nat
    /\ \A v \in Seq(Byte) : SizeBytes(v) \in Nat
    /\ \A v \in Seq(Word) : SizePacked(v) \in Nat
    /\ \A v \in Seq(Coins) : SizeFunds(v) \in Nat
<1> DEFINE tag == 10
<1>1. tag \in Byte /\ <<>> \in Seq(Byte)
  BY DEF Byte
<1> HIDE DEF tag
<1>2. \A v \in Word : SizeUint(v) \in Nat
  BY <1>1, UintBytesAre, BytesHaveLength
<1>3. \A v \in BOOLEAN : SizeBool(v) \in Nat
  BY DEF SizeBool
<1>4. \A v \in Seq(Byte) : SizeBytes(v) \in Nat
  <2> TAKE v \in Seq(Byte)
  <2>1. BytesBytes(tag, v) \in Seq(Byte) /\ Len(BytesBytes(tag, v)) = SizeBytes(v)
    BY <1>1, BytesBytesAre
  <2> QED
    BY <2>1, BytesHaveLength, Zenon
<1>5. \A v \in Seq(Word) : SizePacked(v) \in Nat
  <2> TAKE v \in Seq(Word)
  <2>1. PackedBytes(tag, v) \in Seq(Byte) /\ Len(PackedBytes(tag, v)) = SizePacked(v)
    BY <1>1, PackedBytesAre
  <2> QED
    BY <2>1, BytesHaveLength, Zenon
<1>6. \A v \in Seq(Coins) : SizeFunds(v) \in Nat
  <2> TAKE v \in Seq(Coins)
  <2>1. FundsBytes(tag, v) \in Seq(Byte) /\ Len(FundsBytes(tag, v)) = SizeFunds(v)
    BY <1>1, FundsBytesAre
  <2> QED
    BY <2>1, BytesHaveLength, Zenon
<1> QED
  BY <1>2, <1>3, <1>4, <1>5, <1>6

\* The parameters q read into the parameters p.
MergedParams(p, q) ==
    [AllowAllCodeIDs |-> Newer(q.AllowAllCodeIDs, FALSE, p.AllowAllCodeIDs),
     AllowedCodeIDs |-> p.AllowedCodeIDs \o q.AllowedCodeIDs,
     MaxGasBefore |-> Newer(q.MaxGasBefore, 0, p.MaxGasBefore),
     MaxGasAfter |-> Newer(q.MaxGasAfter, 0, p.MaxGasAfter)]

\* Type AbstractAccount: its fields, and what is written for it.
LEMMA AbstractAccountHasFields ==
    LET ty == "AbstractAccount"
    IN  /\ ty \in MessageTypes
        /\ IsField(ty, "Address", Seq(Byte)) /\ IsBytes(ty, 1, "Address")
        /\ IsField(ty, "AccountNumber", Word) /\ IsUint(ty, 2, "AccountNumber")
        /\ IsField(ty, "Sequence", Word) /\ IsUint(ty, 3, "Sequence")
<1> DEFINE ty == "AbstractAccount"
<1>1. ty \in MessageTypes
  BY DEF MessageTypes, Empty
<1>2. /\ IsField(ty, "Address", Seq(Byte))
      /\ IsField(ty, "AccountNumber", Word)
      /\ IsField(ty, "Sequence", Word)
  BY DEF IsField, HasField, HasName, MessagesOf, Bytes
<1>3. \A s, d, t : Turn(ty, s, d, t) = AbstractAccount_Unmarshal(s, d, t)
  BY DEF Turn
<1>4. /\ IsBytes(ty, 1, "Address")
      /\ IsUint(ty, 2, "AccountNumber")
      /\ IsUint(ty, 3, "Sequence")
  BY <1>3 DEF IsBytes, IsUint, AbstractAccount_Unmarshal
<1> QED
  BY <1>1, <1>2, <1>4

\* What MarshalToSizedBuffer of AbstractAccount writes, read into a
\* message, merges the two.
LEMMA AbstractAccountWritten ==
    ASSUME NEW m \in MessagesOf("AbstractAccount"), NEW n \in MessagesOf("AbstractAccount")
    PROVE  Writes("AbstractAccount", AbstractAccount_MarshalToSizedBuffer(n),
                  AbstractAccount_Size(n), m,
                  [Address |-> Newer(n.Address, <<>>, m.Address),
                   AccountNumber |-> Newer(n.AccountNumber, 0, m.AccountNumber),
                   Sequence |-> Newer(n.Sequence, 0, m.Sequence)])
<1> DEFINE ty == "AbstractAccount"
           M == MessagesOf(ty)
           v1 == Newer(n.Address, <<>>, m.Address)
           m1 == With(m, "Address", v1)
           v2 == Newer(n.AccountNumber, 0, m1.AccountNumber)
           m2 == With(m1, "AccountNumber", v2)
           v3 == Newer(n.Sequence, 0, m2.Sequence)
           m3 == With(m2, "Sequence", v3)
           r == [Address |-> Newer(n.Address, <<>>, m.Address),
                 AccountNumber |-> Newer(n.AccountNumber, 0, m.AccountNumber),
                 Sequence |-> Newer(n.Sequence, 0, m.Sequence)]
           b3 == PutUint(24, n.Sequence, <<>>)
           s3 == SizeUint(n.Sequence) + 0
           b2 == PutUint(16, n.AccountNumber, b3)
           s2 == SizeUint(n.AccountNumber) + s3
           b1 == PutBytes(10, n.Address, b2)
           s1 == SizeBytes(n.Address) + s2
<1>1. /\ n.Address \in Seq(Byte)
      /\ n.AccountNumber \in Word
      /\ n.Sequence \in Word
  BY DEF MessagesOf, Bytes
<1>3. b1 = AbstractAccount_MarshalToSizedBuffer(n)
  BY DEF AbstractAccount_MarshalToSizedBuffer
<1>4. s1 = AbstractAccount_Size(n)
  BY <1>1, SizesAreNumbers DEF AbstractAccount_Size
<1>5. /\ m1 \in M /\ m1.Address = v1
      /\ m1.AccountNumber = m.AccountNumber /\ m1.Sequence = m.Sequence
  <2>1. m1 \in M
    BY <1>1, AbstractAccountHasFields, FieldIsSet
  <2> HIDE DEF v1
  <2>2. m \in M
    OBVIOUS
  <2>3. /\ m1.Address = v1
        /\ m1.AccountNumber = m.AccountNumber /\ m1.Sequence = m.Sequence
    BY <2>2 DEF MessagesOf, Bytes, With
  <2> QED
    BY <2>1, <2>3
<1> HIDE DEF m1
<1>6. /\ m2 \in M /\ m2.AccountNumber = v2
      /\ m2.Address = m1.Address /\ m2.Sequence = m1.Sequence
  <2>1. m2 \in M
    BY <1>1, <1>5, AbstractAccountHasFields, FieldIsSet
  <2> HIDE DEF v2
  <2>2. m1 \in M
    BY <1>5
  <2>3. /\ m2.AccountNumber = v2
        /\ m2.Address = m1.Address /\ m2.Sequence = m1.Sequence
    BY <2>2 DEF MessagesOf, Bytes, With
  <2> QED
    BY <2>1, <2>3
<1> HIDE DEF m2
<1>7. /\ m3 \in M /\ m3.Sequence = v3
      /\ m3.Address = m2.Address /\ m3.AccountNumber = m2.AccountNumber
  <2>1. m3 \in M
    BY <1>1, <1>6, AbstractAccountHasFields, FieldIsSet
  <2> HIDE DEF v3
  <2>2. m2 \in M
    BY <1>6
  <2>3. /\ m3.Sequence = v3
        /\ m3.Address = m2.Address /\ m3.AccountNumber = m2.AccountNumber
    BY <2>2 DEF MessagesOf, Bytes, With
  <2> QED
    BY <2>1, <2>3
<1> HIDE DEF m3
<1>2. m3 = r
  <2>1. /\ m3.Address = Newer(n.Address, <<>>, m.Address)
        /\ m3.AccountNumber = Newer(n.AccountNumber, 0, m.AccountNumber)
        /\ m3.Sequence = Newer(n.Sequence, 0, m.Sequence)
    BY <1>5, <1>6, <1>7
  <2>2. \A x \in M : x = [Address |-> x.Address, AccountNumber |-> x.AccountNumber, Sequence |-> x.Sequence]
    BY DEF MessagesOf, Bytes
  <2> HIDE DEF M
  <2> QED
    BY <1>7, <2>1, <2>2
<1>8. Writes(ty, <<>>, 0, m3, m3)
  BY NothingWrites
<1>9. Writes(ty, b3, s3, m2, m3)
  BY <1>1, <1>6, <1>8, AbstractAccountHasFields, UintWrites DEF m3
<1>10. Writes(ty, b2, s2, m1, m3)
  BY <1>1, <1>5, <1>9, AbstractAccountHasFields, UintWrites DEF m2
<1>11. Writes(ty, b1, s1, m, m3)
  BY <1>1, <1>10, AbstractAccountHasFields, BytesWrites DEF m1
<1> QED
  BY <1>2, <1>3, <1>4, <1>11

\* Type NilPubKey: its fields, and what is written for it.
LEMMA NilPubKeyHasFields ==
    LET ty == "NilPubKey"
    IN  /\ ty \in MessageTypes
        /\ IsField(ty, "AddressBytes", Seq(Byte)) /\ IsBytes(ty, 1, "AddressBytes")
<1> DEFINE ty == "NilPubKey"
<1>1. ty \in MessageTypes
  BY DEF MessageTypes, Empty
<1>2. /\ IsField(ty, "AddressBytes", Seq(Byte))
  BY DEF IsField, HasField, HasName, MessagesOf, Bytes
<1>3. \A s, d, t : Turn(ty, s, d, t) = NilPubKey_Unmarshal(s, d, t)
  BY DEF Turn
<1>4. /\ IsBytes(ty, 1, "AddressBytes")
  BY <1>3 DEF IsBytes, NilPubKey_Unmarshal
<1> QED
  BY <1>1, <1>2, <1>4

\* What MarshalToSizedBuffer of NilPubKey writes, read into a message, merges the two.
LEMMA NilPubKeyWritten ==
    ASSUME NEW m \in MessagesOf("NilPubKey"), NEW n \in MessagesOf("NilPubKey")
    PROVE  Writes("NilPubKey", NilPubKey_MarshalToSizedBuffer(n),
                  NilPubKey_Size(n), m,
                  [AddressBytes |-> Newer(n.AddressBytes, <<>>, m.AddressBytes)])
<1> DEFINE ty == "NilPubKey"
           M == MessagesOf(ty)
           v1 == Newer(n.AddressBytes, <<>>, m.AddressBytes)
           m1 == With(m, "AddressBytes", v1)
           r == [AddressBytes |-> Newer(n.AddressBytes, <<>>, m.AddressBytes)]
           b1 == PutBytes(10, n.AddressBytes, <<>>)
           s1 == SizeBytes(n.AddressBytes) + 0
<1>1. /\ n.AddressBytes \in Seq(Byte)
  BY DEF MessagesOf, Bytes
<1>3. b1 = NilPubKey_MarshalToSizedBuffer(n)
  BY DEF NilPubKey_MarshalToSizedBuffer
<1>4. s1 = NilPubKey_Size(n)
  BY <1>1, SizesAreNumbers DEF NilPubKey_Size
<1>5. /\ m1 \in M /\ m1.AddressBytes = v1
  <2>1. m1 \in M
    BY <1>1, NilPubKeyHasFields, FieldIsSet
  <2> HIDE DEF v1
  <2>2. m \in M
    OBVIOUS
  <2>3. /\ m1.AddressBytes = v1
    BY <2>2 DEF MessagesOf, Bytes, With
  <2> QED
    BY <2>1, <2>3
<1> HIDE DEF m1
<1>2. m1 = r
  <2>1. /\ m1.AddressBytes = Newer(n.AddressBytes, <<>>, m.AddressBytes)
    BY <1>5
  <2>2. \A x \in M : x = [AddressBytes |-> x.AddressBytes]
    BY DEF MessagesOf, Bytes
  <2> HIDE DEF M
  <2> QED
    BY <1>5, <2>1, <2>2
<1>6. Writes(ty, <<>>, 0, m1, m1)
  BY NothingWrites
<1>7. Writes(ty, b1, s1, m, m1)
  BY <1>1, <1>6, NilPubKeyHasFields, BytesWrites DEF m1
<1> QED
  BY <1>2, <1>3, <1>4, <1>7

\* Type EventAccountRegistered: its fields, and what is written for it.
LEMMA EventAccountRegisteredHasFields ==
    LET ty == "EventAccountRegistered"
    IN  /\ ty \in MessageTypes
        /\ IsField(ty, "Creator", Seq(Byte)) /\ IsBytes(ty, 1, "Creator")
        /\ IsField(ty, "CodeID", Word) /\ IsUint(ty, 2, "CodeID")
        /\ IsField(ty, "ContractAddr", Seq(Byte)) /\ IsBytes(ty, 3, "ContractAddr")
<1> DEFINE ty == "EventAccountRegistered"
<1>1. ty \in MessageTypes
  BY DEF MessageTypes, Empty
<1>2. /\ IsField(ty, "Creator", Seq(Byte))
      /\ IsField(ty, "CodeID", Word)
      /\ IsField(ty, "ContractAddr", Seq(Byte))
  BY DEF IsField, HasField, HasName, MessagesOf, Bytes
<1>3. \A s, d, t : Turn(ty, s, d, t) = EventAccountRegistered_Unmarshal(s, d, t)
  BY DEF Turn
<1>4. /\ IsBytes(ty, 1, "Creator")
      /\ IsUint(ty, 2, "CodeID")
      /\ IsBytes(ty, 3, "ContractAddr")
  BY <1>3 DEF IsBytes, IsUint, EventAccountRegistered_Unmarshal
<1> QED
  BY <1>1, <1>2, <1>4

\* What MarshalToSizedBuffer of EventAccountRegistered writes, read into a
\* message, merges the two.
LEMMA EventAccountRegisteredWritten ==
    ASSUME NEW m \in MessagesOf("EventAccountRegistered"),
           NEW n \in MessagesOf("EventAccountRegistered")
    PROVE  Writes("EventAccountRegistered", EventAccountRegistered_MarshalToSizedBuffer(n),
                  EventAccountRegistered_Size(n), m,
                  [Creator |-> Newer(n.Creator, <<>>, m.Creator),
                   CodeID |-> Newer(n.CodeID, 0, m.CodeID),
                   ContractAddr |-> Newer(n.ContractAddr, <<>>, m.ContractAddr)])
<1> DEFINE ty == "EventAccountRegistered"
           M == MessagesOf(ty)
           v1 == Newer(n.Creator, <<>>, m.Creator)
           m1 == With(m, "Creator", v1)
           v2 == Newer(n.CodeID, 0, m1.CodeID)
           m2 == With(m1, "CodeID", v2)
           v3 == Newer(n.ContractAddr, <<>>, m2.ContractAddr)
           m3 == With(m2, "ContractAddr", v3)
           r == [Creator |-> Newer(n.Creator, <<>>, m.Creator),
                 CodeID |-> Newer(n.CodeID, 0, m.CodeID),
                 ContractAddr |-> Newer(n.ContractAddr, <<>>, m.ContractAddr)]
           b3 == PutBytes(26, n.ContractAddr, <<>>)
           s3 == SizeBytes(n.ContractAddr) + 0
           b2 == PutUint(16, n.CodeID, b3)
           s2 == SizeUint(n.CodeID) + s3
           b1 == PutBytes(10, n.Creator, b2)
           s1 == SizeBytes(n.Creator) + s2
<1>1. /\ n.Creator \in Seq(Byte)
      /\ n.CodeID \in Word
      /\ n.ContractAddr \in Seq(Byte)
  BY DEF MessagesOf, Bytes
<1>3. b1 = EventAccountRegistered_MarshalToSizedBuffer(n)
  BY DEF EventAccountRegistered_MarshalToSizedBuffer
<1>4. s1 = EventAccountRegistered_Size(n)
  BY <1>1, SizesAreNumbers DEF EventAccountRegistered_Size
<1>5. /\ m1 \in M /\ m1.Creator = v1
      /\ m1.CodeID = m.CodeID /\ m1.ContractAddr = m.ContractAddr
  <2>1. m1 \in M
    BY <1>1, EventAccountRegisteredHasFields, FieldIsSet
  <2> HIDE DEF v1
  <2>2. m \in M
    OBVIOUS
  <2>3. /\ m1.Creator = v1
        /\ m1.CodeID = m.CodeID /\ m1.ContractAddr = m.ContractAddr
    BY <2>2 DEF MessagesOf, Bytes, With
  <2> QED
    BY <2>1, <2>3
<1> HIDE DEF m1
<1>6. /\ m2 \in M /\ m2.CodeID = v2
      /\ m2.Creator = m1.Creator /\ m2.ContractAddr = m1.ContractAddr
  <2>1. m2 \in M
    BY <1>1, <1>5, EventAccountRegisteredHasFields, FieldIsSet
  <2> HIDE DEF v2
  <2>2. m1 \in M
    BY <1>5
  <2>3. /\ m2.CodeID = v2
        /\ m2.Creator = m1.Creator /\ m2.ContractAddr = m1.ContractAddr
    BY <2>2 DEF MessagesOf, Bytes, With
  <2> QED
    BY <2>1, <2>3
<1> HIDE DEF m2
<1>7. /\ m3 \in M /\ m3.ContractAddr = v3
      /\ m3.Creator = m2.Creator /\ m3.CodeID = m2.CodeID
  <2>1. m3 \in M
    BY <1>1, <1>6, EventAccountRegisteredHasFields, FieldIsSet
  <2> HIDE DEF v3
  <2>2. m2 \in M
    BY <1>6
  <2>3. /\ m3.ContractAddr = v3
        /\ m3.Creator = m2.Creator /\ m3.CodeID = m2.CodeID
    BY <2>2 DEF MessagesOf, Bytes, With
  <2> QED
    BY <2>1, <2>3
<1> HIDE DEF m3
<1>2. m3 = r
  <2>1. /\ m3.Creator = Newer(n.Creator, <<>>, m.Creator)
        /\ m3.CodeID = Newer(n.CodeID, 0, m.CodeID)
        /\ m3.ContractAddr = Newer(n.ContractAddr, <<>>, m.ContractAddr)
    BY <1>5, <1>6, <1>7
  <2>2. \A x \in M : x = [Creator |-> x.Creator, CodeID |-> x.CodeID, ContractAddr |-> x.ContractAddr]
    BY DEF MessagesOf, Bytes
  <2> HIDE DEF M
  <2> QED
    BY <1>7, <2>1, <2>2
<1>8. Writes(ty, <<>>, 0, m3, m3)
  BY NothingWrites
<1>9. Writes(ty, b3, s3, m2, m3)
  BY <1>1, <1>6, <1>8, EventAccountRegisteredHasFields, BytesWrites DEF m3
<1>10. Writes(ty, b2, s2, m1, m3)
  BY <1>1, <1>5, <1>9, EventAccountRegisteredHasFields, UintWrites DEF m2
<1>11. Writes(ty, b1, s1, m, m3)
  BY <1>1, <1>10, EventAccountRegisteredHasFields, BytesWrites DEF m1
<1> QED
  BY <1>2, <1>3, <1>4, <1>11

\* Type Params: its fields, and what is written for it.
LEMMA ParamsHasFields ==
    LET ty == "Params"
    IN  /\ ty \in MessageTypes
        /\ IsField(ty, "AllowAllCodeIDs", BOOLEAN) /\ IsBool(ty, 1, "AllowAllCodeIDs")
        /\ IsField(ty, "AllowedCodeIDs", Seq(Word)) /\ IsPacked(ty, 2, "AllowedCodeIDs")
        /\ IsField(ty, "MaxGasBefore", Word) /\ IsUint(ty, 3, "MaxGasBefore")
        /\ IsField(ty, "MaxGasAfter", Word) /\ IsUint(ty, 4, "MaxGasAfter")
<1> DEFINE ty == "Params"
<1>1. ty \in MessageTypes
  BY DEF MessageTypes, Empty
<1>2. /\ IsField(ty, "AllowAllCodeIDs", BOOLEAN)
      /\ IsField(ty, "AllowedCodeIDs", Seq(Word))
      /\ IsField(ty, "MaxGasBefore", Word)
      /\ IsField(ty, "MaxGasAfter", Word)
  BY DEF IsField, HasField, HasName, MessagesOf, ParamsMessages
<1>3. \A s, d, t : Turn(ty, s, d, t) = Params_Unmarshal(s, d, t)
  BY DEF Turn
<1>5. MessagesOf(ty) = ParamsMessages
  BY DEF MessagesOf
<1>4. /\ IsBool(ty, 1, "AllowAllCodeIDs")
      /\ IsPacked(ty, 2, "AllowedCodeIDs")
      /\ IsUint(ty, 3, "MaxGasBefore")
      /\ IsUint(ty, 4, "MaxGasAfter")
  BY <1>3, <1>5 DEF IsBool, IsPacked, IsUint, Params_Unmarshal
<1> QED
  BY <1>1, <1>2, <1>4

\* What MarshalToSizedBuffer of Params writes, read into a message, merges the two.
LEMMA ParamsWritten ==
    ASSUME NEW m \in MessagesOf("Params"), NEW n \in MessagesOf("Params")
    PROVE  Writes("Params", Params_MarshalToSizedBuffer(n),
                  Params_Size(n), m,
                  MergedParams(m, n))
<1> DEFINE ty == "Params"
           M == MessagesOf(ty)
           v1 == Newer(n.AllowAllCodeIDs, FALSE, m.AllowAllCodeIDs)
           m1 == With(m, "AllowAllCodeIDs", v1)
           v2 == m1.AllowedCodeIDs \o n.AllowedCodeIDs
           m2 == With(m1, "AllowedCodeIDs", v2)
           v3 == Newer(n.MaxGasBefore, 0, m2.MaxGasBefore)
           m3 == With(m2, "MaxGasBefore", v3)
           v4 == Newer(n.MaxGasAfter, 0, m3.MaxGasAfter)
           m4 == With(m3, "MaxGasAfter", v4)
           r == [AllowAllCodeIDs |-> Newer(n.AllowAllCodeIDs, FALSE, m.AllowAllCodeIDs),
                 AllowedCodeIDs |-> m.AllowedCodeIDs \o n.AllowedCodeIDs,
                 MaxGasBefore |-> Newer(n.MaxGasBefore, 0, m.MaxGasBefore),
                 MaxGasAfter |-> Newer(n.MaxGasAfter, 0, m.MaxGasAfter)]
           b4 == PutUint(32, n.MaxGasAfter, <<>>)
           s4 == SizeUint(n.MaxGasAfter) + 0
           b3 == PutUint(24, n.MaxGasBefore, b4)
           s3 == SizeUint(n.MaxGasBefore) + s4
           b2 == PutPacked(18, n.AllowedCodeIDs, b3)
           s2 == SizePacked(n.AllowedCodeIDs) + s3
           b1 == PutBool(8, n.AllowAllCodeIDs, b2)
           s1 == SizeBool(n.AllowAllCodeIDs) + s2
<1>1. /\ n.AllowAllCodeIDs \in BOOLEAN
      /\ n.AllowedCodeIDs \in Seq(Word)
      /\ n.MaxGasBefore \in Word
      /\ n.MaxGasAfter \in Word
  BY DEF MessagesOf, ParamsMessages
<1>3. b1 = Params_MarshalToSizedBuffer(n)
  BY DEF Params_MarshalToSizedBuffer
<1>4. s1 = Params_Size(n)
  BY <1>1, SizesAreNumbers DEF Params_Size
<1>5. /\ m1 \in M /\ m1.AllowAllCodeIDs = v1
      /\ m1.AllowedCodeIDs = m.AllowedCodeIDs /\ m1.MaxGasBefore = m.MaxGasBefore
      /\ m1.MaxGasAfter = m.MaxGasAfter
  <2>1. m1 \in M
    BY <1>1, ParamsHasFields, FieldIsSet
  <2> HIDE DEF v1
  <2>2. m \in M
    OBVIOUS
  <2>3. /\ m1.AllowAllCodeIDs = v1
        /\ m1.AllowedCodeIDs = m.AllowedCodeIDs /\ m1.MaxGasBefore = m.MaxGasBefore
        /\ m1.MaxGasAfter = m.MaxGasAfter
    BY <2>2 DEF MessagesOf, ParamsMessages, With
  <2> QED
    BY <2>1, <2>3
<1> HIDE DEF m1
<1>6. /\ m2 \in M /\ m2.AllowedCodeIDs = v2
      /\ m2.AllowAllCodeIDs = m1.AllowAllCodeIDs /\ m2.MaxGasBefore = m1.MaxGasBefore
      /\ m2.MaxGasAfter = m1.MaxGasAfter
  <2>1. m2 \in M
    <3>1. m1.AllowedCodeIDs \in Seq(Word)
      BY <1>1, <1>5, ParamsHasFields, FieldIsSet
    <3>2. v2 \in Seq(Word)
      BY <1>1, <3>1
    <3> HIDE DEF v2
    <3> QED
      BY <3>2, <1>1, <1>5, ParamsHasFields, FieldIsSet
  <2> HIDE DEF v2
  <2>2. m1 \in M
    BY <1>5
  <2>3. /\ m2.AllowedCodeIDs = v2
        /\ m2.AllowAllCodeIDs = m1.AllowAllCodeIDs /\ m2.MaxGasBefore = m1.MaxGasBefore
        /\ m2.MaxGasAfter = m1.MaxGasAfter
    BY <2>2 DEF MessagesOf, ParamsMessages, With
  <2> QED
    BY <2>1, <2>3
<1> HIDE DEF m2
<1>7. /\ m3 \in M /\ m3.MaxGasBefore = v3
      /\ m3.AllowAllCodeIDs = m2.AllowAllCodeIDs /\ m3.AllowedCodeIDs = m2.AllowedCodeIDs
      /\ m3.MaxGasAfter = m2.MaxGasAfter
  <2>1. m3 \in M
    BY <1>1, <1>6, ParamsHasFields, FieldIsSet
  <2> HIDE DEF v3
  <2>2. m2 \in M
    BY <1>6
  <2>3. /\ m3.MaxGasBefore = v3
        /\ m3.AllowAllCodeIDs = m2.AllowAllCodeIDs /\ m3.AllowedCodeIDs = m2.AllowedCodeIDs
        /\ m3.MaxGasAfter = m2.MaxGasAfter
    BY <2>2 DEF MessagesOf, ParamsMessages, With
  <2> QED
    BY <2>1, <2>3
<1> HIDE DEF m3
<1>8. /\ m4 \in M /\ m4.MaxGasAfter = v4
      /\ m4.AllowAllCodeIDs = m3.AllowAllCodeIDs /\ m4.AllowedCodeIDs = m3.AllowedCodeIDs
      /\ m4.MaxGasBefore = m3.MaxGasBefore
  <2>1. m4 \in M
    BY <1>1, <1>7, ParamsHasFields, FieldIsSet
  <2> HIDE DEF v4
  <2>2. m3 \in M
    BY <1>7
  <2>3. /\ m4.MaxGasAfter = v4
        /\ m4.AllowAllCodeIDs = m3.AllowAllCodeIDs /\ m4.AllowedCodeIDs = m3.AllowedCodeIDs
        /\ m4.MaxGasBefore = m3.MaxGasBefore
    BY <2>2 DEF MessagesOf, ParamsMessages, With
  <2> QED
    BY <2>1, <2>3
<1> HIDE DEF m4
<1>2. m4 = r
  <2>1. /\ m4.AllowAllCodeIDs = Newer(n.AllowAllCodeIDs, FALSE, m.AllowAllCodeIDs)
        /\ m4.AllowedCodeIDs = m.AllowedCodeIDs \o n.AllowedCodeIDs
        /\ m4.MaxGasBefore = Newer(n.MaxGasBefore, 0, m.MaxGasBefore)
        /\ m4.MaxGasAfter = Newer(n.MaxGasAfter, 0, m.MaxGasAfter)
    BY <1>5, <1>6, <1>7, <1>8
  <2>2. \A x \in M :
            x = [AllowAllCodeIDs |-> x.AllowAllCodeIDs, AllowedCodeIDs |-> x.AllowedCodeIDs,
                 MaxGasBefore |-> x.MaxGasBefore, MaxGasAfter |-> x.MaxGasAfter]
    BY DEF MessagesOf, ParamsMessages
  <2> HIDE DEF M
  <2> QED
    BY <1>8, <2>1, <2>2
<1>9. Writes(ty, <<>>, 0, m4, m4)
  BY NothingWrites
<1>10. Writes(ty, b4, s4, m3, m4)
  BY <1>1, <1>7, <1>9, ParamsHasFields, UintWrites DEF m4
<1>11. Writes(ty, b3, s3, m2, m4)
  BY <1>1, <1>6, <1>10, ParamsHasFields, UintWrites DEF m3
<1>12. Writes(ty, b2, s2, m1, m4)
  BY <1>1, <1>5, <1>11, ParamsHasFields, PackedWrites DEF m2
<1>13. Writes(ty, b1, s1, m, m4)
  <2>1. 8 * 1 = 8 /\ 1 \in 1..5
    OBVIOUS
  <2>2. Writes(ty, b2, s2, With(m, "AllowAllCodeIDs", v1), m4)
    BY <1>12 DEF m1
  <2> HIDE DEF b2, s2
  <2>3. Writes(ty, PutBool(8 * 1, n.AllowAllCodeIDs, b2), SizeBool(n.AllowAllCodeIDs) + s2, m, m4)
    BY <1>1, <2>1, <2>2, ParamsHasFields, BoolWrites, Zenon
  <2> QED
    BY <2>1, <2>3, Zenon
<1> QED
  BY <1>2, <1>3, <1>4, <1>13 DEF MergedParams

\* Parameters read into empty ones are those parameters.
LEMMA FirstParams ==
    ASSUME NEW q \in ParamsMessages
    PROVE  MergedParams(EmptyParams, q) = q
<1>1. /\ EmptyParams.AllowAllCodeIDs = FALSE /\ EmptyParams.AllowedCodeIDs = <<>>
      /\ EmptyParams.MaxGasBefore = 0 /\ EmptyParams.MaxGasAfter = 0
  BY DEF EmptyParams
<1>2. \A v, z : Newer(v, z, z) = v
  BY Zenon DEF Newer
<1>3. q.AllowedCodeIDs \in Seq(Word)
  BY DEF ParamsMessages
<1>4. <<>> \o q.AllowedCodeIDs = q.AllowedCodeIDs
  BY <1>3, ConcatEmptySeq
<1>5. q = [AllowAllCodeIDs |-> q.AllowAllCodeIDs, AllowedCodeIDs |-> q.AllowedCodeIDs,
           MaxGasBefore |-> q.MaxGasBefore, MaxGasAfter |-> q.MaxGasAfter]
  BY DEF ParamsMessages
<1>6. MergedParams(EmptyParams, q) =
          [AllowAllCodeIDs |-> q.AllowAllCodeIDs, AllowedCodeIDs |-> q.AllowedCodeIDs,
           MaxGasBefore |-> q.MaxGasBefore, MaxGasAfter |-> q.MaxGasAfter]
  BY <1>1, <1>2, <1>4, Zenon DEF MergedParams
<1> QED
  BY <1>5, <1>6

\* A field of parameters after a second value v was read.
NewerParams(v, old) ==
    IF v = Nil THEN old ELSE MergedParams(IF old = Nil THEN EmptyParams ELSE old, v)

\* Merged parameters are parameters.
LEMMA NewerParamsIsParams ==
    ASSUME NEW v \in ParamsMessages \cup {Nil}, NEW old \in ParamsMessages \cup {Nil}
    PROVE  NewerParams(v, old) \in ParamsMessages \cup {Nil}
<1>1. ASSUME NEW p \in ParamsMessages, NEW q \in ParamsMessages
      PROVE  MergedParams(p, q) \in ParamsMessages
  <2>1. /\ p.AllowAllCodeIDs \in BOOLEAN /\ q.AllowAllCodeIDs \in BOOLEAN
        /\ p.AllowedCodeIDs \in Seq(Word) /\ q.AllowedCodeIDs \in Seq(Word)
        /\ p.MaxGasBefore \in Word /\ q.MaxGasBefore \in Word
        /\ p.MaxGasAfter \in Word /\ q.MaxGasAfter \in Word
    BY DEF ParamsMessages
  <2>2. \A V, z : \A a, b \in V : Newer(a, z, b) \in V
    BY Zenon DEF Newer
  <2>3. /\ Newer(q.AllowAllCodeIDs, FALSE, p.AllowAllCodeIDs) \in BOOLEAN
        /\ Newer(q.MaxGasBefore, 0, p.MaxGasBefore) \in Word
        /\ Newer(q.MaxGasAfter, 0, p.MaxGasAfter) \in Word
    BY <2>1, <2>2, Zenon
  <2>4. p.AllowedCodeIDs \o q.AllowedCodeIDs \in Seq(Word)
    BY <2>1
  <2> QED
    BY <2>3, <2>4, Zenon DEF MergedParams, ParamsMessages
<1> QED
  BY <1>1, EmptyParamsIsParams, Zenon DEF NewerParams

\* What is written of parameters and read into older ones merges the two.
LEMMA NewerParamsWritten ==
    ASSUME NEW v \in ParamsMessages \cup {Nil}, NEW old \in ParamsMessages \cup {Nil}
    PROVE  /\ v = Nil => NewerParams(v, old) = old
           /\ v # Nil => Writes("Params", Params_MarshalToSizedBuffer(v), Params_Size(v),
                                IF old = Nil THEN EmptyParams ELSE old, NewerParams(v, old))
<1>1. CASE v = Nil
  BY <1>1, Zenon DEF NewerParams
<1>2. CASE v # Nil
  <2> DEFINE q == IF old = Nil THEN EmptyParams ELSE old
  <2>1. q \in ParamsMessages /\ v \in ParamsMessages
    BY <1>2, EmptyParamsIsParams, Zenon
  <2>2. MessagesOf("Params") = ParamsMessages
    BY DEF MessagesOf
  <2>3. NewerParams(v, old) = MergedParams(q, v)
    BY <1>2, Zenon DEF NewerParams
  <2> HIDE DEF q
  <2>4. Writes("Params", Params_MarshalToSizedBuffer(v), Params_Size(v), q, MergedParams(q, v))
    BY <2>1, <2>2, ParamsWritten, Zenon
  <2> QED
    BY <1>2, <2>3, <2>4, Zenon DEF q
<1> QED
  BY <1>1, <1>2

\* The size of a field of parameters.
LEMMA SizeParamsIsNumber == \A v \in ParamsMessages \cup {Nil} : SizeParams(v) \in Nat
<1> SUFFICES ASSUME NEW v \in ParamsMessages \cup {Nil} PROVE SizeParams(v) \in Nat
  OBVIOUS
<1>1. CASE v = Nil
  BY <1>1 DEF SizeParams
<1>2. CASE v # Nil
  <2> DEFINE b == Params_MarshalToSizedBuffer(v)
             tag == 10
             h == PayloadBytes(tag, b)
  <2>1. tag \in Byte /\ <<>> \in Seq(Byte)
    BY DEF Byte
  <2>2. Writes("Params", b, Params_Size(v), EmptyParams, NewerParams(v, Nil))
    BY <1>2, NewerParamsWritten
  <2>3. b \in Seq(Byte) /\ Len(b) = Params_Size(v)
    BY <2>2, Zenon DEF Writes
  <2> HIDE DEF tag, b
  <2>4. h \in Seq(Byte) /\ Len(h) = SizePayload(Len(b))
    BY <2>1, <2>3, PayloadBytesAre
  <2> HIDE DEF h
  <2>5. SizeParams(v) = Len(h)
    BY <1>2, <2>3, <2>4, Zenon DEF SizeParams
  <2> QED
    BY <2>4, <2>5, BytesHaveLength, Zenon
<1> QED
  BY <1>1, <1>2

\* Type GenesisState: its fields, and what is written for it.
LEMMA GenesisStateHasFields ==
    LET ty == "GenesisState"
    IN  /\ ty \in MessageTypes
        /\ IsField(ty, "Params", ParamsMessages \cup {Nil}) /\ IsParams(ty, 1)
        /\ IsField(ty, "NextAccountId", Word) /\ IsUint(ty, 2, "NextAccountId")
<1> DEFINE ty == "GenesisState"
<1>1. ty \in MessageTypes
  BY DEF MessageTypes, Empty
<1>2. /\ IsField(ty, "Params", ParamsMessages \cup {Nil})
      /\ IsField(ty, "NextAccountId", Word)
  BY DEF IsField, HasField, HasName, MessagesOf
<1>3. \A s, d, t : Turn(ty, s, d, t) = GenesisState_Unmarshal(s, d, t)
  BY DEF Turn
<1>4. /\ IsParams(ty, 1)
      /\ IsUint(ty, 2, "NextAccountId")
  BY <1>3 DEF IsParams, IsUint, GenesisState_Unmarshal
<1> QED
  BY <1>1, <1>2, <1>4

\* What MarshalToSizedBuffer of GenesisState writes, read into a message, merges the two.
LEMMA GenesisStateWritten ==
    ASSUME NEW m \in MessagesOf("GenesisState"), NEW n \in MessagesOf("GenesisState")
    PROVE  Writes("GenesisState", GenesisState_MarshalToSizedBuffer(n),
                  GenesisState_Size(n), m,
                  [Params |-> NewerParams(n.Params, m.Params),
                   NextAccountId |-> Newer(n.NextAccountId, 0, m.NextAccountId)])
<1> DEFINE ty == "GenesisState"
           M == MessagesOf(ty)
           v1 == NewerParams(n.Params, m.Params)
           m1 == With(m, "Params", v1)
           v2 == Newer(n.NextAccountId, 0, m1.NextAccountId)
           m2 == With(m1, "NextAccountId", v2)
           r == [Params |-> NewerParams(n.Params, m.Params),
                 NextAccountId |-> Newer(n.NextAccountId, 0, m.NextAccountId)]
           b2 == PutUint(16, n.NextAccountId, <<>>)
           s2 == SizeUint(n.NextAccountId) + 0
           b1 == PutParams(10, n.Params, b2)
           s1 == SizeParams(n.Params) + s2
<1>1. /\ n.Params \in ParamsMessages \cup {Nil}
      /\ n.NextAccountId \in Word
  BY DEF MessagesOf
<1>3. b1 = GenesisState_MarshalToSizedBuffer(n)
  BY DEF GenesisState_MarshalToSizedBuffer
<1>4. s1 = GenesisState_Size(n)
  BY <1>1, SizesAreNumbers, SizeParamsIsNumber DEF GenesisState_Size
<1>5. /\ m1 \in M /\ m1.Params = v1
      /\ m1.NextAccountId = m.NextAccountId
  <2>1. m1 \in M
    <3>1. m.Params \in ParamsMessages \cup {Nil}
      BY <1>1, GenesisStateHasFields, FieldIsSet
    <3>2. v1 \in ParamsMessages \cup {Nil}
      BY <1>1, <3>1, NewerParamsIsParams, Zenon
    <3> HIDE DEF v1
    <3> QED
      BY <3>2, <1>1, GenesisStateHasFields, FieldIsSet
  <2> HIDE DEF v1
  <2>2. m \in M
    OBVIOUS
  <2>3. /\ m1.Params = v1
        /\ m1.NextAccountId = m.NextAccountId
    BY <2>2 DEF MessagesOf, With
  <2> QED
    BY <2>1, <2>3
<1> HIDE DEF m1
<1>6. /\ m2 \in M /\ m2.NextAccountId = v2
      /\ m2.Params = m1.Params
  <2>1. m2 \in M
    BY <1>1, <1>5, GenesisStateHasFields, FieldIsSet
  <2> HIDE DEF v2
  <2>2. m1 \in M
    BY <1>5
  <2>3. /\ m2.NextAccountId = v2
        /\ m2.Params = m1.Params
    BY <2>2 DEF MessagesOf, With
  <2> QED
    BY <2>1, <2>3
<1> HIDE DEF m2
<1>2. m2 = r
  <2>1. /\ m2.Params = NewerParams(n.Params, m.Params)
        /\ m2.NextAccountId = Newer(n.NextAccountId, 0, m.NextAccountId)
    BY <1>5, <1>6
  <2>2. \A x \in M : x = [Params |-> x.Params, NextAccountId |-> x.NextAccountId]
    BY DEF MessagesOf
  <2> HIDE DEF M
  <2> QED
    BY <1>6, <2>1, <2>2
<1>7. Writes(ty, <<>>, 0, m2, m2)
  BY NothingWrites
<1>8. Writes(ty, b2, s2, m1, m2)
  BY <1>1, <1>5, <1>7, GenesisStateHasFields, UintWrites DEF m2
<1>9. Writes(ty, b1, s1, m, m2)
  <2>1. m.Params \in ParamsMessages \cup {Nil}
    BY <1>1, GenesisStateHasFields, FieldIsSet
  <2>2. /\ n.Params = Nil => v1 = m.Params
        /\ n.Params # Nil => Writes("Params", Params_MarshalToSizedBuffer(n.Params),
                                    Params_Size(n.Params),
                                   IF m.Params = Nil THEN EmptyParams ELSE m.Params, v1)
    BY <1>1, <2>1, NewerParamsWritten
  <2> HIDE DEF v1
  <2>3. 8 * 1 + 2 = 10 /\ 1 \in 1..5 /\ m \in M
    OBVIOUS
  <2>4. Writes(ty, b2, s2, With(m, "Params", v1), m2)
    BY <1>8 DEF m1
  <2> HIDE DEF b2, s2
  <2>5. Writes(ty, PutParams(8 * 1 + 2, n.Params, b2), SizeParams(n.Params) + s2, m, m2)
    BY <1>1, <2>2, <2>3, <2>4, GenesisStateHasFields, ParamsWrites, Zenon
  <2> QED
    BY <2>3, <2>5, Zenon
<1> QED
  BY <1>2, <1>3, <1>4, <1>9

\* Type QueryParamsResponse: its fields, and what is written for it.
LEMMA QueryParamsResponseHasFields ==
    LET ty == "QueryParamsResponse"
    IN  /\ ty \in MessageTypes
        /\ IsField(ty, "Params", ParamsMessages \cup {Nil}) /\ IsParams(ty, 1)
<1> DEFINE ty == "QueryParamsResponse"
<1>1. ty \in MessageTypes
  BY DEF MessageTypes, Empty
<1>2. /\ IsField(ty, "Params", ParamsMessages \cup {Nil})
  BY DEF IsField, HasField, HasName, MessagesOf
<1>3. \A s, d, t : Turn(ty, s, d, t) = QueryParamsResponse_Unmarshal(s, d, t)
  BY DEF Turn
<1>4. /\ IsParams(ty, 1)
  BY <1>3 DEF IsParams, QueryParamsResponse_Unmarshal
<1> QED
  BY <1>1, <1>2, <1>4

\* What MarshalToSizedBuffer of QueryParamsResponse writes, read into a
\* message, merges the two.
LEMMA QueryParamsResponseWritten ==
    ASSUME NEW m \in MessagesOf("QueryParamsResponse"),
           NEW n \in MessagesOf("QueryParamsResponse")
    PROVE  Writes("QueryParamsResponse", QueryParamsResponse_MarshalToSizedBuffer(n),
                  QueryParamsResponse_Size(n), m,
                  [Params |-> NewerParams(n.Params, m.Params)])
<1> DEFINE ty == "QueryParamsResponse"
           M == MessagesOf(ty)
           v1 == NewerParams(n.Params, m.Params)
           m1 == With(m, "Params", v1)
           r == [Params |-> NewerParams(n.Params, m.Params)]
           b1 == PutParams(10, n.Params, <<>>)
           s1 == SizeParams(n.Params) + 0
<1>1. /\ n.Params \in ParamsMessages \cup {Nil}
  BY DEF MessagesOf
<1>3. b1 = QueryParamsResponse_MarshalToSizedBuffer(n)
  BY DEF QueryParamsResponse_MarshalToSizedBuffer
<1>4. s1 = QueryParamsResponse_Size(n)
  BY <1>1, SizesAreNumbers, SizeParamsIsNumber DEF QueryParamsResponse_Size
<1>5. /\ m1 \in M /\ m1.Params = v1
  <2>1. m1 \in M
    <3>1. m.Params \in ParamsMessages \cup {Nil}
      BY <1>1, QueryParamsResponseHasFields, FieldIsSet
    <3>2. v1 \in ParamsMessages \cup {Nil}
      BY <1>1, <3>1, NewerParamsIsParams, Zenon
    <3> HIDE DEF v1
    <3> QED
      BY <3>2, <1>1, QueryParamsResponseHasFields, FieldIsSet
  <2> HIDE DEF v1
  <2>2. m \in M
    OBVIOUS
  <2>3. /\ m1.Params = v1
    BY <2>2 DEF MessagesOf, With
  <2> QED
    BY <2>1, <2>3
<1> HIDE DEF m1
<1>2. m1 = r
  <2>1. /\ m1.Params = NewerParams(n.Params, m.Params)
    BY <1>5
  <2>2. \A x \in M : x = [Params |-> x.Params]
    BY DEF MessagesOf
  <2> HIDE DEF M
  <2> QED
    BY <1>5, <2>1, <2>2
<1>6. Writes(ty, <<>>, 0, m1, m1)
  BY NothingWrites
<1>7. Writes(ty, b1, s1, m, m1)
  <2>1. m.Params \in ParamsMessages \cup {Nil}
    BY <1>1, QueryParamsResponseHasFields, FieldIsSet
  <2>2. /\ n.Params = Nil => v1 = m.Params
        /\ n.Params # Nil => Writes("Params", Params_MarshalToSizedBuffer(n.Params),
                                    Params_Size(n.Params),
                                   IF m.Params = Nil THEN EmptyParams ELSE m.Params, v1)
    BY <1>1, <2>1, NewerParamsWritten
  <2> HIDE DEF v1
  <2>3. 8 * 1 + 2 = 10 /\ 1 \in 1..5 /\ m \in M
    OBVIOUS
  <2>4. Writes(ty, <<>>, 0, With(m, "Params", v1), m1)
    BY <1>6 DEF m1
  <2>5. Writes(ty, PutParams(8 * 1 + 2, n.Params, <<>>), SizeParams(n.Params) + 0, m, m1)
    BY <1>1, <2>2, <2>3, <2>4, QueryParamsResponseHasFields, ParamsWrites, Zenon
  <2> QED
    BY <2>3, <2>5, Zenon
<1> QED
  BY <1>2, <1>3, <1>4, <1>7

\* Type MsgUpdateParams: its fields, and what is written for it.
LEMMA MsgUpdateParamsHasFields ==
    LET ty == "MsgUpdateParams"
    IN  /\ ty \in MessageTypes
        /\ IsField(ty, "Sender", Seq(Byte)) /\ IsBytes(ty, 1, "Sender")
        /\ IsField(ty, "Params", ParamsMessages \cup {Nil}) /\ IsParams(ty, 2)
<1> DEFINE ty == "MsgUpdateParams"
<1>1. ty \in MessageTypes
  BY DEF MessageTypes, Empty
<1>2. /\ IsField(ty, "Sender", Seq(Byte))
      /\ IsField(ty, "Params", ParamsMessages \cup {Nil})
  BY DEF IsField, HasField, HasName, MessagesOf, Bytes
<1>3. \A s, d, t : Turn(ty, s, d, t) = MsgUpdateParams_Unmarshal(s, d, t)
  BY DEF Turn
<1>4. /\ IsBytes(ty, 1, "Sender")
      /\ IsParams(ty, 2)
  BY <1>3 DEF IsBytes, IsParams, MsgUpdateParams_Unmarshal
<1> QED
  BY <1>1, <1>2, <1>4

\* What MarshalToSizedBuffer of MsgUpdateParams writes, read into a
\* message, merges the two.
LEMMA MsgUpdateParamsWritten ==
    ASSUME NEW m \in MessagesOf("MsgUpdateParams"), NEW n \in MessagesOf("MsgUpdateParams")
    PROVE  Writes("MsgUpdateParams", MsgUpdateParams_MarshalToSizedBuffer(n),
                  MsgUpdateParams_Size(n), m,
                  [Sender |-> Newer(n.Sender, <<>>, m.Sender),
                   Params |-> NewerParams(n.Params, m.Params)])
<1> DEFINE ty == "MsgUpdateParams"
           M == MessagesOf(ty)
           v1 == Newer(n.Sender, <<>>, m.Sender)
           m1 == With(m, "Sender", v1)
           v2 == NewerParams(n.Params, m1.Params)
           m2 == With(m1, "Params", v2)
           r == [Sender |-> Newer(n.Sender, <<>>, m.Sender),
                 Params |-> NewerParams(n.Params, m.Params)]
           b2 == PutParams(18, n.Params, <<>>)
           s2 == SizeParams(n.Params) + 0
           b1 == PutBytes(10, n.Sender, b2)
           s1 == SizeBytes(n.Sender) + s2
<1>1. /\ n.Sender \in Seq(Byte)
      /\ n.Params \in ParamsMessages \cup {Nil}
  BY DEF MessagesOf, Bytes
<1>3. b1 = MsgUpdateParams_MarshalToSizedBuffer(n)
  BY DEF MsgUpdateParams_MarshalToSizedBuffer
<1>4. s1 = MsgUpdateParams_Size(n)
  BY <1>1, SizesAreNumbers, SizeParamsIsNumber DEF MsgUpdateParams_Size
<1>5. /\ m1 \in M /\ m1.Sender = v1
      /\ m1.Params = m.Params
  <2>1. m1 \in M
    BY <1>1, MsgUpdateParamsHasFields, FieldIsSet
  <2> HIDE DEF v1
  <2>2. m \in M
    OBVIOUS
  <2>3. /\ m1.Sender = v1
        /\ m1.Params = m.Params
    BY <2>2 DEF MessagesOf, Bytes, With
  <2> QED
    BY <2>1, <2>3
<1> HIDE DEF m1
<1>6. /\ m2 \in M /\ m2.Params = v2
      /\ m2.Sender = m1.Sender
  <2>1. m2 \in M
    <3>1. m1.Params \in ParamsMessages \cup {Nil}
      BY <1>1, <1>5, MsgUpdateParamsHasFields, FieldIsSet
    <3>2. v2 \in ParamsMessages \cup {Nil}
      BY <1>1, <3>1, NewerParamsIsParams, Zenon
    <3> HIDE DEF v2
    <3> QED
      BY <3>2, <1>1, <1>5, MsgUpdateParamsHasFields, FieldIsSet
  <2> HIDE DEF v2
  <2>2. m1 \in M
    BY <1>5
  <2>3. /\ m2.Params = v2
        /\ m2.Sender = m1.Sender
    BY <2>2 DEF MessagesOf, Bytes, With
  <2> QED
    BY <2>1, <2>3
<1> HIDE DEF m2
<1>2. m2 = r
  <2>1. /\ m2.Sender = Newer(n.Sender, <<>>, m.Sender)
        /\ m2.Params = NewerParams(n.Params, m.Params)
    BY <1>5, <1>6
  <2>2. \A x \in M :
            x = [Sender |-> x.Sender, Params |-> x.Params]
    BY DEF MessagesOf, Bytes
  <2> HIDE DEF M
  <2> QED
    BY <1>6, <2>1, <2>2
<1>7. Writes(ty, <<>>, 0, m2, m2)
  BY NothingWrites
<1>8. Writes(ty, b2, s2, m1, m2)
  <2>1. m1.Params \in ParamsMessages \cup {Nil}
    BY <1>1, <1>5, MsgUpdateParamsHasFields, FieldIsSet
  <2>2. /\ n.Params = Nil => v2 = m1.Params
        /\ n.Params # Nil => Writes("Params", Params_MarshalToSizedBuffer(n.Params),
                                    Params_Size(n.Params),
                                   IF m1.Params = Nil THEN EmptyParams ELSE m1.Params, v2)
    BY <1>1, <2>1, NewerParamsWritten
  <2> HIDE DEF v2
  <2>3. 8 * 2 + 2 = 18 /\ 2 \in 1..5 /\ m1 \in M
    BY <1>5
  <2>4. Writes(ty, <<>>, 0, With(m1, "Params", v2), m2)
    BY <1>7 DEF m2
  <2>5. Writes(ty, PutParams(8 * 2 + 2, n.Params, <<>>), SizeParams(n.Params) + 0, m1, m2)
    BY <1>1, <2>2, <2>3, <2>4, MsgUpdateParamsHasFields, ParamsWrites, Zenon
  <2> QED
    BY <2>3, <2>5, Zenon
<1>9. Writes(ty, b1, s1, m, m2)
  BY <1>1, <1>8, MsgUpdateParamsHasFields, BytesWrites DEF m1
<1> QED
  BY <1>2, <1>3, <1>4, <1>9

\* Type MsgRegisterAccount: its fields, and what is written for it.
LEMMA MsgRegisterAccountHasFields ==
    LET ty == "MsgRegisterAccount"
    IN  /\ ty \in MessageTypes
        /\ IsField(ty, "Sender", Seq(Byte)) /\ IsBytes(ty, 1, "Sender")
        /\ IsField(ty, "CodeID", Word) /\ IsUint(ty, 2, "CodeID")
        /\ IsField(ty, "Msg", Seq(Byte)) /\ IsBytes(ty, 3, "Msg")
        /\ IsField(ty, "Funds", Seq(Coins)) /\ IsFunds(ty, 4)
        /\ IsField(ty, "Salt", Seq(Byte)) /\ IsBytes(ty, 5, "Salt")
<1> DEFINE ty == "MsgRegisterAccount"
<1>1. ty \in MessageTypes
  BY DEF MessageTypes, Empty
<1>2. /\ IsField(ty, "Sender", Seq(Byte))
      /\ IsField(ty, "CodeID", Word)
      /\ IsField(ty, "Msg", Seq(Byte))
      /\ IsField(ty, "Funds", Seq(Coins))
      /\ IsField(ty, "Salt", Seq(Byte))
  BY DEF IsField, HasField, HasName, MessagesOf, Bytes
<1>3. \A s, d, t : Turn(ty, s, d, t) = MsgRegisterAccount_Unmarshal(s, d, t)
  BY DEF Turn
<1>4. /\ IsBytes(ty, 1, "Sender")
      /\ IsUint(ty, 2, "CodeID")
      /\ IsBytes(ty, 3, "Msg")
      /\ IsFunds(ty, 4)
      /\ IsBytes(ty, 5, "Salt")
  BY <1>3 DEF IsBytes, IsUint, IsFunds, MsgRegisterAccount_Unmarshal
<1> QED
  BY <1>1, <1>2, <1>4

\* What MarshalToSizedBuffer of MsgRegisterAccount writes, read into a
\* message, merges the two.
LEMMA MsgRegisterAccountWritten ==
    ASSUME NEW m \in MessagesOf("MsgRegisterAccount"), NEW n \in MessagesOf("MsgRegisterAccount")
    PROVE  Writes("MsgRegisterAccount", MsgRegisterAccount_MarshalToSizedBuffer(n),
                  MsgRegisterAccount_Size(n), m,
                  [Sender |-> Newer(n.Sender, <<>>, m.Sender),
                   CodeID |-> Newer(n.CodeID, 0, m.CodeID),
                   Msg |-> Newer(n.Msg, <<>>, m.Msg),
                   Funds |-> m.Funds \o n.Funds,
                   Salt |-> Newer(n.Salt, <<>>, m.Salt)])
<1> DEFINE ty == "MsgRegisterAccount"
           M == MessagesOf(ty)
           v1 == Newer(n.Sender, <<>>, m.Sender)
           m1 == With(m, "Sender", v1)
           v2 == Newer(n.CodeID, 0, m1.CodeID)
           m2 == With(m1, "CodeID", v2)
           v3 == Newer(n.Msg, <<>>, m2.Msg)
           m3 == With(m2, "Msg", v3)
           v4 == m3.Funds \o n.Funds
           m4 == With(m3, "Funds", v4)
           v5 == Newer(n.Salt, <<>>, m4.Salt)
           m5 == With(m4, "Salt", v5)
           r == [Sender |-> Newer(n.Sender, <<>>, m.Sender),
                 CodeID |-> Newer(n.CodeID, 0, m.CodeID),
                 Msg |-> Newer(n.Msg, <<>>, m.Msg),
                 Funds |-> m.Funds \o n.Funds,
                 Salt |-> Newer(n.Salt, <<>>, m.Salt)]
           b5 == PutBytes(42, n.Salt, <<>>)
           s5 == SizeBytes(n.Salt) + 0
           b4 == PutFunds(34, n.Funds, b5)
           s4 == SizeFunds(n.Funds) + s5
           b3 == PutBytes(26, n.Msg, b4)
           s3 == SizeBytes(n.Msg) + s4
           b2 == PutUint(16, n.CodeID, b3)
           s2 == SizeUint(n.CodeID) + s3
           b1 == PutBytes(10, n.Sender, b2)
           s1 == SizeBytes(n.Sender) + s2
<1>1. /\ n.Sender \in Seq(Byte)
      /\ n.CodeID \in Word
      /\ n.Msg \in Seq(Byte)
      /\ n.Funds \in Seq(Coins)
      /\ n.Salt \in Seq(Byte)
  BY DEF MessagesOf, Bytes
<1>3. b1 = MsgRegisterAccount_MarshalToSizedBuffer(n)
  BY DEF MsgRegisterAccount_MarshalToSizedBuffer
<1>4. s1 = MsgRegisterAccount_Size(n)
  BY <1>1, SizesAreNumbers DEF MsgRegisterAccount_Size
<1>5. /\ m1 \in M /\ m1.Sender = v1
      /\ m1.CodeID = m.CodeID /\ m1.Msg = m.Msg /\ m1.Funds = m.Funds /\ m1.Salt = m.Salt
  <2>1. m1 \in M
    BY <1>1, MsgRegisterAccountHasFields, FieldIsSet
  <2> HIDE DEF v1
  <2>2. m \in M
    OBVIOUS
  <2>3. /\ m1.Sender = v1
        /\ m1.CodeID = m.CodeID /\ m1.Msg = m.Msg /\ m1.Funds = m.Funds /\ m1.Salt = m.Salt
    BY <2>2 DEF MessagesOf, Bytes, With
  <2> QED
    BY <2>1, <2>3
<1> HIDE DEF m1
<1>6. /\ m2 \in M /\ m2.CodeID = v2
      /\ m2.Sender = m1.Sender /\ m2.Msg = m1.Msg /\ m2.Funds = m1.Funds /\ m2.Salt = m1.Salt
  <2>1. m2 \in M
    BY <1>1, <1>5, MsgRegisterAccountHasFields, FieldIsSet
  <2> HIDE DEF v2
  <2>2. m1 \in M
    BY <1>5
  <2>3. /\ m2.CodeID = v2
        /\ m2.Sender = m1.Sender /\ m2.Msg = m1.Msg /\ m2.Funds = m1.Funds /\ m2.Salt = m1.Salt
    BY <2>2 DEF MessagesOf, Bytes, With
  <2> QED
    BY <2>1, <2>3
<1> HIDE DEF m2
<1>7. /\ m3 \in M /\ m3.Msg = v3
      /\ m3.Sender = m2.Sender /\ m3.CodeID = m2.CodeID /\ m3.Funds = m2.Funds
      /\ m3.Salt = m2.Salt
  <2>1. m3 \in M
    BY <1>1, <1>6, MsgRegisterAccountHasFields, FieldIsSet
  <2> HIDE DEF v3
  <2>2. m2 \in M
    BY <1>6
  <2>3. /\ m3.Msg = v3
        /\ m3.Sender = m2.Sender /\ m3.CodeID = m2.CodeID /\ m3.Funds = m2.Funds
        /\ m3.Salt = m2.Salt
    BY <2>2 DEF MessagesOf, Bytes, With
  <2> QED
    BY <2>1, <2>3
<1> HIDE DEF m3
<1>8. /\ m4 \in M /\ m4.Funds = v4
      /\ m4.Sender = m3.Sender /\ m4.CodeID = m3.CodeID /\ m4.Msg = m3.Msg /\ m4.Salt = m3.Salt
  <2>1. m4 \in M
    <3>1. m3.Funds \in Seq(Coins)
      BY <1>1, <1>7, MsgRegisterAccountHasFields, FieldIsSet
    <3>2. v4 \in Seq(Coins)
      BY <1>1, <3>1
    <3> HIDE DEF v4
    <3> QED
      BY <3>2, <1>1, <1>7, MsgRegisterAccountHasFields, FieldIsSet
  <2> HIDE DEF v4
  <2>2. m3 \in M
    BY <1>7
  <2>3. /\ m4.Funds = v4
        /\ m4.Sender = m3.Sender /\ m4.CodeID = m3.CodeID /\ m4.Msg = m3.Msg /\ m4.Salt = m3.Salt
    BY <2>2 DEF MessagesOf, Bytes, With
  <2> QED
    BY <2>1, <2>3
<1> HIDE DEF m4
<1>9. /\ m5 \in M /\ m5.Salt = v5
      /\ m5.Sender = m4.Sender /\ m5.CodeID = m4.CodeID /\ m5.Msg = m4.Msg /\ m5.Funds = m4.Funds
  <2>1. m5 \in M
    BY <1>1, <1>8, MsgRegisterAccountHasFields, FieldIsSet
  <2> HIDE DEF v5
  <2>2. m4 \in M
    BY <1>8
  <2>3. /\ m5.Salt = v5
        /\ m5.Sender = m4.Sender /\ m5.CodeID = m4.CodeID /\ m5.Msg = m4.Msg
        /\ m5.Funds = m4.Funds
    BY <2>2 DEF MessagesOf, Bytes, With
  <2> QED
    BY <2>1, <2>3
<1> HIDE DEF m5
<1>2. m5 = r
  <2>1. /\ m5.Sender = Newer(n.Sender, <<>>, m.Sender)
        /\ m5.CodeID = Newer(n.CodeID, 0, m.CodeID)
        /\ m5.Msg = Newer(n.Msg, <<>>, m.Msg)
        /\ m5.Funds = m.Funds \o n.Funds
        /\ m5.Salt = Newer(n.Salt, <<>>, m.Salt)
    BY <1>5, <1>6, <1>7, <1>8, <1>9
  <2>2. \A x \in M :
            x = [Sender |-> x.Sender, CodeID |-> x.CodeID, Msg |-> x.Msg, Funds |-> x.Funds, Salt |-> x.Salt]
    BY DEF MessagesOf, Bytes
  <2> HIDE DEF M
  <2> QED
    BY <1>9, <2>1, <2>2
<1>10. Writes(ty, <<>>, 0, m5, m5)
  BY NothingWrites
<1>11. Writes(ty, b5, s5, m4, m5)
  BY <1>1, <1>8, <1>10, MsgRegisterAccountHasFields, BytesWrites DEF m5
<1>12. Writes(ty, b4, s4, m3, m5)
  BY <1>1, <1>7, <1>11, MsgRegisterAccountHasFields, FundsWrites DEF m4
<1>13. Writes(ty, b3, s3, m2, m5)
  BY <1>1, <1>6, <1>12, MsgRegisterAccountHasFields, BytesWrites DEF m3
<1>14. Writes(ty, b2, s2, m1, m5)
  BY <1>1, <1>5, <1>13, MsgRegisterAccountHasFields, UintWrites DEF m2
<1>15. Writes(ty, b1, s1, m, m5)
  BY <1>1, <1>14, MsgRegisterAccountHasFields, BytesWrites DEF m1
<1> QED
  BY <1>2, <1>3, <1>4, <1>15

\* Type MsgRegisterAccountResponse: its fields, and what is written for it.
LEMMA MsgRegisterAccountResponseHasFields ==
    LET ty == "MsgRegisterAccountResponse"
    IN  /\ ty \in MessageTypes
        /\ IsField(ty, "Address", Seq(Byte)) /\ IsBytes(ty, 1, "Address")
        /\ IsField(ty, "Data", Seq(Byte)) /\ IsBytes(ty, 2, "Data")
<1> DEFINE ty == "MsgRegisterAccountResponse"
<1>1. ty \in MessageTypes
  BY DEF MessageTypes, Empty
<1>2. /\ IsField(ty, "Address", Seq(Byte))
      /\ IsField(ty, "Data", Seq(Byte))
  BY DEF IsField, HasField, HasName, MessagesOf, Bytes
<1>3. \A s, d, t : Turn(ty, s, d, t) = MsgRegisterAccountResponse_Unmarshal(s, d, t)
  BY DEF Turn
<1>4. /\ IsBytes(ty, 1, "Address")
      /\ IsBytes(ty, 2, "Data")
  BY <1>3 DEF IsBytes, MsgRegisterAccountResponse_Unmarshal
<1> QED
  BY <1>1, <1>2, <1>4

\* What MarshalToSizedBuffer of MsgRegisterAccountResponse writes, read into a
\* message, merges the two.
LEMMA MsgRegisterAccountResponseWritten ==
    ASSUME NEW m \in MessagesOf("MsgRegisterAccountResponse"),
           NEW n \in MessagesOf("MsgRegisterAccountResponse")
    PROVE  Writes("MsgRegisterAccountResponse", MsgRegisterAccountResponse_MarshalToSizedBuffer(n),
                  MsgRegisterAccountResponse_Size(n), m,
                  [Address |-> Newer(n.Address, <<>>, m.Address),
                   Data |-> Newer(n.Data, <<>>, m.Data)])
<1> DEFINE ty == "MsgRegisterAccountResponse"
           M == MessagesOf(ty)
           v1 == Newer(n.Address, <<>>, m.Address)
           m1 == With(m, "Address", v1)
           v2 == Newer(n.Data, <<>>, m1.Data)
           m2 == With(m1, "Data", v2)
           r == [Address |-> Newer(n.Address, <<>>, m.Address),
                 Data |-> Newer(n.Data, <<>>, m.Data)]
           b2 == PutBytes(18, n.Data, <<>>)
           s2 == SizeBytes(n.Data) + 0
           b1 == PutBytes(10, n.Address, b2)
           s1 == SizeBytes(n.Address) + s2
<1>1. /\ n.Address \in Seq(Byte)
      /\ n.Data \in Seq(Byte)
  BY DEF MessagesOf, Bytes
<1>3. b1 = MsgRegisterAccountResponse_MarshalToSizedBuffer(n)
  BY DEF MsgRegisterAccountResponse_MarshalToSizedBuffer
<1>4. s1 = MsgRegisterAccountResponse_Size(n)
  BY <1>1, SizesAreNumbers DEF MsgRegisterAccountResponse_Size
<1>5. /\ m1 \in M /\ m1.Address = v1
      /\ m1.Data = m.Data
  <2>1. m1 \in M
    BY <1>1, MsgRegisterAccountResponseHasFields, FieldIsSet
  <2> HIDE DEF v1
  <2>2. m \in M
    OBVIOUS
  <2>3. /\ m1.Address = v1
        /\ m1.Data = m.Data
    BY <2>2 DEF MessagesOf, Bytes, With
  <2> QED
    BY <2>1, <2>3
<1> HIDE DEF m1
<1>6. /\ m2 \in M /\ m2.Data = v2
      /\ m2.Address = m1.Address
  <2>1. m2 \in M
    BY <1>1, <1>5, MsgRegisterAccountResponseHasFields, FieldIsSet
  <2> HIDE DEF v2
  <2>2. m1 \in M
    BY <1>5
  <2>3. /\ m2.Data = v2
        /\ m2.Address = m1.Address
    BY <2>2 DEF MessagesOf, Bytes, With
  <2> QED
    BY <2>1, <2>3
<1> HIDE DEF m2
<1>2. m2 = r
  <2>1. /\ m2.Address = Newer(n.Address, <<>>, m.Address)
        /\ m2.Data = Newer(n.Data, <<>>, m.Data)
    BY <1>5, <1>6
  <2>2. \A x \in M : x = [Address |-> x.Address, Data |-> x.Data]
    BY DEF MessagesOf, Bytes
  <2> HIDE DEF M
  <2> QED
    BY <1>6, <2>1, <2>2
<1>7. Writes(ty, <<>>, 0, m2, m2)
  BY NothingWrites
<1>8. Writes(ty, b2, s2, m1, m2)
  BY <1>1, <1>5, <1>7, MsgRegisterAccountResponseHasFields, BytesWrites DEF m2
<1>9. Writes(ty, b1, s1, m, m2)
  BY <1>1, <1>8, MsgRegisterAccountResponseHasFields, BytesWrites DEF m1
<1> QED
  BY <1>2, <1>3, <1>4, <1>9
=============================================================================
