-------------------------- MODULE PageRows_proofs --------------------------
(***************************************************************************)
(* PageRows for every page size below 64 KiB, every margin that has room   *)
(* for a header and all rows a Row object can hold: what writeRow lays     *)
(* down readRow finds again, on the page and, through serialize and        *)
(* deserialize, in the slots of the file; and while rows are small none is *)
(* cut and no page runs over its slot.                                     *)
(***************************************************************************)
EXTENDS PageRows, SequenceTheorems, WellFoundedInduction, TLAPS

(***************************************************************************)
(* Numbers and recursive functions.                                        *)
(***************************************************************************)
LEMMA LeastOf ==
  ASSUME NEW S \in SUBSET Nat, S # {}
  PROVE  \E m \in S : \A n \in S : m <= n
<1> DEFINE R == OpToRel(<, Nat)
<1>1. IsWellFoundedOn(R, Nat)
  BY NatLessThanWellFounded
<1>2. \A x, y \in Nat : y < x => << y, x >> \in R
  BY DEF OpToRel
<1> HIDE DEF R
<1>3. PICK m \in S : \A n \in S : ~ (<< n, m >> \in R)
  BY <1>1, WFMin, Zenon
<1>4. ASSUME NEW n \in S
      PROVE  ~ (n < m)
  BY <1>2, <1>3, Zenon
<1> QED
  BY <1>4

LEMMA Within ==
  ASSUME NEW n \in Nat, NEW k \in Nat, n <= k
  PROVE  n \in 0 .. k
  OBVIOUS

LEMMA StepBack ==
  ASSUME NEW n \in Nat, NEW i \in 1 .. n
  PROVE  i \in 0 .. n /\ i - 1 \in 0 .. n
  OBVIOUS

\* A sum of which each part grows by no more than it may.
LEMMA SumWithin ==
  ASSUME NEW u \in Nat, NEW a \in Nat, NEW n \in Nat,
         NEW x \in u + 1 .. u + a, NEW y \in x .. x + n
  PROVE  y \in u + 1 .. u + (a + n)
  OBVIOUS

LEMMA SumMost ==
  ASSUME NEW u \in Nat, NEW a \in Nat, NEW n \in Nat, NEW x \in Nat, NEW b \in Nat,
         b = a + n, b <= x
  PROVE  (u + a) + n <= u + x /\ u + a \in Nat
  OBVIOUS

\* A sum as large as its parts may be: they are.
LEMMA BothMost ==
  ASSUME NEW a \in Nat, NEW b \in Nat, NEW x \in Nat, NEW y \in Nat, NEW n \in Nat,
         x <= a + b, y <= x + n, y = a + (b + n)
  PROVE  x = a + b /\ y = x + n
  OBVIOUS

LEMMA SumAll ==
  ASSUME NEW u \in Nat, NEW a \in Nat, NEW n \in Nat, NEW b \in Nat,
         NEW x \in Nat, NEW y \in Nat, NEW most \in Nat,
         b = a + n, u + b <= most, u + a <= most => x = u + a, x + n <= most => y = x + n
  PROVE  y = u + b
<1>1. (u + a) + n = u + b /\ u + a <= most
  OBVIOUS
<1>2. x = u + a
  BY <1>1
<1> QED
  BY <1>1, <1>2

\* Induction from 0 to n.
LEMMA UpTo ==
  ASSUME NEW n \in Nat, NEW S, 0 \in S, \A i \in 1 .. n : i - 1 \in S => i \in S
  PROVE  \A i \in 0 .. n : i \in S
<1> DEFINE Missing == {i \in 0 .. n : i \notin S}
<1>1. SUFFICES ASSUME Missing # {}
               PROVE  FALSE
  OBVIOUS
<1>2. Missing \in SUBSET Nat
  OBVIOUS
<1>3. PICK i \in Missing : \A m \in Missing : i <= m
  BY <1>1, <1>2, LeastOf
<1>4. i \in 1 .. n /\ i - 1 \in 0 .. n
  BY <1>3
<1>5. i - 1 \notin Missing
  BY <1>3, <1>4
<1> QED
  BY <1>3, <1>4, <1>5

\* A loop of n rounds: there is the function of what it has after each of them.
IsLoop(f, n, base, step) ==
  /\ f[0] = base
  /\ \A i \in 1 .. n : f[i] = step[i][f[i - 1]]

LEMMA LoopExists ==
  ASSUME NEW n \in Nat, NEW D, NEW base \in D, NEW step \in [1 .. n -> [D -> D]]
  PROVE  \E f \in [0 .. n -> D] : IsLoop(f, n, base, step)
<1> DEFINE S == {k \in 0 .. n : \E f \in [0 .. k -> D] : IsLoop(f, k, base, step)}
<1>1. 0 \in S
  <2> DEFINE f == [i \in 0 .. 0 |-> base]
  <2>1. f \in [0 .. 0 -> D] /\ IsLoop(f, 0, base, step)
    BY DEF IsLoop
  <2> QED
    BY <2>1
<1>2. ASSUME NEW k \in 1 .. n, k - 1 \in S
      PROVE  k \in S
  <2>1. PICK g \in [0 .. k - 1 -> D] : IsLoop(g, k - 1, base, step)
    BY <1>2
  <2> DEFINE f == [i \in 0 .. k |-> IF i = k THEN step[k][g[k - 1]] ELSE g[i]]
  <2>2. g[k - 1] \in D /\ step[k] \in [D -> D]
    BY <2>1
  <2>3. f \in [0 .. k -> D]
    BY <2>2
  <2>4. \A i \in 0 .. k - 1 : f[i] = g[i]
    OBVIOUS
  <2>5. f[k] = step[k][g[k - 1]]
    OBVIOUS
  <2> HIDE DEF f
  <2>6. f[0] = base /\ \A i \in 1 .. k - 1 : f[i] = step[i][f[i - 1]]
    BY <2>1, <2>4 DEF IsLoop
  <2>7. f[k] = step[k][f[k - 1]]
    BY <2>4, <2>5
  <2>8. IsLoop(f, k, base, step)
    BY <2>6, <2>7 DEF IsLoop
  <2> QED
    BY <2>3, <2>8
<1> HIDE DEF S
<1>3. \A k \in 0 .. n : k \in S
  BY <1>1, <1>2, UpTo
<1>4. n \in S
  BY <1>3
<1> QED
  BY <1>4 DEF S

\* The assumption on the constants, part by part.
LEMMA Sizes ==
  /\ PageSize \in Nat /\ 1 <= PageSize /\ PageSize <= 65535
  /\ Margin \in Nat /\ Header = 10 /\ 10 <= Margin /\ Margin <= PageSize
  /\ \A i : i \in Offsets <=> i \in Nat /\ i < PageSize
<1>1. PageSize \in Nat /\ PageSize < 65536 /\ Margin \in Nat /\ 10 <= Margin /\ Margin <= PageSize
  BY SizesAssumption DEF Header
<1>2. 1 <= PageSize /\ PageSize <= 65535
  BY <1>1
<1>3. Header = 10
  BY DEF Header
<1>4. \A i : i \in Offsets <=> i \in Nat /\ i < PageSize
  BY <1>1 DEF Offsets
<1> QED
  BY <1>1, <1>2, <1>3, <1>4

LEMMA PageIdIs ==
  ASSUME NEW p \in PageIds
  PROVE  p \in Nat /\ 1 <= p /\ p <= 1023 /\ p # 0
<1>1. p \in Nat /\ 1 <= p /\ p < 1024
  BY PageIdsAssumption
<1> QED
  BY <1>1

(***************************************************************************)
(* The bytes of fields and of rows.                                        *)
(***************************************************************************)
LEMMA RowIs ==
  ASSUME NEW r \in Rows
  PROVE  /\ Len(r) \in 0 .. MaxColumns
         /\ r \in Seq(Storable)
         /\ \A i \in 1 .. Len(r) : r[i] \in Storable
<1>1. r \in Seq(Storable) /\ Len(r) <= MaxColumns
  BY RowsAssumption
<1>2. Len(r) \in Nat /\ MaxColumns \in Nat
  BY <1>1 DEF MaxColumns
<1>3. Len(r) \in 0 .. MaxColumns
  BY <1>1, <1>2, Within
<1>4. \A i \in 1 .. Len(r) : r[i] \in Storable
  BY <1>1, <1>2
<1> QED
  BY <1>1, <1>3, <1>4

LEMMA FieldIs ==
  ASSUME NEW f \in Field
  PROVE  /\ f.tag \in {INT, VARCHAR}
         /\ f.value \in Seq(Byte) /\ Len(f.value) \in Nat
         /\ \A j \in 1 .. Len(f.value) : f.value[j] \in Byte
         /\ f = [tag |-> f.tag, value |-> f.value]
<1>1. f.tag \in {INT, VARCHAR} /\ f.value \in Seq(Byte) /\ f = [tag |-> f.tag, value |-> f.value]
  BY DEF Field
<1> QED
  BY <1>1

\* What serialize writes for a field: its tag, for a string its length, its bytes.
LEMMA EncodedIs ==
  ASSUME NEW f \in Storable
  PROVE  /\ Len(Encoded(f)) = IF f.tag = INT THEN 5 ELSE 3 + Len(f.value)
         /\ Len(f.value) \in Nat /\ Len(f.value) <= MaxLength
         /\ Len(Encoded(f)) \in Nat /\ Len(Encoded(f)) >= 3
         /\ Encoded(f)[1] = f.tag
         /\ f.tag = INT => /\ Len(f.value) = 4
                           /\ \A j \in 1 .. 4 : Encoded(f)[1 + j] = f.value[j]
         /\ f.tag = VARCHAR => /\ Encoded(f)[2] = 0 /\ Encoded(f)[3] = Len(f.value)
                               /\ \A j \in 1 .. Len(f.value) : Encoded(f)[3 + j] = f.value[j]
         /\ \A j \in 1 .. Len(Encoded(f)) : Encoded(f)[j] \in Byte
<1> DEFINE v == f.value
<1>1. /\ f.tag \in {INT, VARCHAR} /\ v \in Seq(Byte) /\ Len(v) \in Nat
      /\ \A j \in 1 .. Len(v) : v[j] \in Byte
  BY FieldIs DEF Storable
<1>2. IF f.tag = INT THEN Len(v) = 4 ELSE Len(v) <= MaxLength
  BY DEF Storable
<1> HIDE DEF v
<1>3. CASE f.tag = INT
  <2>1. Encoded(f) = << INT >> \o << >> \o v
    BY <1>3 DEF Encoded, INT, VARCHAR, v
  <2>2. Encoded(f) = << INT >> \o v
    BY <1>1, <2>1
  <2> DEFINE e == Encoded(f)
  <2> HIDE DEF e
  <2>3. Len(e) = 5 /\ e[1] = INT /\ \A j \in 1 .. 4 : e[1 + j] = v[j]
    <3>1. e = << INT >> \o v /\ v \in Seq(Byte)
      BY <1>1, <2>2 DEF e
    <3>2. Len(v) = 4
      BY <1>2, <1>3
    <3>3. Len(e) = 1 + Len(v) /\ e[1] = INT
      BY <3>1
    <3>4. ASSUME NEW j \in 1 .. Len(v)
          PROVE  e[1 + j] = v[j]
      BY <3>1
    <3> QED
      BY <3>2, <3>3, <3>4
  <2>4. \A j \in 1 .. 5 : e[j] \in Byte
    <3> SUFFICES ASSUME NEW j \in 1 .. 5
                 PROVE  e[j] \in Byte
      OBVIOUS
    <3>1. CASE j = 1
      BY <2>3, <3>1 DEF INT, Byte
    <3>2. CASE j # 1
      <4>1. j - 1 \in 1 .. 4 /\ e[1 + (j - 1)] = v[j - 1] /\ 1 + (j - 1) = j
        BY <2>3, <3>2
      <4> QED
        BY <1>1, <1>2, <1>3, <4>1
    <3> QED
      BY <3>1, <3>2
  <2>5. Len(v) = 4 /\ 4 <= MaxLength /\ INT # VARCHAR
    BY <1>2, <1>3 DEF MaxLength, INT, VARCHAR
  <2>6. \A j \in 1 .. Len(e) : e[j] \in Byte
    BY <2>3, <2>4
  <2>7. Len(e) \in Nat /\ Len(e) >= 3
    BY <2>3
  <2> QED
    BY <1>3, <2>3, <2>5, <2>6, <2>7 DEF e, v
<1>4. CASE f.tag = VARCHAR
  <2>1. Encoded(f) = << VARCHAR >> \o << 0, Len(v) >> \o v
    BY <1>4 DEF Encoded, v
  <2>2. Len(v) <= 255 /\ VARCHAR # INT
    BY <1>2, <1>4 DEF MaxLength, VARCHAR, INT
  <2>3. /\ Len(Encoded(f)) = 3 + Len(v)
        /\ Encoded(f)[1] = VARCHAR /\ Encoded(f)[2] = 0 /\ Encoded(f)[3] = Len(v)
        /\ \A j \in 1 .. Len(v) : Encoded(f)[3 + j] = v[j]
    BY <1>1, <2>1
  <2>4. \A j \in 1 .. 3 + Len(v) : Encoded(f)[j] \in Byte
    <3> SUFFICES ASSUME NEW j \in 1 .. 3 + Len(v)
                 PROVE  Encoded(f)[j] \in Byte
      OBVIOUS
    <3>1. CASE j \in 1 .. 3
      <4>1. VARCHAR \in Byte /\ 0 \in Byte /\ Len(v) \in Byte
        <5>1. Len(v) \in 0 .. 255
          <6> DEFINE n == Len(v)
          <6>1. n \in Nat /\ n <= 255 /\ 255 \in Nat
            BY <1>1, <2>2
          <6> HIDE DEF n
          <6>2. n \in 0 .. 255
            BY <6>1, Within
          <6> QED
            BY <6>2 DEF n
        <5>2. VARCHAR \in Byte /\ 0 \in Byte
          BY DEF VARCHAR, Byte
        <5>3. Len(v) \in Byte
          BY <5>1 DEF Byte
        <5> QED
          BY <5>2, <5>3
      <4>2. j = 1 \/ j = 2 \/ j = 3
        BY <3>1
      <4> QED
        BY <2>3, <4>1, <4>2
    <3>2. CASE j \notin 1 .. 3
      <4>1. j - 3 \in 1 .. Len(v) /\ Encoded(f)[3 + (j - 3)] = v[j - 3] /\ 3 + (j - 3) = j
        BY <1>1, <2>3, <3>2
      <4> QED
        BY <1>1, <4>1
    <3> QED
      BY <3>1, <3>2
  <2> QED
    BY <1>1, <1>4, <2>2, <2>3, <2>4 DEF v, MaxLength
<1> QED
  BY <1>1, <1>3, <1>4

LEMMA EndsIs ==
  ASSUME NEW r \in Rows
  PROVE  /\ Ends(r) \in [0 .. Len(r) -> Nat]
         /\ Ends(r)[0] = 1
         /\ \A i \in 1 .. Len(r) : Ends(r)[i] = Ends(r)[i - 1] + Len(Encoded(r[i]))
<1> DEFINE n == Len(r)
           step == [i \in 1 .. n |-> [d \in Nat |-> d + Len(Encoded(r[i]))]]
<1>1. n \in Nat /\ \A i \in 1 .. n : Len(Encoded(r[i])) \in Nat
  BY RowIs, EncodedIs DEF MaxColumns
<1>2. step \in [1 .. n -> [Nat -> Nat]]
  BY <1>1
<1>3. \A i \in 1 .. n : \A d \in Nat : step[i][d] = d + Len(Encoded(r[i]))
  OBVIOUS
<1> HIDE DEF step
<1>4. PICK f \in [0 .. n -> Nat] : IsLoop(f, n, 1, step)
  BY <1>1, <1>2, LoopExists
<1>5. f[0] = 1 /\ \A i \in 1 .. n : f[i] = f[i - 1] + Len(Encoded(r[i]))
  <2>1. f[0] = 1 /\ \A i \in 1 .. n : f[i] = step[i][f[i - 1]]
    BY <1>4 DEF IsLoop
  <2>2. \A i \in 1 .. n : f[i - 1] \in Nat
    <3> HIDE DEF n
    <3> QED
      BY <1>1, <1>4, StepBack
  <2> QED
    BY <1>3, <2>1, <2>2
<1> DEFINE Is(g) == g = [i \in 0 .. n |-> IF i = 0 THEN 1 ELSE g[i - 1] + Len(Encoded(r[i]))]
<1>6. Is(f)
  BY <1>1, <1>4, <1>5
<1>7. Ends(r) = CHOOSE g : Is(g)
  BY DEF Ends
<1>8. Is(Ends(r))
  BY <1>6, <1>7
<1> DEFINE e == Ends(r)
<1>9. e = [i \in 0 .. n |-> IF i = 0 THEN 1 ELSE e[i - 1] + Len(Encoded(r[i]))]
  BY <1>8
<1> HIDE DEF e, Is
<1>10. /\ e[0] = 1 /\ \A i \in 1 .. n : e[i] = e[i - 1] + Len(Encoded(r[i]))
  BY <1>1, <1>9
<1> DEFINE S == {i \in 0 .. n : e[i] \in Nat}
<1>11. 0 \in S /\ \A i \in 1 .. n : i - 1 \in S => i \in S
  BY <1>1, <1>10
<1>12. \A i \in 0 .. n : i \in S
  <2> HIDE DEF S
  <2> QED
    BY <1>1, <1>11, UpTo
<1>13. e \in [0 .. n -> Nat]
  BY <1>9, <1>12
<1> QED
  BY <1>10, <1>13 DEF e

\* The fields of a row follow each other.
LEMMA EndsClimb ==
  ASSUME NEW r \in Rows
  PROVE  /\ \A i, j \in 0 .. Len(r) : i < j => Ends(r)[i] < Ends(r)[j]
         /\ \A i \in 0 .. Len(r) : Ends(r)[i] \in 1 .. RowBytes(r)
         /\ RowBytes(r) \in Nat /\ RowBytes(r) >= 1
<1> DEFINE n == Len(r)
           e == Ends(r)
<1>1. /\ n \in Nat /\ e \in [0 .. n -> Nat] /\ e[0] = 1
      /\ \A i \in 1 .. n : e[i] > e[i - 1]
  <2>1. n \in Nat /\ e \in [0 .. n -> Nat] /\ e[0] = 1
    BY RowIs, EndsIs DEF MaxColumns
  <2> SUFFICES ASSUME NEW i \in 1 .. n
               PROVE  e[i] > e[i - 1]
    BY <2>1
  <2>2. e[i] = e[i - 1] + Len(Encoded(r[i])) /\ Len(Encoded(r[i])) \in Nat /\ Len(Encoded(r[i])) >= 3
    BY RowIs, EndsIs, EncodedIs
  <2>3. e[i - 1] \in Nat
    BY <2>1
  <2> HIDE DEF e
  <2> QED
    BY <2>2, <2>3
<1> HIDE DEF e
<1>2. ASSUME NEW i \in 0 .. n
      PROVE  \A j \in 0 .. n : i < j => e[i] < e[j]
  <2> DEFINE S == {j \in 0 .. n : i < j => e[i] < e[j]}
  <2>1. 0 \in S
    BY <1>1
  <2>2. ASSUME NEW j \in 1 .. n, j - 1 \in S
        PROVE  j \in S
    <3>1. i < j - 1 \/ i = j - 1 \/ i >= j
      BY <1>1
    <3> QED
      BY <1>1, <2>2, <3>1
  <2> HIDE DEF S
  <2>3. \A j \in 0 .. n : j \in S
    BY <1>1, <2>1, <2>2, UpTo
  <2> QED
    BY <2>3 DEF S
<1>3. \A i \in 0 .. n : e[i] \in 1 .. e[n] /\ e[n] >= 1
  BY <1>1, <1>2
<1> QED
  BY <1>1, <1>2, <1>3 DEF RowBytes, e

(***************************************************************************)
(* What lies on a page.                                                    *)
(***************************************************************************)
Data == [Offsets -> Byte]

\* The bytes of f, or of row r, are those of data from offset o on.
FieldLies(data, o, f) == \A j \in 1 .. Len(Encoded(f)) : data[o + j - 1] = Encoded(f)[j]

RowLies(data, o, r) ==
  /\ data[o] = Len(r)
  /\ \A i \in 1 .. Len(r) : FieldLies(data, o + Ends(r)[i - 1], r[i])

\* Two pages are the same below offset b.
SameBelow(data, other, b) == \A i \in 0 .. b - 1 : data[i] = other[i]

LEMMA FieldLiesKeeps ==
  ASSUME NEW data, NEW other, NEW b \in Nat, SameBelow(data, other, b),
         NEW f \in Storable, NEW o \in Nat, o + Len(Encoded(f)) <= b,
         FieldLies(data, o, f)
  PROVE  FieldLies(other, o, f)
<1>1. Len(Encoded(f)) \in Nat
  BY EncodedIs
<1>2. \A j \in 1 .. Len(Encoded(f)) : o + j - 1 \in 0 .. b - 1
  BY <1>1
<1> QED
  BY <1>2 DEF SameBelow, FieldLies

LEMMA RowLiesKeeps ==
  ASSUME NEW data, NEW other, NEW b \in Nat, SameBelow(data, other, b),
         NEW r \in Rows, NEW o \in Nat, o + RowBytes(r) <= b,
         RowLies(data, o, r)
  PROVE  RowLies(other, o, r)
<1>1. Len(r) \in Nat /\ RowBytes(r) \in Nat /\ RowBytes(r) >= 1
  BY RowIs, EndsClimb DEF MaxColumns
<1>2. other[o] = Len(r)
  BY <1>1 DEF RowLies, SameBelow
<1>3. ASSUME NEW i \in 1 .. Len(r)
      PROVE  FieldLies(other, o + Ends(r)[i - 1], r[i])
  <2>1. /\ Ends(r)[i - 1] \in Nat /\ Ends(r)[i] \in 1 .. RowBytes(r)
        /\ Ends(r)[i] = Ends(r)[i - 1] + Len(Encoded(r[i]))
        /\ r[i] \in Storable /\ Len(Encoded(r[i])) \in Nat
    <3>1. i - 1 \in 0 .. Len(r) /\ i \in 0 .. Len(r)
      BY <1>1
    <3> QED
      BY <3>1, RowIs, EndsIs, EndsClimb, EncodedIs
  <2>2. o + Ends(r)[i - 1] \in Nat /\ (o + Ends(r)[i - 1]) + Len(Encoded(r[i])) <= b
    BY <1>1, <2>1
  <2>3. FieldLies(data, o + Ends(r)[i - 1], r[i])
    BY DEF RowLies
  <2> QED
    BY <2>1, <2>2, <2>3, FieldLiesKeeps
<1> QED
  BY <1>2, <1>3 DEF RowLies

(***************************************************************************)
(* writeRow.                                                               *)
(***************************************************************************)
LEMMA PutBytesIs ==
  ASSUME NEW data \in Data, NEW o \in Nat, NEW s, Len(s) \in Nat,
         \A j \in 1 .. Len(s) : s[j] \in Byte
  PROVE  /\ PutBytes(data, o, s) \in Data
         /\ \A i \in Offsets : i < o \/ i >= o + Len(s) => PutBytes(data, o, s)[i] = data[i]
         /\ \A j \in 1 .. Len(s) : o + j - 1 \in Offsets => PutBytes(data, o, s)[o + j - 1] = s[j]
<1> DEFINE n == Len(s)
<1>1. PutBytes(data, o, s) =
        [i \in Offsets |-> IF i >= o /\ i < o + n THEN s[i - o + 1] ELSE data[i]]
  BY DEF PutBytes
<1>2. \A i \in Offsets : i \in Int
  BY DEF Offsets
<1> HIDE DEF n
<1>3. ASSUME NEW i \in Offsets
      PROVE  /\ PutBytes(data, o, s)[i] \in Byte
             /\ i < o \/ i >= o + n => PutBytes(data, o, s)[i] = data[i]
  <2>1. i \in Int /\ data[i] \in Byte
    BY <1>2 DEF Data
  <2>2. i >= o /\ i < o + n => i - o + 1 \in 1 .. n
    BY <2>1 DEF n
  <2> QED
    BY <1>1, <2>1, <2>2 DEF n
<1>4. ASSUME NEW j \in 1 .. n, o + j - 1 \in Offsets
      PROVE  PutBytes(data, o, s)[o + j - 1] = s[j]
  <2>1. o + j - 1 >= o /\ o + j - 1 < o + n /\ (o + j - 1) - o + 1 = j
    BY DEF n
  <2> QED
    BY <1>1, <1>4, <2>1
<1> QED
  BY <1>1, <1>3, <1>4 DEF n, Data

LEMMA PutOneIs ==
  ASSUME NEW data \in Data, NEW o \in Nat, NEW b \in Byte
  PROVE  /\ PutBytes(data, o, << b >>) \in Data
         /\ \A i \in Offsets : i # o => PutBytes(data, o, << b >>)[i] = data[i]
         /\ o \in Offsets => PutBytes(data, o, << b >>)[o] = b
<1> DEFINE s == << b >>
<1>1. Len(s) = 1 /\ s[1] = b
  OBVIOUS
<1> HIDE DEF s
<1>2. \A j \in 1 .. Len(s) : s[j] \in Byte
  <2>1. \A j \in 1 .. Len(s) : j = 1
    BY <1>1
  <2> QED
    BY <1>1, <2>1
<1>3. Len(s) \in Nat
  BY <1>1
<1>4. PutBytes(data, o, s) \in Data
  BY <1>2, <1>3, PutBytesIs
<1>5. \A i \in Offsets : i < o \/ i >= o + Len(s) => PutBytes(data, o, s)[i] = data[i]
  BY <1>2, <1>3, PutBytesIs
<1>6. \A j \in 1 .. Len(s) : o + j - 1 \in Offsets => PutBytes(data, o, s)[o + j - 1] = s[j]
  BY <1>2, <1>3, PutBytesIs
<1>7. ASSUME NEW i \in Offsets, i # o
      PROVE  PutBytes(data, o, s)[i] = data[i]
  <2>1. i < o \/ i >= o + Len(s)
    BY <1>1, <1>7, Sizes
  <2> QED
    BY <1>5, <2>1
<1>8. ASSUME o \in Offsets
      PROVE  PutBytes(data, o, s)[o] = b
  <2>1. 1 \in 1 .. Len(s) /\ o + 1 - 1 = o
    BY <1>1
  <2> QED
    BY <1>1, <1>6, <1>8, <2>1
<1> QED
  BY <1>4, <1>7, <1>8 DEF s

WriteState == [data : Data, offset : 0 .. PageSize]

LEMMA FieldWrittenIs ==
  ASSUME NEW w \in WriteState, NEW f \in Storable
  PROVE  LET x == FieldWritten(w, f)
             len == Len(Encoded(f))
         IN  /\ x \in WriteState
             /\ SameBelow(w.data, x.data, w.offset)
             /\ x.offset \in w.offset .. w.offset + len
             /\ w.offset + len <= PageSize => x.offset = w.offset + len
             /\ x.offset = w.offset + len => FieldLies(x.data, w.offset, f)
<1> DEFINE len == Len(Encoded(f))
           x == FieldWritten(w, f)
           put == PutBytes(w.data, w.offset, Encoded(f))
<1>1. /\ w.data \in Data /\ w.offset \in 0 .. PageSize
      /\ PageSize \in Nat /\ len \in Nat /\ len >= 3
  <2>1. w.data \in Data /\ w.offset \in 0 .. PageSize
    BY DEF WriteState
  <2> QED
    BY <2>1, EncodedIs, Sizes
<1>2. /\ put \in Data
      /\ \A i \in Offsets : i < w.offset => put[i] = w.data[i]
      /\ \A j \in 1 .. len : w.offset + j - 1 \in Offsets => put[w.offset + j - 1] = Encoded(f)[j]
  <2> DEFINE e == Encoded(f)
             o == w.offset
             d == w.data
  <2>1. o \in Nat /\ d \in Data /\ Len(e) \in Nat /\ \A j \in 1 .. Len(e) : e[j] \in Byte
    BY <1>1, EncodedIs
  <2> HIDE DEF e, o, d
  <2>2. /\ PutBytes(d, o, e) \in Data
        /\ \A i \in Offsets : i < o \/ i >= o + Len(e) => PutBytes(d, o, e)[i] = d[i]
        /\ \A j \in 1 .. Len(e) : o + j - 1 \in Offsets => PutBytes(d, o, e)[o + j - 1] = e[j]
    BY <2>1, PutBytesIs
  <2> QED
    BY <2>2 DEF e, o, d
<1>3. CASE PageSize - w.offset >= len
  <2>1. x = [data |-> put, offset |-> w.offset + len]
    BY <1>3 DEF FieldWritten, Fits
  <2> HIDE DEF put, len, x
  <2>2. x \in WriteState
    <3>1. w.offset + len \in 0 .. PageSize
      BY <1>1, <1>3
    <3> QED
      BY <1>2, <2>1, <3>1 DEF WriteState
  <2>3. SameBelow(w.data, x.data, w.offset)
    BY <1>1, <1>2, <2>1 DEF SameBelow, Offsets
  <2>4. \A j \in 1 .. len : x.data[w.offset + j - 1] = Encoded(f)[j]
    BY <1>1, <1>2, <1>3, <2>1 DEF Offsets
  <2>5. x.offset = w.offset + len
    BY <2>1
  <2> QED
    BY <1>1, <2>2, <2>3, <2>4, <2>5 DEF FieldLies, x, len
<1>4. CASE ~ (PageSize - w.offset >= len)
  <2>1. x = w
    BY <1>4 DEF FieldWritten, Fits
  <2> HIDE DEF put, len, x
  <2> QED
    BY <1>1, <1>4, <2>1 DEF SameBelow, x, len
<1> QED
  BY <1>3, <1>4

LEMMA WriteLoopIs ==
  ASSUME NEW pg, pg.data \in Data, pg.usedBytes \in 0 .. PageSize - 1, NEW r \in Rows
  PROVE  /\ WriteLoop(pg, r) \in [0 .. Len(r) -> WriteState]
         /\ WriteLoop(pg, r)[0] = [data   |-> PutBytes(pg.data, pg.usedBytes, << Len(r) >>),
                                   offset |-> pg.usedBytes + 1]
         /\ \A i \in 1 .. Len(r) : WriteLoop(pg, r)[i] = FieldWritten(WriteLoop(pg, r)[i - 1], r[i])
<1> DEFINE n == Len(r)
           base == [data |-> PutBytes(pg.data, pg.usedBytes, << Len(r) >>), offset |-> pg.usedBytes + 1]
           step == [i \in 1 .. n |-> [w \in WriteState |-> FieldWritten(w, r[i])]]
<1>1. n \in Nat /\ \A i \in 1 .. n : r[i] \in Storable
  BY RowIs DEF MaxColumns
<1>2. base \in WriteState
  <2>1. PageSize \in Nat /\ pg.usedBytes \in Nat /\ pg.usedBytes + 1 \in 0 .. PageSize
    BY Sizes
  <2>2. n \in Byte
    <3>1. n \in 0 .. 16
      BY RowIs DEF MaxColumns
    <3> HIDE DEF n
    <3> QED
      BY <3>1 DEF Byte
  <2>3. PutBytes(pg.data, pg.usedBytes, << n >>) \in Data
    <3> DEFINE d == pg.data
               o == pg.usedBytes
    <3>1. d \in Data /\ o \in Nat
      BY <2>1
    <3> HIDE DEF d, o, n
    <3>2. PutBytes(d, o, << n >>) \in Data
      BY <2>2, <3>1, PutOneIs
    <3> QED
      BY <3>2 DEF d, o
  <2> QED
    BY <2>1, <2>3 DEF WriteState
<1>3. step \in [1 .. n -> [WriteState -> WriteState]]
  BY <1>1, FieldWrittenIs
<1>4. \A i \in 1 .. n : \A w \in WriteState : step[i][w] = FieldWritten(w, r[i])
  OBVIOUS
<1> HIDE DEF step, base
<1>5. PICK f \in [0 .. n -> WriteState] : IsLoop(f, n, base, step)
  BY <1>1, <1>2, <1>3, LoopExists
<1>6. f[0] = base /\ \A i \in 1 .. n : f[i] = FieldWritten(f[i - 1], r[i])
  <2>1. f[0] = base /\ \A i \in 1 .. n : f[i] = step[i][f[i - 1]]
    BY <1>5 DEF IsLoop
  <2>2. \A i \in 1 .. n : f[i - 1] \in WriteState
    BY <1>1, <1>5
  <2> QED
    BY <1>4, <2>1, <2>2
<1> DEFINE Is(g) == g = [i \in 0 .. n |-> IF i = 0 THEN base ELSE FieldWritten(g[i - 1], r[i])]
<1>7. Is(f)
  BY <1>1, <1>5, <1>6
<1>8. WriteLoop(pg, r) = CHOOSE g : Is(g)
  BY DEF WriteLoop, base
<1>9. Is(WriteLoop(pg, r))
  BY <1>7, <1>8
<1> DEFINE l == WriteLoop(pg, r)
<1>10. l = [i \in 0 .. n |-> IF i = 0 THEN base ELSE FieldWritten(l[i - 1], r[i])]
  BY <1>9
<1> HIDE DEF l, Is
<1>11. l[0] = base /\ \A i \in 1 .. n : l[i] = FieldWritten(l[i - 1], r[i])
  BY <1>1, <1>10
<1> DEFINE S == {i \in 0 .. n : l[i] \in WriteState}
<1>12. 0 \in S
  BY <1>1, <1>2, <1>11
<1>13. ASSUME NEW i \in 1 .. n, i - 1 \in S
       PROVE  i \in S
  BY <1>1, <1>11, <1>13, FieldWrittenIs
<1>14. \A i \in 0 .. n : i \in S
  <2> HIDE DEF S
  <2> QED
    BY <1>1, <1>12, <1>13, UpTo
<1>15. l \in [0 .. n -> WriteState]
  BY <1>10, <1>14
<1> QED
  BY <1>11, <1>15 DEF l, base

\* After n rounds the first n fields lie behind each other, unless one was left
\* out; none is if there is room for all.
Laid(w, pg, r, k) ==
  LET u == pg.usedBytes
  IN  /\ w.offset \in u + 1 .. u + Ends(r)[k]
      /\ SameBelow(pg.data, w.data, u)
      /\ u + Ends(r)[k] <= PageSize => w.offset = u + Ends(r)[k]
      /\ w.offset = u + Ends(r)[k] =>
           /\ w.data[u] = Len(r)
           /\ \A i \in 1 .. k : FieldLies(w.data, u + Ends(r)[i - 1], r[i])

LEMMA LoopWrites ==
  ASSUME NEW pg, pg.data \in Data, pg.usedBytes \in 0 .. PageSize - 1, NEW r \in Rows
  PROVE  \A k \in 0 .. Len(r) : Laid(WriteLoop(pg, r)[k], pg, r, k)
<1> DEFINE n == Len(r)
           w == WriteLoop(pg, r)
           u == pg.usedBytes
           e == Ends(r)
           S == {k \in 0 .. n : Laid(w[k], pg, r, k)}
<1>1. /\ n \in Nat /\ u \in Nat /\ u < PageSize /\ PageSize \in Nat
      /\ e \in [0 .. n -> Nat] /\ e[0] = 1
      /\ \A k \in 0 .. n : e[k] \in Nat
      /\ w \in [0 .. n -> WriteState]
  <2>1. n \in Nat
    BY RowIs DEF MaxColumns
  <2>2. u \in Nat /\ u < PageSize /\ PageSize \in Nat
    BY Sizes
  <2>3. e \in [0 .. n -> Nat] /\ e[0] = 1
    BY EndsIs
  <2>4. w \in [0 .. n -> WriteState]
    BY WriteLoopIs
  <2> QED
    BY <2>1, <2>2, <2>3, <2>4
<1>2. \A k \in 0 .. n : w[k] \in WriteState /\ w[k].data \in Data /\ w[k].offset \in 0 .. PageSize
  BY <1>1 DEF WriteState
<1>3. 0 \in S
  <2>1. w[0] = [data |-> PutBytes(pg.data, u, << n >>), offset |-> u + 1]
    BY WriteLoopIs
  <2>2. n \in Byte
    <3>1. n \in 0 .. 16
      BY RowIs DEF MaxColumns
    <3> HIDE DEF n
    <3> QED
      BY <3>1 DEF Byte
  <2> DEFINE d == pg.data
             x == PutBytes(d, u, << n >>)
  <2>3. d \in Data
    OBVIOUS
  <2> HIDE DEF n, u, d
  <2>4. (\A i \in Offsets : i # u => x[i] = d[i]) /\ (u \in Offsets => x[u] = n)
    BY <1>1, <2>2, <2>3, PutOneIs
  <2>5. u \in Offsets /\ \A i \in 0 .. u - 1 : i \in Offsets /\ i # u
    BY <1>1, Sizes
  <2> HIDE DEF x
  <2>6. SameBelow(d, x, u) /\ x[u] = n
    BY <2>4, <2>5 DEF SameBelow
  <2> QED
    BY <1>1, <2>1, <2>6 DEF Laid, u, n, d, x
<1>4. ASSUME NEW k \in 1 .. n, k - 1 \in S
      PROVE  k \in S
  <2> DEFINE v == w[k - 1]
             x == w[k]
             len == Len(Encoded(r[k]))
  <2>1. /\ x = FieldWritten(v, r[k]) /\ v \in WriteState /\ r[k] \in Storable
        /\ v.data \in Data /\ v.offset \in 0 .. PageSize
        /\ k - 1 \in 0 .. n /\ k \in 0 .. n /\ len \in Nat /\ len >= 3
        /\ e[k] = e[k - 1] + len
    <3>1. k - 1 \in 0 .. n /\ k \in 0 .. n
      BY <1>1
    <3>2. x = FieldWritten(v, r[k]) /\ r[k] \in Storable /\ e[k] = e[k - 1] + len
      BY RowIs, WriteLoopIs, EndsIs
    <3> QED
      BY <1>2, <3>1, <3>2, EncodedIs
  <2>2. /\ SameBelow(v.data, x.data, v.offset)
        /\ x.offset \in v.offset .. v.offset + len
        /\ v.offset + len <= PageSize => x.offset = v.offset + len
        /\ x.offset = v.offset + len => FieldLies(x.data, v.offset, r[k])
    BY <2>1, FieldWrittenIs
  <2>3. Laid(v, pg, r, k - 1)
    BY <1>4
  <2>4. e[k - 1] \in Nat /\ e[k] \in Nat /\ v.offset \in Nat
    BY <1>1, <2>1
  <2> HIDE DEF v, x, len, e, w
  <2>5. /\ v.offset \in u + 1 .. u + e[k - 1]
        /\ SameBelow(pg.data, v.data, u)
        /\ u + e[k - 1] <= PageSize => v.offset = u + e[k - 1]
        /\ v.offset = u + e[k - 1] =>
             /\ v.data[u] = n
             /\ \A i \in 1 .. k - 1 : FieldLies(v.data, u + e[i - 1], r[i])
    BY <2>3 DEF Laid, e
  <2> HIDE DEF u, n
  <2>6. x.offset \in u + 1 .. u + e[k]
    <3> DEFINE a == e[k - 1]
               b == e[k]
               at == v.offset
               to == x.offset
    <3>1. /\ u \in Nat /\ a \in Nat /\ len \in Nat /\ b = a + len
          /\ at \in u + 1 .. u + a /\ to \in at .. at + len
      BY <1>1, <2>1, <2>2, <2>4, <2>5
    <3> HIDE DEF a, b, at, to
    <3>2. to \in u + 1 .. u + (a + len)
      BY <3>1, SumWithin
    <3>3. to \in u + 1 .. u + b
      BY <3>1, <3>2
    <3> QED
      BY <3>3 DEF b, to
  <2>7. SameBelow(pg.data, x.data, u)
    <3>1. \A i \in 0 .. u - 1 : i \in 0 .. v.offset - 1
      <4> DEFINE at == v.offset
                 a == e[k - 1]
      <4>1. u \in Nat /\ a \in Nat /\ at \in u + 1 .. u + a
        BY <1>1, <2>4, <2>5
      <4> HIDE DEF at, a
      <4>2. \A i \in 0 .. u - 1 : i \in 0 .. at - 1
        BY <4>1
      <4> QED
        BY <4>2 DEF at
    <3>2. \A i \in 0 .. u - 1 : pg.data[i] = v.data[i]
      BY <2>5 DEF SameBelow
    <3>3. \A i \in 0 .. v.offset - 1 : v.data[i] = x.data[i]
      BY <2>2 DEF SameBelow
    <3> QED
      BY <3>1, <3>2, <3>3 DEF SameBelow
  <2>8. ASSUME u + e[k] <= PageSize
        PROVE  x.offset = u + e[k]
    <3> DEFINE a == e[k - 1]
               b == e[k]
               at == v.offset
               to == x.offset
    <3>1. /\ u \in Nat /\ a \in Nat /\ len \in Nat /\ b \in Nat /\ at \in Nat /\ PageSize \in Nat
          /\ b = a + len /\ u + b <= PageSize
      BY <1>1, <2>1, <2>4, <2>8
    <3>2. to \in Nat
      BY <1>1, <2>4, <2>6
    <3>3. (u + a <= PageSize => at = u + a) /\ (at + len <= PageSize => to = at + len)
      BY <2>2, <2>5
    <3> HIDE DEF a, b, at, to
    <3>4. to = u + b
      BY <3>1, <3>2, <3>3, SumAll
    <3> QED
      BY <3>4 DEF b, to
  <2>9. ASSUME x.offset = u + e[k]
        PROVE  /\ x.data[u] = n
               /\ \A i \in 1 .. k : FieldLies(x.data, u + e[i - 1], r[i])
    <3>1. v.offset = u + e[k - 1] /\ x.offset = v.offset + len
      <4>1. v.offset <= u + e[k - 1] /\ x.offset <= v.offset + len /\ e[k] = e[k - 1] + len
        BY <1>1, <2>1, <2>2, <2>4, <2>5
      <4>2. x.offset \in Nat
        BY <1>1, <2>4, <2>6
      <4>3. u \in Nat /\ len \in Nat /\ v.offset \in Nat /\ e[k - 1] \in Nat
        BY <1>1, <2>1, <2>4
      <4>4. x.offset = u + (e[k - 1] + len)
        BY <2>9, <4>1
      <4> QED
        BY <4>1, <4>2, <4>3, <4>4, BothMost
    <3>2. x.data[u] = n
      <4>1. u \in 0 .. v.offset - 1
        BY <1>1, <2>4, <2>5
      <4>2. v.data[u] = n
        BY <2>5, <3>1
      <4> QED
        BY <2>2, <4>1, <4>2 DEF SameBelow
    <3>3. ASSUME NEW i \in 1 .. k - 1
          PROVE  FieldLies(x.data, u + e[i - 1], r[i])
      <4>1. /\ r[i] \in Storable /\ Len(Encoded(r[i])) \in Nat
            /\ e[i - 1] \in Nat /\ e[i] = e[i - 1] + Len(Encoded(r[i]))
            /\ e[i] <= e[k - 1]
        <5>1. i \in 1 .. n /\ i - 1 \in 0 .. n /\ i \in 0 .. n
          <6>1. i \in 1 .. n
            BY <1>1, <2>1
          <6> QED
            BY <1>1, <6>1, StepBack
        <5>2. i = k - 1 \/ i < k - 1
          BY <1>1, <2>1
        <5>3. i < k - 1 => e[i] < e[k - 1]
          BY <2>1, <5>1, EndsClimb DEF e, n
        <5>4. e[i] = e[i - 1] + Len(Encoded(r[i])) /\ r[i] \in Storable
          BY <5>1, EndsIs, RowIs DEF e, n
        <5> QED
          BY <1>1, <2>4, <5>1, <5>2, <5>3, <5>4, EncodedIs
      <4>2. FieldLies(v.data, u + e[i - 1], r[i])
        BY <2>5, <3>1
      <4>3. (u + e[i - 1]) + Len(Encoded(r[i])) <= v.offset /\ u + e[i - 1] \in Nat
        <5> DEFINE a == e[i - 1]
                   b == e[i]
                   c == e[k - 1]
                   m == Len(Encoded(r[i]))
        <5>1. /\ u \in Nat /\ a \in Nat /\ m \in Nat /\ c \in Nat /\ b = a + m /\ b <= c
              /\ v.offset = u + c
          BY <1>1, <2>4, <3>1, <4>1
        <5> HIDE DEF a, b, c, m
        <5>2. b \in Nat
          BY <5>1
        <5>3. (u + a) + m <= u + c /\ u + a \in Nat
          BY <5>1, <5>2, SumMost
        <5> QED
          BY <5>1, <5>3 DEF a, m
      <4> QED
        BY <2>2, <2>4, <4>1, <4>2, <4>3, FieldLiesKeeps
    <3>4. FieldLies(x.data, u + e[k - 1], r[k])
      BY <2>2, <3>1
    <3>5. ASSUME NEW i \in 1 .. k
          PROVE  FieldLies(x.data, u + e[i - 1], r[i])
      <4>1. i \in 1 .. k - 1 \/ i = k
        BY <1>1, <2>1
      <4> QED
        BY <3>3, <3>4, <4>1
    <3> QED
      BY <3>2, <3>5
  <2>10. Laid(x, pg, r, k)
    BY <2>6, <2>7, <2>8, <2>9 DEF Laid, u, e, n
  <2> QED
    BY <2>1, <2>10 DEF x
<1>5. \A k \in 0 .. n : k \in S
  <2> HIDE DEF S
  <2> QED
    BY <1>1, <1>3, <1>4, UpTo
<1> QED
  BY <1>5

\* writeRow: the bytes before the row stay, and the row is there unless usedBytes
\* has grown by less than its length, which it has not if there is room.
LEMMA WrittenIs ==
  ASSUME NEW pg, pg.data \in Data, pg.usedBytes \in 0 .. PageSize - 1, NEW r \in Rows
  PROVE  LET x == Written(pg, r)
             u == pg.usedBytes
         IN  /\ x = [pg EXCEPT !.data = x.data, !.usedBytes = x.usedBytes, !.isDirty = TRUE]
             /\ x.data \in Data
             /\ x.usedBytes \in 0 .. PageSize
             /\ SameBelow(pg.data, x.data, u)
             /\ u + RowBytes(r) <= PageSize => x.usedBytes = u + RowBytes(r)
             /\ x.usedBytes = u + RowBytes(r) => RowLies(x.data, u, r)
<1> DEFINE w == WriteLoop(pg, r)[Len(r)]
           x == Written(pg, r)
           u == pg.usedBytes
<1>1. Len(r) \in Nat /\ Len(r) \in 0 .. Len(r) /\ PageSize \in Nat
  BY RowIs, Sizes DEF MaxColumns
<1>2. Laid(w, pg, r, Len(r)) /\ w \in WriteState
  BY <1>1, LoopWrites, WriteLoopIs
<1>3. w.data \in Data /\ w.offset \in 0 .. PageSize
  BY <1>2 DEF WriteState
<1>4. ~ (u + 1 > PageSize)
  BY <1>1
<1>5. x = [pg EXCEPT !.data = w.data, !.usedBytes = w.offset, !.isDirty = TRUE]
  BY <1>4 DEF Written
<1> HIDE DEF w, x
<1>6. x.data = w.data /\ x.usedBytes = w.offset
  BY <1>5
<1>7. /\ SameBelow(pg.data, w.data, u)
      /\ u + RowBytes(r) <= PageSize => w.offset = u + RowBytes(r)
      /\ w.offset = u + RowBytes(r) =>
           /\ w.data[u] = Len(r)
           /\ \A i \in 1 .. Len(r) : FieldLies(w.data, u + Ends(r)[i - 1], r[i])
  BY <1>2 DEF Laid, RowBytes
<1> QED
  BY <1>3, <1>5, <1>6, <1>7 DEF RowLies, x

(***************************************************************************)
(* readRow.                                                                *)
(***************************************************************************)
ReadState == [fields : Seq(Field), next : 1 .. PageSize + 1]

LEMMA MinIs ==
  ASSUME NEW a \in Nat, NEW b \in Nat
  PROVE  Min({a, b}) = IF a <= b THEN a ELSE b
<1> DEFINE m == IF a <= b THEN a ELSE b
           IsMin(x) == x \in {a, b} /\ \A y \in {a, b} : x <= y
<1>1. IsMin(m)
  OBVIOUS
<1>2. \A x : IsMin(x) => x = m
  OBVIOUS
<1>3. Min({a, b}) = CHOOSE x : IsMin(x)
  BY DEF Min
<1> HIDE DEF IsMin, m
<1> QED
  BY <1>1, <1>2, <1>3 DEF m

LEMMA DataIs ==
  ASSUME NEW data \in Data, NEW o \in Offsets
  PROVE  data[o] \in Nat /\ data[o] <= 255
<1>1. data[o] \in Byte
  BY DEF Data
<1> QED
  BY <1>1 DEF Byte

\* What deserialize takes for a field is one, and lies on the page.
LEMMA FieldAtIs ==
  ASSUME NEW data \in Data, NEW o \in Offsets, IsField(data, o)
  PROVE  /\ FieldAt(data, o) \in Field
         /\ FieldStart(data, o) + FieldLength(data, o) \in o + 1 .. PageSize
<1> DEFINE len == FieldLength(data, o)
           start == FieldStart(data, o)
<1>1. /\ len \in Nat /\ start \in Nat /\ start > o /\ start + len <= PageSize
      /\ data[o] \in {INT, VARCHAR}
  <2>1. o \in Nat /\ PageSize \in Nat
    BY Sizes
  <2>2. CASE data[o] = INT /\ PageSize - o >= 5
    <3>1. len = 4 /\ start = o + 1
      BY <2>2 DEF FieldLength, FieldStart
    <3> HIDE DEF len, start
    <3> QED
      BY <2>1, <2>2, <3>1
  <2>3. CASE /\ data[o] = VARCHAR /\ PageSize - o >= 3
             /\ PageSize - o >= 3 + data[o + 1] * 256 + data[o + 2]
    <3>1. o + 1 \in Offsets /\ o + 2 \in Offsets
      BY <2>1, <2>3, Sizes
    <3>2. data[o + 1] \in Nat /\ data[o + 2] \in Nat
      BY <3>1, DataIs
    <3>3. len = data[o + 1] * 256 + data[o + 2] /\ start = o + 3
      BY <2>3 DEF FieldLength, FieldStart, INT, VARCHAR
    <3> HIDE DEF len, start
    <3> QED
      BY <2>1, <2>3, <3>2, <3>3
  <2> QED
    BY <2>2, <2>3 DEF IsField
<1> DEFINE kept == Min({len, MaxLength})
<1>2. kept \in Nat /\ kept <= len
  <2>1. MaxLength \in Nat
    BY DEF MaxLength
  <2> HIDE DEF len
  <2> QED
    BY <1>1, <2>1, MinIs
<1>3. FieldAt(data, o) = [tag |-> data[o], value |-> [i \in 1 .. kept |-> data[start + i - 1]]]
  BY DEF FieldAt
<1> HIDE DEF kept, start, len
<1>4. [i \in 1 .. kept |-> data[start + i - 1]] \in Seq(Byte)
  <2>1. \A i \in 1 .. kept : start + i - 1 \in Offsets
    BY <1>1, <1>2, Sizes
  <2>2. \A i \in 1 .. kept : data[start + i - 1] \in Byte
    BY <2>1 DEF Data
  <2> QED
    BY <1>2, <2>2
<1>5. FieldAt(data, o) \in Field
  BY <1>1, <1>3, <1>4 DEF Field
<1>6. start + len \in o + 1 .. PageSize
  <2>1. o \in Nat /\ PageSize \in Nat
    BY Sizes
  <2> QED
    BY <1>1, <2>1
<1> QED
  BY <1>5, <1>6 DEF start, len

\* One round of readRow's loop.
ReadStep(data, was) ==
  IF was.next >= PageSize THEN [was EXCEPT !.next = PageSize + 1]
  ELSE IF ~ IsField(data, was.next) THEN [was EXCEPT !.next = PageSize + 1]
  ELSE [fields |-> Append(was.fields, FieldAt(data, was.next)),
        next   |-> FieldStart(data, was.next) + FieldLength(data, was.next)]

LEMMA ReadStepIs ==
  ASSUME NEW data \in Data, NEW was \in ReadState
  PROVE  /\ ReadStep(data, was) \in ReadState
         /\ ReadStep(data, was).next >= was.next
<1> DEFINE o == was.next
<1>1. was.fields \in Seq(Field) /\ o \in 1 .. PageSize + 1 /\ PageSize \in Nat
  BY Sizes DEF ReadState
<1>2. CASE o >= PageSize \/ ~ IsField(data, o)
  <2>1. ReadStep(data, was) = [was EXCEPT !.next = PageSize + 1]
    BY <1>2 DEF ReadStep
  <2> QED
    BY <1>1, <2>1 DEF ReadState
<1>3. CASE ~ (o >= PageSize \/ ~ IsField(data, o))
  <2> DEFINE next == FieldStart(data, o) + FieldLength(data, o)
  <2>1. o \in Offsets
    BY <1>1, <1>3, Sizes
  <2>2. FieldAt(data, o) \in Field /\ next \in o + 1 .. PageSize
    BY <1>3, <2>1, FieldAtIs
  <2>3. ReadStep(data, was) = [fields |-> Append(was.fields, FieldAt(data, o)), next |-> next]
    BY <1>3 DEF ReadStep
  <2> HIDE DEF next, o
  <2>4. next \in 1 .. PageSize + 1 /\ next >= o
    BY <1>1, <2>2
  <2>5. Append(was.fields, FieldAt(data, o)) \in Seq(Field)
    BY <1>1, <2>2
  <2> QED
    BY <2>3, <2>4, <2>5 DEF ReadState, o
<1> QED
  BY <1>2, <1>3

LEMMA ReadLoopIs ==
  ASSUME NEW data \in Data, NEW o \in Offsets
  PROVE  /\ ReadLoop(data, o) \in [0 .. MaxColumns -> ReadState]
         /\ ReadLoop(data, o)[0] = [fields |-> << >>, next |-> o + 1]
         /\ \A i \in 1 .. MaxColumns : ReadLoop(data, o)[i] = ReadStep(data, ReadLoop(data, o)[i - 1])
<1> DEFINE n == MaxColumns
           base == [fields |-> << >>, next |-> o + 1]
           step == [i \in 1 .. n |-> [w \in ReadState |-> ReadStep(data, w)]]
<1>1. n \in Nat
  BY DEF MaxColumns
<1> HIDE DEF n
<1>2. base \in ReadState
  <2>1. o + 1 \in 1 .. PageSize + 1
    BY Sizes
  <2> QED
    BY <2>1 DEF ReadState
<1>3. step \in [1 .. n -> [ReadState -> ReadState]]
  BY ReadStepIs
<1>4. \A i \in 1 .. n : \A w \in ReadState : step[i][w] = ReadStep(data, w)
  OBVIOUS
<1> HIDE DEF step, base
<1>5. PICK f \in [0 .. n -> ReadState] : IsLoop(f, n, base, step)
  BY <1>1, <1>2, <1>3, LoopExists
<1>6. f[0] = base /\ \A i \in 1 .. n : f[i] = ReadStep(data, f[i - 1])
  <2>1. f[0] = base /\ \A i \in 1 .. n : f[i] = step[i][f[i - 1]]
    BY <1>5 DEF IsLoop
  <2>2. \A i \in 1 .. n : f[i - 1] \in ReadState
    BY <1>1, <1>5
  <2> QED
    BY <1>4, <2>1, <2>2
<1> DEFINE Is(g) == g = [i \in 0 .. n |-> IF i = 0 THEN base ELSE ReadStep(data, g[i - 1])]
<1>7. Is(f)
  BY <1>1, <1>5, <1>6
<1>8. ReadLoop(data, o) = CHOOSE g : Is(g)
  BY DEF ReadLoop, ReadStep, base, n
<1>9. Is(ReadLoop(data, o))
  BY <1>7, <1>8
<1> DEFINE l == ReadLoop(data, o)
<1>10. l = [i \in 0 .. n |-> IF i = 0 THEN base ELSE ReadStep(data, l[i - 1])]
  BY <1>9
<1> HIDE DEF l, Is
<1>11. l[0] = base /\ \A i \in 1 .. n : l[i] = ReadStep(data, l[i - 1])
  BY <1>1, <1>10
<1> DEFINE S == {i \in 0 .. n : l[i] \in ReadState}
<1>12. 0 \in S
  BY <1>1, <1>2, <1>11
<1>13. ASSUME NEW i \in 1 .. n, i - 1 \in S
       PROVE  i \in S
  BY <1>1, <1>11, <1>13, ReadStepIs
<1>14. \A i \in 0 .. n : i \in S
  <2> HIDE DEF S
  <2> QED
    BY <1>1, <1>12, <1>13, UpTo
<1>15. l \in [0 .. n -> ReadState]
  BY <1>10, <1>14
<1> QED
  BY <1>11, <1>15 DEF l, base, n

\* A row that is read ends behind its beginning.
LEMMA RowAtIs ==
  ASSUME NEW data \in Data, NEW o \in Offsets
  PROVE  RowAt(data, o) \in ReadState /\ RowAt(data, o).next > o
<1> DEFINE l == ReadLoop(data, o)
           n == MaxColumns
           S == {i \in 0 .. n : l[i].next > o}
<1>1. n \in Nat /\ n = 16 /\ o \in Nat
  BY Sizes DEF MaxColumns
<1> HIDE DEF n
<1>2. \A i \in 0 .. n : l[i] \in ReadState /\ l[i].next \in Nat
  <2>1. \A i \in 0 .. n : l[i] \in ReadState
    BY ReadLoopIs DEF n
  <2> QED
    BY <2>1, Sizes DEF ReadState
<1>3. 0 \in S
  <2>1. l[0] = [fields |-> << >>, next |-> o + 1]
    BY ReadLoopIs
  <2> QED
    BY <1>1, <2>1
<1>4. ASSUME NEW i \in 1 .. n, i - 1 \in S
      PROVE  i \in S
  <2>1. l[i] = ReadStep(data, l[i - 1])
    BY ReadLoopIs DEF n
  <2>2. i - 1 \in 0 .. n /\ i \in 0 .. n
    BY <1>1
  <2> HIDE DEF l
  <2>3. l[i].next >= l[i - 1].next
    BY <1>2, <2>1, <2>2, ReadStepIs
  <2>4. l[i].next \in Nat /\ l[i - 1].next \in Nat /\ l[i - 1].next > o
    BY <1>2, <1>4, <2>2
  <2> QED
    BY <1>1, <2>2, <2>3, <2>4
<1>5. \A i \in 0 .. n : i \in S
  <2> HIDE DEF S
  <2> QED
    BY <1>1, <1>3, <1>4, UpTo
<1>6. PICK i \in 0 .. n : RowAt(data, o) = l[i]
  <2>1. data[o] \in Nat
    BY DataIs
  <2>2. (IF data[o] < MaxColumns THEN data[o] ELSE MaxColumns) \in 0 .. n
    BY <1>1, <2>1 DEF n
  <2> QED
    BY <2>2 DEF RowAt
<1> QED
  BY <1>2, <1>5, <1>6

\* deserialize finds the field that serialize has written.
LEMMA FieldReads ==
  ASSUME NEW data, NEW o \in Nat, NEW f \in Storable,
         o + Len(Encoded(f)) <= PageSize, FieldLies(data, o, f)
  PROVE  /\ o < PageSize
         /\ IsField(data, o)
         /\ FieldAt(data, o) = f
         /\ FieldStart(data, o) + FieldLength(data, o) = o + Len(Encoded(f))
<1> DEFINE v == f.value
           e == Encoded(f)
           n == Len(e)
           k == Len(v)
<1>1. /\ n = IF f.tag = INT THEN 5 ELSE 3 + k
      /\ k \in Nat /\ k <= MaxLength /\ n \in Nat /\ n >= 3
      /\ e[1] = f.tag
      /\ f.tag = INT => k = 4 /\ \A j \in 1 .. 4 : e[1 + j] = v[j]
      /\ f.tag = VARCHAR => /\ e[2] = 0 /\ e[3] = k
                            /\ \A j \in 1 .. k : e[3 + j] = v[j]
  BY EncodedIs
<1>2. /\ f.tag \in {INT, VARCHAR} /\ v \in Seq(Byte)
      /\ f = [tag |-> f.tag, value |-> v]
  BY FieldIs DEF Storable
<1>3. PageSize \in Nat /\ MaxLength = 255 /\ INT = 1 /\ VARCHAR = 3
  BY Sizes DEF MaxLength, INT, VARCHAR
<1>4. \A j \in 1 .. n : data[o + j - 1] = e[j]
  BY DEF FieldLies
<1> DEFINE at(start) == [i \in 1 .. k |-> data[start + i - 1]]
<1>5. \A start : (\A i \in 1 .. k : data[start + i - 1] = v[i]) => at(start) = v
  BY <1>1, <1>2
<1> HIDE DEF v, e, n, k, at
<1>6. data[o] = f.tag
  <2>1. 1 \in 1 .. n /\ o + 1 - 1 = o
    BY <1>1
  <2> QED
    BY <1>1, <1>4, <2>1
<1>7. Min({k, MaxLength}) = k
  BY <1>1, <1>3, MinIs
<1>8. n = Len(Encoded(f)) /\ o < PageSize /\ o + n <= PageSize
  BY <1>1, <1>3 DEF n, e
<1>9. CASE f.tag = INT
  <2>1. IsField(data, o)
    BY <1>1, <1>3, <1>6, <1>8, <1>9 DEF IsField
  <2>2. FieldLength(data, o) = k /\ FieldStart(data, o) = o + 1
    BY <1>1, <1>6, <1>9 DEF FieldLength, FieldStart
  <2>3. \A i \in 1 .. k : data[(o + 1) + i - 1] = v[i]
    <3> SUFFICES ASSUME NEW i \in 1 .. k
                 PROVE  data[(o + 1) + i - 1] = v[i]
      OBVIOUS
    <3>1. 1 + i \in 1 .. n /\ o + (1 + i) - 1 = (o + 1) + i - 1 /\ i \in 1 .. 4
      BY <1>1, <1>9
    <3>2. data[o + (1 + i) - 1] = e[1 + i] /\ e[1 + i] = v[i]
      BY <1>1, <1>4, <1>9, <3>1
    <3> QED
      BY <3>1, <3>2
  <2>4. at(o + 1) = v
    BY <1>5, <2>3
  <2>5. FieldAt(data, o) = [tag |-> f.tag, value |-> at(o + 1)]
    BY <1>6, <1>7, <2>2 DEF FieldAt, at
  <2>6. FieldStart(data, o) + FieldLength(data, o) = o + n
    BY <1>1, <1>9, <2>2
  <2> QED
    BY <1>2, <1>8, <2>1, <2>4, <2>5, <2>6
<1>10. CASE f.tag = VARCHAR
  <2>1. data[o + 1] = 0 /\ data[o + 2] = k
    <3>1. 2 \in 1 .. n /\ 3 \in 1 .. n /\ o + 2 - 1 = o + 1 /\ o + 3 - 1 = o + 2
      BY <1>1
    <3>2. data[o + 2 - 1] = e[2] /\ data[o + 3 - 1] = e[3]
      BY <1>4, <3>1
    <3> QED
      BY <1>1, <1>10, <3>1, <3>2
  <2>2. n = 3 + k /\ INT # VARCHAR
    BY <1>1, <1>3, <1>10
  <2>3. IsField(data, o)
    BY <1>1, <1>3, <1>6, <1>8, <1>10, <2>1, <2>2 DEF IsField
  <2>4. FieldLength(data, o) = k /\ FieldStart(data, o) = o + 3
    BY <1>1, <1>6, <1>10, <2>1, <2>2 DEF FieldLength, FieldStart
  <2>5. \A i \in 1 .. k : data[(o + 3) + i - 1] = v[i]
    <3> SUFFICES ASSUME NEW i \in 1 .. k
                 PROVE  data[(o + 3) + i - 1] = v[i]
      OBVIOUS
    <3>1. 3 + i \in 1 .. n /\ o + (3 + i) - 1 = (o + 3) + i - 1
      BY <1>1, <2>2
    <3>2. data[o + (3 + i) - 1] = e[3 + i] /\ e[3 + i] = v[i]
      BY <1>1, <1>4, <1>10, <3>1
    <3> QED
      BY <3>1, <3>2
  <2>6. at(o + 3) = v
    BY <1>5, <2>5
  <2>7. FieldAt(data, o) = [tag |-> f.tag, value |-> at(o + 3)]
    BY <1>6, <1>7, <2>4 DEF FieldAt, at
  <2>8. FieldStart(data, o) + FieldLength(data, o) = o + n
    BY <1>1, <2>2, <2>4
  <2> QED
    BY <1>2, <1>8, <2>3, <2>6, <2>7, <2>8
<1> QED
  BY <1>2, <1>9, <1>10

\* readRow finds the row that writeRow has written.
LEMMA RowReads ==
  ASSUME NEW data \in Data, NEW o \in Nat, NEW r \in Rows,
         o + RowBytes(r) <= PageSize, RowLies(data, o, r)
  PROVE  RowAt(data, o) = [fields |-> r, next |-> o + RowBytes(r)]
<1> DEFINE n == Len(r)
           l == ReadLoop(data, o)
           e == Ends(r)
           S == {k \in 0 .. n : l[k] = [fields |-> SubSeq(r, 1, k), next |-> o + e[k]]}
<1>1. /\ n \in Nat /\ n <= 16 /\ MaxColumns = 16 /\ r \in Seq(Storable) /\ PageSize \in Nat
      /\ RowBytes(r) \in Nat /\ RowBytes(r) >= 1
  <2>1. n \in 0 .. MaxColumns /\ r \in Seq(Storable)
    BY RowIs
  <2>2. RowBytes(r) \in Nat /\ RowBytes(r) >= 1 /\ PageSize \in Nat
    BY EndsClimb, Sizes
  <2> HIDE DEF n
  <2>3. n \in Nat /\ n <= 16 /\ MaxColumns = 16
    BY <2>1 DEF MaxColumns
  <2> QED
    BY <2>1, <2>2, <2>3
<1>2. o \in Offsets
  BY <1>1, Sizes
<1>3. 0 \in S
  <2>1. SubSeq(r, 1, 0) = << >> /\ e[0] = 1
    BY EndsIs, SubSeqEmpty
  <2> QED
    BY <1>1, <1>2, <2>1, ReadLoopIs
<1>4. ASSUME NEW k \in 1 .. n, k - 1 \in S
      PROVE  k \in S
  <2> DEFINE at == o + e[k - 1]
             was == l[k - 1]
  <2>1. /\ k \in 0 .. n /\ k - 1 \in 0 .. n /\ k \in 1 .. MaxColumns
        /\ e[k - 1] \in Nat /\ e[k] \in 1 .. RowBytes(r)
        /\ r[k] \in Storable /\ Len(Encoded(r[k])) \in Nat
        /\ e[k] = e[k - 1] + Len(Encoded(r[k]))
    <3>1. k \in 0 .. n /\ k - 1 \in 0 .. n /\ k \in 1 .. MaxColumns
      BY <1>1
    <3>2. e[k - 1] \in Nat /\ e[k] = e[k - 1] + Len(Encoded(r[k]))
      BY <3>1, EndsIs
    <3> QED
      BY <3>1, <3>2, EndsClimb, RowIs, EncodedIs
  <2>2. was = [fields |-> SubSeq(r, 1, k - 1), next |-> at]
    BY <1>4
  <2>3. FieldLies(data, at, r[k])
    BY DEF RowLies
  <2> HIDE DEF e
  <2>4. at \in Nat /\ at + Len(Encoded(r[k])) = o + e[k] /\ o + e[k] <= PageSize
    <3>1. at \in Nat
      BY <1>1, <2>1
    <3>2. at + Len(Encoded(r[k])) = o + e[k]
      BY <1>1, <2>1
    <3>3. o + e[k] <= PageSize
      BY <1>1, <2>1
    <3> QED
      BY <3>1, <3>2, <3>3
  <2> HIDE DEF at, was, l, n
  <2>5. /\ at < PageSize /\ IsField(data, at) /\ FieldAt(data, at) = r[k]
        /\ FieldStart(data, at) + FieldLength(data, at) = o + e[k]
    BY <2>1, <2>3, <2>4, FieldReads
  <2>6. was.next = at /\ was.fields = SubSeq(r, 1, k - 1)
    BY <2>2
  <2>7. l[k] = ReadStep(data, was)
    BY <1>2, <2>1, ReadLoopIs DEF l, was
  <2>8. ~ (at >= PageSize)
    BY <1>1, <2>4, <2>5
  <2>9. l[k] = [fields |-> Append(SubSeq(r, 1, k - 1), r[k]), next |-> o + e[k]]
    BY <2>5, <2>6, <2>7, <2>8 DEF ReadStep
  <2>10. Append(SubSeq(r, 1, k - 1), r[k]) = SubSeq(r, 1, k)
    BY <1>1, <2>1 DEF n
  <2> QED
    BY <2>1, <2>9, <2>10
<1>5. \A k \in 0 .. n : k \in S
  <2> HIDE DEF S
  <2> QED
    BY <1>1, <1>3, <1>4, UpTo
<1>6. data[o] = n
  BY DEF RowLies
<1>7. RowAt(data, o) = l[n]
  BY <1>1, <1>6 DEF RowAt
<1>8. SubSeq(r, 1, n) = r
  BY <1>1, SubSeqFull
<1> QED
  BY <1>1, <1>5, <1>7, <1>8 DEF RowBytes

(***************************************************************************)
(* A scan.                                                                 *)
(***************************************************************************)
Fields == Seq(Field)

\* The rows from offset o on, those behind them being given by f.
From(data, f, o) ==
  IF o >= PageSize THEN << >>
  ELSE IF RowAt(data, o).next > PageSize THEN << >>
  ELSE << RowAt(data, o).fields >> \o f[RowAt(data, o).next]

\* From looks at the later offsets only.
LEMMA FromIs ==
  ASSUME NEW data \in Data, NEW o \in 0 .. PageSize, NEW f, NEW g,
         \A i \in o + 1 .. PageSize : f[i] \in Seq(Fields) /\ f[i] = g[i]
  PROVE  From(data, f, o) = From(data, g, o) /\ From(data, f, o) \in Seq(Fields)
<1>1. o \in Nat /\ PageSize \in Nat
  BY Sizes
<1>2. CASE o >= PageSize \/ RowAt(data, o).next > PageSize
  BY <1>1, <1>2 DEF From
<1>3. CASE ~ (o >= PageSize) /\ ~ (RowAt(data, o).next > PageSize)
  <2> DEFINE x == RowAt(data, o)
  <2>1. o \in Offsets
    BY <1>1, <1>3, Sizes
  <2>2. x \in ReadState /\ x.next > o
    BY <2>1, RowAtIs
  <2>3. From(data, f, o) = << x.fields >> \o f[x.next] /\ From(data, g, o) = << x.fields >> \o g[x.next]
    BY <1>3 DEF From
  <2>4. ~ (x.next > PageSize)
    BY <1>3
  <2> HIDE DEF x
  <2>5. x.fields \in Fields /\ x.next \in o + 1 .. PageSize
    BY <1>1, <2>2, <2>4 DEF ReadState, Fields
  <2>6. f[x.next] \in Seq(Fields) /\ f[x.next] = g[x.next]
    BY <2>5
  <2>7. << x.fields >> \o f[x.next] \in Seq(Fields)
    BY <2>5, <2>6
  <2> QED
    BY <2>3, <2>6, <2>7
<1> QED
  BY <1>2, <1>3

LEMMA ScanFromExists ==
  ASSUME NEW data \in Data
  PROVE  \E f \in [0 .. PageSize -> Seq(Fields)] : f = [o \in 0 .. PageSize |-> From(data, f, o)]
<1> DEFINE n == PageSize
           Have(k) == \E f \in [n - k .. n -> Seq(Fields)] :
                        \A o \in n - k .. n : f[o] = From(data, f, o)
           S == {k \in 0 .. n : Have(k)}
<1>1. n \in Nat
  BY Sizes
<1>2. 0 \in S
  <2> DEFINE f == [o \in n .. n |-> << >>]
  <2>1. f \in [n .. n -> Seq(Fields)]
    OBVIOUS
  <2>2. \A o \in n .. n : f[o] = From(data, f, o)
    BY <1>1 DEF From
  <2>3. n - 0 = n
    BY <1>1
  <2> HIDE DEF f, n
  <2> QED
    BY <1>1, <2>1, <2>2, <2>3
<1>3. ASSUME NEW k \in 1 .. n, k - 1 \in S
      PROVE  k \in S
  <2> DEFINE low == n - k
  <2>1. low \in 0 .. n - 1 /\ n - (k - 1) = low + 1
    BY <1>1
  <2>2. PICK g \in [low + 1 .. n -> Seq(Fields)] : \A o \in low + 1 .. n : g[o] = From(data, g, o)
    BY <1>3, <2>1
  <2> HIDE DEF low
  <2> DEFINE f == [o \in low .. n |-> IF o = low THEN From(data, g, low) ELSE g[o]]
  <2>3. From(data, g, low) \in Seq(Fields)
    <3>1. low \in 0 .. PageSize
      BY <1>1, <2>1
    <3>2. \A i \in low + 1 .. PageSize : g[i] \in Seq(Fields)
      BY <2>2
    <3> QED
      BY <3>1, <3>2, FromIs
  <2>4. f \in [low .. n -> Seq(Fields)]
    BY <1>1, <2>1, <2>2, <2>3
  <2>5. \A j \in low + 1 .. n : f[j] = g[j]
    BY <1>1, <2>1
  <2>6. f[low] = From(data, g, low)
    BY <1>1, <2>1
  <2> HIDE DEF f
  <2>7. ASSUME NEW o \in low .. n
        PROVE  f[o] = From(data, f, o)
    <3>1. o \in 0 .. PageSize /\ \A j \in o + 1 .. PageSize : j \in low + 1 .. n
      BY <1>1, <2>1
    <3>2. \A j \in o + 1 .. PageSize : g[j] \in Seq(Fields) /\ g[j] = f[j]
      BY <2>2, <2>5, <3>1
    <3>3. From(data, g, o) = From(data, f, o)
      BY <3>1, <3>2, FromIs
    <3> QED
      BY <1>1, <2>1, <2>2, <2>5, <2>6, <3>3
  <2>8. Have(k)
    BY <2>4, <2>7 DEF low
  <2>9. k \in 0 .. n
    BY <1>1
  <2> HIDE DEF Have, n
  <2> QED
    BY <2>8, <2>9
<1>4. \A k \in 0 .. n : k \in S
  <2> HIDE DEF S
  <2> QED
    BY <1>1, <1>2, <1>3, UpTo
<1>5. n \in S /\ n - n = 0
  <2>1. n \in 0 .. n /\ n - n = 0
    BY <1>1
  <2> HIDE DEF S
  <2> QED
    BY <1>4, <2>1
<1>6. PICK f \in [0 .. n -> Seq(Fields)] : \A o \in 0 .. n : f[o] = From(data, f, o)
  BY <1>5
<1>7. f = [o \in 0 .. n |-> From(data, f, o)]
  BY <1>6
<1> QED
  BY <1>6, <1>7

LEMMA ScanFromIs ==
  ASSUME NEW data \in Data
  PROVE  /\ ScanFrom(data) \in [0 .. PageSize -> Seq(Fields)]
         /\ \A o \in 0 .. PageSize : ScanFrom(data)[o] = From(data, ScanFrom(data), o)
<1> DEFINE Is(g) == g = [o \in 0 .. PageSize |-> From(data, g, o)]
           f == ScanFrom(data)
           S == {k \in 0 .. PageSize : f[PageSize - k] \in Seq(Fields)}
<1>1. \E g : Is(g)
  BY ScanFromExists
<1>2. f = CHOOSE g : Is(g)
  BY DEF ScanFrom, From
<1>3. f = [o \in 0 .. PageSize |-> From(data, f, o)]
  <2>1. Is(f)
    BY <1>1, <1>2
  <2> QED
    BY <2>1
<1> HIDE DEF f, Is
<1>4. \A o \in 0 .. PageSize : f[o] = From(data, f, o)
  BY <1>3
<1> DEFINE Bad == {k \in 0 .. PageSize : f[PageSize - k] \notin Seq(Fields)}
<1>5. Bad = {}
  <2>1. SUFFICES ASSUME Bad # {}
                 PROVE  FALSE
    OBVIOUS
  <2>2. Bad \in SUBSET Nat /\ PageSize \in Nat
    BY Sizes
  <2>3. PICK k \in Bad : \A m \in Bad : k <= m
    BY <2>1, <2>2, LeastOf
  <2>4. PageSize - k \in 0 .. PageSize /\ k \in 0 .. PageSize
    BY <2>2
  <2>5. ASSUME NEW i \in (PageSize - k) + 1 .. PageSize
        PROVE  f[i] \in Seq(Fields)
    <3>1. PageSize - i \in 0 .. PageSize /\ PageSize - i < k /\ PageSize - (PageSize - i) = i
      BY <2>2, <2>4
    <3>2. PageSize - i \notin Bad
      <4> HIDE DEF Bad
      <4>1. k <= PageSize - i \/ PageSize - i \notin Bad
        BY <2>3
      <4> QED
        BY <2>2, <2>3, <3>1, <4>1
    <3> QED
      BY <3>1, <3>2
  <2>6. f[PageSize - k] \in Seq(Fields)
    BY <1>4, <2>4, <2>5, FromIs
  <2> QED
    BY <2>3, <2>6
<1>6. ASSUME NEW o \in 0 .. PageSize
      PROVE  f[o] \in Seq(Fields)
  <2>1. PageSize - o \in 0 .. PageSize /\ PageSize - (PageSize - o) = o
    BY Sizes
  <2>2. PageSize - o \notin Bad
    BY <1>5
  <2> QED
    BY <2>1, <2>2
<1>7. f \in [0 .. PageSize -> Seq(Fields)]
  BY <1>3, <1>6
<1> QED
  BY <1>4, <1>7 DEF f

(***************************************************************************)
(* The rows rs lie behind each other from the first byte of a page to used. *)
(***************************************************************************)
Starts(rs) == [0 .. Len(rs) -> 0 .. PageSize]

LieAt(data, s, rs) ==
  \A k \in 1 .. Len(rs) : s[k] = s[k - 1] + RowBytes(rs[k]) /\ RowLies(data, s[k - 1], rs[k])

RowsLie(data, used, rs) ==
  \E s \in Starts(rs) : s[0] = 0 /\ s[Len(rs)] = used /\ LieAt(data, s, rs)

LEMMA RowsAreFields ==
  ASSUME NEW rs \in Seq(Rows)
  PROVE  rs \in Seq(Fields) /\ Len(rs) \in Nat /\ \A k \in 1 .. Len(rs) : rs[k] \in Rows
<1>1. Len(rs) \in Nat /\ \A k \in 1 .. Len(rs) : rs[k] \in Rows
  OBVIOUS
<1>2. ASSUME NEW r \in Rows
      PROVE  r \in Fields
  <2>1. r \in Seq(Storable)
    BY RowIs
  <2>2. \A f \in Storable : f \in Field
    BY DEF Storable
  <2> QED
    BY <2>1, <2>2 DEF Fields
<1>3. \A k \in 1 .. Len(rs) : rs[k] \in Fields
  BY <1>1, <1>2
<1> QED
  BY <1>1, <1>3

\* A scan begins with the rows that lie on the page.
LEMMA ScanFinds ==
  ASSUME NEW data \in Data, NEW used, NEW rs \in Seq(Rows), RowsLie(data, used, rs)
  PROVE  IsPrefix(rs, Scan(data))
<1> DEFINE n == Len(rs)
           f == ScanFrom(data)
<1>1. PICK s \in Starts(rs) : s[0] = 0 /\ LieAt(data, s, rs)
  BY DEF RowsLie
<1> DEFINE S == {k \in 0 .. n : f[0] = SubSeq(rs, 1, k) \o f[s[k]]}
<1>2. /\ rs \in Seq(Fields) /\ n \in Nat /\ \A k \in 1 .. n : rs[k] \in Rows
  BY RowsAreFields
<1>3. /\ f \in [0 .. PageSize -> Seq(Fields)]
      /\ \A o \in 0 .. PageSize : f[o] = From(data, f, o)
  BY ScanFromIs
<1> HIDE DEF f
<1>4. PageSize \in Nat /\ \A k \in 0 .. n : s[k] \in 0 .. PageSize /\ f[s[k]] \in Seq(Fields)
  <2>1. \A k \in 0 .. n : s[k] \in 0 .. PageSize
    BY DEF Starts
  <2>2. \A o \in 0 .. PageSize : f[o] \in Seq(Fields)
    BY <1>3
  <2> QED
    BY <2>1, <2>2, Sizes
<1>5. 0 \in S
  <2>1. SubSeq(rs, 1, 0) = << >>
    BY SubSeqEmpty
  <2>2. f[0] \in Seq(Fields) /\ s[0] = 0
    BY <1>1, <1>2, <1>4
  <2>3. << >> \o f[0] = f[0]
    BY <2>2, ConcatEmptySeq
  <2> QED
    BY <1>2, <2>1, <2>2, <2>3
<1>6. ASSUME NEW k \in 1 .. n, k - 1 \in S
      PROVE  k \in S
  <2> DEFINE o == s[k - 1]
             r == rs[k]
  <2>1. /\ k \in 0 .. n /\ k - 1 \in 0 .. n /\ r \in Rows
        /\ o \in 0 .. PageSize /\ s[k] \in 0 .. PageSize
        /\ s[k] = o + RowBytes(r) /\ RowLies(data, o, r)
        /\ RowBytes(r) \in Nat /\ RowBytes(r) >= 1
    <3>1. k \in 0 .. n /\ k - 1 \in 0 .. n /\ r \in Rows
      BY <1>2
    <3> QED
      BY <1>1, <1>4, <3>1, EndsClimb DEF LieAt
  <2> HIDE DEF o, r
  <2>2. RowAt(data, o) = [fields |-> r, next |-> s[k]]
    BY <1>4, <2>1, RowReads
  <2>3. o < PageSize /\ s[k] <= PageSize
    BY <1>4, <2>1
  <2>4. f[o] = << r >> \o f[s[k]]
    <3>1. ~ (o >= PageSize) /\ ~ (s[k] > PageSize)
      BY <1>4, <2>1, <2>3
    <3>2. RowAt(data, o).next = s[k] /\ RowAt(data, o).fields = r
      BY <2>2
    <3>3. f[o] = From(data, f, o)
      BY <1>3, <2>1
    <3> QED
      BY <3>1, <3>2, <3>3 DEF From
  <2>5. f[0] = SubSeq(rs, 1, k - 1) \o (<< r >> \o f[s[k]])
    BY <1>6, <2>4 DEF o
  <2>6. SubSeq(rs, 1, k - 1) \in Seq(Fields) /\ << r >> \in Seq(Fields) /\ f[s[k]] \in Seq(Fields)
    <3>1. \A i \in 1 .. k - 1 : rs[i] \in Fields
      BY <1>2, <2>1
    <3>2. rs[k] \in Fields
      BY <1>2
    <3>3. SubSeq(rs, 1, k - 1) \in Seq(Fields)
      BY <1>2, <3>1, SubSeqProperties
    <3> QED
      BY <1>4, <2>1, <3>2, <3>3 DEF r
  <2>7. f[0] = (SubSeq(rs, 1, k - 1) \o << r >>) \o f[s[k]]
    <3> DEFINE a == SubSeq(rs, 1, k - 1)
               b == << r >>
               c == f[s[k]]
    <3>1. a \in Seq(Fields) /\ b \in Seq(Fields) /\ c \in Seq(Fields) /\ f[0] = a \o (b \o c)
      BY <2>5, <2>6
    <3> HIDE DEF a, b, c
    <3>2. (a \o b) \o c = a \o (b \o c)
      BY <3>1, ConcatAssociative, SMTT(30)
    <3> QED
      BY <3>1, <3>2 DEF a, b, c
  <2>8. SubSeq(rs, 1, k) = SubSeq(rs, 1, k - 1) \o << r >>
    <3>1. 1 \in 1 .. Len(rs) /\ k \in 1 .. Len(rs)
      BY <1>2
    <3> QED
      BY <1>2, <3>1, SubSeqRecursiveSecond DEF r
  <2> QED
    BY <2>1, <2>7, <2>8
<1>7. \A k \in 0 .. n : k \in S
  <2> HIDE DEF S
  <2> QED
    BY <1>2, <1>5, <1>6, UpTo
<1>8. n \in 0 .. n /\ SubSeq(rs, 1, n) = rs
  BY <1>2, SubSeqFull
<1>9. f[0] = rs \o f[s[n]]
  BY <1>7, <1>8
<1> DEFINE t == f[s[n]]
<1>10. t \in Seq(Fields)
  BY <1>4, <1>8
<1> HIDE DEF t
<1>11. IsPrefix(rs, rs \o t)
  <2>1. /\ rs \o t \in Seq(Fields) /\ Len(rs \o t) = Len(rs) + Len(t) /\ Len(t) \in Nat
        /\ \A i \in 1 .. Len(rs) + Len(t) : (rs \o t)[i] = IF i <= Len(rs) THEN rs[i] ELSE t[i - Len(rs)]
    BY <1>2, <1>10, ConcatProperties
  <2> DEFINE c == rs \o t
  <2> HIDE DEF c, n
  <2>2. Len(rs) <= Len(c) /\ \A i \in 1 .. Len(rs) : c[i] = rs[i]
    BY <1>2, <2>1 DEF c, n
  <2>3. SubSeq(rs, 1, Len(rs)) = SubSeq(c, 1, Len(rs))
    BY <1>2, <2>1, <2>2 DEF c, n
  <2> QED
    BY <2>2, <2>3 DEF IsPrefix, c
<1> QED
  BY <1>9, <1>11 DEF Scan, f, t

\* What is written behind used leaves the rows alone.
LEMMA RowsLieKeeps ==
  ASSUME NEW data, NEW other, NEW used \in 0 .. PageSize, NEW rs \in Seq(Rows),
         RowsLie(data, used, rs), SameBelow(data, other, used)
  PROVE  \E s \in Starts(rs) : s[0] = 0 /\ s[Len(rs)] = used /\ LieAt(data, s, rs) /\ LieAt(other, s, rs)
<1> DEFINE n == Len(rs)
<1>1. PICK s \in Starts(rs) : s[0] = 0 /\ s[n] = used /\ LieAt(data, s, rs)
  BY DEF RowsLie
<1>2. /\ n \in Nat /\ used \in Nat
      /\ \A k \in 1 .. n : rs[k] \in Rows
      /\ \A k \in 0 .. n : s[k] \in Nat
  <2>1. \A k \in 0 .. n : s[k] \in 0 .. PageSize
    BY DEF Starts
  <2> QED
    BY <2>1, RowsAreFields, Sizes
<1>3. \A k \in 1 .. n : /\ k \in 0 .. n /\ k - 1 \in 0 .. n
                        /\ s[k] = s[k - 1] + RowBytes(rs[k]) /\ RowLies(data, s[k - 1], rs[k])
                        /\ RowBytes(rs[k]) \in Nat
  <2> SUFFICES ASSUME NEW k \in 1 .. n
               PROVE  /\ k \in 0 .. n /\ k - 1 \in 0 .. n
                      /\ s[k] = s[k - 1] + RowBytes(rs[k]) /\ RowLies(data, s[k - 1], rs[k])
                      /\ RowBytes(rs[k]) \in Nat
    OBVIOUS
  <2>1. rs[k] \in Rows /\ k \in 0 .. n /\ k - 1 \in 0 .. n
    BY <1>2
  <2>2. RowBytes(rs[k]) \in Nat
    BY <2>1, EndsClimb
  <2> QED
    BY <1>1, <2>1, <2>2 DEF LieAt
<1> HIDE DEF n
<1> DEFINE S == {j \in 0 .. n : s[n - j] <= used}
<1>4. 0 \in S
  <2>1. n - 0 = n
    BY <1>2
  <2> QED
    BY <1>1, <1>2, <2>1
<1>5. ASSUME NEW j \in 1 .. n, j - 1 \in S
      PROVE  j \in S
  <2> DEFINE k == n - (j - 1)
  <2>1. k \in 1 .. n /\ n - j = k - 1 /\ j \in 0 .. n
    BY <1>2
  <2>2. s[k] <= used
    BY <1>5
  <2> HIDE DEF k
  <2>3. s[k - 1] \in Nat /\ s[k] = s[k - 1] + RowBytes(rs[k]) /\ RowBytes(rs[k]) \in Nat
    BY <1>2, <1>3, <2>1
  <2>4. s[k - 1] <= used
    BY <1>2, <2>2, <2>3
  <2> QED
    BY <2>1, <2>4
<1>6. \A j \in 0 .. n : j \in S
  <2> HIDE DEF S
  <2> QED
    BY <1>2, <1>4, <1>5, UpTo
<1>7. ASSUME NEW k \in 0 .. n
      PROVE  s[k] <= used
  <2>1. n - k \in 0 .. n /\ n - (n - k) = k
    BY <1>2
  <2>2. n - k \in S
    BY <1>6, <2>1
  <2> QED
    BY <2>1, <2>2
<1>8. ASSUME NEW k \in 1 .. n
      PROVE  s[k] = s[k - 1] + RowBytes(rs[k]) /\ RowLies(other, s[k - 1], rs[k])
  <2>1. /\ rs[k] \in Rows /\ s[k - 1] \in Nat
        /\ s[k] = s[k - 1] + RowBytes(rs[k]) /\ s[k] <= used /\ RowLies(data, s[k - 1], rs[k])
    BY <1>2, <1>3, <1>7
  <2> QED
    BY <1>2, <2>1, RowLiesKeeps
<1> QED
  BY <1>1, <1>8 DEF LieAt, n

\* A row written behind the rows of a page lies there as the last of them.
LEMMA RowsLieGrows ==
  ASSUME NEW data, NEW other, NEW used \in 0 .. PageSize, NEW rs \in Seq(Rows),
         RowsLie(data, used, rs), SameBelow(data, other, used),
         NEW r \in Rows, used + RowBytes(r) <= PageSize, RowLies(other, used, r)
  PROVE  RowsLie(other, used + RowBytes(r), Append(rs, r))
<1> DEFINE n == Len(rs)
           more == Append(rs, r)
           end == used + RowBytes(r)
<1>1. PICK s \in Starts(rs) : s[0] = 0 /\ s[n] = used /\ LieAt(other, s, rs)
  BY RowsLieKeeps
<1>2. /\ n \in Nat /\ Len(more) = n + 1 /\ more[n + 1] = r
      /\ \A k \in 1 .. n : more[k] = rs[k]
      /\ more \in Seq(Rows)
  BY AppendProperties
<1>3. end \in 0 .. PageSize
  <2>1. RowBytes(r) \in Nat /\ PageSize \in Nat
    BY EndsClimb, Sizes
  <2> QED
    BY <2>1
<1> HIDE DEF n, more, end
<1> DEFINE t == [k \in 0 .. n + 1 |-> IF k = n + 1 THEN end ELSE s[k]]
<1>4. \A k \in 0 .. n : s[k] \in 0 .. PageSize
  BY DEF Starts, n
<1>5. t \in Starts(more)
  BY <1>2, <1>3, <1>4 DEF Starts
<1>6. t[n + 1] = end /\ \A k \in 0 .. n : t[k] = s[k]
  BY <1>2
<1> HIDE DEF t
<1>7. ASSUME NEW k \in 1 .. n + 1
      PROVE  t[k] = t[k - 1] + RowBytes(more[k]) /\ RowLies(other, t[k - 1], more[k])
  <2>1. CASE k = n + 1
    <3>1. t[k] = end /\ t[k - 1] = used /\ more[k] = r
      <4>1. k - 1 = n /\ n \in 0 .. n
        BY <1>2, <2>1
      <4> QED
        BY <1>1, <1>2, <1>6, <2>1, <4>1 DEF n
    <3> QED
      BY <3>1 DEF end
  <2>2. CASE k # n + 1
    <3>1. k \in 1 .. n /\ k \in 0 .. n /\ k - 1 \in 0 .. n
      BY <1>2, <2>2
    <3>2. t[k] = s[k] /\ t[k - 1] = s[k - 1] /\ more[k] = rs[k]
      BY <1>2, <1>6, <3>1
    <3>3. s[k] = s[k - 1] + RowBytes(rs[k]) /\ RowLies(other, s[k - 1], rs[k])
      BY <1>1, <3>1 DEF LieAt, n
    <3> QED
      BY <3>2, <3>3
  <2> QED
    BY <2>1, <2>2
<1>8. LieAt(other, t, more)
  BY <1>2, <1>7 DEF LieAt
<1>9. t[0] = 0 /\ t[Len(more)] = end
  BY <1>1, <1>2, <1>6
<1> QED
  BY <1>5, <1>8, <1>9 DEF RowsLie, more, end

LEMMA NoRowsLie ==
  ASSUME NEW data
  PROVE  RowsLie(data, 0, << >>)
<1> DEFINE s == [k \in 0 .. 0 |-> 0]
<1>1. s \in Starts(<< >>)
  BY Sizes DEF Starts
<1>2. s[0] = 0 /\ Len(<< >>) = 0 /\ LieAt(data, s, << >>)
  BY DEF LieAt
<1> QED
  BY <1>1, <1>2 DEF RowsLie

(***************************************************************************)
(* The file.                                                               *)
(***************************************************************************)
LEMMA PutInFileIs ==
  ASSUME file \in Seq(Byte), NEW o \in Nat, NEW s \in Seq(Byte)
  PROVE  /\ PutInFile(o, s) \in Seq(Byte)
         /\ Len(PutInFile(o, s)) = IF Len(file) < o + Len(s) THEN o + Len(s) ELSE Len(file)
         /\ \A i \in 1 .. Len(s) : PutInFile(o, s)[o + i] = s[i]
         /\ \A i \in 1 .. Len(PutInFile(o, s)) : i <= o \/ i > o + Len(s) =>
              PutInFile(o, s)[i] = IF i <= Len(file) THEN file[i] ELSE 0
<1> DEFINE m == Len(s)
           size == IF Len(file) < o + m THEN o + m ELSE Len(file)
           put == PutInFile(o, s)
<1>1. /\ m \in Nat /\ Len(file) \in Nat /\ 0 \in Byte
      /\ \A i \in 1 .. m : s[i] \in Byte
      /\ \A i \in 1 .. Len(file) : file[i] \in Byte
  <2>1. m \in Nat /\ Len(file) \in Nat
    OBVIOUS
  <2>2. 0 \in Byte
    BY DEF Byte
  <2> QED
    BY <2>1, <2>2
<1>2. put = [i \in 1 .. size |-> IF i > o /\ i <= o + m THEN s[i - o]
                                 ELSE IF i <= Len(file) THEN file[i] ELSE 0]
  BY DEF PutInFile
<1> HIDE DEF m
<1>3. size \in Nat /\ o + m <= size
  BY <1>1
<1> HIDE DEF size, put
<1>4. ASSUME NEW i \in 1 .. size
      PROVE  (IF i > o /\ i <= o + m THEN s[i - o]
              ELSE IF i <= Len(file) THEN file[i] ELSE 0) \in Byte
  <2>1. i > o /\ i <= o + m => i - o \in 1 .. m
    BY <1>1
  <2> QED
    BY <1>1, <2>1
<1>5. put \in Seq(Byte) /\ Len(put) = size
  BY <1>2, <1>3, <1>4
<1>6. ASSUME NEW i \in 1 .. m
      PROVE  put[o + i] = s[i]
  <2>1. o + i \in 1 .. size /\ o + i > o /\ o + i <= o + m /\ (o + i) - o = i
    BY <1>1, <1>3
  <2> QED
    BY <1>2, <2>1
<1>7. ASSUME NEW i \in 1 .. size, i <= o \/ i > o + m
      PROVE  put[i] = IF i <= Len(file) THEN file[i] ELSE 0
  <2>1. ~ (i > o /\ i <= o + m)
    BY <1>1, <1>3, <1>7
  <2> QED
    BY <1>2, <2>1
<1> QED
  BY <1>5, <1>6, <1>7 DEF put, size, m

LEMMA IntBytesIs ==
  ASSUME NEW n \in Nat, n <= 65535
  PROVE  /\ IntBytes(n) \in Seq(Byte) /\ Len(IntBytes(n)) = 4
         /\ IntBytes(n)[1] \in Nat /\ IntBytes(n)[2] \in Nat
         /\ IntBytes(n)[1] + 256 * IntBytes(n)[2] = n
         /\ IntBytes(n)[3] = 0 /\ IntBytes(n)[4] = 0
<1> DEFINE a == n % 256
           b == n \div 256
<1>1. a \in 0 .. 255 /\ b \in 0 .. 255 /\ n = 256 * b + a
  <2>1. a \in Nat /\ a <= 255 /\ b \in Nat /\ b <= 255 /\ n = 256 * b + a
    OBVIOUS
  <2> HIDE DEF a, b
  <2> QED
    BY <2>1, Within
<1>2. IntBytes(n) = << a, b, 0, 0 >>
  BY DEF IntBytes
<1>3. a \in Byte /\ b \in Byte /\ 0 \in Byte /\ a \in Nat /\ b \in Nat /\ a + 256 * b = n
  BY <1>1 DEF Byte
<1> HIDE DEF a, b
<1> QED
  BY <1>2, <1>3

PageType ==
  [pageId : PageIds \union {0}, isDirty : BOOLEAN, usedBytes : 0 .. PageSize, data : Data]

\* A page whose usedBytes may be out of bounds.
LoosePageType ==
  [pageId : PageIds \union {0}, isDirty : BOOLEAN, usedBytes : Int, data : Data]

LEMMA PageIsLoose ==
  ASSUME NEW pg \in PageType
  PROVE  pg \in LoosePageType /\ pg.usedBytes \in 0 .. PageSize
<1>1. \A n \in 0 .. PageSize : n \in Int
  BY Sizes
<1> QED
  BY <1>1 DEF PageType, LoosePageType

\* Where the parts of a page are in what serialize makes of it.
LEMMA SerializedIs ==
  ASSUME NEW pg \in PageType
  PROVE  LET s == Serialized(pg)
             u == pg.usedBytes
         IN  /\ s \in Seq(Byte) /\ Len(s) = 10 + u
             /\ s[7] \in Nat /\ s[8] \in Nat /\ s[7] + 256 * s[8] = u
             /\ s[9] = 0 /\ s[10] = 0
             /\ \A i \in 0 .. u - 1 : s[10 + i + 1] = pg.data[i]
<1> DEFINE u == pg.usedBytes
           a == IntBytes(pg.pageId)
           b == << IF pg.isDirty THEN 1 ELSE 0, 0 >>
           c == IntBytes(u)
           d == [i \in 1 .. u |-> pg.data[i - 1]]
<1>1. /\ pg.pageId \in Nat /\ pg.pageId <= 65535
      /\ u \in Nat /\ u <= PageSize /\ u <= 65535
      /\ PageSize \in Nat /\ pg.data \in Data
  <2>1. pg.pageId \in PageIds \union {0} /\ u \in 0 .. PageSize /\ pg.data \in Data
    BY DEF PageType
  <2>2. \A p \in PageIds : p \in Nat /\ p <= 65535
    <3>1. \A p \in PageIds : p \in Nat /\ p <= 1023
      BY PageIdIs
    <3> QED
      BY <3>1
  <2> HIDE DEF u
  <2> QED
    BY <2>1, <2>2, Sizes
<1>2. u \in Nat /\ u <= 65535
  BY <1>1
<1>3. a \in Seq(Byte) /\ Len(a) = 4
  <2> DEFINE id == pg.pageId
  <2>1. id \in Nat /\ id <= 65535
    BY <1>1
  <2> HIDE DEF id
  <2>2. IntBytes(id) \in Seq(Byte) /\ Len(IntBytes(id)) = 4
    BY <2>1, IntBytesIs
  <2> QED
    BY <2>2 DEF id
<1>4. b \in Seq(Byte) /\ Len(b) = 2
  BY DEF Byte
<1> HIDE DEF u
<1>5. /\ c \in Seq(Byte) /\ Len(c) = 4
      /\ c[1] \in Nat /\ c[2] \in Nat /\ c[1] + 256 * c[2] = u /\ c[3] = 0 /\ c[4] = 0
  BY <1>2, IntBytesIs
<1>6. /\ d \in Seq(Byte) /\ Len(d) = u
      /\ \A i \in 0 .. u - 1 : d[i + 1] = pg.data[i]
  <2>1. \A i \in 1 .. u : i - 1 \in Offsets
    BY <1>1, <1>2, Sizes
  <2>2. \A i \in 1 .. u : pg.data[i - 1] \in Byte
    BY <1>1, <2>1 DEF Data
  <2>3. \A i \in 0 .. u - 1 : i + 1 \in 1 .. u /\ (i + 1) - 1 = i
    BY <1>2
  <2> QED
    BY <1>2, <2>2, <2>3
<1>7. Serialized(pg) = ((a \o b) \o c) \o d
  BY DEF Serialized, u
<1> HIDE DEF a, b, c, d
<1> DEFINE ab == a \o b
           abc == ab \o c
           s == abc \o d
<1>8. ab \in Seq(Byte) /\ Len(ab) = 6
  <2>1. ab \in Seq(Byte) /\ Len(ab) = Len(a) + Len(b)
    BY <1>3, <1>4, ConcatProperties
  <2> HIDE DEF ab
  <2> QED
    BY <1>3, <1>4, <2>1
<1> HIDE DEF ab
<1>9. /\ abc \in Seq(Byte) /\ Len(abc) = 10
      /\ abc[7] = c[1] /\ abc[8] = c[2] /\ abc[9] = c[3] /\ abc[10] = c[4]
  <2>1. /\ abc \in Seq(Byte) /\ Len(abc) = Len(ab) + Len(c)
        /\ \A i \in 1 .. Len(ab) + Len(c) : abc[i] = IF i <= Len(ab) THEN ab[i] ELSE c[i - Len(ab)]
    BY <1>5, <1>8, ConcatProperties
  <2> HIDE DEF abc
  <2>2. /\ Len(abc) = 10
        /\ \A i \in 1 .. 10 : abc[i] = IF i <= 6 THEN ab[i] ELSE c[i - 6]
    BY <1>5, <1>8, <2>1
  <2>3. \A j \in 1 .. 4 : abc[6 + j] = c[j]
    <3> SUFFICES ASSUME NEW j \in 1 .. 4
                 PROVE  abc[6 + j] = c[j]
      OBVIOUS
    <3>1. 6 + j \in 1 .. 10 /\ ~ (6 + j <= 6) /\ (6 + j) - 6 = j
      OBVIOUS
    <3> QED
      BY <2>2, <3>1
  <2>4. abc[6 + 1] = c[1] /\ abc[6 + 2] = c[2] /\ abc[6 + 3] = c[3] /\ abc[6 + 4] = c[4]
    BY <2>3
  <2>5. 6 + 1 = 7 /\ 6 + 2 = 8 /\ 6 + 3 = 9 /\ 6 + 4 = 10
    OBVIOUS
  <2> QED
    BY <2>1, <2>2, <2>4, <2>5, Zenon
<1> HIDE DEF abc
<1>10. /\ s \in Seq(Byte) /\ Len(s) = 10 + u
       /\ \A i \in 1 .. 10 + u : s[i] = IF i <= 10 THEN abc[i] ELSE d[i - 10]
  <2>1. /\ s \in Seq(Byte) /\ Len(s) = Len(abc) + Len(d)
        /\ \A i \in 1 .. Len(abc) + Len(d) : s[i] = IF i <= Len(abc) THEN abc[i] ELSE d[i - Len(abc)]
    BY <1>6, <1>9, ConcatProperties
  <2> HIDE DEF s
  <2> QED
    BY <1>6, <1>9, <2>1
<1> HIDE DEF s
<1>11. s[7] = c[1] /\ s[8] = c[2] /\ s[9] = c[3] /\ s[10] = c[4]
  <2>1. \A i \in 1 .. 10 : i \in 1 .. 10 + u /\ s[i] = abc[i]
    BY <1>2, <1>10
  <2>2. s[7] = abc[7] /\ s[8] = abc[8] /\ s[9] = abc[9] /\ s[10] = abc[10]
    BY <2>1
  <2> QED
    BY <1>9, <2>2
<1>12. ASSUME NEW i \in 0 .. u - 1
       PROVE  s[10 + i + 1] = pg.data[i]
  <2>1. 10 + i + 1 \in 1 .. 10 + u /\ ~ (10 + i + 1 <= 10) /\ (10 + i + 1) - 10 = i + 1
    BY <1>2
  <2>2. s[10 + i + 1] = d[i + 1]
    BY <1>10, <2>1
  <2> QED
    BY <1>6, <2>2
<1>13. s[7] \in Nat /\ s[8] \in Nat /\ s[7] + 256 * s[8] = u /\ s[9] = 0 /\ s[10] = 0
  BY <1>5, <1>7, <1>11
<1> QED
  BY <1>7, <1>10, <1>12, <1>13 DEF s, abc, ab, u

\* The slots of two pages do not overlap, and the superblock lies before all of them.
LEMMA SlotsApart ==
  ASSUME NEW p \in PageIds, NEW q \in PageIds
  PROVE  /\ SlotOf(p) \in Nat /\ SlotOf(p) >= PageSize
         /\ p < q => SlotOf(p) + PageSize <= SlotOf(q)
         /\ p \in Nat
<1>1. p \in Nat /\ 1 <= p /\ q \in Nat /\ 1 <= q /\ PageSize \in Nat
  BY PageIdIs, Sizes
<1>2. p * PageSize \in Nat /\ p * PageSize >= PageSize
  BY <1>1
<1>3. ASSUME p < q
      PROVE  p * PageSize + PageSize <= q * PageSize
  <2>1. q - p - 1 \in Nat
    BY <1>1, <1>3
  <2>2. q * PageSize = p * PageSize + PageSize + (q - p - 1) * PageSize
    BY <1>1
  <2>3. (q - p - 1) * PageSize \in Nat
    BY <1>1, <2>1
  <2>4. p * PageSize \in Nat /\ q * PageSize \in Int
    BY <1>1
  <2> QED
    BY <1>1, <2>2, <2>3, <2>4
<1> QED
  BY <1>1, <1>2, <1>3 DEF SlotOf

(***************************************************************************)
(* The slots of the file.                                                  *)
(***************************************************************************)
\* The usedBytes and the bytes that deserialize finds in the slot of page p of f.
UsedIn(f, p) ==
  LET b(i) == f[SlotOf(p) + i]
      used == IntOf(b(7), b(8), b(9), b(10))
  IN  IF used > PageSize THEN PageSize ELSE used

\* d begins with the used bytes behind the header of the slot of page p of f.
Read(d, f, p, used) == \A i \in 0 .. used - 1 : d[i] = f[SlotOf(p) + 10 + i + 1]

\* The slot of page p of f is whole, and the rows rs lie in it; or there is no
\* such slot, and no rows.
SlotHolds(f, p, rs) ==
  IF Len(f) <= SlotOf(p) THEN rs = << >>
  ELSE /\ UsedIn(f, p) \in 0 .. PageSize - 10
       /\ Len(f) >= SlotOf(p) + 10 + UsedIn(f, p)
       /\ \A d : Read(d, f, p, UsedIn(f, p)) => RowsLie(d, UsedIn(f, p), rs)

\* It does when its bytes are there and one page with them has the rows.
LEMMA SlotHoldsIf ==
  ASSUME NEW f, NEW p \in PageIds, NEW rs \in Seq(Rows), NEW d, NEW used \in 0 .. PageSize - 10,
         Len(f) \in Nat, Len(f) >= SlotOf(p) + 10 + used,
         UsedIn(f, p) = used, Read(d, f, p, used), RowsLie(d, used, rs)
  PROVE  SlotHolds(f, p, rs)
<1>1. SlotOf(p) \in Nat /\ PageSize \in Nat
  BY SlotsApart, Sizes
<1>2. used \in 0 .. PageSize
  BY <1>1
<1>3. ASSUME NEW other, Read(other, f, p, used)
      PROVE  RowsLie(other, used, rs)
  <2>1. SameBelow(d, other, used)
    BY <1>3 DEF Read, SameBelow
  <2> QED
    BY <1>2, <2>1, RowsLieKeeps DEF RowsLie
<1>4. ~ (Len(f) <= SlotOf(p))
  BY <1>1
<1> QED
  BY <1>3, <1>4 DEF SlotHolds

\* Writing apart from a slot leaves it as it is, or makes it an empty one.
LEMMA SlotKept ==
  ASSUME file \in Seq(Byte), NEW p \in PageIds, NEW rs \in Seq(Rows), SlotHolds(file, p, rs),
         NEW o \in Nat, NEW s \in Seq(Byte),
         o + Len(s) <= SlotOf(p) \/ o >= SlotOf(p) + PageSize
  PROVE  SlotHolds(PutInFile(o, s), p, rs)
<1> DEFINE g == PutInFile(o, s)
           m == Len(s)
           n == Len(file)
           at == SlotOf(p)
<1>1. /\ at \in Nat /\ PageSize \in Nat /\ PageSize >= 10 /\ m \in Nat /\ n \in Nat
      /\ at >= PageSize
  BY SlotsApart, Sizes
<1>2. /\ g \in Seq(Byte) /\ Len(g) \in Nat
      /\ Len(g) = IF n < o + m THEN o + m ELSE n
      /\ \A i \in 1 .. Len(g) : i <= o \/ i > o + m => g[i] = IF i <= n THEN file[i] ELSE 0
  BY PutInFileIs
<1> HIDE DEF g, m, n, at
<1>3. o + m <= at \/ o >= at + PageSize
  BY DEF m, at
<1>4. \A i \in at + 1 .. at + PageSize : i <= Len(g) => g[i] = IF i <= n THEN file[i] ELSE 0
  <2> SUFFICES ASSUME NEW i \in at + 1 .. at + PageSize, i <= Len(g)
               PROVE  g[i] = IF i <= n THEN file[i] ELSE 0
    OBVIOUS
  <2>1. i \in 1 .. Len(g) /\ (i <= o \/ i > o + m)
    BY <1>1, <1>2, <1>3
  <2> QED
    BY <1>2, <2>1
<1>5. CASE n > at
  <2> DEFINE used == UsedIn(file, p)
  <2>1. /\ used \in 0 .. PageSize - 10
        /\ n >= at + 10 + used
        /\ \A d : Read(d, file, p, used) => RowsLie(d, used, rs)
    BY <1>1, <1>5 DEF SlotHolds, n, at
  <2> HIDE DEF used
  <2>2. Len(g) >= n
    BY <1>1, <1>2
  <2>3. ASSUME NEW i \in at + 1 .. at + 10 + used
        PROVE  g[i] = file[i]
    <3>1. i \in at + 1 .. at + PageSize /\ i <= Len(g) /\ i <= n
      BY <1>1, <1>2, <2>1, <2>2
    <3> QED
      BY <1>4, <3>1
  <2>4. UsedIn(g, p) = used
    <3>1. \A j \in 7 .. 10 : at + j \in at + 1 .. at + 10 + used
      BY <1>1, <2>1
    <3>2. \A j \in 7 .. 10 : g[at + j] = file[at + j]
      BY <2>3, <3>1
    <3> QED
      BY <3>2 DEF UsedIn, used, at
  <2>5. ASSUME NEW d, Read(d, g, p, used)
        PROVE  Read(d, file, p, used)
    <3>1. \A i \in 0 .. used - 1 : at + 10 + i + 1 \in at + 1 .. at + 10 + used
      BY <1>1, <2>1
    <3>2. \A i \in 0 .. used - 1 : g[at + 10 + i + 1] = file[at + 10 + i + 1]
      BY <2>3, <3>1
    <3> QED
      BY <2>5, <3>2 DEF Read, at
  <2>6. ~ (Len(g) <= at) /\ Len(g) >= at + 10 + used
    BY <1>1, <1>2, <1>5, <2>1, <2>2
  <2> QED
    BY <2>1, <2>4, <2>5, <2>6 DEF SlotHolds, g, at
<1>6. CASE n <= at
  <2>1. rs = << >>
    BY <1>6 DEF SlotHolds, n, at
  <2>2. CASE Len(g) <= at
    BY <2>1, <2>2 DEF SlotHolds, g, at
  <2>3. CASE ~ (Len(g) <= at)
    <3>1. Len(g) >= at + PageSize
      BY <1>1, <1>2, <1>3, <1>6, <2>3
    <3>2. \A j \in 7 .. 10 : g[at + j] = 0
      <4> SUFFICES ASSUME NEW j \in 7 .. 10
                   PROVE  g[at + j] = 0
        OBVIOUS
      <4>1. at + j \in at + 1 .. at + PageSize /\ at + j <= Len(g) /\ ~ (at + j <= n)
        BY <1>1, <1>2, <1>6, <3>1
      <4> QED
        BY <1>4, <4>1
    <3>3. UsedIn(g, p) = 0
      <4>1. g[at + 7] = 0 /\ g[at + 8] = 0 /\ g[at + 9] = 0 /\ g[at + 10] = 0
        BY <3>2
      <4>2. IntOf(0, 0, 0, 0) = 0 /\ ~ (0 > PageSize)
        BY <1>1 DEF IntOf
      <4> QED
        BY <4>1, <4>2 DEF UsedIn, at
    <3>4. \A d : RowsLie(d, 0, rs)
      BY <2>1, NoRowsLie
    <3>5. Len(g) >= at + 10 + 0 /\ 0 \in 0 .. PageSize - 10
      BY <1>1, <1>2, <3>1
    <3> QED
      BY <2>3, <3>3, <3>4, <3>5 DEF SlotHolds, g, at
  <2> QED
    BY <2>2, <2>3
<1> QED
  BY <1>1, <1>5, <1>6 DEF g

\* A page that fits into its slot is held by it once it is saved.
LEMMA SlotSaved ==
  ASSUME file \in Seq(Byte), NEW pg \in PageType, pg.pageId \in PageIds,
         pg.usedBytes <= PageSize - 10,
         NEW rs \in Seq(Rows), RowsLie(pg.data, pg.usedBytes, rs)
  PROVE  SlotHolds(PutInFile(SlotOf(pg.pageId), Serialized(pg)), pg.pageId, rs)
<1> DEFINE p == pg.pageId
           at == SlotOf(p)
           s == Serialized(pg)
           u == pg.usedBytes
           g == PutInFile(at, s)
<1>1. p \in PageIds /\ at \in Nat /\ PageSize \in Nat /\ u \in 0 .. PageSize
  BY SlotsApart, Sizes DEF PageType
<1>2. u <= PageSize - 10
  OBVIOUS
<1>3. /\ s \in Seq(Byte) /\ Len(s) = 10 + u
      /\ s[7] \in Nat /\ s[8] \in Nat /\ s[7] + 256 * s[8] = u
      /\ s[9] = 0 /\ s[10] = 0
      /\ \A i \in 0 .. u - 1 : s[10 + i + 1] = pg.data[i]
  BY SerializedIs
<1> HIDE DEF p, at, s, u
<1>4. /\ g \in Seq(Byte) /\ Len(g) \in Nat
      /\ Len(g) = IF Len(file) < at + Len(s) THEN at + Len(s) ELSE Len(file)
      /\ \A i \in 1 .. Len(s) : g[at + i] = s[i]
  <2>1. /\ g \in Seq(Byte)
        /\ Len(g) = IF Len(file) < at + Len(s) THEN at + Len(s) ELSE Len(file)
        /\ \A i \in 1 .. Len(s) : g[at + i] = s[i]
    BY <1>1, <1>3, PutInFileIs, ZenonT(30)
  <2> HIDE DEF g
  <2>2. Len(g) \in Nat
    BY <2>1
  <2> QED
    BY <2>1, <2>2
<1> HIDE DEF g
<1>5. Len(g) >= at + 10 + u /\ u \in 0 .. PageSize - 10
  <2> DEFINE n == Len(file)
             m == Len(g)
  <2>1. n \in Nat /\ m \in Nat /\ m = IF n < at + (10 + u) THEN at + (10 + u) ELSE n
    BY <1>3, <1>4
  <2> HIDE DEF n, m
  <2>2. m >= at + 10 + u
    BY <1>1, <2>1
  <2>3. u \in 0 .. PageSize - 10
    BY <1>1, <1>2
  <2> QED
    BY <2>2, <2>3 DEF m
<1>6. UsedIn(g, p) = u
  <2>1. \A j \in 7 .. 10 : j \in 1 .. Len(s)
    BY <1>1, <1>3
  <2>2. g[at + 7] = s[7] /\ g[at + 8] = s[8] /\ g[at + 9] = 0 /\ g[at + 10] = 0
    BY <1>3, <1>4, <2>1
  <2>3. IntOf(s[7], s[8], 0, 0) = u /\ ~ (u > PageSize)
    BY <1>1, <1>3 DEF IntOf
  <2> QED
    BY <1>3, <2>2, <2>3 DEF UsedIn, at
<1>7. Read(pg.data, g, p, u)
  <2> SUFFICES ASSUME NEW i \in 0 .. u - 1
               PROVE  pg.data[i] = g[at + 10 + i + 1]
    BY DEF Read, at
  <2>1. 10 + i + 1 \in 1 .. Len(s) /\ at + (10 + i + 1) = at + 10 + i + 1
    BY <1>1, <1>3
  <2>2. g[at + (10 + i + 1)] = s[10 + i + 1]
    BY <1>4, <2>1
  <2> QED
    BY <1>3, <2>1, <2>2
<1>8. RowsLie(pg.data, u, rs)
  BY DEF u
<1>9. Len(g) >= SlotOf(p) + 10 + u
  BY <1>5 DEF at
<1>10. SlotHolds(g, p, rs)
  BY <1>1, <1>4, <1>5, <1>6, <1>7, <1>8, <1>9, SlotHoldsIf
<1> QED
  BY <1>10 DEF g, s, at, p

LEMMA IntOfIs ==
  ASSUME NEW b1 \in Nat, NEW b2 \in Nat, NEW b3 \in Nat, NEW b4 \in Nat
  PROVE  IntOf(b1, b2, b3, b4) \in Int
<1> DEFINE top == IF b4 < 128 THEN b4 ELSE b4 - 256
<1>1. top \in Int
  OBVIOUS
<1>2. IntOf(b1, b2, b3, b4) = b1 + 256 * b2 + 65536 * b3 + 16777216 * top
  BY DEF IntOf
<1> HIDE DEF top
<1> QED
  BY <1>1, <1>2

\* deserialize into any page.
LEMMA DeserializedIs ==
  ASSUME file \in Seq(Byte), NEW pg \in PageType, NEW p \in PageIds
  PROVE  /\ Deserialized(pg, p) \in LoosePageType
         /\ Deserialized(pg, p).usedBytes >= 0 => Deserialized(pg, p) \in PageType
         /\ Deserialized(pg, p).pageId = p
         /\ ~ Deserialized(pg, p).isDirty
         /\ \A rs \in Seq(Rows) :
              SlotHolds(file, p, rs) /\ Len(file) > SlotOf(p) =>
                /\ Deserialized(pg, p).usedBytes \in 0 .. PageSize - 10
                /\ RowsLie(Deserialized(pg, p).data, Deserialized(pg, p).usedBytes, rs)
<1> DEFINE x == Deserialized(pg, p)
           at == SlotOf(p)
           n == Len(file)
           used == IF n >= at + 10 THEN UsedIn(file, p) ELSE pg.usedBytes
           dat == [i \in Offsets |-> IF i < used /\ at + 10 + i < n THEN file[at + 10 + i + 1]
                                      ELSE pg.data[i]]
<1>1. /\ at \in Nat /\ n \in Nat /\ PageSize \in Nat
      /\ pg.usedBytes \in 0 .. PageSize /\ pg.data \in Data
      /\ \A i \in 1 .. n : file[i] \in Nat /\ file[i] \in Byte
  <2>1. at \in Nat /\ n \in Nat /\ PageSize \in Nat /\ \A i \in 1 .. n : file[i] \in Byte
    BY SlotsApart, Sizes
  <2>2. pg.usedBytes \in 0 .. PageSize /\ pg.data \in Data
    BY DEF PageType
  <2>3. \A b \in Byte : b \in Nat
    BY DEF Byte
  <2> QED
    BY <2>1, <2>2, <2>3
<1>2. x = [pageId |-> p, isDirty |-> FALSE, usedBytes |-> used, data |-> dat]
  BY DEF Deserialized, UsedBytes, UsedIn, Header
<1> HIDE DEF x, n, at
<1>3. n >= at + 10 => UsedIn(file, p) \in Int /\ UsedIn(file, p) <= PageSize
  <2> SUFFICES ASSUME n >= at + 10
               PROVE  UsedIn(file, p) \in Int /\ UsedIn(file, p) <= PageSize
    OBVIOUS
  <2>1. /\ at + 7 \in 1 .. n /\ at + 8 \in 1 .. n
        /\ at + 9 \in 1 .. n /\ at + 10 \in 1 .. n
    BY <1>1
  <2> DEFINE number == IntOf(file[at + 7], file[at + 8], file[at + 9], file[at + 10])
  <2>2. /\ file[at + 7] \in Nat /\ file[at + 8] \in Nat
        /\ file[at + 9] \in Nat /\ file[at + 10] \in Nat
    BY <1>1, <2>1
  <2>3. number \in Int
    BY <2>2, IntOfIs
  <2>4. UsedIn(file, p) = IF number > PageSize THEN PageSize ELSE number
    BY DEF UsedIn, at
  <2> HIDE DEF number
  <2> QED
    BY <1>1, <2>3, <2>4
<1>4. used \in Int /\ used <= PageSize
  BY <1>1, <1>3
<1>5. dat \in Data
  <2> SUFFICES ASSUME NEW i \in Offsets
               PROVE  (IF i < used /\ at + 10 + i < n THEN file[at + 10 + i + 1]
                       ELSE pg.data[i]) \in Byte
    BY DEF Data
  <2>1. i \in Nat /\ pg.data[i] \in Byte
    BY <1>1, Sizes DEF Data
  <2>2. at + 10 + i < n => at + 10 + i + 1 \in 1 .. n
    BY <1>1, <2>1
  <2> QED
    BY <1>1, <2>1, <2>2
<1>6. /\ x \in LoosePageType /\ x.pageId = p /\ ~ x.isDirty
      /\ x.usedBytes >= 0 => x \in PageType
  <2> HIDE DEF used, dat
  <2>1. x \in LoosePageType /\ x.pageId = p /\ ~ x.isDirty /\ x.usedBytes = used
    BY <1>2, <1>4, <1>5 DEF LoosePageType
  <2>2. used >= 0 => used \in 0 .. PageSize
    BY <1>1, <1>4
  <2>3. used >= 0 => x \in PageType
    BY <1>2, <1>5, <2>2 DEF PageType
  <2> QED
    BY <2>1, <2>3
<1>7. ASSUME NEW rs \in Seq(Rows), SlotHolds(file, p, rs), n > at
      PROVE  x.usedBytes \in 0 .. PageSize - 10 /\ RowsLie(x.data, x.usedBytes, rs)
  <2> DEFINE u == UsedIn(file, p)
  <2>1. /\ u \in 0 .. PageSize - 10 /\ n >= at + 10 + u
        /\ \A d : Read(d, file, p, u) => RowsLie(d, u, rs)
    BY <1>1, <1>7 DEF SlotHolds, n, at
  <2>2. used = u
    BY <1>1, <2>1
  <2> HIDE DEF used, u
  <2>3. Read(dat, file, p, u)
    <3> SUFFICES ASSUME NEW i \in 0 .. u - 1
                 PROVE  dat[i] = file[at + 10 + i + 1]
      BY DEF Read, at
    <3>1. i \in Offsets /\ i < used /\ at + 10 + i < n
      BY <1>1, <2>1, <2>2, Sizes
    <3> QED
      BY <3>1
  <2>4. x.usedBytes = u /\ x.data = dat
    BY <1>2, <2>2
  <2> HIDE DEF dat
  <2> QED
    BY <1>1, <2>1, <2>3, <2>4
<1> QED
  BY <1>6, <1>7 DEF x, n, at

(***************************************************************************)
(* The inductive invariant.                                                *)
(***************************************************************************)
PageIsNamed == page.isDirty => page.pageId # 0

\* While rows are small, the page fits into its slot.
SmallRowsFit == ~ large => page.usedBytes <= PageSize - 10

\* The rows lie on the page and in the slots, until one is cut or runs over.
RowsAreLaid ==
  ~ cut /\ ~ overran =>
    /\ ~ undefined
    /\ RowsLie(page.data, page.usedBytes, rows)
    /\ \A p \in PageIds : SlotHolds(file, p, saved[p])

IInv ==
  /\ TypeOK
  /\ PageIsNamed
  /\ MarginIsEnough
  /\ SmallRowsFit
  /\ RowsAreLaid

LEMMA ClearedIs ==
  ASSUME NEW id \in PageIds \union {0}, NEW d \in BOOLEAN
  PROVE  /\ Cleared(id, d) \in PageType
         /\ Cleared(id, d).pageId = id /\ Cleared(id, d).usedBytes = 0
         /\ Cleared(id, d).isDirty = d /\ Cleared(id, d).data = Zeros
<1>1. Zeros \in Data
  BY DEF Zeros, Data, Byte
<1>2. 0 \in 0 .. PageSize
  BY Sizes
<1> QED
  BY <1>1, <1>2 DEF Cleared, PageType

LEMMA InitHolds == Init => IInv
<1> SUFFICES ASSUME Init
             PROVE  IInv
  OBVIOUS
<1>1. /\ EmptyPage \in PageType /\ EmptyPage.usedBytes = 0
      /\ EmptyPage.isDirty = FALSE
  BY ClearedIs DEF EmptyPage
<1>2. /\ page = EmptyPage /\ file = << >> /\ rows = << >>
      /\ saved = [p \in PageIds |-> << >>]
      /\ cut = FALSE /\ overran = FALSE /\ large = FALSE /\ undefined = FALSE
  BY DEF Init
<1>3. TypeOK
  <2>1. file \in Seq(Byte) /\ rows \in Seq(Rows) /\ saved \in [PageIds -> Seq(Rows)]
    BY <1>2
  <2>2. cut \in BOOLEAN /\ overran \in BOOLEAN /\ large \in BOOLEAN
    BY <1>2
  <2> QED
    BY <1>1, <1>2, <2>1, <2>2, PageIsLoose DEF TypeOK, LoosePageType, Data
<1>4. PageIsNamed /\ MarginIsEnough
  BY <1>1, <1>2 DEF PageIsNamed, MarginIsEnough
<1>5. SmallRowsFit
  BY <1>1, <1>2, Sizes DEF SmallRowsFit
<1>6. RowsAreLaid
  <2>1. RowsLie(page.data, page.usedBytes, rows)
    BY <1>1, <1>2, NoRowsLie
  <2>2. ASSUME NEW p \in PageIds
        PROVE  SlotHolds(file, p, saved[p])
    <3>1. Len(file) <= SlotOf(p) /\ saved[p] = << >>
      BY <1>2, SlotsApart
    <3> QED
      BY <3>1 DEF SlotHolds
  <2> QED
    BY <1>2, <2>1, <2>2 DEF RowsAreLaid
<1> QED
  BY <1>3, <1>4, <1>5, <1>6 DEF IInv

LEMMA Typed ==
  ASSUME IInv, ~ undefined
  PROVE  /\ page \in PageType /\ file \in Seq(Byte)
         /\ rows \in Seq(Rows) /\ saved \in [PageIds -> Seq(Rows)]
         /\ cut \in BOOLEAN /\ overran \in BOOLEAN /\ large \in BOOLEAN
<1>1. page = [pageId |-> page.pageId, isDirty |-> page.isDirty,
              usedBytes |-> page.usedBytes, data |-> page.data]
  BY DEF IInv, TypeOK
<1>2. /\ page.pageId \in PageIds \union {0} /\ page.isDirty \in BOOLEAN
      /\ page.usedBytes \in 0 .. PageSize /\ page.data \in Data
  BY DEF IInv, TypeOK, Data
<1>3. page \in PageType
  BY <1>1, <1>2 DEF PageType
<1> QED
  BY <1>3 DEF IInv, TypeOK

\* writeRow on a page with the room that executeInsert asks for.
LEMMA WriteRowKeeps ==
  ASSUME IInv, ~ undefined, NEW pg \in PageType, pg.pageId \in PageIds,
         pg.usedBytes + Margin <= PageSize,
         NEW held \in Seq(Rows),
         ~ cut /\ ~ overran => RowsLie(pg.data, pg.usedBytes, held),
         NEW r \in Rows, WriteRow(pg, held, r)
  PROVE  IInv'
<1> DEFINE x == Written(pg, r)
           u == pg.usedBytes
           b == RowBytes(r)
<1>1. /\ u \in Nat /\ u \in 0 .. PageSize /\ u \in 0 .. PageSize - 1
      /\ pg.data \in Data /\ b \in Nat
      /\ PageSize \in Nat /\ Margin \in Nat /\ 10 <= Margin /\ Margin <= PageSize
  <2>1. u \in 0 .. PageSize /\ pg.data \in Data
    BY DEF PageType
  <2>2. u + Margin <= PageSize
    OBVIOUS
  <2> HIDE DEF u, b
  <2>3. PageSize \in Nat /\ Margin \in Nat /\ 10 <= Margin /\ Margin <= PageSize
    BY Sizes
  <2>4. b \in Nat
    BY EndsClimb DEF b
  <2> QED
    BY <2>1, <2>2, <2>3, <2>4
<1>2. u + Margin <= PageSize
  OBVIOUS
<1>3. /\ x = [pg EXCEPT !.data = x.data, !.usedBytes = x.usedBytes, !.isDirty = TRUE]
      /\ x.data \in Data
      /\ x.usedBytes \in 0 .. PageSize
      /\ SameBelow(pg.data, x.data, u)
      /\ u + b <= PageSize => x.usedBytes = u + b
      /\ x.usedBytes = u + b => RowLies(x.data, u, r)
  BY <1>1, WrittenIs
<1>4. /\ page' = x /\ rows' = Append(held, r)
      /\ cut' = (cut \/ x.usedBytes # u + b)
      /\ large' = (large \/ b > Margin - 10)
      /\ file' = file /\ saved' = saved /\ overran' = overran /\ undefined' = undefined
  BY DEF WriteRow, Header
<1> HIDE DEF x, u, b
<1>5. x \in PageType /\ x.pageId = pg.pageId
  BY <1>3 DEF PageType
<1>6. TypeOK'
  <2>1. rows' \in Seq(Rows)
    BY <1>4
  <2>2. cut' \in BOOLEAN /\ large' \in BOOLEAN /\ overran' \in BOOLEAN
    BY <1>4, Typed
  <2>3. file' \in Seq(Byte) /\ saved' \in [PageIds -> Seq(Rows)]
    BY <1>4, Typed
  <2> QED
    BY <1>4, <1>5, <2>1, <2>2, <2>3, PageIsLoose DEF IInv, TypeOK, LoosePageType, Data
<1>7. PageIsNamed'
  <2>1. \A p \in PageIds : p # 0
    BY PageIdIs
  <2> QED
    BY <1>4, <1>5, <2>1 DEF PageIsNamed
<1>8. ~ (b > Margin - 10) => u + b <= PageSize - 10 /\ u + b <= PageSize
  BY <1>1, <1>2
<1>9. MarginIsEnough'
  <2>1. cut \/ overran => large
    BY DEF IInv, MarginIsEnough
  <2>2. x.usedBytes # u + b => b > Margin - 10
    BY <1>3, <1>8
  <2> QED
    BY <1>4, <2>1, <2>2 DEF MarginIsEnough
<1>10. SmallRowsFit'
  <2>1. ASSUME ~ large'
        PROVE  x.usedBytes <= PageSize - 10
    <3>1. ~ (b > Margin - 10)
      BY <1>4, <2>1
    <3> QED
      BY <1>3, <1>8, <3>1
  <2> QED
    BY <1>4, <2>1 DEF SmallRowsFit
<1>11. RowsAreLaid'
  <2>1. ASSUME ~ cut', ~ overran'
        PROVE  RowsLie(x.data, x.usedBytes, Append(held, r))
    <3>1. ~ cut /\ ~ overran /\ x.usedBytes = u + b
      BY <1>4, <2>1
    <3>2. RowsLie(pg.data, u, held)
      BY <3>1 DEF u
    <3>3. RowLies(x.data, u, r)
      BY <1>3, <3>1
    <3>4. u + b <= PageSize
      BY <1>1, <1>3, <3>1
    <3> QED
      BY <1>1, <1>3, <3>1, <3>2, <3>3, <3>4, RowsLieGrows DEF b
  <2>2. ASSUME ~ cut', ~ overran', NEW p \in PageIds
        PROVE  SlotHolds(file, p, saved[p])
    <3>1. ~ cut /\ ~ overran
      BY <1>4, <2>2
    <3> QED
      BY <3>1 DEF IInv, RowsAreLaid
  <2> QED
    BY <1>4, <2>1, <2>2 DEF RowsAreLaid
<1> QED
  BY <1>6, <1>7, <1>9, <1>10, <1>11 DEF IInv

LEMMA InsertKeeps ==
  ASSUME IInv, ~ undefined, NEW r \in Rows, Insert(r) \/ InsertCleared(r)
  PROVE  IInv'
<1>1. CASE Insert(r)
  <2>1. page \in PageType /\ rows \in Seq(Rows)
    BY Typed
  <2>2. page.pageId \in PageIds
    BY <1>1, <2>1 DEF Insert, PageType
  <2>3. page.usedBytes + Margin <= PageSize
    <3>1. page.usedBytes < PageSize - Margin
      BY <1>1 DEF Insert, HasRoom
    <3>2. page.usedBytes \in 0 .. PageSize
      BY <2>1 DEF PageType
    <3> QED
      BY <3>1, <3>2, Sizes
  <2>4. ~ cut /\ ~ overran => RowsLie(page.data, page.usedBytes, rows)
    BY DEF IInv, RowsAreLaid
  <2>5. WriteRow(page, rows, r)
    BY <1>1 DEF Insert
  <2> QED
    BY <2>1, <2>2, <2>3, <2>4, <2>5, WriteRowKeeps
<1>2. CASE InsertCleared(r)
  <2> DEFINE pg == Cleared(page.pageId, FALSE)
  <2>1. page.pageId \in PageIds
    <3>1. page.pageId # 0 /\ page \in PageType
      BY <1>2, Typed DEF InsertCleared
    <3> QED
      BY <3>1 DEF PageType
  <2>2. page.pageId \in PageIds \union {0}
    BY <2>1
  <2>3. pg \in PageType /\ pg.pageId \in PageIds /\ pg.usedBytes = 0
    BY <2>1, <2>2, ClearedIs
  <2>4. WriteRow(pg, << >>, r)
    BY <1>2 DEF InsertCleared
  <2> HIDE DEF pg
  <2>5. pg.usedBytes + Margin <= PageSize
    BY <2>3, Sizes
  <2>6. RowsLie(pg.data, pg.usedBytes, << >>)
    BY <2>3, NoRowsLie
  <2>7. << >> \in Seq(Rows)
    OBVIOUS
  <2> QED
    BY <2>3, <2>4, <2>5, <2>6, <2>7, WriteRowKeeps
<1> QED
  BY <1>1, <1>2

LEMMA NewPageKeeps ==
  ASSUME IInv, ~ undefined, NEW p \in PageIds, NewPage(p)
  PROVE  IInv'
<1> DEFINE pg == Cleared(p, TRUE)
           s == IntBytes(p)
<1>1. /\ page' = pg /\ file' = PutInFile(0, s) /\ rows' = << >>
      /\ saved' = saved /\ cut' = cut /\ overran' = overran /\ large' = large /\ undefined' = undefined
  BY DEF NewPage
<1>2. pg \in PageType /\ pg.pageId = p /\ pg.usedBytes = 0 /\ p # 0
  <2>1. p \in PageIds \union {0} /\ p # 0
    BY PageIdIs
  <2> QED
    BY <2>1, ClearedIs
<1>3. s \in Seq(Byte) /\ Len(s) = 4
  <2>1. p \in Nat /\ p <= 65535
    <3>1. p \in Nat /\ p <= 1023
      BY PageIdIs
    <3> QED
      BY <3>1
  <2> QED
    BY <2>1, IntBytesIs
<1> HIDE DEF pg, s
<1>4. TypeOK'
  <2>1. file' \in Seq(Byte)
    BY <1>1, <1>3, Typed, PutInFileIs
  <2>2. rows' \in Seq(Rows)
    BY <1>1
  <2>3. /\ saved' \in [PageIds -> Seq(Rows)]
        /\ cut' \in BOOLEAN /\ overran' \in BOOLEAN /\ large' \in BOOLEAN
    BY <1>1, Typed
  <2> QED
    BY <1>1, <1>2, <2>1, <2>2, <2>3, PageIsLoose DEF IInv, TypeOK, LoosePageType, Data
<1>5. PageIsNamed'
  BY <1>1, <1>2 DEF PageIsNamed
<1>6. MarginIsEnough'
  BY <1>1 DEF IInv, MarginIsEnough
<1>7. SmallRowsFit'
  BY <1>1, <1>2, Sizes DEF SmallRowsFit
<1>8. RowsAreLaid'
  <2>1. RowsLie(pg.data, pg.usedBytes, << >>)
    BY <1>2, NoRowsLie
  <2>2. ASSUME ~ cut', ~ overran', NEW q \in PageIds
        PROVE  SlotHolds(PutInFile(0, s), q, saved[q])
    <3>1. SlotHolds(file, q, saved[q]) /\ saved[q] \in Seq(Rows) /\ file \in Seq(Byte)
      BY <1>1, <2>2, Typed DEF IInv, RowsAreLaid
    <3>2. 0 + Len(s) <= SlotOf(q)
      BY <1>3, SlotsApart, Sizes
    <3> QED
      BY <1>3, <3>1, <3>2, SlotKept
  <2> QED
    BY <1>1, <2>1, <2>2 DEF RowsAreLaid
<1> QED
  BY <1>4, <1>5, <1>6, <1>7, <1>8 DEF IInv

LEMMA FetchKeeps ==
  ASSUME IInv, ~ undefined, NEW p \in PageIds, Fetch(p)
  PROVE  IInv'
<1> DEFINE x == Deserialized(page, p)
<1>1. /\ page' = x /\ rows' = saved[p]
      /\ file' = file /\ saved' = saved
      /\ cut' = cut /\ overran' = overran /\ large' = large
      /\ undefined' = (x.usedBytes < 0)
      /\ Len(file) > SlotOf(p)
  BY DEF Fetch
<1>2. saved[p] \in Seq(Rows)
  BY Typed
<1>3. /\ x \in LoosePageType
      /\ x.usedBytes >= 0 => x \in PageType
      /\ ~ x.isDirty
      /\ SlotHolds(file, p, saved[p]) => /\ x.usedBytes \in 0 .. PageSize - 10
                                         /\ RowsLie(x.data, x.usedBytes, saved[p])
  BY <1>1, <1>2, Typed, DeserializedIs
<1> HIDE DEF x
<1>4. TypeOK'
  <2>1. /\ file' \in Seq(Byte) /\ saved' \in [PageIds -> Seq(Rows)]
        /\ cut' \in BOOLEAN /\ overran' \in BOOLEAN /\ large' \in BOOLEAN
    BY <1>1, Typed
  <2>2. x.usedBytes \in Int
    BY <1>3 DEF LoosePageType
  <2>3. undefined' \/ x.usedBytes \in 0 .. PageSize
    <3>1. x.usedBytes < 0 \/ x.usedBytes >= 0
      BY <2>2
    <3>2. x.usedBytes >= 0 => x.usedBytes \in 0 .. PageSize
      BY <1>3 DEF PageType
    <3> QED
      BY <1>1, <3>1, <3>2
  <2>4. undefined' \in BOOLEAN
    BY <1>1
  <2> QED
    BY <1>1, <1>2, <1>3, <2>1, <2>3, <2>4 DEF TypeOK, LoosePageType, Data
<1>5. PageIsNamed'
  BY <1>1, <1>3 DEF PageIsNamed
<1>9. ~ cut /\ ~ overran => ~ (x.usedBytes < 0)
  <2>1. ~ cut /\ ~ overran => SlotHolds(file, p, saved[p])
    BY DEF IInv, RowsAreLaid
  <2>2. \A u \in 0 .. PageSize - 10 : ~ (u < 0)
    BY Sizes
  <2> QED
    BY <1>3, <2>1, <2>2
<1>6. MarginIsEnough'
  <2>1. cut \/ overran => large
    BY DEF IInv, MarginIsEnough
  <2> QED
    BY <1>1, <1>9, <2>1 DEF MarginIsEnough
<1>7. SmallRowsFit'
  <2>1. ASSUME ~ large
        PROVE  x.usedBytes <= PageSize - 10
    <3>1. ~ cut /\ ~ overran
      BY <2>1 DEF IInv, MarginIsEnough
    <3>2. SlotHolds(file, p, saved[p])
      BY <3>1 DEF IInv, RowsAreLaid
    <3>3. \A u \in 0 .. PageSize - 10 : u <= PageSize - 10
      BY Sizes
    <3> QED
      BY <1>3, <3>2, <3>3
  <2> QED
    BY <1>1, <2>1 DEF SmallRowsFit
<1>8. RowsAreLaid'
  <2>1. ASSUME ~ cut, ~ overran
        PROVE  \A q \in PageIds : SlotHolds(file, q, saved[q])
    BY <2>1 DEF IInv, RowsAreLaid
  <2>2. ASSUME ~ cut, ~ overran
        PROVE  RowsLie(x.data, x.usedBytes, saved[p])
    BY <1>3, <2>1, <2>2
  <2> QED
    BY <1>1, <1>9, <2>1, <2>2 DEF RowsAreLaid
<1> QED
  BY <1>4, <1>5, <1>6, <1>7, <1>8 DEF IInv

LEMMA SaveKeeps ==
  ASSUME IInv, ~ undefined, Save
  PROVE  IInv'
<1> DEFINE p == page.pageId
           s == Serialized(page)
           at == SlotOf(p)
           x == [page EXCEPT !.isDirty = FALSE]
<1>1. /\ page' = x /\ file' = PutInFile(at, s)
      /\ saved' = [saved EXCEPT ![p] = rows]
      /\ overran' = (overran \/ page.usedBytes > PageSize - 10)
      /\ rows' = rows /\ cut' = cut /\ large' = large /\ undefined' = undefined
  BY DEF Save, Header
<1>2. page \in PageType /\ page.isDirty
  BY Typed DEF Save
<1>3. p \in PageIds /\ page.usedBytes \in 0 .. PageSize
  BY <1>2 DEF IInv, PageIsNamed, PageType
<1>4. x \in PageType /\ ~ x.isDirty /\ x.usedBytes = page.usedBytes /\ x.data = page.data
  BY <1>2 DEF PageType
<1>5. at \in Nat /\ s \in Seq(Byte) /\ Len(s) = 10 + page.usedBytes
  BY <1>2, <1>3, SlotsApart, SerializedIs
<1> HIDE DEF x, at, s
<1>6. TypeOK'
  <2>1. file' \in Seq(Byte)
    BY <1>1, <1>5, Typed, PutInFileIs
  <2>2. saved' \in [PageIds -> Seq(Rows)] /\ rows' \in Seq(Rows)
    BY <1>1, Typed
  <2>3. cut' \in BOOLEAN /\ overran' \in BOOLEAN /\ large' \in BOOLEAN
    BY <1>1, Typed
  <2> QED
    BY <1>1, <1>4, <2>1, <2>2, <2>3, PageIsLoose DEF IInv, TypeOK, LoosePageType, Data
<1>7. PageIsNamed'
  BY <1>1, <1>4 DEF PageIsNamed
<1>8. MarginIsEnough'
  <2>1. cut \/ overran => large
    BY DEF IInv, MarginIsEnough
  <2>2. page.usedBytes > PageSize - 10 => large
    <3>1. ~ large => page.usedBytes <= PageSize - 10
      BY DEF IInv, SmallRowsFit
    <3> QED
      BY <1>3, <3>1, Sizes
  <2> QED
    BY <1>1, <2>1, <2>2 DEF MarginIsEnough
<1>9. SmallRowsFit'
  BY <1>1, <1>4 DEF IInv, SmallRowsFit
<1>10. ASSUME ~ cut', ~ overran'
       PROVE  /\ RowsLie(page.data, page.usedBytes, rows)
              /\ \A q \in PageIds : SlotHolds(PutInFile(at, s), q, saved'[q])
  <2>1. ~ cut /\ ~ overran /\ page.usedBytes <= PageSize - 10
    <3>1. ~ cut /\ ~ overran /\ ~ (page.usedBytes > PageSize - 10)
      BY <1>1, <1>10
    <3> QED
      BY <1>3, <3>1, Sizes
  <2>2. /\ RowsLie(page.data, page.usedBytes, rows)
        /\ \A q \in PageIds : SlotHolds(file, q, saved[q])
    BY <2>1 DEF IInv, RowsAreLaid
  <2>3. ASSUME NEW q \in PageIds, q # p
        PROVE  SlotHolds(PutInFile(at, s), q, saved'[q])
    <3>1. saved'[q] = saved[q] /\ saved[q] \in Seq(Rows)
      BY <1>1, <2>3, Typed
    <3>2. at + Len(s) <= SlotOf(q) \/ at >= SlotOf(q) + PageSize
      <4>1. p < q \/ q < p
        BY <1>3, <2>3, SlotsApart
      <4>2. p < q => at + PageSize <= SlotOf(q)
        BY <1>3, SlotsApart DEF at
      <4>3. q < p => SlotOf(q) + PageSize <= at
        BY <1>3, SlotsApart DEF at
      <4>4. SlotOf(q) \in Nat /\ at + Len(s) <= at + PageSize
        BY <1>3, <1>5, <2>1, SlotsApart, Sizes
      <4> QED
        BY <1>5, <4>1, <4>2, <4>3, <4>4, Sizes
    <3> QED
      BY <1>5, <2>2, <3>1, <3>2, Typed, SlotKept
  <2>4. SlotHolds(PutInFile(at, s), p, saved'[p])
    <3>1. saved'[p] = rows /\ rows \in Seq(Rows)
      BY <1>1, <1>3, Typed
    <3> QED
      BY <1>2, <1>3, <2>1, <2>2, <3>1, Typed, SlotSaved DEF at, s
  <2> QED
    BY <2>2, <2>3, <2>4
<1>11. RowsAreLaid'
  BY <1>1, <1>4, <1>10 DEF RowsAreLaid
<1> QED
  BY <1>6, <1>7, <1>8, <1>9, <1>11 DEF IInv

LEMMA RestartKeeps ==
  ASSUME IInv, ~ undefined, Restart
  PROVE  IInv'
<1>1. /\ page' = EmptyPage /\ rows' = << >>
      /\ file' = file /\ saved' = saved
      /\ cut' = cut /\ overran' = overran /\ large' = large /\ undefined' = undefined
  BY DEF Restart
<1>2. EmptyPage \in PageType /\ EmptyPage.usedBytes = 0 /\ ~ EmptyPage.isDirty
  BY ClearedIs DEF EmptyPage
<1>3. TypeOK'
  <2>1. rows' \in Seq(Rows)
    BY <1>1
  <2>2. /\ file' \in Seq(Byte) /\ saved' \in [PageIds -> Seq(Rows)]
        /\ cut' \in BOOLEAN /\ overran' \in BOOLEAN /\ large' \in BOOLEAN
    BY <1>1, Typed
  <2> QED
    BY <1>1, <1>2, <2>1, <2>2, PageIsLoose DEF IInv, TypeOK, LoosePageType, Data
<1>4. PageIsNamed' /\ MarginIsEnough'
  BY <1>1, <1>2 DEF IInv, PageIsNamed, MarginIsEnough
<1>5. SmallRowsFit'
  BY <1>1, <1>2, Sizes DEF SmallRowsFit
<1>6. RowsAreLaid'
  <2>1. RowsLie(EmptyPage.data, EmptyPage.usedBytes, << >>)
    BY <1>2, NoRowsLie
  <2>2. ~ cut /\ ~ overran => \A q \in PageIds : SlotHolds(file, q, saved[q])
    BY DEF IInv, RowsAreLaid
  <2> QED
    BY <1>1, <2>1, <2>2 DEF RowsAreLaid
<1> QED
  BY <1>3, <1>4, <1>5, <1>6 DEF IInv

LEMMA StutterKeeps ==
  ASSUME IInv, UNCHANGED vars
  PROVE  IInv'
<1>1. /\ page' = page /\ file' = file /\ rows' = rows /\ saved' = saved
      /\ cut' = cut /\ overran' = overran /\ large' = large /\ undefined' = undefined
  BY DEF vars, history
<1> QED
  BY <1>1 DEF IInv, TypeOK, PageIsNamed, MarginIsEnough, SmallRowsFit, RowsAreLaid

LEMMA StepKeeps ==
  ASSUME IInv, [Next]_vars
  PROVE  IInv'
<1>1. ASSUME ~ undefined, NEW p \in PageIds, NewPage(p)
      PROVE  IInv'
  BY <1>1, NewPageKeeps
<1>2. ASSUME ~ undefined, NEW p \in PageIds, Fetch(p)
      PROVE  IInv'
  BY <1>2, FetchKeeps
<1>3. ASSUME ~ undefined, NEW r \in Rows, Insert(r) \/ InsertCleared(r)
      PROVE  IInv'
  BY <1>3, InsertKeeps
<1>4. CASE ~ undefined /\ Save
  BY <1>4, SaveKeeps
<1>5. CASE ~ undefined /\ Restart
  BY <1>5, RestartKeeps
<1>6. CASE UNCHANGED vars
  BY <1>6, StutterKeeps
<1> QED
  BY <1>1, <1>2, <1>3, <1>4, <1>5, <1>6 DEF Next

\* The rows of an unspoilt file come back.
LEMMA LaidComeBack == IInv => RowsComeBack
<1> SUFFICES ASSUME IInv, ~ cut, ~ overran
             PROVE  /\ IsPrefix(rows, Scan(page.data))
                    /\ \A p \in PageIds : Len(file) > SlotOf(p) =>
                         IsPrefix(saved[p], Scan(Deserialized(EmptyPage, p).data))
  BY DEF RowsComeBack
<1>1. /\ ~ undefined
      /\ RowsLie(page.data, page.usedBytes, rows)
      /\ \A p \in PageIds : SlotHolds(file, p, saved[p])
  BY DEF IInv, RowsAreLaid
<1>2. page.data \in Data /\ rows \in Seq(Rows)
  BY <1>1, Typed DEF PageType
<1>3. IsPrefix(rows, Scan(page.data))
  BY <1>1, <1>2, ScanFinds
<1>4. ASSUME NEW p \in PageIds, Len(file) > SlotOf(p)
      PROVE  IsPrefix(saved[p], Scan(Deserialized(EmptyPage, p).data))
  <2>1. saved[p] \in Seq(Rows) /\ EmptyPage \in PageType /\ file \in Seq(Byte)
    BY <1>1, Typed, ClearedIs DEF EmptyPage
  <2>2. SlotHolds(file, p, saved[p])
    BY <1>1
  <2> DEFINE x == Deserialized(EmptyPage, p)
  <2>3. x \in LoosePageType /\ RowsLie(x.data, x.usedBytes, saved[p])
    BY <1>4, <2>1, <2>2, DeserializedIs
  <2> HIDE DEF x
  <2>4. x.data \in Data
    BY <2>3 DEF LoosePageType
  <2> QED
    BY <2>1, <2>3, <2>4, ScanFinds DEF x
<1> QED
  BY <1>3, <1>4

(***************************************************************************)
(* The theorems.                                                           *)
(***************************************************************************)
THEOREM Invariance == Spec => []IInv
<1>1. Init => IInv
  BY InitHolds
<1>2. IInv /\ [Next]_vars => IInv'
  BY StepKeeps
<1> QED
  BY <1>1, <1>2, PTL DEF Spec

\* usedBytes stays between 0 and the size of a page, whatever rows are inserted and
\* whatever the header in the file says, until a header with a negative number is read.
THEOREM TypeCorrectness == Spec => []TypeOK
<1>1. IInv => TypeOK
  BY DEF IInv
<1> QED
  BY <1>1, Invariance, PTL

\* What writeRow and serialize lay down deserialize and readRow find, as long as no
\* row has been cut and no page has run over its slot.
THEOREM Retrieval == Spec => []RowsComeBack
<1>1. IInv => RowsComeBack
  BY LaidComeBack
<1> QED
  BY <1>1, Invariance, PTL

\* No row is cut, no page runs over its slot and no negative usedBytes is read while no
\* row is larger than executeInsert's margin less the header.
THEOREM Room == Spec => []MarginIsEnough
<1>1. IInv => MarginIsEnough
  BY DEF IInv
<1> QED
  BY <1>1, Invariance, PTL
=============================================================================
