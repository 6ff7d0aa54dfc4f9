-------------------------- MODULE InlineDataProofs --------------------------
(***************************************************************************)
(* Inline values keep their bytes and a zero tail through all edits, and   *)
(* comparing their raw words decides as comparing their bytes would, for   *)
(* any set of values and any strings of bytes.                             *)
(***************************************************************************)
EXTENDS InlineData, SequenceTheorems, WellFoundedInduction, TLAPS

USE InlineAssumption

Stored == [tag : Nat, tail : [Index -> Nat]]

(* The inline value d holds the bytes s, and zeros behind them. *)
Represents(d, s) ==
    /\ d \in Stored
    /\ s \in Seq(Byte)
    /\ Len(s) <= MaxInline
    /\ d.tag = 2 * Len(s)
    /\ \A i \in Index : d.tail[i] = IF i <= Len(s) THEN s[i] ELSE 0

(* The stored value d is what v says: a tree pointer, or bytes. *)
Fits(d, v) ==
    /\ d \in Stored
    /\ v \in [tree : Pointers \cup {0}, bytes : Seq(Byte)]
    /\ \/ v.tree # 0 /\ v.bytes = <<>> /\ d = MakeTree(v.tree)
       \/ v.tree = 0 /\ Represents(d, v.bytes)

(***************************************************************************)
(* The invariant of InlineData: all slots are faithful, which is inductive *)
(* once what they hold is known to be bytes and pointers.                  *)
(***************************************************************************)
InlineInv ==
    /\ slots = [x \in Slots |-> slots[x]]
    /\ val = [x \in Slots |-> val[x]]
    /\ \A x \in Slots : Fits(slots[x], val[x])

(* The sizes of the array: an odd number of places. *)
LEMMA Sizes ==
  /\ Word \in Nat /\ Word >= 2 /\ Word <= 8
  /\ MaxInline = 2 * Word - 1 /\ MaxInline \in Nat /\ Index = 1..MaxInline
  /\ Word \div 2 \in Nat /\ 2 * (Word \div 2) = Word
BY DEF MaxInline, Index

-----------------------------------------------------------------------------
(* The first and the last k of n bytes of s are copied to offset at of t. *)
TwoEnds(t, at, s, n, k) == Store(Store(t, at, s, 0, k), at + n - k, s, n - k, k)

(* The array e is t with the first n bytes of s at offset at. *)
Copied(e, t, at, s, n) ==
    /\ e = [i \in Index |-> e[i]]
    /\ \A i \in Index : e[i] = IF i > at /\ i <= at + n THEN s[i - at] ELSE t[i]

(* Two overlapping words copy everything between their outer ends. *)
LEMMA EndsAt ==
  ASSUME NEW t \in [Index -> Nat], NEW at \in Nat, NEW s, NEW n \in Nat, NEW k \in Nat,
         k <= n, n <= 2 * k
  PROVE  Copied(TwoEnds(t, at, s, n, k), t, at, s, n)
<1> DEFINE a == Store(t, at, s, 0, k)
           e == Store(a, at + n - k, s, n - k, k)
<1>1. a = [i \in Index |-> IF i > at /\ i <= at + k THEN s[i - at + 0] ELSE t[i]]
  BY DEF Store
<1>2. DOMAIN a = Index
  BY <1>1
<1> HIDE DEF a
<1>3. e = [i \in Index |->
             IF i > at + n - k /\ i <= (at + n - k) + k THEN s[i - (at + n - k) + (n - k)] ELSE a[i]]
  BY <1>2 DEF Store
<1> HIDE DEF e
<1>4. ASSUME NEW i \in Index
      PROVE  e[i] = IF i > at /\ i <= at + n THEN s[i - at] ELSE t[i]
  <2>1. i \in Int
    BY Sizes
  <2>2. i - (at + n - k) + (n - k) = i - at /\ i - at + 0 = i - at /\ (at + n - k) + k = at + n
    BY <2>1
  <2>3. e[i] = IF i > at + n - k /\ i <= at + n THEN s[i - at] ELSE a[i]
    BY <1>3, <2>2
  <2>4. a[i] = IF i > at /\ i <= at + k THEN s[i - at] ELSE t[i]
    BY <1>1, <2>2
  <2>5. QED
    BY <2>1, <2>3, <2>4
<1>5. e = [i \in Index |-> e[i]]
  BY <1>3
<1>6. QED
  BY <1>4, <1>5 DEF e, a, Copied, TwoEnds

(* The first, the middle and the last byte are all there is of three. *)
LEMMA MiddleAt ==
  ASSUME NEW t \in [Index -> Nat], NEW at \in Nat, NEW s, NEW n \in {1, 2, 3}
  PROVE  Copied(Store(TwoEnds(t, at, s, n, 1), at + n \div 2, s, n \div 2, 1), t, at, s, n)
<1> DEFINE e == TwoEnds(t, at, s, n, 1)
           h == n \div 2
           f == Store(e, at + h, s, h, 1)
<1>1. h = (IF n = 1 THEN 0 ELSE 1)
  OBVIOUS
<1>2. DOMAIN e = Index
  BY DEF Store, TwoEnds
<1>3. ASSUME NEW i \in Index
      PROVE  e[i] = IF i = at + n THEN s[n] ELSE IF i = at + 1 THEN s[1] ELSE t[i]
  <2>1. i \in Int
    BY Sizes
  <2>2. QED
    BY <2>1 DEF Store, TwoEnds
<1> HIDE DEF e, h
<1>4. f = [i \in Index |-> f[i]]
  BY <1>2 DEF Store
<1>5. ASSUME NEW i \in Index
      PROVE  f[i] = IF i > at /\ i <= at + n THEN s[i - at] ELSE t[i]
  <2>1. i \in Int
    BY Sizes
  <2>2. f[i] = IF i > at + h /\ i <= at + h + 1 THEN s[i - (at + h) + h] ELSE e[i]
    BY <1>2 DEF Store
  <2>3. i - (at + h) + h = i - at
    BY <1>1, <2>1
  <2>4. f[i] = IF i = at + h + 1 THEN s[h + 1] ELSE e[i]
    BY <1>1, <2>1, <2>2, <2>3
  <2> HIDE DEF f
  <2>5. CASE n = 1
    BY <1>1, <1>3, <2>1, <2>4, <2>5
  <2>6. CASE n = 2
    BY <1>1, <1>3, <2>1, <2>4, <2>6
  <2>7. CASE n = 3
    BY <1>1, <1>3, <2>1, <2>4, <2>7
  <2>8. QED
    BY <2>5, <2>6, <2>7
<1> HIDE DEF f
<1>6. Copied(f, t, at, s, n)
  BY <1>4, <1>5 DEF Copied
<1>7. QED
  BY <1>6 DEF f, e, h

(***************************************************************************)
(* small_memmove copies all the bytes to their place and nothing else.     *)
(***************************************************************************)
LEMMA MemmoveCopies ==
  ASSUME NEW t \in [Index -> Nat], NEW at \in Nat, NEW s \in Seq(Nat), at + Len(s) <= MaxInline
  PROVE  Copied(SmallMemmove(Word, t, at, s, FALSE), t, at, s, Len(s))
<1> DEFINE n == Len(s)
           half == Word \div 2
           m == SmallMemmove(Word, t, at, s, FALSE)
<1>0. n \in Nat /\ half \in Nat /\ Word \in Nat /\ Word = 2 * half /\ n <= 2 * Word - 1
      /\ half <= 4 /\ half >= 1
  BY Sizes
<1>1. /\ n >= Word => m = TwoEnds(t, at, s, n, Word)
      /\ n < Word /\ n >= half => m = TwoEnds(t, at, s, n, half)
      /\ n < half /\ n = 0 => m = t
      /\ n < half /\ n # 0 => m = Store(TwoEnds(t, at, s, n, 1), at + n \div 2, s, n \div 2, 1)
  BY <1>0 DEF SmallMemmove, TwoEnds
<1>2. Copied(m, t, at, s, n)
  <2> HIDE DEF m, half, n
  <2>1. CASE n >= Word
    BY <1>0, <1>1, <2>1, EndsAt
  <2>2. CASE n < Word /\ n >= half
    BY <1>0, <1>1, <2>2, EndsAt
  <2>3. CASE n < half /\ n = 0
    <3>1. \A i \in Index : i \in Int
      BY Sizes
    <3>2. Copied(t, t, at, s, 0)
      BY <3>1 DEF Copied
    <3>3. QED
      BY <1>1, <2>3, <3>2
  <2>4. CASE n < half /\ n # 0
    <3>1. n \in {1, 2, 3}
      BY <1>0, <2>4
    <3>2. QED
      BY <1>1, <2>4, <3>1, MiddleAt
  <2>5. QED
    BY <1>0, <2>1, <2>2, <2>3, <2>4
<1>3. QED
  BY <1>2

(* The array z is t with k places cleared. *)
Wiped(z, t, from, k) ==
    /\ z \in [Index -> Nat]
    /\ \A i \in Index : z[i] = IF i > from /\ i <= from + k THEN 0 ELSE t[i]

(* Places are cleared in an array of numbers. *)
LEMMA ZeroAt ==
  ASSUME NEW t \in [Index -> Nat], NEW from \in Nat, NEW k \in Nat
  PROVE  Wiped(Zero(t, from, k), t, from, k)
BY DEF Zero, Wiped

(* An array of numbers stays one. *)
LEMMA CopiedType ==
  ASSUME NEW t \in [Index -> Nat], NEW at \in Nat, NEW s \in Seq(Nat), NEW n \in 0..Len(s), NEW e,
         Copied(e, t, at, s, n)
  PROVE  e \in [Index -> Nat]
<1>1. ASSUME NEW i \in Index PROVE e[i] \in Nat
  <2>1. i \in Int
    BY Sizes
  <2>2. i > at /\ i <= at + n => i - at \in 1..Len(s)
    BY <2>1
  <2>3. i > at /\ i <= at + n => s[i - at] \in Nat
    BY <2>2
  <2>4. QED
    BY <2>3 DEF Copied
<1>2. QED
  BY <1>1 DEF Copied

(* The array e holds n bytes of s, and zeros behind them. *)
Cleared(e, s, n) ==
    /\ e \in [Index -> Nat]
    /\ \A i \in Index : e[i] = IF i <= n THEN s[i] ELSE 0

(* If asked to, small_memmove clears all places behind the bytes. *)
LEMMA MemmoveClears ==
  ASSUME NEW t \in [Index -> Nat], NEW s \in Seq(Nat), Len(s) <= MaxInline
  PROVE  Cleared(SmallMemmove(Word, t, 0, s, TRUE), s, Len(s))
<1> DEFINE n == Len(s)
           half == Word \div 2
           m == SmallMemmove(Word, t, 0, s, TRUE)
           last == 0 + Word - 1
           front == 0 + half
           behind == 0 + n
           mid == Store(TwoEnds(t, 0, s, n, 1), 0 + n \div 2, s, n \div 2, 1)
           long == Zero(t, last, Word)
           both == Zero(Zero(t, front, half), last, Word)
<1>0. n \in Nat /\ half \in Nat /\ Word \in Nat /\ Word = 2 * half /\ n <= 2 * Word - 1
      /\ half <= 4 /\ half >= 1 /\ Index = 1..(2 * Word - 1) /\ n \in 0..Len(s)
      /\ last \in Nat /\ last = Word - 1 /\ front = half /\ behind = n
  BY Sizes
<1>1. /\ n >= Word => m = TwoEnds(long, 0, s, n, Word)
      /\ n < Word /\ n >= half => m = TwoEnds(both, 0, s, n, half)
      /\ n < half /\ n = 0 => m = Zero(Zero(t, last, Word), behind, Word)
      /\ n < half /\ n # 0 => m = Zero(Zero(mid, last, Word), behind, Word)
  BY <1>0 DEF SmallMemmove, TwoEnds
<1> HIDE DEF last, front, behind
<1>2. long \in [Index -> Nat] /\ \A i \in Index : i >= Word => long[i] = 0
  <2>1. Wiped(long, t, last, Word)
    BY <1>0, ZeroAt
  <2> HIDE DEF long
  <2>2. QED
    BY <1>0, <2>1 DEF Wiped
<1>3. both \in [Index -> Nat] /\ \A i \in Index : i > half => both[i] = 0
  <2> DEFINE z == Zero(t, front, half)
  <2>1. Wiped(z, t, front, half)
    BY <1>0, ZeroAt
  <2>2. Wiped(both, z, last, Word)
    <3>1. z \in [Index -> Nat]
      BY <2>1 DEF Wiped
    <3> HIDE DEF z
    <3>2. Wiped(Zero(z, last, Word), z, last, Word)
      BY <1>0, <3>1, ZeroAt
    <3>3. QED
      BY <3>2 DEF z
  <2> HIDE DEF z, both
  <2>3. QED
    BY <1>0, <2>1, <2>2 DEF Wiped
<1> DEFINE ZeroBehind(u) == \A i \in Index : i > n => u[i] = 0
<1>4. ASSUME NEW u \in [Index -> Nat], NEW k \in Nat, k <= n, n <= 2 * k, m = TwoEnds(u, 0, s, n, k),
             ZeroBehind(u)
      PROVE  Cleared(m, s, n)
  <2> HIDE DEF m, n
  <2>1. Copied(m, u, 0, s, n)
    BY <1>0, <1>4, EndsAt
  <2>2. m \in [Index -> Nat]
    BY <1>0, <1>4, <2>1, CopiedType
  <2>3. ASSUME NEW i \in Index PROVE m[i] = IF i <= n THEN s[i] ELSE 0
    <3>1. i \in Int /\ i >= 1 /\ i - 0 = i
      BY <1>0
    <3>2. m[i] = IF i > 0 /\ i <= 0 + n THEN s[i - 0] ELSE u[i]
      BY <2>1 DEF Copied
    <3>3. QED
      BY <1>0, <1>4, <3>1, <3>2
  <2>4. QED
    BY <2>2, <2>3 DEF Cleared
<1>5. ASSUME NEW u \in [Index -> Nat], n < half, m = Zero(Zero(u, last, Word), behind, Word),
             \A i \in Index : i <= n => u[i] = s[i]
      PROVE  Cleared(m, s, n)
  <2> HIDE DEF m, n
  <2> DEFINE z == Zero(u, last, Word)
  <2>1. Wiped(z, u, last, Word)
    BY <1>0, ZeroAt
  <2>2. Wiped(m, z, behind, Word)
    <3>1. z \in [Index -> Nat] /\ m = Zero(z, behind, Word)
      BY <1>5, <2>1 DEF Wiped
    <3> HIDE DEF z
    <3>2. QED
      BY <1>0, <3>1, ZeroAt
  <2> HIDE DEF z
  <2>3. ASSUME NEW i \in Index PROVE m[i] = IF i <= n THEN s[i] ELSE 0
    <3>1. z[i] = (IF i > last /\ i <= last + Word THEN 0 ELSE u[i])
          /\ m[i] = (IF i > n /\ i <= n + Word THEN 0 ELSE z[i])
      BY <1>0, <2>1, <2>2 DEF Wiped
    <3>2. i \in Int /\ i <= last + Word /\ n < last + 1
      BY <1>0, <1>5
    <3>3. i <= n => u[i] = s[i]
      BY <1>5
    <3>4. QED
      BY <1>0, <3>1, <3>2, <3>3
  <2>4. QED
    BY <2>2, <2>3 DEF Cleared, Wiped
<1>6. Cleared(m, s, n)
  <2> HIDE DEF m, n, half, long, both
  <2>1. CASE n >= Word
    <3>1. ZeroBehind(long)
      BY <1>0, <1>2, <2>1
    <3> HIDE DEF ZeroBehind
    <3>2. m = TwoEnds(long, 0, s, n, Word) /\ long \in [Index -> Nat]
          /\ Word \in Nat /\ Word <= n /\ n <= 2 * Word
      BY <1>0, <1>1, <1>2, <2>1
    <3>3. QED
      BY <1>4, <3>1, <3>2
  <2>2. CASE n < Word /\ n >= half
    <3>1. ZeroBehind(both)
      BY <1>0, <1>3, <2>2
    <3> HIDE DEF ZeroBehind
    <3>2. QED
      BY <1>0, <1>1, <1>3, <1>4, <2>2, <3>1
  <2>3. CASE n < half /\ n = 0
    <3>1. \A i \in Index : ~(i <= n)
      BY <1>0, <2>3
    <3>2. QED
      BY <1>1, <1>5, <2>3, <3>1
  <2>4. CASE n < half /\ n # 0
    <3> HIDE DEF mid
    <3>1. n \in {1, 2, 3}
      BY <1>0, <2>4
    <3>2. Copied(mid, t, 0, s, n)
      BY <3>1, MiddleAt DEF mid
    <3>3. mid \in [Index -> Nat]
      BY <1>0, <3>2, CopiedType
    <3>4. ASSUME NEW i \in Index, i <= n PROVE mid[i] = s[i]
      <4>1. i - 0 = i /\ i > 0 /\ i <= 0 + n
        BY <1>0, <3>4
      <4>2. QED
        BY <3>2, <4>1 DEF Copied
    <3>5. QED
      BY <1>1, <1>5, <2>4, <3>3, <3>4
  <2>5. QED
    BY <1>0, <2>1, <2>2, <2>3, <2>4
<1>7. QED
  BY <1>6
-----------------------------------------------------------------------------
(* Bytes are numbers. *)
LEMMA ByteRange == \A b \in Byte : b \in Nat /\ b < 256
OBVIOUS

(* Strings of bytes are strings of numbers. *)
LEMMA BytesAreNumbers == ASSUME NEW s \in Seq(Byte)
                         PROVE  s \in Seq(Nat) /\ Len(s) \in Nat /\ s = [i \in 1..Len(s) |-> s[i]]
<1>1. ASSUME NEW i \in 1..Len(s) PROVE s[i] \in Nat
  <2>1. s[i] \in Byte
    OBVIOUS
  <2>2. QED
    BY <2>1, ByteRange
<1>2. s = [i \in 1..Len(s) |-> s[i]] /\ Len(s) \in Nat
  OBVIOUS
<1>3. QED
  BY <1>1, <1>2

(* An array with s in front and zeros behind, and its size, represent s. *)
LEMMA SizedRepresents ==
  ASSUME NEW s \in Seq(Byte), Len(s) <= MaxInline, NEW e, Cleared(e, s, Len(s))
  PROVE  Represents(Sized(e, Len(s)), s)
<1>1. Len(s) \in Nat /\ 2 * Len(s) \in Nat
  OBVIOUS
<1>2. e \in [Index -> Nat] /\ \A i \in Index : e[i] = IF i <= Len(s) THEN s[i] ELSE 0
  BY DEF Cleared
<1>3. QED
  BY <1>1, <1>2 DEF Represents, Sized, Stored

(* A tag is twice a size. *)
LEMMA Halves == ASSUME NEW n \in Nat
                PROVE  (2 * n) % 2 = 0 /\ (2 * n) \div 2 = n
OBVIOUS

(* What the methods read of a value that represents s. *)
LEMMA Reads ==
  ASSUME NEW d, NEW s, Represents(d, s)
  PROVE  /\ ~IsTree(d)
         /\ InlineSize(d) = Len(s)
         /\ InlineSlice(d) = s
<1>0. /\ d \in Stored /\ s \in Seq(Byte) /\ Len(s) <= MaxInline /\ d.tag = 2 * Len(s)
      /\ \A i \in Index : d.tail[i] = IF i <= Len(s) THEN s[i] ELSE 0
  BY DEF Represents
<1>1. Len(s) \in Nat /\ s = [i \in 1..Len(s) |-> s[i]]
  BY <1>0, BytesAreNumbers
<1>2. (2 * Len(s)) % 2 = 0 /\ (2 * Len(s)) \div 2 = Len(s)
  BY <1>1, Halves
<1>3. ASSUME NEW i \in 1..Len(s) PROVE d.tail[i] = s[i]
  <2>1. i \in Index /\ i <= Len(s)
    BY <1>0, <1>1, Sizes
  <2>2. QED
    BY <1>0, <2>1
<1>4. [i \in 1..Len(s) |-> d.tail[i]] = [i \in 1..Len(s) |-> s[i]]
  BY <1>3
<1>5. ~IsTree(d)
  BY <1>0, <1>2 DEF IsTree
<1>6. InlineSize(d) = Len(s)
  BY <1>0, <1>2 DEF InlineSize
<1>7. QED
  BY <1>1, <1>4, <1>5, <1>6 DEF InlineSlice

(* The join of two strings of bytes is one. *)
LEMMA JoinedBytes ==
  ASSUME NEW a \in Seq(Byte), NEW b \in Seq(Byte)
  PROVE  Joined(a, b) \in Seq(Byte) /\ Len(Joined(a, b)) = Len(a) + Len(b)
         /\ \A i \in 1..(Len(a) + Len(b)) : Joined(a, b)[i] = IF i <= Len(a) THEN a[i] ELSE b[i - Len(a)]
<1> DEFINE n == Len(a) + Len(b)
           J(i) == IF i <= Len(a) THEN a[i] ELSE b[i - Len(a)]
<1>1. n \in Nat
  OBVIOUS
<1>2. ASSUME NEW i \in 1..n PROVE J(i) \in Byte
  <2>1. CASE i <= Len(a)
    BY <2>1
  <2>2. CASE i > Len(a)
    <3>1. i - Len(a) \in 1..Len(b)
      BY <2>2
    <3>2. QED
      BY <2>2, <3>1
  <2>3. QED
    BY <2>1, <2>2
<1>3. Joined(a, b) = [i \in 1..n |-> J(i)]
  BY DEF Joined
<1> HIDE DEF J, n
<1>4. Joined(a, b) \in Seq(Byte) /\ Len(Joined(a, b)) = n /\ \A i \in 1..n : Joined(a, b)[i] = J(i)
  BY <1>1, <1>2, <1>3
<1>5. QED
  BY <1>4 DEF J, n

(* An array to which a and then, behind it, b was copied, with zeros behind. *)
LEMMA TwoCopies ==
  ASSUME NEW a \in Seq(Byte), NEW b \in Seq(Byte), Len(a) + Len(b) <= MaxInline,
         NEW t \in [Index -> Nat], NEW e, NEW f,
         Copied(e, t, 0, a, Len(a)), Copied(f, e, Len(a), b, Len(b)),
         \A i \in Index : i > Len(a) + Len(b) => t[i] = 0
  PROVE  Represents(Sized(f, Len(a) + Len(b)), Joined(a, b))
<1> DEFINE j == Joined(a, b)
           la == Len(a)
           lb == Len(b)
<1>1. j \in Seq(Byte) /\ Len(j) = la + lb
      /\ \A i \in 1..(la + lb) : j[i] = IF i <= la THEN a[i] ELSE b[i - la]
  BY JoinedBytes
<1>2. a \in Seq(Nat) /\ b \in Seq(Nat) /\ la \in Nat /\ lb \in Nat /\ la \in 0..Len(a) /\ lb \in 0..Len(b)
  BY BytesAreNumbers
<1>3. e \in [Index -> Nat]
  BY <1>2, CopiedType
<1>4. f \in [Index -> Nat]
  BY <1>2, <1>3, CopiedType
<1>5. ASSUME NEW i \in Index PROVE f[i] = IF i <= la + lb THEN j[i] ELSE 0
  <2>1. i \in Int /\ i >= 1 /\ i - 0 = i /\ 0 + la = la
    BY <1>2, Sizes
  <2>2. f[i] = IF i > la /\ i <= la + lb THEN b[i - la] ELSE e[i]
    BY DEF Copied
  <2>3. e[i] = IF i <= la THEN a[i] ELSE t[i]
    BY <2>1 DEF Copied
  <2> HIDE DEF j, la, lb
  <2>4. i <= la + lb => j[i] = IF i <= la THEN a[i] ELSE b[i - la]
    BY <1>1, <1>2, <2>1
  <2>5. i > la + lb => t[i] = 0
    BY DEF la, lb
  <2>6. QED
    BY <1>2, <2>1, <2>2, <2>3, <2>4, <2>5
<1> HIDE DEF j
<1>6. Cleared(f, j, Len(j))
  BY <1>1, <1>4, <1>5 DEF Cleared
<1>7. Represents(Sized(f, Len(j)), j)
  BY <1>1, <1>6, SizedRepresents
<1>8. QED
  BY <1>1, <1>7 DEF j

(* The empty value is a tail of zeros. *)
LEMMA NewTail == New.tail \in [Index -> Nat] /\ \A i \in Index : New.tail[i] = 0
BY DEF New

(* The empty value holds no bytes. *)
LEMMA NewRepresents == Represents(New, <<>>)
<1>1. New \in Stored /\ New.tag = 0
  BY DEF New, Stored
<1>2. Len(<<>>) = 0 /\ <<>> \in Seq(Byte) /\ 0 <= MaxInline /\ 2 * 0 = 0
  BY Sizes
<1>3. \A i \in Index : ~(i <= 0)
  BY Sizes
<1>4. QED
  BY <1>1, <1>2, <1>3, NewTail DEF Represents

(* A string is stored. *)
LEMMA InlineFromRepresents ==
  ASSUME NEW s \in Seq(Byte), Len(s) <= MaxInline
  PROVE  Represents(InlineFrom(s), s)
<1>1. Cleared(SmallMemmove(Word, New.tail, 0, s, TRUE), s, Len(s))
  BY BytesAreNumbers, NewTail, MemmoveClears
<1>2. QED
  BY <1>1, SizedRepresents DEF InlineFrom

(* A Store of all the bytes of s copies them. *)
LEMMA StoreCopies ==
  ASSUME NEW t \in [Index -> Nat], NEW at \in Nat, NEW s \in Seq(Nat)
  PROVE  Copied(Store(t, at, s, 0, Len(s)), t, at, s, Len(s))
<1> DEFINE e == Store(t, at, s, 0, Len(s))
<1>1. e = [i \in Index |-> IF i > at /\ i <= at + Len(s) THEN s[i - at + 0] ELSE t[i]]
  BY DEF Store
<1>2. ASSUME NEW i \in Index PROVE i - at + 0 = i - at
  BY Sizes
<1> HIDE DEF e
<1>3. QED
  BY <1>1, <1>2 DEF Copied, e

(* Two chunks are gathered. *)
LEMMA GatherRepresents ==
  ASSUME NEW a \in Seq(Byte), NEW b \in Seq(Byte), Len(a) + Len(b) <= MaxInline
  PROVE  Represents(Gather(a, b), Joined(a, b))
<1> DEFINE e == SmallMemmove(Word, New.tail, 0, a, FALSE)
           f == SmallMemmove(Word, e, Len(a), b, FALSE)
           t == New.tail
<1>1. a \in Seq(Nat) /\ b \in Seq(Nat) /\ Len(a) \in Nat /\ Len(b) \in Nat
  BY BytesAreNumbers
<1>2. t \in [Index -> Nat] /\ \A i \in Index : t[i] = 0
  BY NewTail
<1>3. 0 \in Nat /\ 0 + Len(a) <= MaxInline /\ Len(a) \in 0..Len(a)
  BY <1>1, Sizes
<1> HIDE DEF t
<1>4. Copied(SmallMemmove(Word, t, 0, a, FALSE), t, 0, a, Len(a))
  BY <1>1, <1>2, <1>3, MemmoveCopies
<1>5. Copied(e, t, 0, a, Len(a))
  BY <1>4 DEF t
<1>6. e \in [Index -> Nat]
  BY <1>1, <1>2, <1>3, <1>5, CopiedType
<1> HIDE DEF e
<1>7. Copied(f, e, Len(a), b, Len(b))
  BY <1>1, <1>6, MemmoveCopies
<1> HIDE DEF f
<1>8. Represents(Sized(f, Len(a) + Len(b)), Joined(a, b))
  BY <1>2, <1>5, <1>7, TwoCopies
<1>9. QED
  BY <1>8 DEF Gather, f, e

(* Bytes are put behind those of d. *)
LEMMA PushBackRepresents ==
  ASSUME NEW d, NEW s, Represents(d, s), NEW b \in Seq(Byte), Len(s) + Len(b) <= MaxInline
  PROVE  Represents(PushBackInline(d, b), Joined(s, b))
<1> DEFINE t == d.tail
           f == Store(t, Len(s), b, 0, Len(b))
<1>1. /\ d \in Stored /\ s \in Seq(Byte)
      /\ \A i \in Index : t[i] = IF i <= Len(s) THEN s[i] ELSE 0
  BY DEF Represents
<1>2. s \in Seq(Nat) /\ b \in Seq(Nat) /\ Len(s) \in Nat /\ Len(b) \in Nat
  BY <1>1, BytesAreNumbers
<1>3. t \in [Index -> Nat]
  BY <1>1 DEF Stored
<1> HIDE DEF t
<1>4. Copied(f, t, Len(s), b, Len(b))
  BY <1>2, <1>3, StoreCopies
<1>5. Copied(t, t, 0, s, Len(s))
  <2>1. ASSUME NEW i \in Index PROVE i \in Int /\ i > 0 /\ i - 0 = i /\ 0 + Len(s) = Len(s)
    BY <1>2, Sizes
  <2>2. ASSUME NEW i \in Index PROVE t[i] = IF i > 0 /\ i <= 0 + Len(s) THEN s[i - 0] ELSE t[i]
    BY <1>1, <2>1
  <2>3. t = [i \in Index |-> t[i]]
    BY <1>3
  <2>4. QED
    BY <2>2, <2>3 DEF Copied
<1>6. ASSUME NEW i \in Index, i > Len(s) + Len(b) PROVE t[i] = 0
  <2>1. i \in Int /\ ~(i <= Len(s))
    BY <1>2, <1>6, Sizes
  <2>2. QED
    BY <1>1, <2>1
<1> HIDE DEF f
<1>7. Represents(Sized(f, Len(s) + Len(b)), Joined(s, b))
  BY <1>1, <1>3, <1>4, <1>5, <1>6, TwoCopies
<1>8. InlineSize(d) = Len(s)
  BY Reads
<1>9. QED
  BY <1>7, <1>8 DEF PushBackInline, f, t

(* Two strings are copied behind each other. *)
LEMMA ConcatRepresents ==
  ASSUME NEW a \in Seq(Byte), NEW b \in Seq(Byte), Len(a) + Len(b) <= MaxInline
  PROVE  Represents(ConcatInline(a, b), Joined(a, b))
<1> DEFINE t == New.tail
           e == Store(t, 0, a, 0, Len(a))
           f == Store(e, Len(a), b, 0, Len(b))
<1>1. a \in Seq(Nat) /\ b \in Seq(Nat) /\ Len(a) \in Nat /\ Len(b) \in Nat /\ 0 \in Nat
      /\ Len(a) \in 0..Len(a)
  BY BytesAreNumbers
<1>2. t \in [Index -> Nat] /\ \A i \in Index : t[i] = 0
  BY NewTail
<1> HIDE DEF t
<1>3. Copied(e, t, 0, a, Len(a))
  BY <1>1, <1>2, StoreCopies
<1>4. e \in [Index -> Nat]
  BY <1>1, <1>2, <1>3, CopiedType
<1> HIDE DEF e
<1>5. Copied(f, e, Len(a), b, Len(b))
  BY <1>1, <1>4, StoreCopies
<1> HIDE DEF f
<1>6. Represents(Sized(f, Len(a) + Len(b)), Joined(a, b))
  BY <1>2, <1>3, <1>5, TwoCopies
<1>7. QED
  BY <1>6 DEF ConcatInline, f, e, t

(* The first n bytes are kept, and the others cleared. *)
LEMMA TruncateRepresents ==
  ASSUME NEW d, NEW s, Represents(d, s), NEW n \in Nat, n <= Len(s)
  PROVE  Represents(TruncateInline(d, n), [i \in 1..n |-> s[i]])
<1> DEFINE t == d.tail
           l == Len(s)
           k == l - n
           p == [i \in 1..n |-> s[i]]
           z == Zero(t, n, k)
<1>1. /\ d \in Stored /\ s \in Seq(Byte) /\ l <= MaxInline
      /\ \A i \in Index : t[i] = IF i <= l THEN s[i] ELSE 0
  BY DEF Represents
<1>2. l \in Nat /\ n <= l /\ k \in Nat /\ n + k = l
  BY <1>1
<1>3. t \in [Index -> Nat]
  BY <1>1 DEF Stored
<1>4. p \in Seq(Byte) /\ Len(p) = n /\ \A i \in 1..n : p[i] = s[i]
  BY <1>1, <1>2
<1> HIDE DEF t, k
<1>5. Wiped(z, t, n, k)
  BY <1>2, <1>3, ZeroAt
<1> HIDE DEF z, p, l
<1>6. ASSUME NEW i \in Index PROVE z[i] = IF i <= n THEN p[i] ELSE 0
  <2>1. i \in Int /\ i >= 1
    BY Sizes
  <2>2. z[i] = IF i > n /\ i <= n + k THEN 0 ELSE t[i]
    BY <1>5 DEF Wiped
  <2>3. i <= n => p[i] = s[i]
    BY <1>4, <2>1
  <2>4. QED
    BY <1>1, <1>2, <2>1, <2>2, <2>3
<1>7. Cleared(z, p, Len(p))
  BY <1>4, <1>5, <1>6 DEF Cleared, Wiped
<1>8. n <= MaxInline
  BY <1>1, <1>2, Sizes
<1>9. Represents(Sized(z, n), p)
  BY <1>4, <1>7, <1>8, SizedRepresents
<1>10. InlineSize(d) = l
  BY Reads DEF l
<1>11. QED
  BY <1>9, <1>10 DEF TruncateInline, z, p, t, k

(* The bytes move down over the first n, and the freed places are cleared. *)
LEMMA DropFrontRepresents ==
  ASSUME NEW d, NEW s, Represents(d, s), NEW n \in Nat, n <= Len(s)
  PROVE  Represents(DropFrontInline(d, n), [i \in 1..(Len(s) - n) |-> s[i + n]])
<1> DEFINE t == d.tail
           l == Len(s)
           k == l - n
           p == [i \in 1..k |-> s[i + n]]
           e == Store(t, 0, t, n, k)
           z == Zero(e, k, n)
<1>1. /\ d \in Stored /\ s \in Seq(Byte) /\ l <= MaxInline
      /\ \A i \in Index : t[i] = IF i <= l THEN s[i] ELSE 0
  BY DEF Represents
<1>2. l \in Nat /\ n <= l /\ k \in Nat /\ n + k = l /\ k + n = l
  BY <1>1
<1>3. t \in [Index -> Nat]
  BY <1>1 DEF Stored
<1> HIDE DEF t, k, l
<1>4. p \in Seq(Byte) /\ Len(p) = k /\ \A i \in 1..k : p[i] = s[i + n]
  <2>1. ASSUME NEW i \in 1..k PROVE s[i + n] \in Byte
    <3>1. i + n \in 1..Len(s)
      BY <1>2 DEF l
    <3>2. QED
      BY <1>1, <3>1
  <2>2. QED
    BY <1>2, <2>1
<1>5. e = [i \in Index |-> IF i > 0 /\ i <= 0 + k THEN t[i - 0 + n] ELSE t[i]]
  BY <1>3 DEF Store
<1> HIDE DEF e
<1>6. ASSUME NEW i \in Index
      PROVE  e[i] \in Nat /\ e[i] = IF i <= k THEN s[i + n] ELSE t[i]
  <2>1. i \in Int /\ i >= 1 /\ i - 0 + n = i + n /\ 0 + k = k
    BY <1>2, Sizes
  <2>2. e[i] = IF i <= k THEN t[i + n] ELSE t[i]
    BY <1>5, <2>1
  <2>3. i <= k => i + n \in Index /\ i + n <= l
    BY <1>1, <1>2, <2>1, Sizes
  <2>4. i <= k => t[i + n] = s[i + n]
    BY <1>1, <2>3
  <2>5. QED
    BY <1>3, <2>2, <2>3, <2>4
<1>7. e \in [Index -> Nat]
  BY <1>5, <1>6
<1>8. Wiped(z, e, k, n)
  BY <1>2, <1>7, ZeroAt
<1> HIDE DEF z, p
<1>9. ASSUME NEW i \in Index PROVE z[i] = IF i <= k THEN p[i] ELSE 0
  <2>1. i \in Int /\ i >= 1
    BY Sizes
  <2>2. z[i] = IF i > k /\ i <= k + n THEN 0 ELSE e[i]
    BY <1>8 DEF Wiped
  <2>3. i <= k => p[i] = s[i + n]
    BY <1>4, <2>1
  <2>4. QED
    BY <1>1, <1>2, <1>6, <2>1, <2>2, <2>3
<1>10. Cleared(z, p, Len(p))
  BY <1>4, <1>8, <1>9 DEF Cleared, Wiped
<1>11. k <= MaxInline
  BY <1>1, <1>2, Sizes
<1>12. Represents(Sized(z, k), p)
  BY <1>4, <1>10, <1>11, SizedRepresents
<1>13. InlineSize(d) = l
  BY Reads DEF l
<1>14. QED
  BY <1>12, <1>13 DEF DropFrontInline, z, p, t, k, e, l

-----------------------------------------------------------------------------
(* A value that holds bytes, and one that holds a tree. *)
LEMMA FitsBytes ==
  ASSUME NEW d, NEW s, Represents(d, s)
  PROVE  Fits(d, Holds(s))
BY DEF Fits, Holds, Represents

(* What a slot that is no tree holds. *)
LEMMA FitsInline ==
  ASSUME NEW d, NEW v, Fits(d, v), ~IsTree(d)
  PROVE  Represents(d, v.bytes) /\ v.tree = 0 /\ v.bytes \in Seq(Byte)
<1>1. ASSUME v.tree # 0, d = MakeTree(v.tree) PROVE FALSE
  <2>1. d.tag = 1
    BY <1>1 DEF MakeTree
  <2>2. QED
    BY <2>1 DEF IsTree
<1>2. QED
  BY <1>1 DEF Fits, Represents

(* A tree pointer is stored. *)
LEMMA FitsTree ==
  ASSUME NEW p \in Pointers
  PROVE  Fits(MakeTree(p), [tree |-> p, bytes |-> <<>>])
<1>1. p \in Nat /\ p # 0
  OBVIOUS
<1>2. MakeTree(p) \in Stored
  BY <1>1 DEF MakeTree, Stored
<1>3. <<>> \in Seq(Byte)
  OBVIOUS
<1>4. QED
  BY <1>1, <1>2, <1>3 DEF Fits

(* A slot is replaced by a value that fits. *)
LEMMA PutFits ==
  ASSUME InlineInv, NEW x \in Slots, NEW d, NEW v, Put(x, d, v), Fits(d, v)
  PROVE  InlineInv'
<1>1. slots' = [slots EXCEPT ![x] = d] /\ val' = [val EXCEPT ![x] = v]
  BY DEF Put
<1>2. slots' = [y \in Slots |-> slots'[y]] /\ val' = [y \in Slots |-> val'[y]]
  BY <1>1 DEF InlineInv
<1>3. ASSUME NEW y \in Slots PROVE Fits(slots'[y], val'[y])
  <2>1. CASE y = x
    <3>1. slots'[y] = d /\ val'[y] = v
      BY <1>1, <2>1 DEF InlineInv
    <3>2. QED
      BY <3>1
  <2>2. CASE y # x
    <3>1. slots'[y] = slots[y] /\ val'[y] = val[y]
      BY <1>1, <2>2 DEF InlineInv
    <3>2. QED
      BY <3>1 DEF InlineInv
  <2>3. QED
    BY <2>1, <2>2
<1>4. QED
  BY <1>2, <1>3 DEF InlineInv

(* The slots are empty at first. *)
LEMMA InitInline == InlineInit => InlineInv
<1> SUFFICES ASSUME InlineInit PROVE InlineInv
  OBVIOUS
<1>1. Fits(New, Holds(<<>>))
  BY NewRepresents, FitsBytes
<1>2. QED
  BY <1>1 DEF InlineInit, InlineInv

(* SetInline stores the bytes it is given. *)
LEMMA StepSetInline ==
  ASSUME InlineInv, NEW x \in Slots, NEW s \in Inputs, SetInline(x, s)
  PROVE  InlineInv'
<1>1. s \in Seq(Byte) /\ Len(s) <= MaxInline /\ Put(x, InlineFrom(s), Holds(s))
  BY DEF SetInline
<1>2. Fits(InlineFrom(s), Holds(s))
  BY <1>1, InlineFromRepresents, FitsBytes
<1>3. QED
  BY <1>1, <1>2, PutFits

(* SetGathered stores two chunks. *)
LEMMA StepSetGathered ==
  ASSUME InlineInv, NEW x \in Slots, NEW a \in Inputs, NEW b \in Inputs, SetGathered(x, a, b)
  PROVE  InlineInv'
<1>1. a \in Seq(Byte) /\ b \in Seq(Byte) /\ Len(a) + Len(b) <= MaxInline
      /\ Put(x, Gather(a, b), Holds(Joined(a, b)))
  BY DEF SetGathered
<1>2. Fits(Gather(a, b), Holds(Joined(a, b)))
  BY <1>1, GatherRepresents, FitsBytes
<1>3. QED
  BY <1>1, <1>2, PutFits

(* PushBack keeps what is there. *)
LEMMA StepPushBack ==
  ASSUME InlineInv, NEW x \in Slots, NEW s \in Inputs, PushBack(x, s)
  PROVE  InlineInv'
<1> DEFINE d == slots[x]
           w == val[x].bytes
<1>1. Represents(d, w) /\ s \in Seq(Byte)
  BY FitsInline DEF InlineInv, PushBack
<1>2. InlineSize(d) = Len(w)
  BY <1>1, Reads
<1>3. Len(w) + Len(s) <= MaxInline /\ Put(x, PushBackInline(d, s), Holds(Joined(w, s)))
  BY <1>2 DEF PushBack
<1> HIDE DEF d, w
<1>4. Fits(PushBackInline(d, s), Holds(Joined(w, s)))
  BY <1>1, <1>3, PushBackRepresents, FitsBytes
<1>5. QED
  BY <1>3, <1>4, PutFits

(* PushFront keeps what is there. *)
LEMMA StepPushFront ==
  ASSUME InlineInv, NEW x \in Slots, NEW s \in Inputs, PushFront(x, s)
  PROVE  InlineInv'
<1> DEFINE d == slots[x]
           w == val[x].bytes
<1>1. Represents(d, w) /\ w \in Seq(Byte) /\ s \in Seq(Byte)
  BY FitsInline DEF InlineInv, PushFront
<1>2. InlineSize(d) = Len(w) /\ InlineSlice(d) = w
  BY <1>1, Reads
<1>3. Len(w) + Len(s) <= MaxInline /\ Put(x, PushFrontInline(d, s), Holds(Joined(s, w)))
  BY <1>2 DEF PushFront
<1> HIDE DEF d, w
<1>4. Len(s) + Len(w) <= MaxInline
  BY <1>1, <1>3
<1>5. Fits(PushFrontInline(d, s), Holds(Joined(s, w)))
  BY <1>1, <1>2, <1>4, ConcatRepresents, FitsBytes DEF PushFrontInline
<1>6. QED
  BY <1>3, <1>5, PutFits

(* Truncate clears what it cuts off. *)
LEMMA StepTruncate ==
  ASSUME InlineInv, NEW x \in Slots, NEW n \in 0..MaxInline, Truncate(x, n)
  PROVE  InlineInv'
<1> DEFINE d == slots[x]
           w == val[x].bytes
           p == [i \in 1..n |-> w[i]]
<1>1. Represents(d, w) /\ n \in Nat
  BY FitsInline, Sizes DEF InlineInv, Truncate
<1>2. InlineSize(d) = Len(w)
  BY <1>1, Reads
<1>3. n <= Len(w) /\ Put(x, TruncateInline(d, n), Holds(p))
  BY <1>2 DEF Truncate
<1> HIDE DEF d, w
<1>4. Represents(TruncateInline(d, n), p)
  BY <1>1, <1>3, TruncateRepresents
<1> HIDE DEF p
<1>5. QED
  BY <1>3, <1>4, FitsBytes, PutFits

(* DropFront moves the rest down and clears what that frees. *)
LEMMA StepDropFront ==
  ASSUME InlineInv, NEW x \in Slots, NEW n \in 0..MaxInline, DropFront(x, n)
  PROVE  InlineInv'
<1> DEFINE d == slots[x]
           w == val[x].bytes
           p == [i \in 1..(Len(w) - n) |-> w[i + n]]
<1>1. Represents(d, w) /\ n \in Nat
  BY FitsInline, Sizes DEF InlineInv, DropFront
<1>2. InlineSize(d) = Len(w)
  BY <1>1, Reads
<1>3. n <= Len(w) /\ Put(x, DropFrontInline(d, n), Holds(p))
  BY <1>2 DEF DropFront
<1> HIDE DEF d, w
<1>4. Represents(DropFrontInline(d, n), p)
  BY <1>1, <1>3, DropFrontRepresents
<1> HIDE DEF p
<1>5. QED
  BY <1>3, <1>4, FitsBytes, PutFits

(***************************************************************************)
(* Every step of InlineData keeps its invariant.                           *)
(***************************************************************************)
LEMMA InlineInductive == InlineInv /\ [InlineNext]_inlineVars => InlineInv'
<1> SUFFICES ASSUME InlineInv, [InlineNext]_inlineVars PROVE InlineInv'
  OBVIOUS
<1>1. CASE UNCHANGED inlineVars
  BY <1>1 DEF inlineVars, InlineInv
<1>2. ASSUME NEW x \in Slots, NEW p \in Pointers, SetTree(x, p) PROVE InlineInv'
  BY <1>2, FitsTree, PutFits DEF SetTree
<1>3. ASSUME NEW x \in Slots, TakeTree(x) PROVE InlineInv'
  <2>1. Fits(New, Holds(<<>>))
    BY NewRepresents, FitsBytes
  <2>2. QED
    BY <1>3, <2>1, PutFits DEF TakeTree
<1>4. ASSUME NEW x \in Slots, NEW y \in Slots, CloneWithRef(x, y) PROVE InlineInv'
  <2>1. Fits(slots[y], val[y])
    BY DEF InlineInv
  <2>2. QED
    BY <1>4, <2>1, PutFits DEF CloneWithRef
<1>5. QED
  BY <1>1, <1>2, <1>3, <1>4, StepSetInline, StepPushBack, StepPushFront, StepSetGathered,
     StepTruncate, StepDropFront DEF InlineNext

(***************************************************************************)
(* The inductive invariant holds in every state of InlineData.             *)
(***************************************************************************)
THEOREM InlineInvariance == InlineSpec => []InlineInv
BY InitInline, InlineInductive, PTL DEF InlineSpec

(***************************************************************************)
(* In every state every slot holds exactly what its edits put there and is *)
(* zero behind it: small_memmove with its overlapping words, the edits in  *)
(* place and take_tree leave no stale byte behind the inline size.         *)
(***************************************************************************)
THEOREM InlineStaysFaithful == InlineSpec => []InlineFaithful
<1>1. InlineInv => InlineFaithful
  <2> SUFFICES ASSUME InlineInv, NEW x \in Slots PROVE SlotFaithful(x)
    BY DEF InlineFaithful
  <2>1. Fits(slots[x], val[x])
    BY DEF InlineInv
  <2>2. QED
    BY <2>1 DEF Fits, Represents, SlotFaithful
<1>2. QED
  BY <1>1, InlineInvariance, PTL

-----------------------------------------------------------------------------
(* A set of natural numbers has a least one. *)
LEMMA NatLeast ==
  ASSUME NEW T \in SUBSET Nat, T # {}
  PROVE  \E x \in T : \A y \in T : x <= y
<1> DEFINE R == {ss \in Nat \X Nat : ss[1] < ss[2]}
<1>1. IsWellFoundedOn(R, Nat)
  BY NatLessThanWellFounded DEF OpToRel
<1>2. PICK x \in T : \A y \in T : ~(<<y, x>> \in R)
  <2> HIDE DEF R
  <2> QED
    BY <1>1, WFMin
<1>3. \A y \in T : ~(y < x)
  BY <1>2
<1>4. QED
  BY <1>3

(* The values of the first n bytes of the word of t that begins at from. *)
PrefixValues(g, t, from, n) ==
    /\ g \in [0..n -> Nat]
    /\ g[0] = 0
    /\ \A i \in 1..n : g[i] = 256 * g[i - 1] + t[from + i - 1]

(* The word that begins at from is within the array. *)
IsWord(from) == from \in 1..Word

LEMMA WordAt == ASSUME NEW from, IsWord(from), NEW i \in 1..Word
                PROVE  from + i - 1 \in Index /\ from \in Nat
BY Sizes DEF IsWord

(* There are values for all prefixes: induction on their length. *)
LEMMA PrefixValuesExist ==
  ASSUME NEW t \in [Index -> Nat], NEW from, IsWord(from)
  PROVE  \E g : PrefixValues(g, t, from, Word)
<1> DEFINE T == {n \in 0..Word : ~(\E g : PrefixValues(g, t, from, n))}
<1>0. Word \in Nat /\ Word \in 0..Word
  BY Sizes
<1>1. SUFFICES ASSUME T # {} PROVE FALSE
  BY <1>0
<1>2. T \in SUBSET Nat
  BY <1>0
<1> HIDE DEF T
<1>3. PICK n \in T : \A m \in T : n <= m
  BY <1>1, <1>2, NatLeast
<1>4. n \in 0..Word /\ n \in Nat
  BY <1>0, <1>3 DEF T
<1>5. n # 0
  <2> DEFINE g == [i \in 0..0 |-> 0]
  <2>1. g \in [0..0 -> Nat] /\ g[0] = 0 /\ 1..0 = {}
    OBVIOUS
  <2>2. PrefixValues(g, t, from, 0)
    BY <2>1 DEF PrefixValues
  <2>3. QED
    BY <1>3, <2>2 DEF T
<1>6. n - 1 \in 0..Word /\ n - 1 \notin T
  BY <1>3, <1>4, <1>5, <1>0
<1>7. PICK g : PrefixValues(g, t, from, n - 1)
  BY <1>6 DEF T
<1> DEFINE h == [i \in 0..n |-> IF i = n THEN 256 * g[n - 1] + t[from + n - 1] ELSE g[i]]
<1>8. g \in [0..(n - 1) -> Nat] /\ g[0] = 0
      /\ \A i \in 1..(n - 1) : g[i] = 256 * g[i - 1] + t[from + i - 1]
  BY <1>7 DEF PrefixValues
<1>9. from + n - 1 \in Index /\ t[from + n - 1] \in Nat
  BY <1>0, <1>4, <1>5, WordAt
<1>10. g[n - 1] \in Nat /\ 256 * g[n - 1] + t[from + n - 1] \in Nat
  BY <1>4, <1>5, <1>8, <1>9
<1>11. h \in [0..n -> Nat]
  BY <1>4, <1>8, <1>10
<1>12. h[0] = 0
  BY <1>4, <1>5, <1>8
<1>13. ASSUME NEW i \in 1..n PROVE h[i] = 256 * h[i - 1] + t[from + i - 1]
  <2>1. i \in 0..n /\ i - 1 \in 0..n /\ i - 1 # n
    BY <1>4
  <2>2. h[i - 1] = g[i - 1]
    BY <2>1
  <2>3. CASE i = n
    BY <2>1, <2>2, <2>3
  <2>4. CASE i # n
    <3>1. i \in 1..(n - 1) /\ h[i] = g[i]
      BY <1>4, <2>1, <2>4
    <3>2. QED
      BY <1>8, <2>2, <3>1
  <2>5. QED
    BY <2>3, <2>4
<1> HIDE DEF h
<1>14. PrefixValues(h, t, from, n)
  BY <1>11, <1>12, <1>13 DEF PrefixValues
<1>15. QED
  BY <1>3, <1>14 DEF T

(* from_be_bytes is the last of these values. *)
LEMMA BigEndianIs ==
  ASSUME NEW t \in [Index -> Nat], NEW from, IsWord(from)
  PROVE  \E g : PrefixValues(g, t, from, Word) /\ BigEndian(t, from) = g[Word]
<1>1. PICK g : PrefixValues(g, t, from, Word)
  BY PrefixValuesExist
<1>2. Word \in Nat
  BY Sizes
<1>3. g = [i \in 0..Word |-> IF i = 0 THEN 0 ELSE 256 * g[i - 1] + t[from + i - 1]]
  <2> DEFINE N(i) == IF i = 0 THEN 0 ELSE 256 * g[i - 1] + t[from + i - 1]
  <2>1. ASSUME NEW i \in 0..Word PROVE g[i] = N(i)
    <3>1. CASE i = 0
      BY <1>1, <3>1 DEF PrefixValues
    <3>2. CASE i # 0
      <4>1. i \in 1..Word
        BY <1>2, <3>2
      <4>2. QED
        BY <1>1, <3>2, <4>1 DEF PrefixValues
    <3>3. QED
      BY <3>1, <3>2
  <2>2. g = [i \in 0..Word |-> g[i]]
    BY <1>1 DEF PrefixValues
  <2> HIDE DEF N
  <2>3. g = [i \in 0..Word |-> N(i)]
    BY <2>1, <2>2
  <2>4. QED
    BY <2>3 DEF N
<1> DEFINE V == CHOOSE h : h = [i \in 0..Word |-> IF i = 0 THEN 0 ELSE 256 * h[i - 1] + t[from + i - 1]]
<1>4. V = [i \in 0..Word |-> IF i = 0 THEN 0 ELSE 256 * V[i - 1] + t[from + i - 1]]
  BY <1>3
<1>5. BigEndian(t, from) = V[Word]
  BY DEF BigEndian
<1> HIDE DEF V
<1>6. V[0] = 0 /\ \A i \in 1..Word : V[i] = 256 * V[i - 1] + t[from + i - 1]
  <2>1. 0 \in 0..Word
    BY <1>2
  <2>2. ASSUME NEW i \in 1..Word PROVE i \in 0..Word /\ i # 0
    BY <1>2
  <2>3. QED
    BY <1>4, <2>1, <2>2
<1>7. ASSUME NEW i \in 0..Word PROVE V[i] = g[i]
  <2> DEFINE T == {j \in 0..Word : V[j] # g[j]}
  <2>1. SUFFICES ASSUME T # {} PROVE FALSE
    OBVIOUS
  <2>2. T \in SUBSET Nat
    BY <1>2
  <2> HIDE DEF T
  <2>3. PICK n \in T : \A m \in T : n <= m
    BY <2>1, <2>2, NatLeast
  <2>4. n \in 0..Word /\ n \in Nat /\ V[n] # g[n]
    BY <2>2, <2>3 DEF T
  <2>5. n # 0
    BY <1>1, <1>6, <2>4 DEF PrefixValues
  <2>6. n - 1 \in 0..Word /\ n - 1 \notin T /\ n \in 1..Word
    BY <1>2, <2>3, <2>4, <2>5
  <2>7. V[n - 1] = g[n - 1]
    BY <2>6 DEF T
  <2>8. QED
    BY <1>1, <1>6, <2>4, <2>6, <2>7 DEF PrefixValues
<1>8. QED
  BY <1>1, <1>2, <1>5, <1>7

(* The first k bytes of the words that begin at from are the same. *)
Agree(t, u, from, k) == \A i \in 1..k : t[from + i - 1] = u[from + i - 1]

(* Words of equal bytes are equal; so are the values of equal prefixes. *)
LEMMA EqualPrefixes ==
  ASSUME NEW t, NEW u, NEW from \in Nat, NEW g, NEW h, NEW k \in 0..Word,
         PrefixValues(g, t, from, Word), PrefixValues(h, u, from, Word),
         Agree(t, u, from, k)
  PROVE  g[k] = h[k]
<1>0. Word \in Nat /\ k \in Nat /\ k <= Word
  BY Sizes
<1> DEFINE T == {j \in 0..k : g[j] # h[j]}
<1>1. SUFFICES ASSUME T # {} PROVE FALSE
  BY <1>0
<1>2. T \in SUBSET Nat
  BY <1>0
<1> HIDE DEF T
<1>3. PICK n \in T : \A m \in T : n <= m
  BY <1>1, <1>2, NatLeast
<1>4. n \in 0..k /\ n \in Nat /\ g[n] # h[n]
  BY <1>2, <1>3 DEF T
<1>5. n # 0
  BY <1>4 DEF PrefixValues
<1>6. n - 1 \in 0..k /\ n - 1 \notin T /\ n \in 1..Word /\ n \in 1..k
  BY <1>0, <1>3, <1>4, <1>5
<1>7. g[n - 1] = h[n - 1]
  BY <1>6 DEF T
<1>8. g[n] = 256 * g[n - 1] + t[from + n - 1] /\ h[n] = 256 * h[n - 1] + u[from + n - 1]
  BY <1>6 DEF PrefixValues
<1>9. QED
  BY <1>4, <1>6, <1>7, <1>8 DEF Agree

(* An array of bytes. *)
IsOctets(t) == t \in [Index -> Nat] /\ \A i \in Index : t[i] < 256

(* The first byte that differs decides. *)
LEMMA FirstDifference ==
  ASSUME NEW t, NEW u, IsOctets(t), IsOctets(u), NEW from, IsWord(from), NEW g, NEW h,
         PrefixValues(g, t, from, Word), PrefixValues(h, u, from, Word),
         NEW k \in 1..Word,
         Agree(t, u, from, k - 1),
         t[from + k - 1] < u[from + k - 1]
  PROVE  g[Word] < h[Word]
<1>0. Word \in Nat /\ k \in Nat /\ k <= Word /\ k - 1 \in 0..Word /\ from \in Nat
  BY Sizes DEF IsWord
<1>1. g[k - 1] = h[k - 1]
  BY <1>0, EqualPrefixes
<1> DEFINE T == {j \in k..Word : ~(g[j] < h[j])}
<1>2. SUFFICES ASSUME T # {} PROVE FALSE
  BY <1>0
<1>3. T \in SUBSET Nat
  BY <1>0
<1> HIDE DEF T
<1>4. PICK n \in T : \A m \in T : n <= m
  BY <1>2, <1>3, NatLeast
<1>5. n \in k..Word /\ n \in Nat /\ ~(g[n] < h[n]) /\ n \in 1..Word /\ n - 1 \in 0..Word /\ n \in 0..Word
  BY <1>0, <1>3, <1>4 DEF T
<1>6. g[n] = 256 * g[n - 1] + t[from + n - 1] /\ h[n] = 256 * h[n - 1] + u[from + n - 1]
  BY <1>5 DEF PrefixValues
<1>7. t[from + n - 1] \in Nat /\ t[from + n - 1] < 256 /\ u[from + n - 1] \in Nat
  BY <1>5, WordAt DEF IsOctets
<1>8. g[n - 1] \in Nat /\ h[n - 1] \in Nat /\ g[n] \in Nat /\ h[n] \in Nat
  BY <1>5 DEF PrefixValues
<1> DEFINE gp == g[n - 1]
           hp == h[n - 1]
           tp == t[from + n - 1]
           up == u[from + n - 1]
<1>9. gp \in Nat /\ hp \in Nat /\ tp \in Nat /\ tp < 256 /\ up \in Nat
      /\ ~(256 * gp + tp < 256 * hp + up)
  BY <1>5, <1>6, <1>7, <1>8
<1>10. n = k => gp = hp /\ tp < up
  BY <1>1
<1>11. gp < hp \/ n = k
  <2>1. SUFFICES ASSUME n # k PROVE gp < hp
    OBVIOUS
  <2>2. n - 1 \in k..Word /\ n - 1 \notin T
    BY <1>0, <1>4, <1>5, <2>1
  <2>3. QED
    BY <2>2 DEF T
<1> HIDE DEF gp, hp, tp, up
<1>12. QED
  BY <1>9, <1>10, <1>11

(* Words with the same bytes are equal. *)
LEMMA WordsEqual ==
  ASSUME NEW t \in [Index -> Nat], NEW u \in [Index -> Nat], NEW from, IsWord(from),
         Agree(t, u, from, Word)
  PROVE  BigEndian(t, from) = BigEndian(u, from)
<1>1. PICK g : PrefixValues(g, t, from, Word) /\ BigEndian(t, from) = g[Word]
  BY BigEndianIs
<1>2. PICK h : PrefixValues(h, u, from, Word) /\ BigEndian(u, from) = h[Word]
  BY BigEndianIs
<1>3. from \in Nat /\ Word \in 0..Word
  BY Sizes DEF IsWord
<1>4. QED
  BY <1>1, <1>2, <1>3, EqualPrefixes

(* Words are ordered as their first bytes that differ. *)
LEMMA WordsLess ==
  ASSUME NEW t, NEW u, IsOctets(t), IsOctets(u), NEW from, IsWord(from),
         NEW k \in 1..Word, Agree(t, u, from, k - 1), t[from + k - 1] < u[from + k - 1]
  PROVE  /\ BigEndian(t, from) \in Nat /\ BigEndian(u, from) \in Nat
         /\ BigEndian(t, from) < BigEndian(u, from)
<1>0. t \in [Index -> Nat] /\ u \in [Index -> Nat] /\ Word \in 0..Word
  BY Sizes DEF IsOctets
<1>1. PICK g : PrefixValues(g, t, from, Word) /\ BigEndian(t, from) = g[Word]
  BY <1>0, BigEndianIs
<1>2. PICK h : PrefixValues(h, u, from, Word) /\ BigEndian(u, from) = h[Word]
  BY <1>0, BigEndianIs
<1>3. g[Word] < h[Word]
  BY <1>1, <1>2, FirstDifference
<1>4. g[Word] \in Nat /\ h[Word] \in Nat
  BY <1>0, <1>1, <1>2 DEF PrefixValues
<1>5. QED
  BY <1>1, <1>2, <1>3, <1>4

(* Comparing words compares the first bytes that differ. *)
LEMMA WordsCmp ==
  ASSUME NEW t, NEW u, IsOctets(t), IsOctets(u), NEW from, IsWord(from),
         NEW k \in 1..Word, Agree(t, u, from, k - 1), NEW p, p = from + k - 1, t[p] # u[p]
  PROVE  /\ BigEndian(t, from) # BigEndian(u, from)
         /\ Cmp(BigEndian(t, from), BigEndian(u, from)) = Cmp(t[p], u[p])
<1> DEFINE x == t[p]
           y == u[p]
           bx == BigEndian(t, from)
           by == BigEndian(u, from)
<1>1. p \in Index
  BY WordAt
<1>2. x \in Nat /\ y \in Nat /\ x # y
  BY <1>1 DEF IsOctets
<1>3. Agree(u, t, from, k - 1)
  BY DEF Agree
<1>4. x < y => bx \in Nat /\ by \in Nat /\ bx < by
  BY WordsLess
<1>5. y < x => bx \in Nat /\ by \in Nat /\ by < bx
  BY <1>3, WordsLess
<1> HIDE DEF x, y, bx, by
<1>6. bx # by /\ Cmp(bx, by) = Cmp(x, y)
  BY <1>2, <1>4, <1>5 DEF Cmp
<1>7. QED
  BY <1>6 DEF x, y, bx, by

(* The arrays differ at k and nowhere before. *)
FirstAt(t, u, k) == k \in Index /\ t[k] # u[k] /\ \A i \in Index : i < k => t[i] = u[i]

(* The two overlapping words find the first difference of the arrays. *)
LEMMA WordsFindFirst ==
  ASSUME NEW d, NEW e, NEW k, FirstAt(d.tail, e.tail, k),
         IsOctets(d.tail), IsOctets(e.tail)
  PROVE  Compare(d, e) = Cmp(d.tail[k], e.tail[k])
<1> DEFINE t == d.tail
           u == e.tail
<1>0. k \in Index /\ t[k] # u[k] /\ \A i \in Index : i < k => t[i] = u[i]
  BY DEF FirstAt
<1>T. IsOctets(t) /\ IsOctets(u) /\ t \in [Index -> Nat] /\ u \in [Index -> Nat]
  BY DEF IsOctets
<1>1. /\ Index = 1..(2 * Word - 1) /\ Word \in Nat /\ Word >= 2 /\ k \in Nat
      /\ IsWord(1) /\ IsWord(Word)
  BY <1>0, Sizes DEF IsWord
<1> DEFINE x1 == BigEndian(t, 1)
           y1 == BigEndian(u, 1)
           x2 == BigEndian(t, Word)
           y2 == BigEndian(u, Word)
<1>2. Compare(d, e) = IF x1 # y1 THEN Cmp(x1, y1)
                      ELSE IF x2 # y2 THEN Cmp(x2, y2) ELSE Cmp(InlineSize(d), InlineSize(e))
  BY DEF Compare
<1> HIDE DEF t, u
<1>3. CASE k <= Word
  <2>1. k \in 1..Word /\ 1 + k - 1 = k
    BY <1>0, <1>1, <1>3
  <2>2. Agree(t, u, 1, k - 1)
    <3>1. ASSUME NEW i \in 1..(k - 1) PROVE 1 + i - 1 \in Index /\ 1 + i - 1 < k
      BY <1>1, <1>3
    <3>2. QED
      BY <1>0, <3>1 DEF Agree
  <2>3. t[k] # u[k] /\ k = 1 + k - 1
    BY <1>0, <2>1
  <2>4. x1 # y1 /\ Cmp(x1, y1) = Cmp(t[k], u[k])
    BY <1>T, <1>1, <2>1, <2>2, <2>3, WordsCmp
  <2> HIDE DEF x1, y1, x2, y2
  <2>5. QED
    BY <1>2, <2>4 DEF t, u
<1>4. CASE k > Word
  <2> DEFINE j == k - Word + 1
  <2>1. Agree(t, u, 1, Word)
    <3>1. ASSUME NEW i \in 1..Word PROVE 1 + i - 1 \in Index /\ 1 + i - 1 < k
      BY <1>1, <1>4
    <3>2. QED
      BY <1>0, <3>1 DEF Agree
  <2>2. x1 = y1
    BY <1>T, <1>1, <2>1, WordsEqual
  <2>3. j \in 1..Word /\ Word + j - 1 = k
    BY <1>0, <1>1, <1>4
  <2>4. Agree(t, u, Word, j - 1)
    <3>1. ASSUME NEW i \in 1..(j - 1) PROVE Word + i - 1 \in Index /\ Word + i - 1 < k
      BY <1>0, <1>1, <1>4
    <3>2. QED
      BY <1>0, <3>1 DEF Agree
  <2> HIDE DEF j
  <2>5. t[k] # u[k] /\ k = Word + j - 1 /\ j \in 1..Word /\ IsWord(Word)
    BY <1>0, <1>1, <2>3
  <2>6. x2 # y2 /\ Cmp(x2, y2) = Cmp(t[k], u[k])
    BY <1>T, <2>4, <2>5, WordsCmp
  <2> HIDE DEF x1, y1, x2, y2
  <2>7. QED
    BY <1>2, <2>2, <2>6 DEF t, u
<1>5. QED
  BY <1>1, <1>3, <1>4

(* The least number of a set is the one that CHOOSE takes. *)
LEMMA LeastIs ==
  ASSUME NEW S \in SUBSET Int, NEW k \in S, \A j \in S : k <= j
  PROVE  (CHOOSE i \in S : \A j \in S : i <= j) = k
<1> DEFINE c == CHOOSE i \in S : \A j \in S : i <= j
<1>1. c \in S /\ \A j \in S : c <= j
  OBVIOUS
<1> HIDE DEF c
<1>2. c = k
  BY <1>1
<1>3. QED
  BY <1>2 DEF c

(* The indices that two strings have in common, and where they differ. *)
Common(a, b) == IF Len(a) <= Len(b) THEN 1..Len(a) ELSE 1..Len(b)

Differ(a, b) == {i \in Common(a, b) : a[i] # b[i]}

(* The lexicographic order, if the first difference is known. *)
LEMMA LexicographicIs ==
  ASSUME NEW a \in Seq(Nat), NEW b \in Seq(Nat)
  PROVE  /\ Differ(a, b) = {} => Lexicographic(a, b) = Cmp(Len(a), Len(b))
         /\ \A k \in Differ(a, b) :
               (\A j \in Differ(a, b) : k <= j) => Lexicographic(a, b) = Cmp(a[k], b[k])
<1> DEFINE S == Differ(a, b)
           first == CHOOSE i \in S : \A j \in S : i <= j
<1>1. Lexicographic(a, b) = IF S = {} THEN Cmp(Len(a), Len(b)) ELSE Cmp(a[first], b[first])
  BY DEF Lexicographic, Differ, Common
<1>2. S \in SUBSET Int
  BY DEF Differ, Common
<1>3. ASSUME NEW k \in S, \A j \in S : k <= j PROVE first = k
  <2> HIDE DEF S
  <2>1. QED
    BY <1>2, <1>3, LeastIs
<1> HIDE DEF S, first
<1>4. /\ S = {} => Lexicographic(a, b) = Cmp(Len(a), Len(b))
      /\ \A k \in S : (\A j \in S : k <= j) => Lexicographic(a, b) = Cmp(a[k], b[k])
  BY <1>1, <1>3
<1>5. QED
  BY <1>4 DEF S

(* The array behind a string of bytes. *)
LEMMA TailOctets ==
  ASSUME NEW d, NEW s, Represents(d, s)
  PROVE  IsOctets(d.tail)
<1>1. d \in Stored /\ s \in Seq(Byte)
      /\ \A i \in Index : d.tail[i] = IF i <= Len(s) THEN s[i] ELSE 0
  BY DEF Represents
<1>2. d.tail \in [Index -> Nat]
  BY <1>1 DEF Stored
<1>3. ASSUME NEW i \in Index PROVE d.tail[i] < 256
  <2>1. CASE i <= Len(s)
    <3>1. i \in 1..Len(s)
      BY <1>1, <2>1, Sizes
    <3>2. s[i] \in Byte
      BY <1>1, <3>1
    <3>3. QED
      BY <1>1, <2>1, <3>2, ByteRange
  <2>2. CASE ~(i <= Len(s))
    BY <1>1, <2>2
  <2>3. QED
    BY <2>1, <2>2
<1>4. QED
  BY <1>2, <1>3 DEF IsOctets

(* Where the padded arrays first differ decides the lexicographic order:   *)
(* a string that ends before is padded with zeros, and the other is longer. *)
LEMMA FirstDecides ==
  ASSUME NEW d, NEW a, Represents(d, a), NEW e, NEW b, Represents(e, b),
         NEW k, FirstAt(d.tail, e.tail, k)
  PROVE  Lexicographic(a, b) = Cmp(d.tail[k], e.tail[k])
<1> DEFINE t == d.tail
           u == e.tail
           S == Differ(a, b)
           la == Len(a)
           lb == Len(b)
<1>1. /\ a \in Seq(Nat) /\ b \in Seq(Nat) /\ la \in Nat /\ lb \in Nat
      /\ la <= MaxInline /\ lb <= MaxInline
  BY BytesAreNumbers DEF Represents
<1>2. /\ \A i \in Index : t[i] = IF i <= la THEN a[i] ELSE 0
      /\ \A i \in Index : u[i] = IF i <= lb THEN b[i] ELSE 0
  BY DEF Represents
<1>3. k \in Index /\ t[k] # u[k] /\ \A i \in Index : i < k => t[i] = u[i]
  BY DEF FirstAt
<1>4. t[k] \in Nat /\ u[k] \in Nat /\ k \in Int /\ k >= 1
  BY <1>3, TailOctets, Sizes DEF IsOctets
<1>5. Common(a, b) = 1..(IF la <= lb THEN la ELSE lb)
  BY DEF Common
<1> HIDE DEF t, u, la, lb
<1>6. ASSUME NEW i \in Common(a, b)
      PROVE  i \in Int /\ i \in Index /\ i <= la /\ i <= lb /\ t[i] = a[i] /\ u[i] = b[i]
  <2>1. i \in Int /\ i >= 1 /\ i <= la /\ i <= lb
    BY <1>1, <1>5
  <2>2. i \in Index
    BY <1>1, <2>1, Sizes
  <2>3. QED
    BY <1>2, <2>1, <2>2
<1>7. ASSUME NEW i \in S PROVE k <= i
  <2>1. i \in Common(a, b) /\ a[i] # b[i]
    BY DEF Differ
  <2>2. t[i] # u[i] /\ i \in Index /\ i \in Int
    BY <1>6, <2>1
  <2>3. QED
    BY <1>3, <1>4, <2>2
<1>8. CASE k \in Common(a, b)
  <2>1. t[k] = a[k] /\ u[k] = b[k]
    BY <1>6, <1>8
  <2>2. k \in S
    BY <1>3, <1>8, <2>1 DEF Differ
  <2> HIDE DEF S
  <2>3. Lexicographic(a, b) = Cmp(a[k], b[k])
    BY <1>1, <1>7, <2>2, LexicographicIs DEF S
  <2>4. QED
    BY <2>1, <2>3 DEF t, u
<1>9. CASE k \notin Common(a, b)
  <2>1. k > la \/ k > lb
    BY <1>1, <1>4, <1>5, <1>9
  <2>2. S = {}
    <3>1. SUFFICES ASSUME NEW i \in S PROVE FALSE
      OBVIOUS
    <3>2. i \in Common(a, b) /\ k <= i
      BY <1>7 DEF Differ
    <3>3. i \in Int /\ i <= la /\ i <= lb
      BY <1>6, <3>2
    <3>4. QED
      BY <1>1, <1>4, <2>1, <3>2, <3>3
  <2>3. Lexicographic(a, b) = Cmp(la, lb)
    BY <1>1, <2>2, LexicographicIs DEF la, lb
  <2>4. /\ k > la => t[k] = 0 /\ k <= lb
        /\ k > lb => u[k] = 0 /\ k <= la
    BY <1>1, <1>2, <1>3, <1>4
  <2>5. Cmp(la, lb) = Cmp(t[k], u[k])
    BY <1>1, <1>3, <1>4, <2>1, <2>4 DEF Cmp
  <2>6. QED
    BY <2>3, <2>5 DEF t, u
<1>10. QED
  BY <1>8, <1>9

(* Equal arrays: the sizes decide. *)
LEMMA SizesDecide ==
  ASSUME NEW d, NEW a, Represents(d, a), NEW e, NEW b, Represents(e, b),
         \A i \in Index : d.tail[i] = e.tail[i]
  PROVE  Compare(d, e) = Cmp(Len(a), Len(b)) /\ Lexicographic(a, b) = Cmp(Len(a), Len(b))
<1> DEFINE t == d.tail
           u == e.tail
<1>1. IsOctets(t) /\ IsOctets(u)
  BY TailOctets
<1>2. t \in [Index -> Nat] /\ u \in [Index -> Nat] /\ \A i \in Index : t[i] = u[i]
  BY <1>1 DEF IsOctets
<1>3. t = u
  <2> HIDE DEF t, u
  <2>1. t = [i \in Index |-> t[i]] /\ u = [i \in Index |-> u[i]]
    BY <1>2
  <2>2. QED
    BY <1>2, <2>1
<1>4. InlineSize(d) = Len(a) /\ InlineSize(e) = Len(b)
  BY Reads
<1>5. Compare(d, e) = Cmp(Len(a), Len(b))
  BY <1>3, <1>4 DEF Compare
<1>6. a \in Seq(Nat) /\ b \in Seq(Nat) /\ Len(a) <= MaxInline /\ Len(b) <= MaxInline
  BY BytesAreNumbers DEF Represents
<1>7. Differ(a, b) = {}
  <2>1. SUFFICES ASSUME NEW i \in Common(a, b) PROVE a[i] = b[i]
    BY DEF Differ
  <2>2. i \in Int /\ i >= 1 /\ i <= Len(a) /\ i <= Len(b)
    BY <1>6 DEF Common
  <2>3. i \in Index
    BY <1>6, <2>2, Sizes
  <2>4. t[i] = a[i] /\ u[i] = b[i]
    BY <2>2, <2>3 DEF Represents
  <2>5. QED
    BY <1>3, <2>4
<1>8. Lexicographic(a, b) = Cmp(Len(a), Len(b))
  BY <1>6, <1>7, LexicographicIs
<1>9. QED
  BY <1>5, <1>8

(***************************************************************************)
(* compare on the raw words is the lexicographic order of the bytes.       *)
(***************************************************************************)
LEMMA CompareIs ==
  ASSUME NEW d, NEW a, Represents(d, a), NEW e, NEW b, Represents(e, b)
  PROVE  Compare(d, e) = Lexicographic(a, b)
<1> DEFINE D == {i \in Index : d.tail[i] # e.tail[i]}
<1>1. CASE D = {}
  <2>1. \A i \in Index : d.tail[i] = e.tail[i]
    BY <1>1
  <2>2. QED
    BY <2>1, SizesDecide
<1>2. CASE D # {}
  <2>1. D \in SUBSET Nat
    BY Sizes
  <2> HIDE DEF D
  <2>2. PICK k \in D : \A j \in D : k <= j
    BY <1>2, <2>1, NatLeast
  <2>3. k \in Index /\ d.tail[k] # e.tail[k] /\ k \in Nat
    BY <2>1, <2>2 DEF D
  <2>4. ASSUME NEW i \in Index, i < k PROVE d.tail[i] = e.tail[i]
    <3>1. i \in Int
      BY Sizes
    <3>2. QED
      BY <2>2, <2>3, <2>4, <3>1 DEF D
  <2>5. FirstAt(d.tail, e.tail, k)
    BY <2>3, <2>4 DEF FirstAt
  <2>6. IsOctets(d.tail) /\ IsOctets(e.tail)
    BY TailOctets
  <2>7. Compare(d, e) = Cmp(d.tail[k], e.tail[k])
    BY <2>5, <2>6, WordsFindFirst
  <2>8. Lexicographic(a, b) = Cmp(d.tail[k], e.tail[k])
    BY <2>5, FirstDecides
  <2>9. QED
    BY <2>7, <2>8
<1>3. QED
  BY <1>1, <1>2

(***************************************************************************)
(* Two inline values are the same bits exactly if they hold the same bytes. *)
(***************************************************************************)
LEMMA SameBytes ==
  ASSUME NEW d, NEW a, Represents(d, a), NEW e, NEW b, Represents(e, b)
  PROVE  d = e <=> a = b
<1>1. ASSUME d = e PROVE a = b
  <2>1. InlineSlice(d) = a /\ InlineSlice(e) = b
    BY Reads
  <2>2. QED
    BY <1>1, <2>1
<1>2. ASSUME a = b PROVE d = e
  <2>1. d.tag = e.tag /\ \A i \in Index : d.tail[i] = e.tail[i]
    BY <1>2 DEF Represents
  <2>2. d \in [tag : Nat, tail : [Index -> Nat]] /\ e \in [tag : Nat, tail : [Index -> Nat]]
    BY DEF Represents, Stored
  <2>3. d.tail = [i \in Index |-> d.tail[i]] /\ e.tail = [i \in Index |-> e.tail[i]]
    BY <2>2
  <2>4. d.tail = e.tail
    BY <2>1, <2>3
  <2>5. QED
    BY <2>1, <2>2, <2>4
<1>3. QED
  BY <1>1, <1>2

(* is_same decides whether two slots hold the same. *)
LEMMA SameIs ==
  ASSUME NEW d, NEW v, Fits(d, v), NEW e, NEW w, Fits(e, w)
  PROVE  IsSame(d, e) <=> v = w
<1>1. v = [tree |-> v.tree, bytes |-> v.bytes] /\ w = [tree |-> w.tree, bytes |-> w.bytes]
  BY DEF Fits
<1>2. ASSUME NEW c, NEW z, Fits(c, z), z.tree # 0
      PROVE  c = MakeTree(z.tree) /\ z.bytes = <<>> /\ c.tag = 1 /\ c.tail[MaxInline] = z.tree
  <2>1. c = MakeTree(z.tree) /\ z.bytes = <<>>
    BY <1>2 DEF Fits
  <2>2. MaxInline \in Index
    BY Sizes
  <2>3. QED
    BY <2>1, <2>2 DEF MakeTree
<1>3. ASSUME NEW c, NEW z, Fits(c, z), z.tree = 0
      PROVE  Represents(c, z.bytes) /\ c.tag # 1
  <2>1. Represents(c, z.bytes)
    BY <1>3 DEF Fits
  <2>2. c.tag = 2 * Len(z.bytes) /\ Len(z.bytes) \in Nat
    BY <2>1, BytesAreNumbers DEF Represents
  <2>3. QED
    BY <2>1, <2>2
<1>4. CASE v.tree # 0 /\ w.tree # 0
  <2>1. d = e => v.tree = w.tree
    BY <1>2, <1>4
  <2>2. v.tree = w.tree => d = e
    BY <1>2, <1>4
  <2>3. v.bytes = w.bytes
    BY <1>2, <1>4
  <2>4. QED
    BY <1>1, <2>1, <2>2, <2>3 DEF IsSame
<1>5. CASE v.tree = 0 /\ w.tree = 0
  <2>1. Represents(d, v.bytes) /\ Represents(e, w.bytes)
    BY <1>3, <1>5
  <2>2. d = e <=> v.bytes = w.bytes
    BY <2>1, SameBytes
  <2>3. QED
    BY <1>1, <1>5, <2>2 DEF IsSame
<1>6. CASE v.tree # 0 /\ w.tree = 0
  <2>1. d.tag = 1 /\ e.tag # 1
    BY <1>2, <1>3, <1>6
  <2>2. QED
    BY <1>6, <2>1 DEF IsSame
<1>7. CASE v.tree = 0 /\ w.tree # 0
  <2>1. d.tag # 1 /\ e.tag = 1
    BY <1>2, <1>3, <1>7
  <2>2. QED
    BY <1>7, <2>1 DEF IsSame
<1>8. QED
  BY <1>4, <1>5, <1>6, <1>7

(***************************************************************************)
(* In every state the raw words decide: is_same is equality of contents,   *)
(* and compare is the lexicographic order, for every word size up to the   *)
(* code's and whatever bytes and pointers the slots went through.          *)
(***************************************************************************)
THEOREM RawWordsDecide == InlineSpec => []WordsDecide
<1>1. InlineInv => WordsDecide
  <2> SUFFICES ASSUME InlineInv, NEW x \in Slots, NEW y \in Slots
               PROVE  /\ IsSame(slots[x], slots[y]) <=> val[x] = val[y]
                      /\ ~IsTree(slots[x]) /\ ~IsTree(slots[y]) =>
                            Compare(slots[x], slots[y]) = Lexicographic(val[x].bytes, val[y].bytes)
    BY DEF WordsDecide
  <2>1. Fits(slots[x], val[x]) /\ Fits(slots[y], val[y])
    BY DEF InlineInv
  <2>2. IsSame(slots[x], slots[y]) <=> val[x] = val[y]
    BY <2>1, SameIs
  <2>3. ASSUME ~IsTree(slots[x]), ~IsTree(slots[y])
        PROVE  Compare(slots[x], slots[y]) = Lexicographic(val[x].bytes, val[y].bytes)
    <3>1. Represents(slots[x], val[x].bytes) /\ Represents(slots[y], val[y].bytes)
      BY <2>1, <2>3, FitsInline
    <3>2. QED
      BY <3>1, CompareIs
  <2>4. QED
    BY <2>2, <2>3
<1>2. QED
  BY <1>1, InlineInvariance, PTL
=============================================================================
