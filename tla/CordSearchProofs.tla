-------------------------- MODULE CordSearchProofs --------------------------
(***************************************************************************)
(* Searching, comparing and hashing give the answers of flat byte strings, *)
(* for operands of any bytes and any length, cut anywhere.                 *)
(***************************************************************************)
EXTENDS CordSearch, InlineDataProofs

(* What a search needs to know of its operands. *)
Operands ==
    /\ IsOperand(lhs) /\ IsOperand(rhs) /\ lhs.rep # "slice"
    /\ call \in {"find", "compare", "equals", "starts_with", "ends_with", "hash"}

(* The first k bytes of rhs are at p of lhs. *)
Matches(p, k) == \A i \in 1..k : lhs.bytes[p + i] = rhs.bytes[i]

(***************************************************************************)
(* What is known in each stage of a call when the cursor is at p: bytes    *)
(* that were compared are the same, and no match begins at an offset that  *)
(* was passed over.                                                        *)
(***************************************************************************)
InPrefix(p) ==
    /\ call \in {"compare", "equals", "starts_with", "find"}
    /\ p <= Size(rhs) /\ Matches(0, p)
    /\ call \in {"equals", "find"} => Size(lhs) = Size(rhs)
    /\ call = "find" => Size(rhs) > 0
    /\ call = "starts_with" => Size(rhs) <= Size(lhs)

Scanning(p) ==
    /\ call = "find"
    /\ 0 < Size(rhs) /\ Size(rhs) < Size(lhs)
    /\ \A k \in 0..(p - 1) : ~Occurs(k)

AtFirst(p) == p + FirstChunk <= Size(lhs) /\ Matches(p, FirstChunk)

(* The whole blocks before p *)
Written(p) == [i \in 1..(p \div Block) |-> Piece(lhs, (i - 1) * Block, i * Block)]

Hashing(p) == call = "hash" /\ p < Size(lhs) /\ answer = Result(Written(p))

SearchInv ==
    /\ Operands
    /\ pos \in Nat /\ pos <= Size(lhs)
    /\ stage = "start" => pos = 0
    /\ stage = "prefix" => InPrefix(pos)
    /\ stage \in {"scan", "verify"} => Scanning(pos)
    /\ stage = "verify" => AtFirst(pos)
    /\ stage = "hash" => Hashing(pos)
    /\ SearchAnswers

-----------------------------------------------------------------------------
(* Least returns the least number of a set. *)
LEMMA LeastOf ==
  ASSUME NEW S \in SUBSET Nat, S # {}
  PROVE  Least(S) \in S /\ Least(S) \in Nat /\ \A m \in S : Least(S) <= m
<1>1. \E n \in S : \A m \in S : n <= m
  BY NatLeast
<1> DEFINE c == CHOOSE n \in S : \A m \in S : n <= m
<1>2. c \in S /\ \A m \in S : c <= m
  BY <1>1
<1> HIDE DEF c
<1>3. Least(S) = c
  BY DEF Least, c
<1>4. QED
  BY <1>2, <1>3

(* The lesser of two numbers, and of three. *)
LEMMA LeastOfTwo ==
  ASSUME NEW a \in Nat, NEW b \in Nat
  PROVE  Least({a, b}) = IF a <= b THEN a ELSE b
<1>1. Least({a, b}) \in {a, b} /\ \A m \in {a, b} : Least({a, b}) <= m
  BY LeastOf
<1>2. QED
  BY <1>1

LEMMA LeastOfThree ==
  ASSUME NEW a \in Nat, NEW b \in Nat, NEW c \in Nat
  PROVE  Least({a, b, c}) \in {a, b, c} /\ Least({a, b, c}) \in Nat
         /\ Least({a, b, c}) <= a /\ Least({a, b, c}) <= b /\ Least({a, b, c}) <= c
BY LeastOf

(* An operand is a string of bytes. *)
LEMMA OperandBytes ==
  ASSUME NEW c, IsOperand(c)
  PROVE  c.bytes \in Seq(Byte) /\ Size(c) \in Nat /\ Size(c) = Len(c.bytes) /\ c.bytes \in Seq(Nat)
<1>1. c.bytes \in Seq(Byte)
  BY DEF IsOperand
<1>2. QED
  BY <1>1, BytesAreNumbers DEF Size

(* The end of a chunk is behind the byte that it holds. *)
LEMMA ChunkEndIs ==
  ASSUME NEW c, IsOperand(c), NEW p \in Nat, p <= Size(c)
  PROVE  /\ ChunkEnd(c, p) \in Nat
         /\ ChunkEnd(c, p) <= Size(c)
         /\ p < Size(c) => p < ChunkEnd(c, p)
         /\ p = Size(c) => ChunkEnd(c, p) = Size(c)
<1> DEFINE S == {q \in c.cuts : q > p} \cup {Size(c)}
<1>1. Size(c) \in Nat /\ c.cuts \subseteq 1..(Size(c) - 1)
  BY OperandBytes DEF IsOperand
<1>2. ASSUME NEW q \in S PROVE q \in Nat /\ q <= Size(c) /\ (q > p \/ q = Size(c))
  <2>1. CASE q = Size(c)
    BY <1>1, <2>1
  <2>2. CASE q # Size(c)
    <3>1. q \in c.cuts /\ q > p
      BY <2>2
    <3>2. q \in 1..(Size(c) - 1)
      BY <1>1, <3>1
    <3>3. QED
      BY <1>1, <3>1, <3>2
  <2>3. QED
    BY <2>1, <2>2
<1>3. S \in SUBSET Nat /\ S # {}
  BY <1>2
<1>4. ChunkEnd(c, p) = Least(S)
  BY DEF ChunkEnd
<1> HIDE DEF S
<1>5. Least(S) \in S
  BY <1>3, LeastOf
<1>6. ASSUME p = Size(c) PROVE Least(S) = Size(c)
  BY <1>1, <1>2, <1>5, <1>6
<1>7. QED
  BY <1>1, <1>2, <1>4, <1>5, <1>6

(* The string s is n bytes of c, from its offset `from' on. *)
IsPiece(s, c, from, n) ==
    /\ s \in Seq(Byte)
    /\ Len(s) = n
    /\ \A i \in 1..n : s[i] = c.bytes[from + i]

(* A piece is the bytes between two offsets. *)
LEMMA PieceIs ==
  ASSUME NEW c, IsOperand(c), NEW from \in Nat, NEW n \in Nat, NEW to, to = from + n, to <= Size(c)
  PROVE  IsPiece(Piece(c, from, to), c, from, n)
<1> DEFINE s == c.bytes
<1>1. s \in Seq(Byte) /\ to <= Len(s) /\ Len(s) \in Nat /\ to \in Nat
  BY OperandBytes
<1> HIDE DEF s
<1>2. SubSeq(s, from + 1, to) = [i \in 1..n |-> s[from + i]]
  <2>1. SubSeq(s, from + 1, to) = [i \in 1..(to - (from + 1) + 1) |-> s[i + (from + 1) - 1]]
    BY <1>1
  <2>2. to - (from + 1) + 1 = n
    BY <1>1
  <2>3. ASSUME NEW i \in 1..n PROVE i + (from + 1) - 1 = from + i
    OBVIOUS
  <2>4. QED
    BY <2>1, <2>2, <2>3
<1>3. ASSUME NEW i \in 1..n PROVE s[from + i] \in Byte
  <2>1. from + i \in 1..Len(s)
    BY <1>1
  <2>2. QED
    BY <1>1, <2>1
<1> DEFINE f == [i \in 1..n |-> s[from + i]]
<1>4. f \in Seq(Byte) /\ Len(f) = n /\ \A i \in 1..n : f[i] = s[from + i]
  BY <1>3
<1> HIDE DEF f
<1>5. Piece(c, from, to) = f
  BY <1>2 DEF Piece, s, f
<1>6. QED
  BY <1>4, <1>5 DEF IsPiece, s

(* Two pieces of the same length are equal if all their bytes are. *)
LEMMA PiecesEqual ==
  ASSUME NEW a, NEW b, NEW c, NEW d, NEW q, NEW j, NEW n, IsPiece(a, c, q, n), IsPiece(b, d, j, n)
  PROVE  a = b <=> \A i \in 1..n : c.bytes[q + i] = d.bytes[j + i]
<1>1. a = [i \in 1..n |-> a[i]] /\ b = [i \in 1..n |-> b[i]]
  BY BytesAreNumbers DEF IsPiece
<1>2. QED
  BY <1>1 DEF IsPiece

-----------------------------------------------------------------------------
(* Bytes j+1 .. to of rhs are behind the offset base of lhs. *)
RestAt(base, j, to) == \A i \in (j + 1)..to : lhs.bytes[base + i] = rhs.bytes[i]

(* How far the two chunks at byte j of rhs reach together. *)
Stride(p, from, to, j) ==
    LET q == p + j - from
    IN  Least({ChunkEnd(lhs, q) - q, ChunkEnd(rhs, j) - j, to - j})

(* A round of the loop compares the pieces that begin at byte j. *)
SamePieces(p, from, to, j) ==
    LET q == p + j - from
        n == Stride(p, from, to, j)
    IN  j < to /\ q # Size(lhs) /\ Piece(lhs, q, q + n) = Piece(rhs, j, j + n)

(* A round of the loop goes on and compares just the bytes up to the next. *)
LEMMA Round ==
  ASSUME Operands, NEW base \in Nat, NEW from \in Nat, NEW to \in Nat, NEW p, p = base + from,
         from <= to, to <= Size(rhs), base + to <= Size(lhs), NEW j \in from..to, j < to
  PROVE  /\ Stride(p, from, to, j) \in Nat
         /\ j + Stride(p, from, to, j) \in from..to
         /\ j < j + Stride(p, from, to, j)
         /\ SamePieces(p, from, to, j) <=> RestAt(base, j, j + Stride(p, from, to, j))
<1> DEFINE q == p + j - from
           cl == ChunkEnd(lhs, q)
           cr == ChunkEnd(rhs, j)
           n == Stride(p, from, to, j)
<1>0. Size(lhs) \in Nat /\ Size(rhs) \in Nat
  BY OperandBytes DEF Operands
<1>1. j \in Nat /\ q \in Nat /\ q = base + j /\ q < Size(lhs) /\ j < Size(rhs)
  BY <1>0
<1>2. n = Least({cl - q, cr - j, to - j})
  BY DEF Stride
<1> HIDE DEF n, q
<1>3. cl \in Nat /\ cl <= Size(lhs) /\ q < cl /\ cr \in Nat /\ cr <= Size(rhs) /\ j < cr
  BY <1>0, <1>1, ChunkEndIs DEF Operands
<1> HIDE DEF cl, cr
<1> DEFINE u == cl - q
           v == cr - j
           w == to - j
<1>4. u \in Nat /\ v \in Nat /\ w \in Nat /\ u > 0 /\ v > 0 /\ w > 0
  BY <1>1, <1>3
<1>5. n = Least({u, v, w})
  BY <1>2
<1> HIDE DEF u, v, w
<1>6. n \in {u, v, w} /\ n \in Nat /\ n <= u /\ n <= v /\ n <= w
  BY <1>4, <1>5, LeastOfThree
<1>7. n \in Nat /\ n > 0 /\ n <= to - j /\ q + n <= Size(lhs) /\ j + n <= Size(rhs)
  BY <1>0, <1>1, <1>3, <1>4, <1>6 DEF u, v, w
<1> DEFINE a == Piece(lhs, q, q + n)
           b == Piece(rhs, j, j + n)
<1>8. IsPiece(a, lhs, q, n) /\ IsPiece(b, rhs, j, n)
  BY <1>1, <1>7, PieceIs DEF Operands
<1> HIDE DEF a, b
<1>9. a = b <=> \A i \in 1..n : lhs.bytes[q + i] = rhs.bytes[j + i]
  BY <1>8, PiecesEqual
<1>10. (\A i \in 1..n : lhs.bytes[q + i] = rhs.bytes[j + i]) <=> RestAt(base, j, j + n)
  <2>1. ASSUME \A i \in 1..n : lhs.bytes[q + i] = rhs.bytes[j + i], NEW i \in (j + 1)..(j + n)
        PROVE  lhs.bytes[base + i] = rhs.bytes[i]
    <3>1. i - j \in 1..n /\ q + (i - j) = base + i /\ j + (i - j) = i
      BY <1>1, <1>7
    <3>2. lhs.bytes[q + (i - j)] = rhs.bytes[j + (i - j)]
      BY <2>1, <3>1
    <3>3. QED
      BY <3>1, <3>2
  <2>2. ASSUME RestAt(base, j, j + n), NEW i \in 1..n
        PROVE  lhs.bytes[q + i] = rhs.bytes[j + i]
    <3>1. j + i \in (j + 1)..(j + n) /\ base + (j + i) = q + i
      BY <1>1, <1>7
    <3>2. lhs.bytes[base + (j + i)] = rhs.bytes[j + i]
      BY <2>2, <3>1 DEF RestAt
    <3>3. QED
      BY <3>1, <3>2
  <2>3. QED
    BY <2>1, <2>2 DEF RestAt
<1>11. SamePieces(p, from, to, j) <=> a = b
  BY <1>1 DEF SamePieces, a, b, n, q
<1>12. j + n \in from..to /\ j < j + n
  BY <1>1, <1>7
<1>13. QED
  BY <1>7, <1>9, <1>10, <1>11, <1>12 DEF n

(***************************************************************************)
(* is_slice_at and is_subcord_at, which compare piece by piece, find out   *)
(* whether all the bytes are the same: the rest of the comparison is known *)
(* for every byte at which a piece may begin.                              *)
(***************************************************************************)
LEMMA SubcordIs ==
  ASSUME Operands, NEW base \in Nat, NEW from \in Nat, NEW to \in Nat, NEW p, p = base + from,
         from <= to, to <= Size(rhs), base + to <= Size(lhs)
  PROVE  IsSubcordAt(p, from, to) <=> RestAt(base, from, to)
<1> DEFINE S(j) == SamePieces(p, from, to, j)
           W(j) == j + Stride(p, from, to, j)
           q(j) == p + j - from
           n(j) == Least({ChunkEnd(lhs, q(j)) - q(j), ChunkEnd(rhs, j) - j, to - j})
           N(h, j) == \/ j = to
                      \/ /\ j < to /\ q(j) # Size(lhs)
                         /\ Piece(lhs, q(j), q(j) + n(j)) = Piece(rhs, j, j + n(j))
                         /\ h[j + n(j)]
           IsLoop(h) == h = [j \in from..to |-> N(h, j)]
           g == [j \in from..to |-> RestAt(base, j, to)]
           at == CHOOSE h : IsLoop(h)
<1>1. ASSUME NEW j \in from..to
      PROVE  /\ j # to => W(j) \in from..to /\ j < W(j)
             /\ j # to => (S(j) <=> RestAt(base, j, W(j)))
             /\ j \in Nat
  <2>1. j \in Nat /\ (j # to => j < to)
    OBVIOUS
  <2>2. QED
    BY <2>1, Round
<1>2. IsSubcordAt(p, from, to) = at[from]
  BY DEF IsSubcordAt
<1>N. ASSUME NEW h, NEW j PROVE N(h, j) = (j = to \/ (S(j) /\ h[W(j)]))
  BY DEF SamePieces, Stride
<1> HIDE DEF S, W, N
<1>3. ASSUME NEW j \in from..to
      PROVE  RestAt(base, j, to) <=> (j = to \/ (S(j) /\ RestAt(base, W(j), to)))
  <2>1. CASE j = to
    BY <1>1, <2>1 DEF RestAt
  <2>2. CASE j # to
    <3> DEFINE w == W(j)
    <3>1. w \in from..to /\ j < w /\ (S(j) <=> RestAt(base, j, w))
      BY <1>1, <2>2
    <3> HIDE DEF w
    <3>2. RestAt(base, j, to) <=> (RestAt(base, j, w) /\ RestAt(base, w, to))
      BY <1>1, <3>1 DEF RestAt
    <3>3. QED
      BY <2>2, <3>1, <3>2 DEF w
  <2>3. QED
    BY <2>1, <2>2
<1>4. ASSUME NEW j \in from..to PROVE RestAt(base, j, to) = N(g, j)
  <2>1. CASE j = to
    BY <1>3, <1>N, <2>1 DEF RestAt
  <2>2. CASE j # to
    <3>1. W(j) \in from..to
      BY <1>1, <2>2
    <3>2. g[W(j)] = RestAt(base, W(j), to)
      BY <3>1
    <3>3. QED
      BY <1>3, <1>N, <2>2, <3>2 DEF RestAt
  <2>3. QED
    BY <2>1, <2>2
<1>5. IsLoop(g)
  BY <1>4
<1>6. IsLoop(at)
  <2> HIDE DEF IsLoop, g
  <2>1. QED
    BY <1>5
<1> HIDE DEF at, g
<1>7. ASSUME NEW j \in from..to PROVE at[j] = (j = to \/ (S(j) /\ at[W(j)]))
  <2>1. at[j] = N(at, j)
    BY <1>6
  <2>2. QED
    BY <1>N, <2>1
<1>8. ASSUME NEW j \in from..to PROVE at[j] <=> RestAt(base, j, to)
  <2> DEFINE T == {m \in 0..(to - from) : ~(at[to - m] <=> RestAt(base, to - m, to))}
  <2>1. T = {}
    <3>1. SUFFICES ASSUME T # {} PROVE FALSE
      OBVIOUS
    <3>2. T \in SUBSET Nat
      OBVIOUS
    <3> HIDE DEF T
    <3>3. PICK m \in T : \A k \in T : m <= k
      BY <3>1, <3>2, NatLeast
    <3> DEFINE i == to - m
    <3>4. i \in from..to /\ ~(at[i] <=> RestAt(base, i, to)) /\ m \in Nat /\ m <= to - from
      BY <3>3 DEF T
    <3>5. i # to
      BY <1>3, <1>7, <3>4
    <3>6. W(i) \in from..to /\ i < W(i)
      BY <1>1, <3>4, <3>5
    <3>7. ~(at[W(i)] <=> RestAt(base, W(i), to))
      BY <1>3, <1>7, <3>4, <3>5
    <3> DEFINE k == to - W(i)
    <3>8. k \in 0..(to - from) /\ k < m /\ to - k = W(i) /\ k \in Nat
      BY <3>4, <3>6
    <3> HIDE DEF k, i
    <3>9. k \in T
      BY <3>7, <3>8 DEF T
    <3>10. QED
      BY <3>3, <3>4, <3>8, <3>9
  <2>2. to - j \in 0..(to - from) /\ to - (to - j) = j
    OBVIOUS
  <2>3. QED
    BY <2>1, <2>2
<1>9. from \in from..to
  OBVIOUS
<1>10. QED
  BY <1>2, <1>8, <1>9

-----------------------------------------------------------------------------
(* Two strings that are the same up to `from' are compared by the pieces   *)
(* that follow.                                                            *)
LEMMA PrefixDecides ==
  ASSUME Operands, NEW from \in Nat, NEW n \in Nat, NEW to, to = from + n,
         to <= Size(lhs), to <= Size(rhs), Matches(0, from),
         NEW order, order = Lexicographic(Piece(lhs, from, to), Piece(rhs, from, to))
  PROVE  /\ order = "equal" => Matches(0, to)
         /\ order # "equal" => /\ ~Matches(0, to)
                               /\ Lexicographic(lhs.bytes, rhs.bytes) = order
<1> DEFINE a == Piece(lhs, from, to)
           b == Piece(rhs, from, to)
           L == lhs.bytes
           R == rhs.bytes
           D == Differ(a, b)
<1>1. /\ L \in Seq(Nat) /\ R \in Seq(Nat) /\ Len(L) \in Nat /\ Len(R) \in Nat
      /\ Len(L) = Size(lhs) /\ Len(R) = Size(rhs)
  BY OperandBytes DEF Operands
<1>2. IsPiece(a, lhs, from, n) /\ IsPiece(b, rhs, from, n)
  BY PieceIs DEF Operands
<1> HIDE DEF a, b, L, R
<1>3. /\ a \in Seq(Nat) /\ b \in Seq(Nat) /\ Len(a) = n /\ Len(b) = n
      /\ \A i \in 1..n : a[i] = L[from + i] /\ b[i] = R[from + i]
  BY <1>2, BytesAreNumbers DEF IsPiece, L, R
<1>4. Common(a, b) = 1..n
  BY <1>3 DEF Common
<1>5. \A i \in 1..n : a[i] \in Nat /\ b[i] \in Nat
  BY <1>3
<1>6. ASSUME NEW i \in 1..from PROVE L[i] = R[i]
  <2>1. 0 + i = i
    OBVIOUS
  <2>2. QED
    BY <2>1 DEF Matches, L, R
<1>7. CASE D = {}
  <2>1. ASSUME NEW i \in 1..to PROVE L[i] = R[i]
    <3>1. CASE i <= from
      BY <1>6, <3>1
    <3>2. CASE i > from
      <4>1. i - from \in 1..n /\ from + (i - from) = i
        BY <3>2
      <4>2. a[i - from] = b[i - from]
        BY <1>4, <1>7, <4>1 DEF Differ
      <4>3. QED
        BY <1>3, <4>1, <4>2
    <3>3. QED
      BY <3>1, <3>2
  <2>2. Matches(0, to)
    <3>1. ASSUME NEW i \in 1..to PROVE 0 + i = i
      OBVIOUS
    <3>2. QED
      BY <2>1, <3>1 DEF Matches, L, R
  <2>3. order = Cmp(n, n)
    BY <1>3, <1>7, LexicographicIs DEF a, b
  <2>4. order = "equal"
    BY <2>3 DEF Cmp
  <2>5. QED
    BY <2>2, <2>4
<1>8. CASE D # {}
  <2>1. D \in SUBSET Nat
    BY <1>4 DEF Differ
  <2> HIDE DEF D
  <2>2. PICK k \in D : \A j \in D : k <= j
    BY <1>8, <2>1, NatLeast
  <2>3. k \in 1..n /\ a[k] # b[k] /\ k \in Nat
    BY <1>4, <2>1, <2>2 DEF D, Differ
  <2>4. order = Cmp(a[k], b[k])
    BY <1>3, <2>2, LexicographicIs DEF D, a, b
  <2> DEFINE m == from + k
  <2>5. m \in Nat /\ m \in 1..to /\ m <= Len(L) /\ m <= Len(R) /\ L[m] = a[k] /\ R[m] = b[k]
    <3>1. L[m] = a[k] /\ R[m] = b[k]
      BY <1>3, <2>3
    <3>2. m \in Nat /\ m >= 1 /\ m <= to /\ to \in Nat
      BY <2>3
    <3>3. m <= Len(L) /\ m <= Len(R)
      BY <1>1, <3>2
    <3>4. QED
      BY <3>1, <3>2, <3>3
  <2>6. order # "equal"
    BY <1>5, <2>3, <2>4 DEF Cmp
  <2> HIDE DEF m
  <2>7. ~Matches(0, to)
    <3>1. 0 + m = m
      BY <2>5
    <3>2. QED
      BY <2>3, <2>5, <3>1 DEF Matches, L, R
  <2>8. m \in Differ(L, R)
    BY <1>1, <2>3, <2>5 DEF Differ, Common
  <2>9. ASSUME NEW j \in Differ(L, R) PROVE m <= j
    <3>1. j \in Nat /\ j >= 1 /\ L[j] # R[j]
      BY <1>1 DEF Differ, Common
    <3>2. SUFFICES ASSUME j < m PROVE FALSE
      BY <2>5, <3>1
    <3>3. ~(j <= from)
      BY <1>6, <3>1
    <3>4. j - from \in 1..n /\ from + (j - from) = j /\ j - from < k
      BY <2>3, <3>1, <3>2, <3>3 DEF m
    <3>5. a[j - from] # b[j - from]
      BY <1>3, <3>1, <3>4
    <3>6. j - from \in D
      BY <1>4, <3>4, <3>5 DEF D, Differ
    <3>7. QED
      BY <2>2, <2>3, <3>1, <3>4, <3>6
  <2>10. Lexicographic(L, R) = Cmp(L[m], R[m])
    BY <1>1, <2>8, <2>9, LexicographicIs
  <2>11. QED
    BY <2>4, <2>5, <2>6, <2>7, <2>10 DEF L, R
<1>9. QED
  BY <1>7, <1>8

(* Strings one of which begins with the other are ordered by their lengths. *)
LEMMA LengthDecides ==
  ASSUME Operands, NEW to \in Nat, to = Size(lhs) \/ to = Size(rhs), to <= Size(lhs), to <= Size(rhs),
         Matches(0, to)
  PROVE  Lexicographic(lhs.bytes, rhs.bytes) = Cmp(Size(lhs), Size(rhs))
<1> DEFINE L == lhs.bytes
           R == rhs.bytes
<1>1. /\ L \in Seq(Nat) /\ R \in Seq(Nat) /\ Len(L) \in Nat /\ Len(R) \in Nat
      /\ Len(L) = Size(lhs) /\ Len(R) = Size(rhs)
  BY OperandBytes DEF Operands
<1>2. \A i \in 1..to : L[i] = R[i]
  BY DEF Matches
<1> HIDE DEF L, R
<1>3. Common(L, R) = 1..to
  BY <1>1 DEF Common
<1>4. Differ(L, R) = {}
  BY <1>2, <1>3 DEF Differ
<1>5. Lexicographic(L, R) = Cmp(Len(L), Len(R))
  BY <1>1, <1>4, LexicographicIs
<1>6. QED
  BY <1>1, <1>5 DEF L, R

(* Strings of the same length are equal if all their bytes are. *)
LEMMA SameStrings ==
  ASSUME Operands
  PROVE  lhs.bytes = rhs.bytes <=> Size(lhs) = Size(rhs) /\ Matches(0, Size(rhs))
<1> DEFINE L == lhs.bytes
           R == rhs.bytes
<1>1. L \in Seq(Byte) /\ R \in Seq(Byte) /\ Len(L) = Size(lhs) /\ Len(R) = Size(rhs)
      /\ Size(rhs) \in Nat
  BY OperandBytes DEF Operands
<1>2. L = [i \in 1..Len(L) |-> L[i]] /\ R = [i \in 1..Len(R) |-> R[i]]
  BY <1>1, BytesAreNumbers
<1>3. Matches(0, Size(rhs)) <=> \A i \in 1..Size(rhs) : L[i] = R[i]
  <2>1. \A i \in 1..Size(rhs) : 0 + i = i
    BY <1>1
  <2>2. QED
    BY <2>1 DEF Matches
<1> HIDE DEF L, R
<1>4. L = R <=> Size(lhs) = Size(rhs) /\ Matches(0, Size(rhs))
  BY <1>1, <1>2, <1>3
<1>5. QED
  BY <1>4 DEF L, R

-----------------------------------------------------------------------------
(* The flat answers as functions of the call, so that a step which keeps   *)
(* the operands keeps the answer.                                          *)
OccursIn(l, r, p) ==
    /\ p + Size(r) <= Size(l)
    /\ \A i \in 1..Size(r) : l.bytes[p + i] = r.bytes[i]

FindIn(l, r) ==
    IF \E p \in 0..Size(l) : OccursIn(l, r, p) THEN Least({p \in 0..Size(l) : OccursIn(l, r, p)})
                                               ELSE NotFound

BlocksOf(l) ==
    [i \in 1..((Size(l) + Block - 1) \div Block) |->
        Piece(l, (i - 1) * Block, Least({i * Block, Size(l)}))]

FlatOf(l, r, c) ==
    CASE c = "find" -> FindIn(l, r)
      [] c = "compare" -> Lexicographic(l.bytes, r.bytes)
      [] c = "equals" -> l.bytes = r.bytes
      [] c = "starts_with" -> OccursIn(l, r, 0)
      [] c = "hash" -> BlocksOf(l)
      [] c = "ends_with" -> Size(r) <= Size(l) /\ OccursIn(l, r, Size(l) - Size(r))

LEMMA FlatIs == FlatAnswer = FlatOf(lhs, rhs, call)
BY DEF FlatAnswer, FlatOf, Occurs, OccursIn, FindIn, Blocks, BlocksOf

(* The flat answer of each method. *)
LEMMA FlatFind == ASSUME call = "find" PROVE FlatAnswer = FindIn(lhs, rhs)
BY FlatIs DEF FlatOf

LEMMA FlatCompare == ASSUME call = "compare" PROVE FlatAnswer = Lexicographic(lhs.bytes, rhs.bytes)
BY FlatIs DEF FlatOf

LEMMA FlatEquals == ASSUME call = "equals" PROVE FlatAnswer = (lhs.bytes = rhs.bytes)
BY FlatIs DEF FlatOf

LEMMA FlatStartsWith == ASSUME call = "starts_with" PROVE FlatAnswer = Occurs(0)
BY FlatIs DEF FlatOf, OccursIn, Occurs

LEMMA FlatHash == ASSUME call = "hash" PROVE FlatAnswer = Blocks(lhs)
BY FlatIs DEF FlatOf, BlocksOf, Blocks

LEMMA FlatEndsWith == ASSUME call = "ends_with"
                      PROVE  FlatAnswer = (Size(rhs) <= Size(lhs) /\ Occurs(Size(lhs) - Size(rhs)))
BY FlatIs DEF FlatOf, OccursIn, Occurs

(* An occurrence matches all of rhs. *)
LEMMA OccursIs == ASSUME NEW p PROVE Occurs(p) = (p + Size(rhs) <= Size(lhs) /\ Matches(p, Size(rhs)))
BY DEF Occurs, Matches

(* find's answer is the first occurrence. *)
LEMMA FoundAt ==
  ASSUME Operands, call = "find", NEW k \in Nat, Occurs(k), \A p \in 0..(k - 1) : ~Occurs(p)
  PROVE  FlatAnswer = k
<1> DEFINE S == {p \in 0..Size(lhs) : OccursIn(lhs, rhs, p)}
<1>0. Size(lhs) \in Nat /\ Size(rhs) \in Nat
  BY OperandBytes DEF Operands
<1>1. ASSUME NEW p \in Nat PROVE Occurs(p) <=> p \in S
  <2>1. Occurs(p) => p \in 0..Size(lhs)
    BY <1>0 DEF Occurs
  <2>2. QED
    BY <2>1 DEF Occurs, OccursIn
<1>2. S \in SUBSET Nat /\ k \in S
  BY <1>0, <1>1
<1>3. FindIn(lhs, rhs) = Least(S)
  BY <1>2 DEF FindIn
<1> HIDE DEF S
<1>4. Least(S) \in S /\ Least(S) \in Nat /\ Least(S) <= k
  BY <1>2, LeastOf
<1>5. ~(Least(S) < k)
  <2>1. SUFFICES ASSUME Least(S) < k PROVE FALSE
    OBVIOUS
  <2>2. Least(S) \in 0..(k - 1)
    BY <1>4, <2>1
  <2>3. QED
    BY <1>1, <1>4, <2>2
<1>6. QED
  BY <1>3, <1>4, <1>5, FlatFind

LEMMA FoundNowhere ==
  ASSUME Operands, call = "find", \A p \in Nat : ~Occurs(p)
  PROVE  FlatAnswer = NotFound
<1>1. ASSUME NEW p \in 0..Size(lhs) PROVE ~OccursIn(lhs, rhs, p)
  <2>1. p \in Nat
    BY OperandBytes DEF Operands
  <2>2. QED
    BY <2>1 DEF Occurs, OccursIn
<1>2. QED
  BY <1>1, FlatFind DEF FindIn

-----------------------------------------------------------------------------
(* A call that gives the flat answer is done. *)
LEMMA AnswerKeeps ==
  ASSUME SearchInv, NEW a, Answer(a), a = FlatAnswer
  PROVE  SearchInv'
<1>1. /\ stage' = "done" /\ answer' = Result(a)
      /\ lhs' = lhs /\ rhs' = rhs /\ call' = call /\ pos' = pos
  BY DEF Answer
<1>2. FlatAnswer' = FlatAnswer
  <2>1. FlatAnswer' = FlatOf(lhs', rhs', call')
    BY DEF FlatAnswer, FlatOf, Occurs, OccursIn, FindIn, Blocks, BlocksOf
  <2>2. QED
    BY <1>1, <2>1, FlatIs
<1>3. SearchAnswers'
  BY <1>1, <1>2 DEF SearchAnswers, Result
<1>4. Operands'
  BY <1>1 DEF SearchInv, Operands, IsOperand
<1>5. pos' \in Nat /\ pos' <= Size(lhs)'
  BY <1>1 DEF SearchInv, Size
<1>6. QED
  BY <1>1, <1>3, <1>4, <1>5 DEF SearchInv

(* A call that goes on knows what its stage asks for. *)
LEMMA GotoKeeps ==
  ASSUME SearchInv, NEW s, NEW p \in Nat, p <= Size(lhs), Goto(s, p),
         \/ s = "prefix" /\ InPrefix(p)
         \/ s = "scan" /\ Scanning(p)
         \/ s = "verify" /\ Scanning(p) /\ AtFirst(p)
  PROVE  SearchInv'
<1>1. /\ stage' = s /\ pos' = p
      /\ lhs' = lhs /\ rhs' = rhs /\ call' = call /\ answer' = answer
  BY DEF Goto
<1>2. Operands'
  BY <1>1 DEF SearchInv, Operands, IsOperand
<1>3. pos' \in Nat /\ pos' <= Size(lhs)'
  BY <1>1 DEF Size
<1>4. InPrefix(p) => InPrefix(pos)'
  BY <1>1 DEF InPrefix, Matches, Size
<1>5. Scanning(p) => Scanning(pos)'
  BY <1>1 DEF Scanning, Occurs, Size
<1>6. AtFirst(p) => AtFirst(pos)'
  BY <1>1 DEF AtFirst, Matches, Size, FirstChunk, ChunkEnd
<1>7. s \in {"prefix", "scan", "verify"}
  OBVIOUS
<1>8. QED
  BY <1>1, <1>2, <1>3, <1>4, <1>5, <1>6, <1>7 DEF SearchInv, SearchAnswers

-----------------------------------------------------------------------------
(* Strings are equal to themselves. *)
LEMMA LexicographicSame ==
  ASSUME Operands, lhs.bytes = rhs.bytes
  PROVE  Lexicographic(lhs.bytes, rhs.bytes) = "equal"
<1>1. lhs.bytes \in Seq(Nat) /\ Len(lhs.bytes) \in Nat
  BY OperandBytes DEF Operands
<1>2. Differ(lhs.bytes, lhs.bytes) = {}
  BY DEF Differ
<1>3. Lexicographic(lhs.bytes, lhs.bytes) = Cmp(Len(lhs.bytes), Len(lhs.bytes))
  BY <1>1, <1>2, LexicographicIs
<1>4. QED
  BY <1>3 DEF Cmp

(* Values that are the same bits hold the same bytes, and the raw words of *)
(* inline values decide.                                                   *)
LEMMA SameBitsSameBytes ==
  ASSUME Operands
  PROVE  /\ MayBeSame => lhs.bytes = rhs.bytes
         /\ lhs.rep = "inline" /\ rhs.rep = "inline" =>
              Compare(InlineFrom(lhs.bytes), InlineFrom(rhs.bytes)) = Lexicographic(lhs.bytes, rhs.bytes)
<1>1. ASSUME lhs.rep = "inline", rhs.rep = "inline"
      PROVE  Represents(InlineFrom(lhs.bytes), lhs.bytes) /\ Represents(InlineFrom(rhs.bytes), rhs.bytes)
  <2>1. /\ lhs.bytes \in Seq(Byte) /\ Len(lhs.bytes) <= MaxInline
        /\ rhs.bytes \in Seq(Byte) /\ Len(rhs.bytes) <= MaxInline
    BY <1>1 DEF Operands, IsOperand
  <2>2. QED
    BY <2>1, InlineFromRepresents
<1>2. ASSUME MayBeSame PROVE lhs.bytes = rhs.bytes
  <2>1. CASE lhs.rep = "inline" /\ rhs.rep = "inline"
             /\ IsSame(InlineFrom(lhs.bytes), InlineFrom(rhs.bytes))
    BY <1>1, <2>1, SameBytes DEF IsSame
  <2>2. CASE rhs = lhs
    BY <2>2
  <2>3. QED
    BY <1>2, <2>1, <2>2 DEF MayBeSame
<1>3. QED
  BY <1>1, <1>2, CompareIs

(* What a method makes of the order of the prefixes. *)
LEMMA VerdictTruth == ASSUME NEW order, call \in {"equals", "starts_with"}
                      PROVE  Verdict(order) = (order = "equal")
BY DEF Verdict

LEMMA VerdictFind == ASSUME NEW order, call = "find"
                     PROVE  Verdict(order) = IF order = "equal" THEN 0 ELSE NotFound
BY DEF Verdict

LEMMA VerdictCompare == ASSUME NEW order, call = "compare"
                        PROVE  Verdict(order) = IF order = "equal" THEN Cmp(Size(lhs), Size(rhs)) ELSE order
<1>1. CASE order = "equal"
  BY <1>1 DEF Verdict
<1>2. CASE order # "equal"
  BY <1>2 DEF Verdict
<1>3. QED
  BY <1>1, <1>2

(* compare, equals and starts_with begin. *)
LEMMA StepStartCompare == ASSUME SearchInv, StartCompare PROVE SearchInv'
<1>0. Operands /\ pos = 0 /\ Size(lhs) \in Nat /\ Size(rhs) \in Nat
  BY OperandBytes DEF SearchInv, Operands, StartCompare
<1>1. CASE call = "equals" /\ Size(lhs) # Size(rhs) /\ Answer(FALSE)
  <2> DEFINE a == FALSE
  <2>1. lhs.bytes # rhs.bytes
    BY <1>0, <1>1, SameStrings
  <2>2. a = FlatAnswer /\ Answer(a)
    BY <1>1, <2>1, FlatEquals
  <2> HIDE DEF a
  <2>3. QED
    BY <2>2, AnswerKeeps
<1>2. CASE call = "equals" /\ MayBeSame /\ Answer(TRUE)
  <2> DEFINE a == TRUE
  <2>1. lhs.bytes = rhs.bytes
    BY <1>0, <1>2, SameBitsSameBytes
  <2>2. a = FlatAnswer /\ Answer(a)
    BY <1>2, <2>1, FlatEquals
  <2> HIDE DEF a
  <2>3. QED
    BY <2>2, AnswerKeeps
<1>3. CASE call = "compare" /\ MayBeSame /\ Answer("equal")
  <2>1. "equal" = FlatAnswer
    BY <1>0, <1>3, SameBitsSameBytes, LexicographicSame, FlatCompare
  <2>2. QED
    BY <1>3, <2>1, AnswerKeeps
<1>4. CASE /\ call = "compare" /\ lhs.rep = "inline" /\ rhs.rep = "inline"
           /\ Answer(Compare(InlineFrom(lhs.bytes), InlineFrom(rhs.bytes)))
  <2> DEFINE a == Compare(InlineFrom(lhs.bytes), InlineFrom(rhs.bytes))
  <2>1. a = FlatAnswer /\ Answer(a)
    BY <1>0, <1>4, SameBitsSameBytes, FlatCompare
  <2> HIDE DEF a
  <2>2. QED
    BY <2>1, AnswerKeeps
<1>5. CASE call = "starts_with" /\ Size(lhs) < Size(rhs) /\ Answer(FALSE)
  <2> DEFINE a == FALSE
  <2>1. ~Occurs(0)
    BY <1>0, <1>5 DEF Occurs
  <2>2. Occurs(0) = FALSE
    BY <2>1 DEF Occurs
  <2>3. a = FlatAnswer /\ Answer(a)
    BY <1>5, <2>2, FlatStartsWith
  <2> HIDE DEF a
  <2>4. QED
    BY <2>3, AnswerKeeps
<1>6. CASE /\ \/ call = "equals" /\ Size(lhs) = Size(rhs)
              \/ call = "compare"
              \/ call = "starts_with" /\ Size(lhs) >= Size(rhs)
           /\ Goto("prefix", 0)
  <2>1. Matches(0, 0)
    BY DEF Matches
  <2>2. 0 <= Size(rhs) /\ 0 <= Size(lhs) /\ 0 \in Nat
    BY <1>0
  <2>3. call \in {"equals", "find"} => Size(lhs) = Size(rhs)
    BY <1>6
  <2>4. call = "starts_with" => Size(rhs) <= Size(lhs)
    BY <1>0, <1>6
  <2>5. InPrefix(0)
    BY <1>6, <2>1, <2>2, <2>3, <2>4 DEF InPrefix
  <2>6. QED
    BY <1>6, <2>2, <2>5, GotoKeeps
<1>7. QED
  BY <1>1, <1>2, <1>3, <1>4, <1>5, <1>6 DEF StartCompare

(* A round of compare_slow_path. *)
LEMMA StepComparePrefix == ASSUME SearchInv, ComparePrefix PROVE SearchInv'
<1> DEFINE cl == ChunkEnd(lhs, pos)
           cr == ChunkEnd(rhs, pos)
           to == Least({cl, cr})
           order == Lexicographic(Piece(lhs, pos, to), Piece(rhs, pos, to))
           n == to - pos
<1>1. /\ Operands /\ InPrefix(pos) /\ pos \in Nat /\ pos <= Size(lhs) /\ pos <= Size(rhs)
      /\ Size(lhs) \in Nat /\ Size(rhs) \in Nat /\ Matches(0, pos)
  BY OperandBytes DEF SearchInv, Operands, ComparePrefix, InPrefix
<1>2. cl \in Nat /\ pos <= cl /\ cl <= Size(lhs) /\ cr \in Nat /\ pos <= cr /\ cr <= Size(rhs)
  BY <1>1, ChunkEndIs DEF Operands
<1>3. IF to = Least({Size(lhs), Size(rhs)}) \/ order # "equal"
      THEN Answer(Verdict(order)) ELSE Goto("prefix", to)
  BY DEF ComparePrefix
<1> HIDE DEF cl, cr
<1>4. to = IF cl <= cr THEN cl ELSE cr
  BY <1>2, LeastOfTwo
<1>5. Least({Size(lhs), Size(rhs)}) = IF Size(lhs) <= Size(rhs) THEN Size(lhs) ELSE Size(rhs)
  BY <1>1, LeastOfTwo
<1> HIDE DEF to
<1>6. to \in Nat /\ n \in Nat /\ to = pos + n /\ to <= Size(lhs) /\ to <= Size(rhs)
  BY <1>1, <1>2, <1>4
<1> HIDE DEF n
<1>7. /\ order = "equal" => Matches(0, to)
      /\ order # "equal" => ~Matches(0, to) /\ Lexicographic(lhs.bytes, rhs.bytes) = order
  BY <1>1, <1>6, PrefixDecides
<1> HIDE DEF order
<1>8. ASSUME ~Matches(0, to) PROVE ~Matches(0, Size(rhs))
  BY <1>1, <1>6, <1>8 DEF Matches
<1>9. Occurs(0) = (Size(rhs) <= Size(lhs) /\ Matches(0, Size(rhs)))
  <2>1. 0 + Size(rhs) = Size(rhs)
    BY <1>1
  <2>2. QED
    BY <2>1, OccursIs
<1>10. CASE to # Least({Size(lhs), Size(rhs)}) /\ order = "equal"
  <2>1. Goto("prefix", to) /\ Matches(0, to)
    BY <1>3, <1>7, <1>10
  <2>2. InPrefix(to)
    BY <1>1, <1>6, <2>1 DEF InPrefix
  <2>3. QED
    BY <1>6, <2>1, <2>2, GotoKeeps
<1>11. CASE to = Least({Size(lhs), Size(rhs)}) \/ order # "equal"
  <2>1. order = "equal" => (to = Size(lhs) \/ to = Size(rhs))
                           /\ (Size(rhs) <= Size(lhs) => to = Size(rhs))
    BY <1>1, <1>5, <1>11
  <2>2. Size(rhs) <= Size(lhs) => (order = "equal" <=> Matches(0, Size(rhs)))
    BY <1>7, <1>8, <2>1
  <2> DEFINE a == Verdict(order)
  <2>3. Answer(a)
    BY <1>3, <1>11
  <2>4. CASE call = "equals"
    <3>1. Size(lhs) = Size(rhs)
      BY <1>1, <2>4 DEF InPrefix
    <3>2. order = "equal" <=> lhs.bytes = rhs.bytes
      BY <1>1, <2>2, <3>1, SameStrings
    <3>3. (order = "equal") = (lhs.bytes = rhs.bytes)
      BY <3>2
    <3>4. a = FlatAnswer
      BY <2>4, <3>3, VerdictTruth, FlatEquals
    <3> HIDE DEF a
    <3>5. QED
      BY <2>3, <3>4, AnswerKeeps
  <2>5. CASE call = "starts_with"
    <3>1. Size(rhs) <= Size(lhs)
      BY <1>1, <2>5 DEF InPrefix
    <3>2. (order = "equal") = Occurs(0)
      BY <1>9, <2>2, <3>1
    <3>3. a = FlatAnswer
      BY <2>5, <3>2, VerdictTruth, FlatStartsWith
    <3> HIDE DEF a
    <3>4. QED
      BY <2>3, <3>3, AnswerKeeps
  <2>6. CASE call = "compare"
    <3>1. a = IF order = "equal" THEN Cmp(Size(lhs), Size(rhs)) ELSE order
      BY <2>6, VerdictCompare
    <3>2. order = "equal" => Lexicographic(lhs.bytes, rhs.bytes) = Cmp(Size(lhs), Size(rhs))
      BY <1>1, <1>6, <1>7, <2>1, LengthDecides
    <3>3. a = FlatAnswer
      BY <1>7, <2>6, <3>1, <3>2, FlatCompare
    <3> HIDE DEF a
    <3>4. QED
      BY <2>3, <3>3, AnswerKeeps
  <2>7. CASE call = "find"
    <3>1. Size(lhs) = Size(rhs) /\ Size(rhs) > 0
      BY <1>1, <2>7 DEF InPrefix
    <3>2. a = IF order = "equal" THEN 0 ELSE NotFound
      BY <2>7, VerdictFind
    <3>3. order = "equal" <=> Occurs(0)
      <4>1. Size(rhs) <= Size(lhs)
        BY <1>1, <3>1
      <4>2. QED
        BY <1>9, <2>2, <4>1
    <3>4. ASSUME NEW p \in Nat, Occurs(p) PROVE p = 0
      BY <1>1, <3>1, <3>4 DEF Occurs
    <3>5. CASE order = "equal"
      <4>1. Occurs(0) /\ 0 \in Nat /\ \A p \in 0..(0 - 1) : ~Occurs(p)
        BY <3>3, <3>5
      <4>2. FlatAnswer = 0
        BY <1>1, <2>7, <4>1, FoundAt
      <4> HIDE DEF a
      <4>3. QED
        BY <2>3, <3>2, <3>5, <4>2, AnswerKeeps
    <3>6. CASE order # "equal"
      <4>1. \A p \in Nat : ~Occurs(p)
        BY <3>3, <3>4, <3>6
      <4>2. FlatAnswer = NotFound
        BY <1>1, <2>7, <4>1, FoundNowhere
      <4> HIDE DEF a
      <4>3. QED
        BY <2>3, <3>2, <3>6, <4>2, AnswerKeeps
    <3>7. QED
      BY <3>5, <3>6
  <2>8. QED
    BY <1>1, <2>4, <2>5, <2>6, <2>7 DEF InPrefix
<1>12. QED
  BY <1>10, <1>11

(* ends_with *)
LEMMA StepEndsWith == ASSUME SearchInv, EndsWith PROVE SearchInv'
<1> DEFINE base == Size(lhs) - Size(rhs)
           sub == IsSubcordAt(base, 0, Size(rhs))
           a == Size(lhs) >= Size(rhs) /\ sub
<1>1. Operands /\ Size(lhs) \in Nat /\ Size(rhs) \in Nat /\ call = "ends_with" /\ Answer(a)
  BY OperandBytes DEF SearchInv, Operands, EndsWith
<1>2. ASSUME Size(lhs) >= Size(rhs) PROVE sub <=> Occurs(base)
  <2>1. base \in Nat /\ base = base + 0 /\ base + Size(rhs) <= Size(lhs) /\ 0 <= Size(rhs) /\ 0 \in Nat
        /\ Size(rhs) <= Size(rhs)
    BY <1>1, <1>2
  <2> HIDE DEF base
  <2>2. sub <=> RestAt(base, 0, Size(rhs))
    BY <1>1, <2>1, SubcordIs
  <2>3. RestAt(base, 0, Size(rhs)) <=> Matches(base, Size(rhs))
    BY DEF RestAt, Matches
  <2>4. QED
    BY <2>1, <2>2, <2>3, OccursIs
<1>3. Size(lhs) >= Size(rhs) <=> Size(rhs) <= Size(lhs)
  BY <1>1
<1> HIDE DEF sub, base
<1>4. a = (Size(rhs) <= Size(lhs) /\ Occurs(base))
  BY <1>2, <1>3
<1>5. a = FlatAnswer
  BY <1>1, <1>4, FlatEndsWith DEF base
<1> HIDE DEF a
<1>6. QED
  BY <1>1, <1>5, AnswerKeeps

(* find begins. *)
LEMMA StepStartFind == ASSUME SearchInv, StartFind PROVE SearchInv'
<1>1. Operands /\ Size(lhs) \in Nat /\ Size(rhs) \in Nat /\ call = "find"
      /\ Size(rhs) <= Size(rhs) /\ 0 + Size(rhs) = Size(rhs) /\ 0 \in Nat /\ 0 <= Size(lhs)
  BY OperandBytes DEF SearchInv, Operands, StartFind
<1>2. \A p \in 0..(0 - 1) : ~Occurs(p)
  OBVIOUS
<1>3. CASE Size(rhs) = 0 /\ Answer(0)
  <2>1. Matches(0, Size(rhs)) /\ Size(rhs) <= Size(lhs)
    BY <1>1, <1>3 DEF Matches
  <2>2. Occurs(0)
    BY <1>1, <2>1, OccursIs
  <2>3. QED
    BY <1>1, <1>2, <1>3, <2>2, FoundAt, AnswerKeeps
<1>4. CASE Size(rhs) > Size(lhs) /\ Answer(NotFound)
  <2>1. \A p \in Nat : ~Occurs(p)
    BY <1>1, <1>4 DEF Occurs
  <2>2. QED
    BY <1>1, <1>4, <2>1, FoundNowhere, AnswerKeeps
<1>5. CASE Size(rhs) = Size(lhs) /\ MayBeSame /\ Answer(0)
  <2>1. Matches(0, Size(rhs)) /\ Size(rhs) <= Size(lhs)
    BY <1>1, <1>5, SameBitsSameBytes, SameStrings
  <2>2. Occurs(0)
    BY <1>1, <2>1, OccursIs
  <2>3. QED
    BY <1>1, <1>2, <1>5, <2>2, FoundAt, AnswerKeeps
<1>6. CASE Size(rhs) > 0 /\ Size(rhs) = Size(lhs) /\ Goto("prefix", 0)
  <2>1. Matches(0, 0) /\ 0 <= Size(rhs)
    BY <1>1 DEF Matches
  <2>2. InPrefix(0)
    BY <1>1, <1>6, <2>1 DEF InPrefix
  <2>3. QED
    BY <1>1, <1>6, <2>2, GotoKeeps
<1>7. CASE Size(rhs) > 0 /\ Size(rhs) < Size(lhs) /\ Goto("scan", 0)
  <2>1. Scanning(0)
    BY <1>1, <1>2, <1>7 DEF Scanning
  <2>2. QED
    BY <1>1, <1>7, <2>1, GotoKeeps
<1>8. QED
  BY <1>3, <1>4, <1>5, <1>6, <1>7 DEF StartFind

-----------------------------------------------------------------------------
(* What a round of find_impl sees: the chunk at the cursor and the first   *)
(* chunk of the needle.                                                    *)
LEMMA AtCursor ==
  ASSUME SearchInv, stage \in {"scan", "verify"}
  PROVE  /\ Operands /\ Scanning(pos) /\ call = "find"
         /\ pos \in Nat /\ Size(lhs) \in Nat /\ Size(rhs) \in Nat /\ pos <= Size(lhs) /\ 0 < Size(rhs)
         /\ FirstChunk \in Nat /\ 0 < FirstChunk /\ FirstChunk <= Size(rhs)
         /\ ChunkEnd(lhs, pos) \in Nat /\ ChunkEnd(lhs, pos) <= Size(lhs)
         /\ pos < Size(lhs) => pos < ChunkEnd(lhs, pos)
         /\ Remaining = Size(lhs) - pos
<1>1. /\ Operands /\ Scanning(pos) /\ pos \in Nat /\ pos <= Size(lhs)
      /\ Size(lhs) \in Nat /\ Size(rhs) \in Nat /\ 0 < Size(rhs) /\ call = "find"
  BY OperandBytes DEF SearchInv, Scanning, Operands
<1>2. FirstChunk \in Nat /\ 0 < FirstChunk /\ FirstChunk <= Size(rhs)
  BY <1>1, ChunkEndIs DEF FirstChunk, Operands
<1>3. QED
  BY <1>1, <1>2, ChunkEndIs DEF Operands, Remaining

(* Where the needle occurs, its first chunk does. *)
LEMMA OccursFirst ==
  ASSUME NEW p \in Nat, NEW k \in Nat, Size(rhs) \in Nat, k <= Size(rhs), Occurs(p)
  PROVE  Matches(p, k)
BY DEF Occurs, Matches

(* A match within the chunk is seen by memmem, and only matches are. *)
LEMMA InChunkIs ==
  ASSUME SearchInv, stage = "scan", NEW i \in Nat
  PROVE  i \in InChunk <=> pos + i + FirstChunk <= ChunkEnd(lhs, pos) /\ Matches(pos + i, FirstChunk)
<1> DEFINE f == FirstChunk
           e == ChunkEnd(lhs, pos)
           q == pos + i
           a == Piece(lhs, q, q + f)
           b == Piece(rhs, 0, f)
<1>1. /\ Operands /\ pos \in Nat /\ Size(lhs) \in Nat /\ Size(rhs) \in Nat
      /\ f \in Nat /\ f <= Size(rhs) /\ e \in Nat /\ e <= Size(lhs)
  BY AtCursor
<1>2. InChunk = {j \in 0..(e - pos - f) : Piece(lhs, pos + j, pos + j + f) = Piece(rhs, 0, f)}
  BY DEF InChunk
<1>3. i \in InChunk <=> i \in 0..(e - pos - f) /\ a = b
  BY <1>2
<1> HIDE DEF f, e, q
<1>4. q \in Nat /\ q = pos + i /\ (i \in 0..(e - pos - f) <=> q + f <= e)
  BY <1>1 DEF q
<1>5. ASSUME q + f <= e PROVE a = b <=> Matches(q, f)
  <2>1. q + f <= Size(lhs) /\ f = 0 + f /\ f <= Size(rhs) /\ 0 \in Nat
    BY <1>1, <1>4, <1>5
  <2>2. IsPiece(a, lhs, q, f) /\ IsPiece(b, rhs, 0, f)
    BY <1>1, <1>4, <2>1, PieceIs DEF Operands
  <2> HIDE DEF a, b
  <2>3. a = b <=> \A j \in 1..f : lhs.bytes[q + j] = rhs.bytes[0 + j]
    BY <2>2, PiecesEqual
  <2>4. \A j \in 1..f : 0 + j = j
    BY <1>1
  <2>5. QED
    BY <2>3, <2>4 DEF Matches
<1>6. i \in InChunk <=> q + f <= e /\ Matches(q, f)
  BY <1>3, <1>4, <1>5
<1>7. QED
  BY <1>6 DEF f, e, q

(* A match that begins in the chunk and ends behind it is seen by the loop *)
(* on the last bytes of the chunk, and only matches are.                   *)
LEMMA CrossingIs ==
  ASSUME SearchInv, stage = "scan", Remaining >= FirstChunk, pos < Size(lhs), NEW i \in Nat
  PROVE  i \in Crossing <=> /\ pos + i < ChunkEnd(lhs, pos)
                            /\ ChunkEnd(lhs, pos) < pos + i + FirstChunk
                            /\ pos + i + FirstChunk <= Size(lhs)
                            /\ Matches(pos + i, FirstChunk)
<1> DEFINE f == FirstChunk
           e == ChunkEnd(lhs, pos)
           size == e - pos
           from == IF size < f - 1 THEN 0 ELSE size - (f - 1)
           room == Remaining - f + 1
           end == Least({size, room})
           q == pos + i
           sub == IsSubcordAt(q, 0, f)
<1>1. /\ Operands /\ pos \in Nat /\ Size(lhs) \in Nat /\ Size(rhs) \in Nat
      /\ f \in Nat /\ 0 < f /\ f <= Size(rhs) /\ e \in Nat /\ e <= Size(lhs) /\ pos < e
      /\ Remaining = Size(lhs) - pos /\ Remaining >= f
  BY AtCursor
<1>2. Crossing = {j \in from..(end - 1) : IsSubcordAt(pos + j, 0, f)}
  BY DEF Crossing
<1>3. i \in Crossing <=> i \in from..(end - 1) /\ sub
  BY <1>2
<1> HIDE DEF f, e
<1>4. size \in Nat /\ room \in Nat
  BY <1>1
<1> HIDE DEF size, room
<1>5. end = IF size <= room THEN size ELSE room
  BY <1>4, LeastOfTwo
<1> HIDE DEF end
<1>6. from \in Nat /\ (i >= from <=> e < q + f) /\ q \in Nat
  BY <1>1, <1>4 DEF size
<1>7. i <= end - 1 <=> q < e /\ q + f <= Size(lhs)
  BY <1>1, <1>4, <1>5 DEF size, room
<1>8. i \in from..(end - 1) <=> i >= from /\ i <= end - 1
  BY <1>4, <1>5, <1>6
<1> HIDE DEF q, from
<1>9. ASSUME q + f <= Size(lhs) PROVE sub <=> Matches(q, f)
  <2>1. q = q + 0 /\ 0 \in Nat /\ 0 <= f
    BY <1>1, <1>6
  <2>2. sub <=> RestAt(q, 0, f)
    BY <1>1, <1>6, <1>9, <2>1, SubcordIs
  <2>3. QED
    BY <2>2 DEF RestAt, Matches
<1> HIDE DEF sub
<1>10. i \in Crossing <=> q < e /\ e < q + f /\ q + f <= Size(lhs) /\ Matches(q, f)
  BY <1>3, <1>6, <1>7, <1>8, <1>9
<1>11. QED
  BY <1>10 DEF f, e, q

(* Every occurrence that begins in the chunk is one or the other. *)
LEMMA NonePassedOver ==
  ASSUME SearchInv, stage = "scan", Remaining >= FirstChunk, NEW k \in Nat, pos <= k, Occurs(k),
         k < ChunkEnd(lhs, pos)
  PROVE  /\ k - pos \in Nat
         /\ k + FirstChunk <= ChunkEnd(lhs, pos) => k - pos \in InChunk
         /\ k - pos \in InChunk \/ k - pos \in Crossing
<1> DEFINE f == FirstChunk
           e == ChunkEnd(lhs, pos)
           i == k - pos
<1>1. /\ pos \in Nat /\ Size(lhs) \in Nat /\ Size(rhs) \in Nat
      /\ f \in Nat /\ 0 < f /\ f <= Size(rhs) /\ e \in Nat /\ e <= Size(lhs)
  BY AtCursor
<1>2. i \in Nat /\ pos + i = k /\ pos < Size(lhs)
  BY <1>1
<1>3. Matches(k, f) /\ k + f <= Size(lhs)
  <2>1. Matches(k, f)
    BY <1>1, OccursFirst
  <2>2. k + Size(rhs) <= Size(lhs)
    BY DEF Occurs
  <2>3. QED
    BY <1>1, <2>1, <2>2
<1> HIDE DEF f, i, e
<1>4. k + f <= e => i \in InChunk
  BY <1>2, <1>3, InChunkIs DEF f, e
<1>5. e < k + f => i \in Crossing
  BY <1>2, <1>3, CrossingIs DEF f, e
<1>6. k + f <= e \/ e < k + f
  BY <1>1
<1>7. QED
  BY <1>2, <1>4, <1>5, <1>6 DEF f, e, i

(* A round of find_impl *)
LEMMA StepScan == ASSUME SearchInv, Scan PROVE SearchInv'
<1> DEFINE f == FirstChunk
           e == ChunkEnd(lhs, pos)
<1>1. /\ Operands /\ Scanning(pos) /\ call = "find" /\ stage = "scan"
      /\ pos \in Nat /\ Size(lhs) \in Nat /\ Size(rhs) \in Nat /\ pos <= Size(lhs)
      /\ f \in Nat /\ 0 < f /\ f <= Size(rhs) /\ e \in Nat /\ e <= Size(lhs)
      /\ (pos < Size(lhs) => pos < e) /\ Remaining = Size(lhs) - pos
  BY AtCursor DEF Scan
<1>2. 0 < Size(rhs) /\ Size(rhs) < Size(lhs) /\ \A k \in 0..(pos - 1) : ~Occurs(k)
  BY <1>1 DEF Scanning
<1>3. ASSUME Remaining >= f PROVE pos < Size(lhs)
  BY <1>1, <1>3
<1>4. ASSUME NEW p \in Nat, \A k \in Nat : pos <= k /\ k < p => ~Occurs(k)
      PROVE  Scanning(p)
  <2>1. ASSUME NEW k \in 0..(p - 1) PROVE ~Occurs(k)
    <3>1. k \in Nat /\ k < p /\ (pos <= k \/ k \in 0..(pos - 1))
      BY <1>1
    <3>2. QED
      BY <1>2, <1>4, <3>1
  <2>2. QED
    BY <1>1, <1>2, <2>1 DEF Scanning
<1>5. CASE Remaining < f /\ Answer(NotFound)
  <2>1. ASSUME NEW p \in Nat PROVE ~Occurs(p)
    <3>1. CASE p < pos
      BY <1>1, <1>2, <3>1
    <3>2. CASE p >= pos
      <4>1. ~(p + Size(rhs) <= Size(lhs))
        BY <1>1, <1>5, <3>2
      <4>2. QED
        BY <4>1 DEF Occurs
    <3>3. QED
      BY <1>1, <3>1, <3>2
  <2>2. QED
    BY <1>1, <1>5, <2>1, FoundNowhere, AnswerKeeps
<1>6. CASE Remaining >= f /\ InChunk # {} /\ Goto("verify", pos + Least(InChunk))
  <2> DEFINE i == Least(InChunk)
             p == pos + i
  <2>1. InChunk \in SUBSET Nat
    BY <1>1 DEF InChunk
  <2>2. i \in InChunk /\ i \in Nat /\ \A j \in InChunk : i <= j
    BY <1>6, <2>1, LeastOf
  <2> HIDE DEF i
  <2>3. p + f <= e /\ Matches(p, f) /\ p \in Nat
    BY <1>1, <2>2, InChunkIs
  <2>4. ASSUME NEW k \in Nat, pos <= k, k < p PROVE ~Occurs(k)
    <3>1. SUFFICES ASSUME Occurs(k) PROVE FALSE
      OBVIOUS
    <3>2. k < e /\ k + f <= e
      BY <1>1, <2>3, <2>4
    <3>3. k - pos \in InChunk /\ k - pos \in Nat
      BY <1>1, <1>6, <2>4, <3>1, <3>2, NonePassedOver
    <3>4. k - pos < i
      BY <1>1, <2>2, <2>4
    <3>5. QED
      BY <2>2, <3>3, <3>4
  <2>5. p + f <= Size(lhs) /\ p <= Size(lhs)
    BY <1>1, <2>3
  <2>6. Goto("verify", p)
    BY <1>6 DEF i
  <2> HIDE DEF p
  <2>7. Scanning(p) /\ AtFirst(p)
    BY <1>4, <2>3, <2>4, <2>5 DEF AtFirst
  <2>8. QED
    BY <2>3, <2>5, <2>6, <2>7, GotoKeeps
<1>7. CASE Remaining >= f /\ InChunk = {} /\ Crossing # {} /\ Goto("verify", pos + Least(Crossing))
  <2> DEFINE i == Least(Crossing)
             p == pos + i
  <2>1. Crossing \in SUBSET Nat
    <3> DEFINE size == e - pos
               from == IF size < f - 1 THEN 0 ELSE size - (f - 1)
               end == Least({size, Remaining - f + 1})
    <3>1. Crossing \subseteq from..(end - 1)
      BY DEF Crossing
    <3>2. from \in Nat
      BY <1>1, <1>3, <1>7
    <3> HIDE DEF from, end
    <3>3. \A j \in from..(end - 1) : j \in Nat
      BY <3>2
    <3>4. QED
      BY <3>1, <3>3
  <2>2. i \in Crossing /\ i \in Nat /\ \A j \in Crossing : i <= j
    BY <1>7, <2>1, LeastOf
  <2> HIDE DEF i
  <2>3. p < e /\ p + f <= Size(lhs) /\ Matches(p, f) /\ p \in Nat
    BY <1>1, <1>3, <1>7, <2>2, CrossingIs
  <2>4. ASSUME NEW k \in Nat, pos <= k, k < p PROVE ~Occurs(k)
    <3>1. SUFFICES ASSUME Occurs(k) PROVE FALSE
      OBVIOUS
    <3>2. k < e
      BY <1>1, <2>3, <2>4
    <3>3. k - pos \in Crossing /\ k - pos \in Nat
      BY <1>1, <1>7, <2>4, <3>1, <3>2, NonePassedOver
    <3>4. k - pos < i
      BY <1>1, <2>2, <2>4
    <3>5. QED
      BY <2>2, <3>3, <3>4
  <2>5. p <= Size(lhs)
    BY <1>1, <2>3
  <2>6. Goto("verify", p)
    BY <1>7 DEF i
  <2> HIDE DEF p
  <2>7. Scanning(p) /\ AtFirst(p)
    BY <1>4, <2>3, <2>4 DEF AtFirst
  <2>8. QED
    BY <2>3, <2>5, <2>6, <2>7, GotoKeeps
<1>8. CASE Remaining >= f /\ InChunk = {} /\ Crossing = {} /\ Goto("scan", e)
  <2>1. ASSUME NEW k \in Nat, pos <= k, k < e PROVE ~Occurs(k)
    BY <1>1, <1>8, <2>1, NonePassedOver
  <2>2. Scanning(e)
    BY <1>1, <1>4, <2>1
  <2> HIDE DEF e
  <2>3. QED
    BY <1>1, <1>8, <2>2, GotoKeeps
<1>9. QED
  BY <1>5, <1>6, <1>7, <1>8 DEF Scan

(* The rest of find's loop *)
LEMMA StepVerify == ASSUME SearchInv, Verify PROVE SearchInv'
<1> DEFINE f == FirstChunk
           m == Size(rhs)
           l == Size(lhs)
           rest == IsSubcordAt(pos + f, f, m)
<1>1. /\ Operands /\ Scanning(pos) /\ call = "find" /\ stage = "verify"
      /\ pos \in Nat /\ l \in Nat /\ m \in Nat /\ pos <= l
      /\ f \in Nat /\ 0 < f /\ f <= m /\ Remaining = l - pos
  BY AtCursor DEF Verify
<1>2. /\ 0 < m /\ m < l /\ \A k \in 0..(pos - 1) : ~Occurs(k)
      /\ pos + f <= l /\ Matches(pos, f)
  BY <1>1 DEF Scanning, SearchInv, AtFirst
<1>3. ASSUME NEW p PROVE Occurs(p) <=> p + m <= l /\ Matches(p, m)
  BY OccursIs
<1>4. ASSUME Occurs(pos), Answer(pos) PROVE SearchInv'
  BY <1>1, <1>2, <1>4, FoundAt, AnswerKeeps
<1>5. ASSUME Answer(NotFound), \A k \in Nat : k >= pos => ~Occurs(k) PROVE SearchInv'
  <2>1. ASSUME NEW k \in Nat PROVE ~Occurs(k)
    <3>1. k >= pos \/ k \in 0..(pos - 1)
      BY <1>1
    <3>2. QED
      BY <1>2, <1>5, <3>1
  <2>2. QED
    BY <1>1, <1>5, <2>1, FoundNowhere, AnswerKeeps
<1> HIDE DEF f, m, l
<1>6. CASE f = m /\ Answer(pos)
  <2>1. Occurs(pos)
    BY <1>2, <1>3, <1>6
  <2>2. QED
    BY <1>4, <1>6, <2>1
<1>7. CASE Remaining < m /\ Answer(NotFound)
  <2>1. ASSUME NEW k \in Nat, k >= pos PROVE ~Occurs(k)
    <3>1. ~(k + m <= l)
      BY <1>1, <1>7, <2>1
    <3>2. QED
      BY <1>3, <3>1
  <2>2. QED
    BY <1>5, <1>7, <2>1
<1>8. ASSUME Remaining >= m PROVE rest <=> Occurs(pos)
  <2>1. pos + m <= l
    BY <1>1, <1>8
  <2>2. rest <=> RestAt(pos, f, m)
    <3>1. m <= m
      BY <1>1
    <3>2. QED
      BY <1>1, <2>1, <3>1, SubcordIs DEF m, l
  <2>3. RestAt(pos, f, m) <=> Matches(pos, m)
    <3>1. ASSUME RestAt(pos, f, m), NEW i \in 1..m PROVE lhs.bytes[pos + i] = rhs.bytes[i]
      <4>1. i \in 1..f \/ i \in (f + 1)..m
        BY <1>1
      <4>2. QED
        BY <1>2, <3>1, <4>1 DEF RestAt, Matches
    <3>2. ASSUME Matches(pos, m), NEW i \in (f + 1)..m PROVE lhs.bytes[pos + i] = rhs.bytes[i]
      <4>1. i \in 1..m
        BY <1>1
      <4>2. QED
        BY <3>2, <4>1 DEF Matches
    <3>3. QED
      BY <3>1, <3>2 DEF RestAt, Matches
  <2> HIDE DEF rest
  <2>4. QED
    BY <1>3, <2>1, <2>2, <2>3
<1> HIDE DEF rest
<1>9. CASE Remaining >= m /\ rest /\ Answer(pos)
  BY <1>4, <1>8, <1>9
<1>10. CASE Remaining >= m /\ ~rest /\ Remaining - 1 < m /\ Answer(NotFound)
  <2>1. ASSUME NEW k \in Nat, k >= pos PROVE ~Occurs(k)
    <3>1. k = pos \/ ~(k + m <= l)
      BY <1>1, <1>10, <2>1
    <3>2. QED
      BY <1>3, <1>8, <1>10, <3>1
  <2>2. QED
    BY <1>5, <1>10, <2>1
<1>11. CASE /\ Remaining >= m /\ ~rest /\ Remaining - 1 = m
            /\ Answer(IF IsSubcordAt(pos + 1, 0, m) THEN pos + 1 ELSE NotFound)
  <2> DEFINE p == pos + 1
             sub == IsSubcordAt(p, 0, m)
  <2>1. p \in Nat /\ p = p + 0 /\ 0 \in Nat /\ 0 <= m /\ m <= m /\ p + m <= l
    BY <1>1, <1>11
  <2>2. Answer(IF sub THEN p ELSE NotFound)
    BY <1>11
  <2> HIDE DEF p
  <2>3. sub <=> RestAt(p, 0, m)
    BY <1>1, <2>1, SubcordIs DEF m, l
  <2> HIDE DEF sub
  <2>4. RestAt(p, 0, m) <=> Matches(p, m)
    BY DEF RestAt, Matches
  <2>5. sub <=> Occurs(p)
    BY <1>3, <2>1, <2>3, <2>4
  <2>6. CASE sub
    <3>1. Answer(p) /\ Occurs(p)
      BY <2>2, <2>5, <2>6
    <3>2. ASSUME NEW k \in 0..(p - 1) PROVE ~Occurs(k)
      <4>1. k = pos \/ k \in 0..(pos - 1)
        BY <1>1 DEF p
      <4>2. QED
        BY <1>2, <1>8, <1>11, <4>1
    <3>3. FlatAnswer = p
      BY <1>1, <2>1, <3>1, <3>2, FoundAt
    <3>4. QED
      BY <3>1, <3>3, AnswerKeeps
  <2>7. CASE ~sub
    <3>1. Answer(NotFound) /\ ~Occurs(p)
      BY <2>2, <2>5, <2>7
    <3>2. ASSUME NEW k \in Nat, k >= pos PROVE ~Occurs(k)
      <4>1. k = pos \/ k = p \/ ~(k + m <= l)
        BY <1>1, <1>11, <3>2 DEF p
      <4>2. QED
        BY <1>3, <1>8, <1>11, <3>1, <4>1
    <3>3. QED
      BY <1>5, <3>1, <3>2
  <2>8. QED
    BY <2>6, <2>7
<1>12. CASE Remaining >= m /\ ~rest /\ Remaining - 1 > m /\ Goto("scan", pos + 1)
  <2> DEFINE p == pos + 1
  <2>1. p \in Nat /\ p <= Size(lhs) /\ Goto("scan", p)
    BY <1>1, <1>12 DEF l
  <2>2. ASSUME NEW k \in 0..(p - 1) PROVE ~Occurs(k)
    <3>1. k = pos \/ k \in 0..(pos - 1)
      BY <1>1
    <3>2. QED
      BY <1>2, <1>8, <1>12, <3>1
  <2> HIDE DEF p
  <2>3. Scanning(p)
    BY <1>1, <1>2, <2>2 DEF Scanning, m, l
  <2>4. QED
    BY <2>1, <2>3, GotoKeeps
<1>13. QED
  BY <1>6, <1>7, <1>9, <1>10, <1>11, <1>12 DEF Verify, f, m, rest

-----------------------------------------------------------------------------
(* Quotient and remainder. *)
LEMMA Division ==
  ASSUME NEW a \in Nat, NEW b \in Nat \ {0}
  PROVE  /\ a \div b \in Nat /\ a % b \in Nat /\ a % b < b
         /\ a = b * (a \div b) + (a % b)
OBVIOUS

LEMMA DivisionIs ==
  ASSUME NEW b \in Nat \ {0}, NEW q \in Nat, NEW r \in Nat, r < b, NEW a, a = b * q + r
  PROVE  a \div b = q /\ a % b = r
OBVIOUS

(* A block is complete: it is written behind the others. *)
LEMMA BlockWritten ==
  ASSUME NEW q \in Nat, NEW f, f = [i \in 1..q |-> Piece(lhs, (i - 1) * Block, i * Block)], NEW x
  PROVE  Append(f, x) = [i \in 1..(q + 1) |-> IF i = q + 1 THEN x
                                             ELSE Piece(lhs, (i - 1) * Block, i * Block)]
<1> DEFINE P(i) == Piece(lhs, (i - 1) * Block, i * Block)
           Z == {f[i] : i \in 1..q}
<1>1. (\A i \in 1..q : f[i] = P(i)) /\ f = [i \in 1..q |-> f[i]]
  OBVIOUS
<1> HIDE DEF P
<1>2. \A i \in 1..q : f[i] \in Z
  OBVIOUS
<1> HIDE DEF Z
<1>3. f \in Seq(Z) /\ Len(f) = q
  BY <1>1, <1>2
<1>4. Append(f, x) = [i \in 1..(q + 1) |-> IF i = q + 1 THEN x ELSE f[i]]
  BY <1>3
<1>5. ASSUME NEW i \in 1..(q + 1) PROVE (IF i = q + 1 THEN x ELSE f[i]) = (IF i = q + 1 THEN x ELSE P(i))
  <2>1. i # q + 1 => i \in 1..q
    OBVIOUS
  <2>2. QED
    BY <1>1, <2>1
<1>6. Append(f, x) = [i \in 1..(q + 1) |-> IF i = q + 1 THEN x ELSE P(i)]
  BY <1>4, <1>5
<1>7. QED
  BY <1>6 DEF P

(* hash begins. *)
LEMMA StepStartHash == ASSUME SearchInv, StartHash PROVE SearchInv'
<1>1. Operands /\ pos = 0 /\ Size(lhs) \in Nat /\ call = "hash"
  BY OperandBytes DEF SearchInv, Operands, StartHash
<1>2. CASE lhs.cuts = {} /\ Answer(Blocks(lhs))
  BY <1>1, <1>2, FlatHash, AnswerKeeps
<1>3. CASE /\ lhs.cuts # {}
           /\ stage' = "hash" /\ answer' = Result(<<>>) /\ UNCHANGED <<lhs, rhs, call, pos>>
  <2>1. 0 < Size(lhs)
    <3>1. PICK c : c \in lhs.cuts
      BY <1>3
    <3>2. c \in 1..(Size(lhs) - 1)
      BY <3>1, <1>1 DEF Operands, IsOperand, Size
    <3>3. QED
      BY <1>1, <3>2
  <2>2. lhs' = lhs /\ rhs' = rhs /\ call' = call /\ pos' = 0
    BY <1>1, <1>3
  <2>3. Written(0) = <<>>
    <3>1. 0 \div Block = 0
      BY SearchAssumption
    <3>2. QED
      BY <3>1 DEF Written
  <2>4. Written(pos)' = Written(0)
    BY <2>2 DEF Written
  <2>5. answer' = Result(<<>>)'
    BY <1>3, <2>2 DEF Result
  <2>6. Hashing(pos)'
    <3>1. Size(lhs)' = Size(lhs)
      BY <2>2 DEF Size
    <3>2. QED
      BY <1>1, <2>1, <2>2, <2>3, <2>4, <2>5, <3>1 DEF Hashing
  <2>7. Operands' /\ pos' \in Nat /\ pos' <= Size(lhs)'
    BY <1>1, <2>2 DEF Operands, IsOperand, Size
  <2>8. QED
    BY <1>3, <2>6, <2>7 DEF SearchInv, SearchAnswers
<1>4. QED
  BY <1>2, <1>3 DEF StartHash

(***************************************************************************)
(* The block that the cursor leaves: the bytes from its start up to `to'   *)
(* are all of it, or the end of the cord.                                  *)
(***************************************************************************)
LEMMA BlockEnds ==
  ASSUME NEW p \in Nat, NEW to \in Nat, p < to, to <= p + (Block - (p % Block))
  PROVE  LET q == p \div Block
             f == to % Block
         IN  /\ q \in Nat
             /\ f = 0 => to = Block * q + Block /\ to \div Block = q + 1
             /\ f # 0 => /\ f \in Nat /\ f < Block /\ to = Block * q + f /\ to \div Block = q
<1> DEFINE q == p \div Block
           r == p % Block
           b == Block
           g == to - b * q
<1>1. b \in Nat \ {0}
  BY SearchAssumption
<1>2. q \in Nat /\ r \in Nat /\ r < b /\ p = b * q + r
  BY <1>1, Division
<1> HIDE DEF q, r, b
<1> DEFINE x == b * q
<1>3. x \in Nat
  BY <1>1, <1>2
<1>4. b * (q + 1) = x + b
  BY <1>1, <1>2
<1>5. p = x + r /\ to <= p + (b - r) /\ g = to - x
  BY <1>2 DEF b, r
<1> HIDE DEF x, g
<1>6. g \in Nat /\ to = x + g /\ g > 0 /\ g <= b
  BY <1>1, <1>2, <1>3, <1>5
<1>7. CASE g = b
  <2>1. to = b * (q + 1) + 0 /\ q + 1 \in Nat /\ 0 \in Nat /\ 0 < b
    BY <1>1, <1>2, <1>3, <1>4, <1>6, <1>7
  <2>2. to \div b = q + 1 /\ to % b = 0
    BY <1>1, <2>1, DivisionIs
  <2>3. QED
    BY <1>2, <1>6, <1>7, <2>2 DEF q, b, x
<1>8. CASE g < b
  <2>1. to = b * q + g
    BY <1>6 DEF x
  <2>2. to \div b = q /\ to % b = g
    BY <1>1, <1>2, <1>6, <1>8, <2>1, DivisionIs
  <2>3. QED
    BY <1>2, <1>6, <1>8, <2>1, <2>2 DEF q, b
<1>9. QED
  BY <1>1, <1>6, <1>7, <1>8

(* Products of smaller numbers are smaller. *)
LEMMA Products == ASSUME NEW a \in Nat, NEW b \in Nat, NEW c \in Nat, a <= b
                  PROVE  a * c \in Nat /\ b * c \in Nat /\ a * c <= b * c
OBVIOUS

(* One more block *)
LEMMA NextBlock == ASSUME NEW b \in Nat, NEW q \in Nat
                   PROVE  /\ b * q \in Nat
                          /\ (q + 1) * b = b * q + b
                          /\ b * (q + 1) = b * q + b
                          /\ ((q + 1) - 1) * b = b * q
<1>1. (q + 1) - 1 = q
  OBVIOUS
<1>2. q * b = b * q /\ b * q \in Nat /\ (q + 1) * b = q * b + b /\ b * (q + 1) = b * q + b
  OBVIOUS
<1>3. QED
  BY <1>1, <1>2

(* A round of hash's inner loop *)
LEMMA StepHashRound == ASSUME SearchInv, HashRound PROVE SearchInv'
<1> DEFINE e == ChunkEnd(lhs, pos)
           room == pos + (Block - (pos % Block))
           to == Least({e, room})
           filled == to % Block
           q == pos \div Block
           w == Written(pos)
           P(i) == Piece(lhs, (i - 1) * Block, i * Block)
           Wrote(n) == Append(answer[call], Piece(lhs, to - n, to))
<1>1. /\ Operands /\ Size(lhs) \in Nat /\ call = "hash" /\ pos \in Nat /\ pos < Size(lhs)
      /\ answer = Result(w) /\ stage = "hash"
  BY OperandBytes DEF SearchInv, Operands, HashRound, Hashing
<1>2. Block \in Nat \ {0} /\ pos % Block \in Nat /\ pos % Block < Block
  BY <1>1, SearchAssumption, Division
<1>3. e \in Nat /\ pos < e /\ e <= Size(lhs)
  BY <1>1, ChunkEndIs DEF Operands
<1>4. \/ /\ to < Size(lhs)
         /\ answer' = Result(IF filled = 0 THEN Wrote(Block) ELSE answer[call])
         /\ pos' = to
         /\ UNCHANGED <<lhs, rhs, call, stage>>
      \/ to = Size(lhs) /\ Answer(Wrote(IF filled = 0 THEN Block ELSE filled))
  BY DEF HashRound
<1> HIDE DEF e
<1>5. room \in Nat /\ pos < room
  BY <1>1, <1>2
<1>6. to = IF e <= room THEN e ELSE room
  BY <1>3, <1>5, LeastOfTwo
<1> HIDE DEF to
<1>7. to \in Nat /\ pos < to /\ to <= room /\ to <= Size(lhs)
  BY <1>1, <1>3, <1>5, <1>6
<1>8. /\ q \in Nat
      /\ filled = 0 => to = Block * q + Block /\ to \div Block = q + 1
      /\ filled # 0 => filled \in Nat /\ filled < Block /\ to = Block * q + filled /\ to \div Block = q
  BY <1>1, <1>7, BlockEnds
<1>9. answer[call] = w
  BY <1>1 DEF Result
<1>10. w = [i \in 1..q |-> P(i)]
  BY DEF Written
<1> HIDE DEF q, w, filled
<1> DEFINE last == IF filled = 0 THEN Block ELSE filled
           x == Piece(lhs, to - last, to)
<1>11. last \in Nat /\ last > 0 /\ last <= Block /\ to = Block * q + last
  BY <1>2, <1>8
<1>12. Append(w, x) = [i \in 1..(q + 1) |-> IF i = q + 1 THEN x ELSE P(i)]
  BY <1>8, <1>10, BlockWritten
<1> DEFINE y == Block * q
<1>13. /\ y \in Nat /\ (q + 1) * Block = y + Block /\ ((q + 1) - 1) * Block = y
       /\ Block * (q + 1) = y + Block /\ to - last = y /\ to = y + last
  <2>1. /\ y \in Nat /\ (q + 1) * Block = y + Block /\ ((q + 1) - 1) * Block = y
        /\ Block * (q + 1) = y + Block
    BY <1>2, <1>8, NextBlock
  <2>2. to = y + last
    BY <1>11
  <2> HIDE DEF y, last
  <2>3. to - last = y
    BY <1>11, <2>1, <2>2
  <2>4. QED
    BY <2>1, <2>2, <2>3
<1> HIDE DEF y
<1>14. CASE /\ to < Size(lhs)
            /\ answer' = Result(IF filled = 0 THEN Wrote(Block) ELSE answer[call])
            /\ pos' = to
            /\ UNCHANGED <<lhs, rhs, call, stage>>
  <2>1. (IF filled = 0 THEN Wrote(Block) ELSE answer[call]) = Written(to)
    <3>1. CASE filled = 0
      <4>1. to \div Block = q + 1 /\ last = Block
        BY <1>8, <3>1
      <4>2. Wrote(Block) = Append(w, x)
        BY <1>9, <4>1
      <4>3. x = P(q + 1)
        BY <1>13, <4>1
      <4> HIDE DEF x, P
      <4>4. Append(w, x) = [i \in 1..(q + 1) |-> P(i)]
        BY <1>12, <4>3
      <4>5. Written(to) = [i \in 1..(q + 1) |-> P(i)]
        BY <4>1 DEF Written, P
      <4>6. QED
        BY <3>1, <4>2, <4>4, <4>5
    <3>2. CASE filled # 0
      BY <1>8, <1>9, <1>10, <3>2 DEF Written
    <3>3. QED
      BY <3>1, <3>2
  <2>2. lhs' = lhs /\ rhs' = rhs /\ call' = call /\ pos' = to /\ stage' = "hash"
    BY <1>1, <1>14
  <2>3. answer' = Result(Written(to))
    BY <1>14, <2>1
  <2>4. Written(pos)' = Written(to) /\ Size(lhs)' = Size(lhs)
    BY <2>2 DEF Written, Size
  <2>5. answer' = Result(Written(pos))'
    BY <2>2, <2>3, <2>4 DEF Result
  <2>6. Hashing(pos)'
    BY <1>1, <1>14, <2>2, <2>4, <2>5 DEF Hashing
  <2>7. Operands' /\ pos' \in Nat /\ pos' <= Size(lhs)'
    BY <1>1, <1>7, <2>2, <2>4 DEF Operands, IsOperand
  <2>8. QED
    BY <2>2, <2>6, <2>7 DEF SearchInv, SearchAnswers
<1>15. CASE to = Size(lhs) /\ Answer(Wrote(IF filled = 0 THEN Block ELSE filled))
  <2> DEFINE z == Size(lhs)
             B(i) == Piece(lhs, (i - 1) * Block, Least({i * Block, z}))
             a == Append(w, x)
  <2>1. Answer(a)
    BY <1>9, <1>15
  <2>2. (z + Block - 1) \div Block = q + 1
    <3> DEFINE r == last - 1
               n == q + 1
               m == z + Block - 1
               v == y + Block
    <3>1. r \in Nat /\ r < Block
      BY <1>2, <1>11
    <3>2. z = y + last /\ n \in Nat /\ Block * n = v
      BY <1>8, <1>13, <1>15
    <3> HIDE DEF z, last, n
    <3>3. m = v + r
      BY <1>2, <1>11, <1>13, <3>2
    <3> HIDE DEF m, v, r
    <3>4. m = Block * n + r
      BY <3>2, <3>3
    <3>5. m \div Block = n
      BY <1>2, <3>1, <3>2, <3>4, DivisionIs
    <3>6. QED
      BY <3>5 DEF m, n
  <2>3. Blocks(lhs) = [i \in 1..(q + 1) |-> B(i)]
    BY <2>2 DEF Blocks
  <2>4. ASSUME NEW i \in 1..(q + 1) PROVE B(i) = IF i = q + 1 THEN x ELSE P(i)
    <3>1. CASE i = q + 1
      <4>1. i * Block = y + Block /\ (i - 1) * Block = y /\ z = y + last /\ z \in Nat
        BY <1>1, <1>13, <1>15, <3>1
      <4>2. Least({i * Block, z}) = z
        <5> DEFINE u == i * Block
        <5>1. u \in Nat /\ z <= u
          BY <1>2, <1>11, <1>13, <4>1
        <5> HIDE DEF u, z
        <5>2. Least({u, z}) = z
          BY <4>1, <5>1, LeastOfTwo
        <5>3. QED
          BY <5>2 DEF u
      <4>3. QED
        BY <1>13, <1>15, <3>1, <4>1, <4>2
    <3>2. CASE i # q + 1
      <4>1. i \in Nat /\ i <= q
        BY <1>8, <3>2
      <4> DEFINE u == i * Block
      <4>2. u \in Nat /\ u <= q * Block
        BY <1>2, <1>8, <4>1, Products
      <4>3. q * Block = y
        BY <1>2, <1>8 DEF y
      <4>4. u <= z /\ z \in Nat
        BY <1>1, <1>11, <1>13, <1>15, <4>2, <4>3
      <4> HIDE DEF u, z
      <4>5. Least({u, z}) = u
        BY <4>2, <4>4, LeastOfTwo
      <4>6. Least({i * Block, z}) = i * Block
        BY <4>5 DEF u
      <4>7. QED
        BY <3>2, <4>6
    <3>3. QED
      BY <3>1, <3>2
  <2>5. a = Blocks(lhs)
    <3> HIDE DEF B, P, x
    <3>1. QED
      BY <1>12, <2>3, <2>4
  <2>6. a = FlatAnswer
    BY <1>1, <2>5, FlatHash
  <2> HIDE DEF a
  <2>7. QED
    BY <2>1, <2>6, AnswerKeeps
<1>16. QED
  BY <1>4, <1>14, <1>15

(***************************************************************************)
(* A call begins with nothing compared and nothing passed over, and every  *)
(* step keeps what is known.                                               *)
(***************************************************************************)
LEMMA InitSearch == SearchInit => SearchInv
<1> SUFFICES ASSUME SearchInit PROVE SearchInv
  OBVIOUS
<1>1. Operands
  BY SearchAssumption DEF SearchInit, Operands
<1>2. pos = 0 /\ stage = "start" /\ Size(lhs) \in Nat
  BY <1>1, OperandBytes DEF SearchInit, Operands
<1>3. QED
  BY <1>1, <1>2 DEF SearchInv, SearchAnswers

LEMMA SearchInductive == SearchInv /\ [SearchNext]_searchVars => SearchInv'
<1> SUFFICES ASSUME SearchInv, [SearchNext]_searchVars PROVE SearchInv'
  OBVIOUS
<1>1. CASE UNCHANGED searchVars
  <2>1. lhs' = lhs /\ rhs' = rhs /\ call' = call /\ stage' = stage /\ pos' = pos /\ answer' = answer
    BY <1>1 DEF searchVars
  <2>2. FlatAnswer' = FlatAnswer
    <3>1. FlatAnswer' = FlatOf(lhs', rhs', call')
      BY DEF FlatAnswer, FlatOf, Occurs, OccursIn, FindIn, Blocks, BlocksOf
    <3>2. QED
      BY <2>1, <3>1, FlatIs
  <2>3. Operands' /\ Size(lhs)' = Size(lhs) /\ Written(pos)' = Written(pos)
    BY <2>1 DEF SearchInv, Operands, IsOperand, Size, Written
  <2>4. InPrefix(pos) => InPrefix(pos)'
    BY <2>1 DEF InPrefix, Matches, Size
  <2>5. Scanning(pos) => Scanning(pos)'
    BY <2>1 DEF Scanning, Occurs, Size
  <2>6. AtFirst(pos) => AtFirst(pos)'
    BY <2>1 DEF AtFirst, Matches, Size, FirstChunk, ChunkEnd
  <2>7. Hashing(pos) => Hashing(pos)'
    BY <2>1, <2>3 DEF Hashing, Result
  <2>8. SearchAnswers'
    BY <2>1, <2>2 DEF SearchInv, SearchAnswers, Result
  <2>9. QED
    BY <2>1, <2>3, <2>4, <2>5, <2>6, <2>7, <2>8 DEF SearchInv
<1>2. QED
  BY <1>1, StepStartCompare, StepComparePrefix, StepEndsWith, StepStartFind, StepScan, StepVerify,
     StepStartHash, StepHashRound DEF SearchNext

(***************************************************************************)
(* The inductive invariant holds in every state of a search.               *)
(***************************************************************************)
THEOREM SearchInvariance == SearchSpec => []SearchInv
BY InitSearch, SearchInductive, PTL DEF SearchSpec

(***************************************************************************)
(* find, compare, equals, starts_with, ends_with and hash answer as they   *)
(* would on flat byte strings, for operands of every length, cut into      *)
(* chunks anywhere: no match across chunks is passed over, and equal cords *)
(* feed a hasher the same blocks.                                          *)
(***************************************************************************)
THEOREM AnswersAreFlat == SearchSpec => []SearchAnswers
<1>1. SearchInv => SearchAnswers
  BY DEF SearchInv
<1>2. QED
  BY <1>1, SearchInvariance, PTL
=============================================================================
