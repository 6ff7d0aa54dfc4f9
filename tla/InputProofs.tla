---------------------------- MODULE InputProofs ----------------------------
(***************************************************************************)
(* What comes from user code gets into a cord whole.  A cord that is       *)
(* deserialized from a sequence gets all the elements in order and in      *)
(* chunks that are neither wasteful nor tiny, for any size classes, any    *)
(* hint and a sequence of any length.  No byte is lost, repeated or        *)
(* reordered on its way through Extend, a writer or a buffer, for any size *)
(* of Extend's buffer, any buffers that take_append_buffer may offer and   *)
(* any number of bytes.                                                    *)
(***************************************************************************)
EXTENDS ByteSinks, SeqVisitor, FiniteSetTheorems, NaturalsInduction, SequenceTheorems, TLAPS

(* Chunks of a cord, and buffers *)
Chunk == [data : Seq(Nat), cap : Nat]

(* n elements, behind the first ones *)
Run(first, n) == [j \in 1..n |-> first + j]

(* The number of elements in the first i chunks: the last one's name. *)
EndOf(c, i) == IF i = 0 THEN 0 ELSE c[i].data[Len(c[i].data)]

(* The chunk i goes on where the one ahead of it ends. *)
GoesOn(c, i) ==
    /\ EndOf(c, i - 1) \in Nat
    /\ Len(c[i].data) > 0
    /\ c[i].data = Run(EndOf(c, i - 1), Len(c[i].data))

Consecutive(c) == \A i \in 1..Len(c) : GoesOn(c, i)

IsShort(c, i) == Len(c[i].data) < MaxCapacity

(* At most one of the first n chunks is short. *)
OneShort(c, n) == \E k \in Nat : \A i \in 1..n : IsShort(c, i) => i = k

RightSized(c) == \A i \in 1..Len(c) : c[i].cap \in {0, CapacityFor(Len(c[i].data))}

(* A cord that was committed to is a tree. *)
AllFlat(c) == \A i \in 1..Len(c) : c[i].cap # 0

(* The elements that the hint promised have all been read. *)
UsedUp(h, n) == h = NoHint \/ h <= n

(***************************************************************************)
(* While the buffer is filled: one that is smaller than the largest is the *)
(* first, or has room for all that the hint still promises, so that it is  *)
(* the only one.                                                           *)
(***************************************************************************)
FillInv ==
    /\ buffer.cap \in SizeClasses \cup {InlineCapacity}
    /\ Len(buffer.data) <= buffer.cap
    /\ AllFlat(chunks)
    /\ OneShort(chunks, Len(chunks))
    /\ \/ chunks = <<>>
       \/ /\ buffer.cap = MaxCapacity
          /\ (\E i \in 1..Len(chunks) : IsShort(chunks, i)) => UsedUp(hint, consumed)
       \/ /\ \A i \in 1..Len(chunks) : ~IsShort(chunks, i)
          /\ UsedUp(hint, consumed - Len(buffer.data) + buffer.cap)

VisitInv ==
    /\ visit \in {"fill", "done", "failed"}
    /\ hint \in Hints \cup {NoHint}
    /\ consumed \in Nat
    /\ chunks \in Seq(Chunk) /\ buffer \in Chunk
    /\ Consecutive(chunks) /\ RightSized(chunks)
    /\ visit = "fill" => FillInv
    /\ visit = "failed" => chunks = <<>>
    /\ visit = "done" => OneShort(chunks, Len(chunks) - 1)
    /\ visit # "failed" =>
          /\ EndOf(chunks, Len(chunks)) + Len(buffer.data) = consumed
          /\ buffer.data = Run(EndOf(chunks, Len(chunks)), Len(buffer.data))

-----------------------------------------------------------------------------
(* A set of natural numbers has a least one. *)
LEMMA LeastNumber ==
  ASSUME NEW T \in SUBSET Nat, T # {}
  PROVE  \E x \in T : \A y \in T : x <= y
<1> DEFINE R == {ss \in Nat \X Nat : ss[1] < ss[2]}
<1>1. IsWellFoundedOn(R, Nat)
  BY NatLessThanWellFounded DEF OpToRel
<1>2. PICK x \in T : \A y \in T : ~(<<y, x>> \in R)
  <2> HIDE DEF R
  <2> QED
    BY <1>1, WFMin
<1>3. \A y \in T : ~(y < x)
  BY <1>2
<1>4. QED
  BY <1>3

(* The sizes are numbers. *)
LEMMA Capacities ==
  /\ InlineCapacity \in Nat \ {0}
  /\ SizeClasses \subseteq Nat
  /\ \A c \in SizeClasses : c > InlineCapacity
BY VisitAssumption

(* The largest size class *)
LEMMA MaxCapacityIs ==
  /\ MaxCapacity \in SizeClasses /\ MaxCapacity \in Nat /\ MaxCapacity > InlineCapacity
  /\ \A c \in SizeClasses : c <= MaxCapacity
<1>1. PICK m \in SizeClasses : \A c \in SizeClasses : c <= m
  BY VisitAssumption
<1>2. \A c \in SizeClasses : m >= c
  BY <1>1, Capacities
<1>3. MaxCapacity \in SizeClasses /\ \A c \in SizeClasses : MaxCapacity >= c
  BY <1>2 DEF MaxCapacity, Max
<1>4. QED
  BY <1>3, Capacities

(* capacity_for: the smallest class that is large enough, if there is one. *)
LEMMA CapacityForIs ==
  ASSUME NEW n \in Nat
  PROVE  /\ CapacityFor(n) \in SizeClasses /\ CapacityFor(n) \in Nat \ {0}
         /\ CapacityFor(n) > InlineCapacity
         /\ CapacityFor(n) >= n \/ CapacityFor(n) = MaxCapacity
         /\ n <= MaxCapacity => \A c \in SizeClasses : c >= n => CapacityFor(n) <= c
<1> DEFINE F == {c \in SizeClasses : c >= n}
<1>1. CASE n > MaxCapacity
  BY <1>1, Capacities, MaxCapacityIs DEF CapacityFor
<1>2. CASE ~(n > MaxCapacity)
  <2>1. F \in SUBSET Nat /\ F # {}
    <3>1. MaxCapacity >= n
      BY <1>2, MaxCapacityIs
    <3>2. QED
      BY <3>1, Capacities, MaxCapacityIs
  <2>2. PICK m \in F : \A c \in F : m <= c
    BY <2>1, LeastNumber
  <2>3. CapacityFor(n) = Min(F)
    BY <1>2 DEF CapacityFor
  <2> HIDE DEF F
  <2>4. Min(F) \in F /\ \A c \in F : Min(F) <= c
    BY <2>2 DEF Min
  <2> DEFINE v == CapacityFor(n)
  <2>5. v \in SizeClasses /\ v >= n
    BY <2>3, <2>4 DEF F
  <2>6. ASSUME NEW c \in SizeClasses, c >= n PROVE v <= c
    BY <2>3, <2>4, <2>6 DEF F
  <2> HIDE DEF v
  <2>7. v \in Nat \ {0} /\ v > InlineCapacity
    BY <2>5, Capacities
  <2>8. QED
    BY <2>5, <2>6, <2>7 DEF v
<1>3. QED
  BY <1>1, <1>2

(* Min of two numbers *)
LEMMA MinOfTwo == ASSUME NEW a \in Nat, NEW b \in Nat
                  PROVE  Min({a, b}) = IF a <= b THEN a ELSE b
<1> DEFINE m == IF a <= b THEN a ELSE b
<1>1. Min({a, b}) \in {a, b} /\ \A y \in {a, b} : Min({a, b}) <= y
  <2>1. m \in {a, b} /\ \A y \in {a, b} : m <= y
    OBVIOUS
  <2>2. QED
    BY <2>1 DEF Min
<1>2. QED
  BY <1>1

(* A fresh buffer *)
LEMMA BufferForIs ==
  ASSUME NEW n \in Nat
  PROVE  /\ BufferFor(n) \in Chunk
         /\ BufferFor(n).data = <<>>
         /\ BufferFor(n).cap \in SizeClasses \cup {InlineCapacity}
         /\ BufferFor(n).cap \in Nat \ {0}
         /\ BufferFor(n).cap >= n \/ BufferFor(n).cap = MaxCapacity
<1>1. <<>> \in Seq(Nat)
  OBVIOUS
<1>2. QED
  BY <1>1, CapacityForIs, Capacities DEF BufferFor, Chunk

-----------------------------------------------------------------------------
(* The elements of a run, and the run that goes on behind it *)
LEMMA RunIs ==
  ASSUME NEW first \in Nat, NEW n \in Nat
  PROVE  /\ Run(first, n) \in Seq(Nat) /\ Len(Run(first, n)) = n
         /\ \A j \in 1..n : Run(first, n)[j] = first + j
         /\ Append(Run(first, n), first + n + 1) = Run(first, n + 1)
<1> DEFINE r == Run(first, n)
<1>1. r \in Seq(Nat) /\ Len(r) = n /\ \A j \in 1..n : r[j] = first + j
  BY DEF Run
<1>2. Append(r, first + n + 1) \in Seq(Nat) /\ Run(first, n + 1) \in Seq(Nat)
      /\ Len(Append(r, first + n + 1)) = n + 1 /\ Len(Run(first, n + 1)) = n + 1
  BY <1>1 DEF Run
<1>3. ASSUME NEW j \in 1..(n + 1)
      PROVE  Append(r, first + n + 1)[j] = Run(first, n + 1)[j]
  <2>1. Run(first, n + 1)[j] = first + j
    BY DEF Run
  <2>2. CASE j = n + 1
    BY <1>1, <2>1, <2>2
  <2>3. CASE j # n + 1
    <3>1. j \in 1..n
      BY <2>3
    <3> HIDE DEF r
    <3>2. QED
      BY <1>1, <2>1, <3>1
  <2>4. QED
    BY <2>2, <2>3
<1>4. Append(r, first + n + 1) = Run(first, n + 1)
  <2> HIDE DEF r
  <2>1. QED
    BY <1>2, <1>3, SeqEqual
<1>5. QED
  BY <1>1, <1>4

(* A run that begins where another ends *)
LEMMA RunsMeet ==
  ASSUME NEW a \in Nat, NEW n \in Nat
  PROVE  Run(0, a) \o Run(a, n) = Run(0, a + n)
<1> DEFINE r == Run(0, a)
           s == Run(a, n)
           t == Run(0, a + n)
<1>1. /\ r \in Seq(Nat) /\ Len(r) = a /\ \A j \in 1..a : r[j] = j
      /\ s \in Seq(Nat) /\ Len(s) = n /\ \A j \in 1..n : s[j] = a + j
      /\ t \in Seq(Nat) /\ Len(t) = a + n /\ \A j \in 1..(a + n) : t[j] = j
  <2>1. a + n \in Nat /\ 0 \in Nat
    OBVIOUS
  <2>2. r \in Seq(Nat) /\ Len(r) = a /\ \A j \in 1..a : r[j] = j
    BY DEF Run
  <2>3. s \in Seq(Nat) /\ Len(s) = n /\ \A j \in 1..n : s[j] = a + j
    BY DEF Run
  <2>4. t \in Seq(Nat) /\ Len(t) = a + n /\ \A j \in 1..(a + n) : t[j] = j
    BY <2>1 DEF Run
  <2>5. QED
    BY <2>2, <2>3, <2>4
<1> HIDE DEF r, s, t
<1>2. r \o s \in Seq(Nat) /\ Len(r \o s) = a + n
  BY <1>1
<1>3. ASSUME NEW j \in 1..(a + n) PROVE (r \o s)[j] = t[j]
  <2>1. CASE j <= a
    BY <1>1, <2>1
  <2>2. CASE j > a
    <3>1. (r \o s)[j] = s[j - a] /\ j - a \in 1..n
      BY <1>1, <2>2
    <3>2. QED
      BY <1>1, <3>1
  <2>3. j <= a \/ j > a
    OBVIOUS
  <2>4. QED
    BY <2>1, <2>2, <2>3
<1>4. r \o s = t
  BY <1>1, <1>2, <1>3, SeqEqual
<1>5. QED
  BY <1>4 DEF r, s, t

(* Where the chunks of a cord end *)
LEMMA EndsGrow ==
  ASSUME NEW c \in Seq(Chunk), NEW i \in 1..Len(c), GoesOn(c, i)
  PROVE  /\ EndOf(c, i) \in Nat
         /\ EndOf(c, i) = EndOf(c, i - 1) + Len(c[i].data)
<1> DEFINE d == c[i].data
           a == EndOf(c, i - 1)
<1>1. d \in Seq(Nat) /\ Len(d) \in Nat
  <2>1. c[i] \in Chunk
    BY ElementOfSeq
  <2>2. QED
    BY <2>1 DEF Chunk
<1>2. a \in Nat /\ Len(d) > 0 /\ d = Run(a, Len(d))
  BY DEF GoesOn
<1>3. EndOf(c, i) = d[Len(d)]
  BY DEF EndOf
<1> HIDE DEF d, a
<1>4. d[Len(d)] = a + Len(d)
  <2> DEFINE n == Len(d)
  <2>1. n \in 1..n
    BY <1>1, <1>2
  <2> HIDE DEF n
  <2>2. Run(a, n)[n] = a + n
    BY <2>1 DEF Run
  <2>3. QED
    BY <1>2, <2>2 DEF n
<1>5. QED
  BY <1>1, <1>2, <1>3, <1>4 DEF d, a

LEMMA EndIs ==
  ASSUME NEW c \in Seq(Chunk), Consecutive(c)
  PROVE  EndOf(c, Len(c)) \in Nat
<1>1. CASE Len(c) = 0
  BY <1>1 DEF EndOf
<1>2. CASE Len(c) # 0
  <2>1. Len(c) \in 1..Len(c)
    BY <1>2
  <2>2. QED
    BY <2>1, EndsGrow DEF Consecutive
<1>3. QED
  BY <1>1, <1>2

(* Chunks that go on where the ones ahead of them end hold one run. *)
LEMMA StagedIs ==
  ASSUME chunks \in Seq(Chunk), Consecutive(chunks), NEW n \in Nat,
         buffer.data = Run(EndOf(chunks, Len(chunks)), n)
  PROVE  Staged = Run(0, EndOf(chunks, Len(chunks)) + n)
<1> DEFINE L == Len(chunks)
           E(i) == EndOf(chunks, i)
           D(i) == chunks[i].data
           N(i) == IF i = 0 THEN <<>> ELSE Run(0, E(i - 1)) \o D(i)
           g == [i \in 0..L |-> Run(0, E(i))]
           V == CHOOSE h : h = [i \in 0..L |-> IF i = 0 THEN <<>> ELSE h[i - 1] \o chunks[i].data]
<1>1. L \in Nat
  OBVIOUS
<1>2. E(0) = 0 /\ Run(0, 0) = <<>>
  BY DEF EndOf, Run
<1>3. ASSUME NEW i \in 1..L
      PROVE  /\ E(i - 1) \in Nat /\ E(i) \in Nat
             /\ Run(0, E(i - 1)) \o D(i) = Run(0, E(i))
  <2> DEFINE k == Len(D(i))
  <2>1. GoesOn(chunks, i)
    BY DEF Consecutive
  <2>2. D(i) \in Seq(Nat) /\ k \in Nat
    <3>1. chunks[i] \in Chunk
      BY ElementOfSeq
    <3>2. QED
      BY <3>1 DEF Chunk
  <2>3. E(i - 1) \in Nat /\ E(i) \in Nat /\ E(i) = E(i - 1) + k
    BY <2>1, EndsGrow DEF GoesOn
  <2>4. D(i) = Run(E(i - 1), k)
    BY <2>1 DEF GoesOn
  <2> HIDE DEF E, D, k
  <2>5. Run(0, E(i - 1)) \o Run(E(i - 1), k) = Run(0, E(i - 1) + k)
    BY <2>2, <2>3, RunsMeet
  <2>6. QED
    BY <2>3, <2>4, <2>5
<1> HIDE DEF E
<1>4. g = [i \in 0..L |-> IF i = 0 THEN <<>> ELSE g[i - 1] \o chunks[i].data]
  <2> DEFINE G(i) == IF i = 0 THEN <<>> ELSE g[i - 1] \o chunks[i].data
  <2>1. ASSUME NEW i \in 0..L PROVE Run(0, E(i)) = G(i)
    <3>1. CASE i = 0
      BY <1>2, <3>1
    <3>2. CASE i # 0
      <4>1. i \in 1..L /\ i - 1 \in 0..L
        BY <1>1, <3>2
      <4>2. g[i - 1] = Run(0, E(i - 1))
        BY <4>1
      <4> HIDE DEF g
      <4>3. QED
        BY <1>3, <3>2, <4>1, <4>2
    <3>3. QED
      BY <3>1, <3>2
  <2> HIDE DEF G
  <2>2. g = [i \in 0..L |-> G(i)]
    BY <2>1
  <2>3. QED
    BY <2>2 DEF G
<1>5. V = [i \in 0..L |-> IF i = 0 THEN <<>> ELSE V[i - 1] \o chunks[i].data]
  BY <1>4
<1>6. Staged = V[L] \o buffer.data
  BY DEF Staged
<1> HIDE DEF V, g
<1>7. V[0] = <<>> /\ \A i \in 1..L : V[i] = V[i - 1] \o D(i)
  <2>1. 0 \in 0..L
    BY <1>1
  <2>2. ASSUME NEW i \in 1..L PROVE i \in 0..L /\ i # 0
    BY <1>1
  <2>3. QED
    BY <1>5, <2>1, <2>2
<1> HIDE DEF D, L
<1>8. ASSUME NEW i \in 0..L PROVE V[i] = Run(0, E(i))
  <2> DEFINE T == {j \in 0..L : V[j] # Run(0, E(j))}
  <2>1. SUFFICES ASSUME T # {} PROVE FALSE
    OBVIOUS
  <2>2. T \in SUBSET Nat
    BY <1>1
  <2> HIDE DEF T
  <2>3. PICK m \in T : \A j \in T : m <= j
    BY <2>1, <2>2, LeastNumber
  <2>4. m \in 0..L /\ m \in Nat /\ V[m] # Run(0, E(m))
    BY <2>2, <2>3 DEF T
  <2>5. m # 0
    BY <1>2, <1>7, <2>4
  <2>6. m - 1 \in 0..L /\ m - 1 \notin T /\ m \in 1..L
    BY <1>1, <2>3, <2>4, <2>5
  <2>7. V[m - 1] = Run(0, E(m - 1))
    BY <2>6 DEF T
  <2>8. QED
    BY <1>3, <1>7, <2>4, <2>6, <2>7
<1>9. V[L] = Run(0, E(L)) /\ E(L) \in Nat
  <2>1. L \in 0..L
    BY <1>1
  <2>2. QED
    BY <1>8, <2>1, EndIs DEF E, L
<1>10. Run(0, E(L)) \o Run(E(L), n) = Run(0, E(L) + n)
  BY <1>9, RunsMeet
<1>11. QED
  BY <1>6, <1>9, <1>10 DEF E, L

(* A chunk that goes on where the cord ends *)
LEMMA AppendGoesOn ==
  ASSUME NEW c \in Seq(Chunk), Consecutive(c), NEW f \in Chunk, Len(f.data) > 0,
         f.data = Run(EndOf(c, Len(c)), Len(f.data))
  PROVE  LET d == Append(c, f)
         IN  /\ d \in Seq(Chunk) /\ Len(d) = Len(c) + 1 /\ d[Len(c) + 1] = f
             /\ \A i \in 1..Len(c) : d[i] = c[i]
             /\ Consecutive(d)
             /\ EndOf(d, Len(d)) = EndOf(c, Len(c)) + Len(f.data)
<1> DEFINE d == Append(c, f)
           L == Len(c)
           a == EndOf(c, L)
<1>1. /\ d \in Seq(Chunk) /\ Len(d) = L + 1 /\ d[L + 1] = f
      /\ \A i \in 1..L : d[i] = c[i]
      /\ L \in Nat
  OBVIOUS
<1>2. a \in Nat
  BY EndIs
<1> HIDE DEF d
<1>3. ASSUME NEW i \in 0..L PROVE EndOf(d, i) = EndOf(c, i)
  BY <1>1 DEF EndOf
<1>4. ASSUME NEW i \in 1..L PROVE GoesOn(d, i)
  <2>1. GoesOn(c, i)
    BY DEF Consecutive
  <2>2. d[i] = c[i] /\ EndOf(d, i - 1) = EndOf(c, i - 1)
    <3>1. i - 1 \in 0..L
      BY <1>1
    <3>2. QED
      BY <1>1, <1>3, <3>1
  <2>3. QED
    BY <2>1, <2>2 DEF GoesOn
<1>5. GoesOn(d, L + 1)
  <2>1. (L + 1) - 1 = L /\ L \in 0..L
    BY <1>1
  <2>2. EndOf(d, (L + 1) - 1) = a
    BY <1>3, <2>1
  <2>3. QED
    BY <1>1, <1>2, <2>2 DEF GoesOn
<1>6. Consecutive(d)
  <2>1. ASSUME NEW i \in 1..(L + 1) PROVE i \in 1..L \/ i = L + 1
    BY <1>1
  <2>2. QED
    BY <1>1, <1>4, <1>5, <2>1 DEF Consecutive
<1>7. EndOf(d, L + 1) = a + Len(f.data)
  <2>1. (L + 1) - 1 = L /\ L \in 0..L /\ L + 1 \in 1..Len(d)
    BY <1>1
  <2>2. EndOf(d, L + 1) = EndOf(d, (L + 1) - 1) + Len(d[L + 1].data)
    BY <1>1, <1>5, <2>1, EndsGrow
  <2>3. QED
    BY <1>1, <1>3, <2>1, <2>2
<1>8. QED
  BY <1>1, <1>6, <1>7 DEF d

-----------------------------------------------------------------------------
(* What commit appends to a cord that is empty or a tree *)
Committed(c, b, f) ==
    /\ f \in Chunk /\ f.data = b.data
    /\ f.cap \in {0, CapacityFor(Len(b.data))}
    /\ f.cap = 0 => c = <<>> /\ Len(b.data) <= InlineCapacity
    /\ Commit(c, b) = Append(c, f)

LEMMA TreeIsNotInline ==
  ASSUME NEW c \in Seq(Chunk), AllFlat(c)
  PROVE  IsInline(c) <=> c = <<>>
<1>1. CASE c # <<>>
  <2>1. 1 \in 1..Len(c)
    BY <1>1
  <2>2. QED
    BY <1>1, <2>1 DEF AllFlat, IsInline
<1>2. QED
  BY <1>1 DEF IsInline

LEMMA AppendFlatIs ==
  ASSUME NEW c \in Seq(Chunk), AllFlat(c), NEW f
  PROVE  AppendFlat(c, f) = Append(c, f)
BY TreeIsNotInline DEF AppendFlat

LEMMA CommitIs ==
  ASSUME NEW c \in Seq(Chunk), AllFlat(c), NEW b \in Chunk, Len(b.data) > 0,
         b.cap \in SizeClasses \cup {InlineCapacity}, Len(b.data) <= b.cap
  PROVE  \E f : Committed(c, b, f)
<1> DEFINE s == b.data
           n == Len(s)
           k == CapacityFor(n)
           copy == [data |-> s, cap |-> k]
<1>1. s \in Seq(Nat) /\ n \in Nat /\ b.cap \in Nat /\ n <= b.cap /\ n > 0
  BY DEF Chunk
<1>2. /\ k \in Nat \ {0}
      /\ n <= MaxCapacity => \A x \in SizeClasses : x >= n => k <= x
  BY <1>1, CapacityForIs
<1>3. b = [data |-> s, cap |-> b.cap] /\ copy \in Chunk
  BY <1>1, <1>2 DEF Chunk
<1>4. Commit(c, b) = IF n <= InlineCapacity \/ k < b.cap THEN AppendPrecise(c, s) ELSE AppendFlat(c, b)
  BY <1>1 DEF Commit
<1>5. CASE ~(n <= InlineCapacity \/ k < b.cap)
  <2>1. b.cap # InlineCapacity /\ b.cap \in SizeClasses
    BY <1>1, <1>5, Capacities
  <2>2. n <= MaxCapacity
    BY <1>1, <2>1, MaxCapacityIs
  <2>3. k <= b.cap
    BY <1>1, <1>2, <2>1, <2>2
  <2>4. b.cap = k
    BY <1>1, <1>2, <1>5, <2>3
  <2>5. Commit(c, b) = Append(c, b)
    BY <1>4, <1>5, AppendFlatIs
  <2> HIDE DEF k
  <2>6. Committed(c, b, b)
    BY <1>2, <2>4, <2>5 DEF Committed, k
  <2>7. QED
    BY <2>6
<1>6. CASE n <= InlineCapacity \/ k < b.cap
  <2>1. Commit(c, b) = AppendPrecise(c, s)
    BY <1>4, <1>6
  <2>2. CASE c = <<>> /\ n <= InlineCapacity
    <3> DEFINE f == InlineChunk(s)
    <3>1. InlineBytes(c) = <<>> /\ IsInline(c) /\ Len(InlineBytes(c)) + n <= InlineCapacity
      BY <1>1, <2>2, Capacities DEF InlineBytes, IsInline
    <3>2. InlineBytes(c) \o s = s
      BY <1>1, <3>1
    <3>3. AppendPrecise(c, s) = <<InlineChunk(InlineBytes(c) \o s)>>
      BY <3>1 DEF AppendPrecise
    <3>4. AppendPrecise(c, s) = <<f>>
      BY <3>2, <3>3
    <3>5. Append(c, f) = <<f>>
      BY <2>2
    <3>6. f \in Chunk /\ f.data = s /\ f.cap = 0
      BY <1>1 DEF InlineChunk, Chunk
    <3>7. Committed(c, b, f)
      BY <2>1, <2>2, <3>4, <3>5, <3>6 DEF Committed
    <3>8. QED
      BY <3>7
  <2>3. CASE ~(c = <<>> /\ n <= InlineCapacity)
    <3>1. ~(IsInline(c) /\ Len(InlineBytes(c)) + n <= InlineCapacity)
      <4>1. CASE c = <<>>
        <5>1. Len(InlineBytes(c)) = 0
          BY <4>1 DEF InlineBytes
        <5>2. QED
          BY <1>1, <2>3, <4>1, <5>1, Capacities
      <4>2. QED
        BY <4>1, TreeIsNotInline
    <3>2. AppendPrecise(c, s) = AppendFlat(c, copy)
      BY <3>1 DEF AppendPrecise
    <3>3. AppendPrecise(c, s) = Append(c, copy)
      BY <3>2, AppendFlatIs
    <3>4. copy.data = s /\ copy.cap = k /\ copy.cap # 0
      BY <1>2
    <3> HIDE DEF copy
    <3>5. Committed(c, b, copy)
      BY <1>3, <2>1, <3>3, <3>4 DEF Committed
    <3>6. QED
      BY <3>5
  <2>4. QED
    BY <2>2, <2>3
<1>7. QED
  BY <1>5, <1>6

(* The cord after a commit *)
LEMMA CommitKeeps ==
  ASSUME NEW c \in Seq(Chunk), Consecutive(c), RightSized(c), AllFlat(c),
         NEW b \in Chunk, Len(b.data) > 0,
         b.cap \in SizeClasses \cup {InlineCapacity}, Len(b.data) <= b.cap,
         b.data = Run(EndOf(c, Len(c)), Len(b.data))
  PROVE  LET d == Commit(c, b)
         IN  /\ d \in Seq(Chunk) /\ Consecutive(d) /\ RightSized(d)
             /\ Len(d) = Len(c) + 1
             /\ \A i \in 1..Len(c) : d[i] = c[i]
             /\ d[Len(c) + 1].data = b.data
             /\ c # <<>> \/ Len(b.data) > InlineCapacity => AllFlat(d)
             /\ EndOf(d, Len(d)) = EndOf(c, Len(c)) + Len(b.data)
<1> DEFINE d == Commit(c, b)
           L == Len(c)
           n == Len(b.data)
<1>1. PICK f : Committed(c, b, f)
  BY CommitIs
<1>2. /\ f \in Chunk /\ f.data = b.data /\ d = Append(c, f)
      /\ f.cap \in {0, CapacityFor(n)}
      /\ f.cap = 0 => c = <<>> /\ n <= InlineCapacity
  BY <1>1 DEF Committed
<1>3. Len(f.data) = n /\ Len(f.data) > 0 /\ f.data = Run(EndOf(c, L), Len(f.data))
  BY <1>2
<1>4. /\ d \in Seq(Chunk) /\ Len(d) = L + 1 /\ d[L + 1] = f
      /\ \A i \in 1..L : d[i] = c[i]
      /\ Consecutive(d)
      /\ EndOf(d, Len(d)) = EndOf(c, L) + n
  BY <1>2, <1>3, AppendGoesOn
<1>5. L \in Nat /\ n \in Nat
  BY DEF Chunk
<1> HIDE DEF d
<1>6. ASSUME NEW i \in 1..(L + 1) PROVE i \in 1..L \/ i = L + 1
  BY <1>5
<1>7. RightSized(d)
  BY <1>2, <1>4, <1>6 DEF RightSized
<1>8. c # <<>> \/ n > InlineCapacity => AllFlat(d)
  <2>1. c # <<>> \/ n > InlineCapacity => f.cap # 0
    BY <1>2, <1>5, Capacities
  <2>2. QED
    BY <1>4, <1>6, <2>1 DEF AllFlat
<1>9. QED
  BY <1>2, <1>4, <1>7, <1>8 DEF d

-----------------------------------------------------------------------------
(* An empty cord *)
LEMMA NoChunks ==
  LET c == <<>> IN
  /\ c \in Seq(Chunk) /\ Len(c) = 0 /\ EndOf(c, 0) = 0 /\ Run(0, 0) = <<>>
  /\ Consecutive(c) /\ RightSized(c) /\ AllFlat(c) /\ OneShort(c, 0)
<1> DEFINE c == <<>>
<1>1. c \in Seq(Chunk) /\ Len(c) = 0 /\ EndOf(c, 0) = 0
  BY DEF EndOf
<1>2. Run(0, 0) = <<>>
  BY DEF Run
<1> HIDE DEF c
<1>3. \A i \in 1..0 : FALSE
  OBVIOUS
<1>4. Consecutive(c) /\ RightSized(c) /\ AllFlat(c)
  BY <1>1, <1>3 DEF Consecutive, RightSized, AllFlat
<1>5. OneShort(c, 0)
  BY <1>3 DEF OneShort
<1>6. QED
  BY <1>1, <1>2, <1>4, <1>5 DEF c

LEMMA InitVisit == ASSUME VisitInit PROVE VisitInv
<1> DEFINE w == IF hint = NoHint THEN 0 ELSE hint
<1>1. /\ hint \in Hints \cup {NoHint} /\ visit = "fill" /\ chunks = <<>>
      /\ buffer = BufferFor(w) /\ consumed = 0
  BY DEF VisitInit
<1>2. w \in Nat
  BY <1>1, VisitAssumption
<1> HIDE DEF w
<1>3. /\ buffer \in Chunk /\ buffer.data = <<>>
      /\ buffer.cap \in SizeClasses \cup {InlineCapacity} /\ buffer.cap \in Nat \ {0}
  BY <1>1, <1>2, BufferForIs
<1>4. Len(buffer.data) = 0 /\ Len(buffer.data) <= buffer.cap
  BY <1>3
<1>5. /\ chunks \in Seq(Chunk) /\ Len(chunks) = 0 /\ EndOf(chunks, 0) = 0 /\ Run(0, 0) = <<>>
      /\ Consecutive(chunks) /\ RightSized(chunks) /\ AllFlat(chunks) /\ OneShort(chunks, 0)
  BY <1>1, NoChunks
<1>6. FillInv
  BY <1>1, <1>3, <1>4, <1>5 DEF FillInv
<1>7. QED
  BY <1>1, <1>3, <1>4, <1>5, <1>6 DEF VisitInv

(* The buffer with one more element *)
LEMMA StepFillSlot == ASSUME VisitInv, FillSlot PROVE VisitInv'
<1> DEFINE a == EndOf(chunks, Len(chunks))
           d == buffer.data
           n == Len(d)
<1>1. /\ visit = "fill" /\ n < buffer.cap /\ consumed' = consumed + 1
      /\ buffer' = [buffer EXCEPT !.data = Append(d, consumed + 1)]
      /\ visit' = visit /\ hint' = hint /\ chunks' = chunks
  BY DEF FillSlot
<1>2. /\ FillInv /\ consumed \in Nat /\ buffer \in Chunk /\ chunks \in Seq(Chunk)
      /\ Consecutive(chunks) /\ a + n = consumed /\ d = Run(a, n)
  BY <1>1 DEF VisitInv
<1>3. a \in Nat /\ n \in Nat /\ d \in Seq(Nat) /\ buffer.cap \in Nat
  BY <1>2, EndIs DEF Chunk
<1>4. buffer' = [data |-> Append(d, consumed + 1), cap |-> buffer.cap]
  BY <1>1, <1>2 DEF Chunk
<1> DEFINE e == Append(d, consumed + 1)
<1>5. e \in Seq(Nat) /\ Len(e) = n + 1
  BY <1>2, <1>3
<1> HIDE DEF a, d, n
<1>6. consumed + 1 = a + n + 1
  BY <1>2, <1>3
<1>7. e = Run(a, n + 1)
  BY <1>2, <1>3, <1>6, RunIs
<1> HIDE DEF e
<1>8. buffer'.data = e /\ buffer'.cap = buffer.cap /\ buffer' \in Chunk
  BY <1>3, <1>4, <1>5 DEF Chunk, e
<1>9. FillInv'
  <2>1. /\ buffer'.cap \in SizeClasses \cup {InlineCapacity}
        /\ Len(buffer'.data) <= buffer'.cap
    BY <1>1, <1>2, <1>3, <1>5, <1>8 DEF FillInv
  <2>2. consumed' - Len(buffer'.data) + buffer'.cap = consumed - n + buffer.cap
    BY <1>1, <1>2, <1>3, <1>5, <1>8
  <2>3. UsedUp(hint, consumed) => UsedUp(hint, consumed + 1)
    BY <1>2, VisitAssumption DEF UsedUp, VisitInv
  <2>4. AllFlat(chunks)' /\ OneShort(chunks, Len(chunks))'
    BY <1>1, <1>2 DEF FillInv, AllFlat, OneShort, IsShort
  <2>5. \/ chunks' = <<>>
        \/ /\ buffer'.cap = MaxCapacity
           /\ (\E i \in 1..Len(chunks') : IsShort(chunks', i)) => UsedUp(hint', consumed')
        \/ /\ \A i \in 1..Len(chunks') : ~IsShort(chunks', i)
           /\ UsedUp(hint', consumed' - Len(buffer'.data) + buffer'.cap)
    BY <1>1, <1>2, <1>8, <2>2, <2>3 DEF FillInv, d, n
  <2>6. QED
    BY <2>1, <2>4, <2>5 DEF FillInv, IsShort, UsedUp
<1>10. EndOf(chunks, Len(chunks))' = a
  BY <1>1 DEF EndOf, a
<1>11. a + (n + 1) = consumed'
  BY <1>1, <1>2, <1>3
<1>12. /\ EndOf(chunks, Len(chunks))' + Len(buffer'.data) = consumed'
       /\ buffer'.data = Run(EndOf(chunks, Len(chunks)), Len(buffer.data))'
  BY <1>5, <1>7, <1>8, <1>10, <1>11 DEF Run
<1>13. /\ Consecutive(chunks)' /\ RightSized(chunks)'
       /\ consumed' \in Nat /\ hint' \in Hints \cup {NoHint} /\ chunks' \in Seq(Chunk)
  BY <1>1, <1>2 DEF VisitInv, Consecutive, RightSized, GoesOn, EndOf, Run
<1>14. QED
  BY <1>1, <1>8, <1>9, <1>12, <1>13 DEF VisitInv

(* The buffer that follows a full one is the largest once the hint is used *)
(* up, and takes all that is left of it or is the largest before.          *)
LEMMA NextCapacityIs ==
  ASSUME hint \in Hints \cup {NoHint}, consumed \in Nat
  PROVE  LET next == BufferFor(NextCapacity)
         IN  /\ next \in Chunk /\ next.cap \in SizeClasses \cup {InlineCapacity}
             /\ next.cap \in Nat \ {0}
             /\ next.cap = MaxCapacity \/ UsedUp(hint, consumed + next.cap)
             /\ UsedUp(hint, consumed) => next.cap = MaxCapacity
<1> DEFINE m == NextCapacity
           next == BufferFor(m)
<1>1. CASE hint # NoHint /\ hint > consumed
  <2>1. hint \in Nat
    BY <1>1, VisitAssumption
  <2>2. m = hint - consumed
    BY <1>1 DEF NextCapacity
  <2>3. m \in Nat /\ ~UsedUp(hint, consumed)
    BY <1>1, <2>1, <2>2 DEF UsedUp
  <2> HIDE DEF m
  <2>4. /\ next \in Chunk /\ next.cap \in SizeClasses \cup {InlineCapacity}
        /\ next.cap \in Nat \ {0} /\ (next.cap >= m \/ next.cap = MaxCapacity)
    BY <2>3, BufferForIs
  <2> HIDE DEF next
  <2>5. next.cap >= m => UsedUp(hint, consumed + next.cap)
    BY <2>1, <2>2, <2>4 DEF UsedUp
  <2>6. QED
    BY <2>3, <2>4, <2>5 DEF m, next
<1>2. CASE ~(hint # NoHint /\ hint > consumed)
  <2>1. m = MaxCapacity /\ m \in Nat
    BY <1>2, MaxCapacityIs DEF NextCapacity
  <2> HIDE DEF m
  <2>2. /\ next \in Chunk /\ next.cap \in SizeClasses \cup {InlineCapacity}
        /\ next.cap \in Nat \ {0} /\ (next.cap >= m \/ next.cap = MaxCapacity)
    BY <2>1, BufferForIs
  <2> HIDE DEF next
  <2>3. next.cap = MaxCapacity
    BY <2>1, <2>2, Capacities, MaxCapacityIs
  <2>4. QED
    BY <2>2, <2>3 DEF m, next
<1>3. QED
  BY <1>1, <1>2

(* The first buffer is full and makes way for a larger one. *)
LEMMA LargerIs ==
  ASSUME NEW k \in SizeClasses \cup {InlineCapacity}, k < MaxCapacity
  PROVE  LET larger == BufferFor(Min({4 * k, MaxCapacity}))
         IN  /\ larger \in Chunk /\ larger.cap \in SizeClasses \cup {InlineCapacity}
             /\ larger.cap \in Nat /\ larger.cap > k
<1> DEFINE f == 4 * k
           m == Min({f, MaxCapacity})
           larger == BufferFor(m)
<1>1. k \in Nat /\ k > 0 /\ f \in Nat /\ f > k
  BY Capacities
<1> HIDE DEF f
<1>2. m \in Nat /\ m > k
  BY <1>1, MaxCapacityIs, MinOfTwo
<1> HIDE DEF m
<1>3. /\ larger \in Chunk /\ larger.cap \in SizeClasses \cup {InlineCapacity}
      /\ larger.cap \in Nat \ {0} /\ (larger.cap >= m \/ larger.cap = MaxCapacity)
  BY <1>2, BufferForIs
<1> HIDE DEF larger
<1>4. larger.cap > k
  BY <1>1, <1>2, <1>3
<1>5. QED
  BY <1>3, <1>4 DEF larger, m, f

LEMMA StepNextBuffer == ASSUME VisitInv, NextBuffer PROVE VisitInv'
<1> DEFINE a == EndOf(chunks, Len(chunks))
           s == buffer.data
           n == Len(s)
           larger == BufferFor(Min({4 * buffer.cap, MaxCapacity}))
           next == BufferFor(NextCapacity)
           one == consumed + 1
           c == Commit(chunks, buffer)
<1>1. /\ visit = "fill" /\ n = buffer.cap /\ consumed' = one
      /\ visit' = visit /\ hint' = hint
  BY DEF NextBuffer
<1>2. /\ FillInv /\ consumed \in Nat /\ buffer \in Chunk /\ chunks \in Seq(Chunk)
      /\ hint \in Hints \cup {NoHint}
      /\ Consecutive(chunks) /\ RightSized(chunks) /\ a + n = consumed /\ s = Run(a, n)
  BY <1>1 DEF VisitInv
<1>3. /\ buffer.cap \in SizeClasses \cup {InlineCapacity}
      /\ AllFlat(chunks) /\ OneShort(chunks, Len(chunks))
      /\ \/ chunks = <<>>
         \/ /\ buffer.cap = MaxCapacity
            /\ (\E i \in 1..Len(chunks) : IsShort(chunks, i)) => UsedUp(hint, consumed)
         \/ /\ \A i \in 1..Len(chunks) : ~IsShort(chunks, i)
            /\ UsedUp(hint, consumed - n + buffer.cap)
  BY <1>2 DEF FillInv
<1>4. a \in Nat /\ n \in Nat /\ s \in Seq(Nat) /\ n > 0 /\ one \in Nat
  BY <1>1, <1>2, <1>3, EndIs, Capacities DEF Chunk
<1>5. CASE /\ chunks = <<>> /\ buffer.cap < MaxCapacity
           /\ buffer' = [larger EXCEPT !.data = Append(s, one)] /\ chunks' = chunks
  <2>1. /\ larger \in Chunk /\ larger.cap \in SizeClasses \cup {InlineCapacity}
        /\ larger.cap \in Nat /\ larger.cap > buffer.cap
    BY <1>3, <1>5, LargerIs
  <2> DEFINE e == Append(s, one)
  <2>2. e \in Seq(Nat) /\ Len(e) = n + 1
    BY <1>4
  <2> HIDE DEF larger, a, n, s
  <2>3. one = a + n + 1
    BY <1>2, <1>4
  <2>4. e = Run(a, n + 1)
    BY <1>2, <1>4, <2>3, RunIs
  <2> HIDE DEF e
  <2>5. buffer' = [data |-> e, cap |-> larger.cap]
    BY <1>5, <2>1 DEF Chunk, e
  <2>6. buffer'.data = e /\ buffer'.cap = larger.cap /\ buffer' \in Chunk
    BY <2>1, <2>2, <2>5 DEF Chunk
  <2>7. Len(buffer'.data) <= buffer'.cap
    BY <1>1, <1>4, <2>1, <2>2, <2>6
  <2>8. AllFlat(chunks') /\ OneShort(chunks', Len(chunks'))
    BY <1>3, <1>5
  <2>9. FillInv'
    BY <1>5, <2>1, <2>6, <2>7, <2>8 DEF FillInv
  <2>10. EndOf(chunks', Len(chunks')) = a
    BY <1>5 DEF a
  <2>11. a + (n + 1) = consumed'
    BY <1>1, <1>4, <2>3
  <2>12. QED
    BY <1>1, <1>2, <1>4, <1>5, <2>2, <2>4, <2>6, <2>9, <2>10, <2>11 DEF VisitInv
<1>6. CASE /\ ~(chunks = <<>> /\ buffer.cap < MaxCapacity)
           /\ buffer' = [next EXCEPT !.data = <<one>>] /\ chunks' = c
  <2> DEFINE L == Len(chunks)
  <2>1. /\ c \in Seq(Chunk) /\ Consecutive(c) /\ RightSized(c)
        /\ Len(c) = L + 1 /\ \A i \in 1..L : c[i] = chunks[i]
        /\ c[L + 1].data = s
        /\ chunks # <<>> \/ n > InlineCapacity => AllFlat(c)
        /\ EndOf(c, Len(c)) = a + n
    <3>1. n <= buffer.cap
      BY <1>1, <1>4
    <3>2. QED
      BY <1>2, <1>3, <1>4, <3>1, CommitKeeps
  <2>2. /\ next \in Chunk /\ next.cap \in SizeClasses \cup {InlineCapacity}
        /\ next.cap \in Nat \ {0}
        /\ next.cap = MaxCapacity \/ UsedUp(hint, consumed + next.cap)
        /\ UsedUp(hint, consumed) => next.cap = MaxCapacity
    BY <1>2, NextCapacityIs
  <2>3. L \in Nat /\ \A i \in 1..(L + 1) : i \in 1..L \/ i = L + 1
    BY <1>2
  <2>4. c # <<>>
    BY <2>1, <2>3
  <2> HIDE DEF a, n, c, next, L
  <2>5. chunks = <<>> => buffer.cap = MaxCapacity
    BY <1>3, <1>6, Capacities, MaxCapacityIs
  <2>6. AllFlat(c)
    <3>1. chunks = <<>> => n > InlineCapacity
      BY <1>1, <2>5, Capacities, MaxCapacityIs
    <3>2. QED
      BY <2>1, <3>1
  <2>7. \A i \in 1..L : IsShort(c, i) <=> IsShort(chunks, i)
    BY <2>1 DEF IsShort
  <2>8. IsShort(c, L + 1) <=> n < MaxCapacity
    BY <2>1 DEF IsShort, n
  <2>9. L + 1 \in 1..(L + 1) /\ 1..L \subseteq 1..(L + 1)
    BY <2>3
  <2>10. /\ OneShort(c, L + 1)
         /\ (\E i \in 1..(L + 1) : IsShort(c, i)) => UsedUp(hint, consumed)
    <3>1. CASE chunks = <<>>
      <4>1. L = 0 /\ ~IsShort(c, L + 1)
        BY <1>1, <2>5, <2>8, <3>1, MaxCapacityIs DEF L
      <4>2. \A i \in 1..(L + 1) : ~IsShort(c, i)
        BY <4>1
      <4>3. QED
        BY <4>2 DEF OneShort
    <3>2. CASE /\ buffer.cap = MaxCapacity
               /\ (\E i \in 1..L : IsShort(chunks, i)) => UsedUp(hint, consumed)
      <4>1. ~IsShort(c, L + 1)
        BY <1>1, <2>8, <3>2, MaxCapacityIs
      <4>2. PICK k \in Nat : \A i \in 1..L : IsShort(chunks, i) => i = k
        BY <1>3 DEF OneShort, L
      <4>3. \A i \in 1..(L + 1) : IsShort(c, i) => i \in 1..L /\ IsShort(chunks, i)
        BY <2>3, <2>7, <4>1
      <4>4. \A i \in 1..(L + 1) : IsShort(c, i) => i = k
        BY <4>2, <4>3
      <4>5. QED
        BY <3>2, <4>3, <4>4 DEF OneShort
    <3>3. CASE /\ \A i \in 1..L : ~IsShort(chunks, i)
               /\ UsedUp(hint, consumed - n + buffer.cap)
      <4>1. consumed - n + buffer.cap = consumed
        BY <1>1, <1>2, <1>4
      <4>2. UsedUp(hint, consumed)
        BY <3>3, <4>1
      <4>3. \A i \in 1..(L + 1) : IsShort(c, i) => i = L + 1
        BY <2>3, <2>7, <3>3
      <4>4. L + 1 \in Nat
        BY <2>3
      <4>5. QED
        BY <4>2, <4>3, <4>4 DEF OneShort
    <3>4. QED
      BY <1>3, <3>1, <3>2, <3>3 DEF L
  <2> DEFINE e == <<one>>
  <2>11. e = Run(consumed, 1) /\ e \in Seq(Nat) /\ Len(e) = 1
    BY <1>2, <1>4 DEF Run
  <2> HIDE DEF e
  <2>12. buffer' = [data |-> e, cap |-> next.cap]
    BY <1>6, <2>2 DEF Chunk, e
  <2>13. buffer'.data = e /\ buffer'.cap = next.cap /\ buffer' \in Chunk
    BY <2>2, <2>11, <2>12 DEF Chunk
  <2>14. UsedUp(hint, consumed) => UsedUp(hint, one)
    BY <1>2, VisitAssumption DEF UsedUp
  <2>15. one - 1 + next.cap = consumed + next.cap
    BY <1>2, <2>2
  <2>16. Len(buffer'.data) = 1 /\ 1 <= buffer'.cap /\ Len(chunks') = L + 1
    BY <1>6, <2>1, <2>2, <2>11, <2>13
  <2>17. AllFlat(chunks') /\ OneShort(chunks', Len(chunks'))
    BY <1>6, <2>6, <2>10, <2>16
  <2>18. \/ /\ next.cap = MaxCapacity
            /\ (\E i \in 1..(L + 1) : IsShort(c, i)) => UsedUp(hint, one)
         \/ /\ \A i \in 1..(L + 1) : ~IsShort(c, i)
            /\ UsedUp(hint, one - 1 + next.cap)
    BY <2>2, <2>10, <2>14, <2>15
  <2>19. FillInv'
    BY <1>1, <1>6, <2>2, <2>13, <2>16, <2>17, <2>18 DEF FillInv
  <2>20. EndOf(chunks', Len(chunks')) = consumed
    BY <1>2, <1>6, <2>1
  <2>21. consumed + 1 = consumed' /\ consumed' \in Nat
    BY <1>1, <1>4
  <2>22. /\ EndOf(chunks', Len(chunks')) + Len(buffer'.data) = consumed'
         /\ buffer'.data = Run(EndOf(chunks', Len(chunks')), Len(buffer'.data))
    BY <2>11, <2>13, <2>16, <2>20, <2>21
  <2>23. QED
    BY <1>1, <1>2, <1>6, <2>1, <2>13, <2>19, <2>21, <2>22 DEF VisitInv
<1>7. QED
  BY <1>5, <1>6 DEF NextBuffer

(* The end of the sequence: what is left in the buffer is committed. *)
LEMMA StepEndSequence == ASSUME VisitInv, EndSequence PROVE VisitInv'
<1> DEFINE a == EndOf(chunks, Len(chunks))
           s == buffer.data
           n == Len(s)
           L == Len(chunks)
           c == Commit(chunks, buffer)
<1>1. /\ visit = "fill" /\ visit' = "done" /\ chunks' = c
      /\ buffer' = BufferFor(0) /\ hint' = hint /\ consumed' = consumed
  BY DEF EndSequence
<1>2. /\ FillInv /\ consumed \in Nat /\ buffer \in Chunk /\ chunks \in Seq(Chunk)
      /\ hint \in Hints \cup {NoHint}
      /\ Consecutive(chunks) /\ RightSized(chunks) /\ a + n = consumed /\ s = Run(a, n)
  BY <1>1 DEF VisitInv
<1>3. /\ buffer.cap \in SizeClasses \cup {InlineCapacity} /\ n <= buffer.cap
      /\ AllFlat(chunks) /\ OneShort(chunks, L)
  BY <1>2 DEF FillInv
<1>4. a \in Nat /\ n \in Nat /\ s \in Seq(Nat) /\ L \in Nat
  BY <1>2, EndIs DEF Chunk
<1>5. /\ c \in Seq(Chunk) /\ Consecutive(c) /\ RightSized(c)
      /\ EndOf(c, Len(c)) = consumed /\ OneShort(c, Len(c) - 1)
  <2>1. CASE n = 0
    <3>1. c = chunks
      BY <2>1 DEF Commit
    <3> HIDE DEF c
    <3>2. \A i \in 1..(L - 1) : i \in 1..L
      BY <1>4
    <3>3. OneShort(chunks, L - 1)
      BY <1>3, <3>2 DEF OneShort
    <3>4. a = consumed
      BY <1>2, <1>4, <2>1
    <3>5. QED
      BY <1>2, <3>1, <3>3, <3>4
  <2>2. CASE n # 0
    <3>1. n > 0
      BY <1>4, <2>2
    <3>2. /\ c \in Seq(Chunk) /\ Consecutive(c) /\ RightSized(c)
          /\ Len(c) = L + 1 /\ \A i \in 1..L : c[i] = chunks[i]
          /\ EndOf(c, Len(c)) = a + n
      BY <1>2, <1>3, <3>1, CommitKeeps
    <3> HIDE DEF c
    <3>3. \A i \in 1..L : IsShort(c, i) <=> IsShort(chunks, i)
      BY <3>2 DEF IsShort
    <3>4. OneShort(c, L)
      BY <1>3, <3>3 DEF OneShort
    <3>5. Len(c) - 1 = L
      BY <1>4, <3>2
    <3>6. QED
      BY <1>2, <3>2, <3>4, <3>5
  <2>3. QED
    BY <2>1, <2>2
<1> HIDE DEF c
<1>6. buffer' \in Chunk /\ buffer'.data = <<>> /\ Len(buffer'.data) = 0
  BY <1>1, BufferForIs
<1>7. Run(consumed, 0) = <<>>
  BY DEF Run
<1>8. /\ EndOf(chunks', Len(chunks')) + Len(buffer'.data) = consumed'
      /\ buffer'.data = Run(EndOf(chunks', Len(chunks')), Len(buffer'.data))
  BY <1>1, <1>2, <1>5, <1>6, <1>7
<1>9. QED
  BY <1>1, <1>2, <1>5, <1>6, <1>8 DEF VisitInv

(* The sequence fails: the cord and the buffer are dropped. *)
LEMMA StepSequenceFails == ASSUME VisitInv, SequenceFails PROVE VisitInv'
<1>1. /\ visit' = "failed" /\ chunks' = <<>>
      /\ buffer' = BufferFor(0) /\ hint' = hint /\ consumed' = consumed
  BY DEF SequenceFails
<1>2. /\ chunks' \in Seq(Chunk) /\ Consecutive(chunks') /\ RightSized(chunks')
  BY <1>1, NoChunks
<1>3. buffer' \in Chunk
  BY <1>1, BufferForIs
<1>4. hint' \in Hints \cup {NoHint} /\ consumed' \in Nat
  BY <1>1 DEF VisitInv
<1>5. QED
  BY <1>1, <1>2, <1>3, <1>4 DEF VisitInv

LEMMA VisitInductive == ASSUME VisitInv, [VisitNext]_visitVars PROVE VisitInv'
<1>1. CASE UNCHANGED visitVars
  BY <1>1 DEF visitVars, VisitInv, FillInv, OneShort, IsShort, AllFlat, UsedUp,
              Consecutive, GoesOn, RightSized, EndOf, Run
<1>2. QED
  BY <1>1, StepFillSlot, StepNextBuffer, StepEndSequence, StepSequenceFails DEF VisitNext

(* The invariant says what SequenceKept does. *)
LEMMA VisitInvKeeps == ASSUME VisitInv PROVE SequenceKept
<1> DEFINE L == Len(chunks)
           S == {i \in 1..(L - 1) : Len(chunks[i].data) < MaxCapacity}
<1>1. chunks \in Seq(Chunk) /\ L \in Nat /\ DOMAIN chunks = 1..L /\ buffer \in Chunk
  BY DEF VisitInv
<1>2. visit # "failed" => Staged = [i \in 1..consumed |-> i]
  <2>1. SUFFICES ASSUME visit # "failed" PROVE Staged = [i \in 1..consumed |-> i]
    OBVIOUS
  <2> DEFINE n == Len(buffer.data)
  <2>2. n \in Nat /\ buffer.data = Run(EndOf(chunks, L), n) /\ EndOf(chunks, L) + n = consumed
        /\ Consecutive(chunks) /\ consumed \in Nat
    BY <1>1, <2>1 DEF VisitInv, Chunk
  <2> HIDE DEF n
  <2>3. Staged = Run(0, consumed)
    BY <1>1, <2>2, StagedIs
  <2>4. Run(0, consumed) = [i \in 1..consumed |-> i]
    <3>1. \A i \in 1..consumed : 0 + i = i
      BY <2>2
    <3>2. QED
      BY <3>1 DEF Run
  <2>5. QED
    BY <2>3, <2>4
<1>3. \A i \in DOMAIN chunks : chunks[i].cap \in {0, CapacityFor(Len(chunks[i].data))}
  BY <1>1 DEF VisitInv, RightSized
<1>4. \E k \in Nat : S \subseteq {k}
  <2>1. OneShort(chunks, L - 1)
    <3>1. CASE visit = "fill"
      <4>1. OneShort(chunks, L)
        BY <3>1 DEF VisitInv, FillInv
      <4>2. \A i \in 1..(L - 1) : i \in 1..L
        BY <1>1
      <4>3. QED
        BY <4>1, <4>2 DEF OneShort
    <3>2. CASE visit = "failed"
      <4>1. L = 0
        BY <3>2 DEF VisitInv
      <4>2. \A i \in 1..(L - 1) : FALSE
        BY <4>1
      <4>3. QED
        BY <4>2 DEF OneShort
    <3>3. QED
      BY <3>1, <3>2 DEF VisitInv
  <2>2. QED
    BY <2>1 DEF OneShort, IsShort
<1> HIDE DEF S
<1>5. Cardinality(S) <= 1
  <2>1. PICK k \in Nat : S \in SUBSET {k}
    BY <1>4
  <2>2. IsFiniteSet({k}) /\ Cardinality({k}) = 1
    BY FS_Singleton
  <2>3. QED
    BY <2>1, <2>2, FS_Subset
<1>6. QED
  BY <1>2, <1>3, <1>5 DEF SequenceKept, S

(***************************************************************************)
(* Every reachable state of a visit_seq satisfies the invariant: a buffer  *)
(* that is smaller than the largest one is the first or takes all that the *)
(* hint still promises, at most one short chunk is in the tree, and then   *)
(* the hint is used up.                                                    *)
(***************************************************************************)
THEOREM VisitInvariance == VisitSpec => []VisitInv
<1>1. VisitInit => VisitInv
  BY InitVisit
<1>2. VisitInv /\ [VisitNext]_visitVars => VisitInv'
  BY VisitInductive
<1>3. QED
  BY <1>1, <1>2, PTL DEF VisitSpec

(***************************************************************************)
(* Whatever the hint says and wherever the sequence ends, visit_seq keeps  *)
(* every element in order, every chunk is in the size class its bytes      *)
(* need, and at most one chunk ahead of the last is short.                 *)
(***************************************************************************)
THEOREM SequenceIsKept == VisitSpec => []SequenceKept
<1>1. VisitInv => SequenceKept
  BY VisitInvKeeps
<1>2. QED
  BY <1>1, VisitInvariance, PTL

-----------------------------------------------------------------------------
(* ByteSinks *)

USE SinkAssumption

Bytes == Seq(Nat)

(***************************************************************************)
(* The invariant of ByteSinks: what BytesKept says of the cord and the     *)
(* buffer together, and that nothing is buffered between the calls.        *)
(***************************************************************************)
SinkInv ==
    /\ sink \in {"none", "extend", "writer", "buffer", "filling"}
    /\ bytes \in Bytes /\ filled \in Bytes /\ spare \in Bytes /\ written \in Bytes
    /\ room \in Int
    /\ bytes \o filled = Given \o written
    /\ sink = "none" => filled = <<>>

(* The state w of a writer holds exactly the bytes s. *)
HoldsBytes(w, s) ==
    /\ w \in [bytes : Bytes, filled : Bytes, room : Int]
    /\ w.bytes \o w.filled = s

(* The bytes handed over next are a sequence. *)
LEMMA FreshType ==
  ASSUME NEW n \in Nat, written \in Bytes, spare \in Bytes
  PROVE  Fresh(n) \in Bytes /\ Len(Fresh(n)) = n
<1>1. Len(Given) \in Nat /\ Len(written) \in Nat /\ Len(spare) \in Nat
  BY DEF Bytes
<1>2. \A i \in 1..n : Len(Given) + Len(written) + Len(spare) + i \in Nat
  BY <1>1
<1>3. Fresh(n) \in [1..n -> Nat]
  BY <1>2 DEF Fresh
<1>4. QED
  BY <1>3 DEF Bytes

(* Concatenation of byte strings *)
LEMMA ConcatBytes ==
  ASSUME NEW a \in Bytes, NEW b \in Bytes
  PROVE  a \o b \in Bytes /\ a \o <<>> = a /\ <<>> \in Bytes /\ Len(a \o b) = Len(a) + Len(b)
BY ConcatProperties, ConcatEmptySeq DEF Bytes

LEMMA ConcatBytesAssoc ==
  ASSUME NEW a \in Bytes, NEW b \in Bytes, NEW c \in Bytes
  PROVE  (a \o b) \o c = a \o (b \o c)
BY DEF Bytes

(* flush moves the buffer's bytes behind the cord's. *)
LEMMA FlushedHolds ==
  ASSUME NEW w, NEW s, HoldsBytes(w, s)
  PROVE  HoldsBytes(Flushed(w), s) /\ Flushed(w).bytes = s /\ Flushed(w).filled = <<>>
<1>1. w.bytes \o w.filled \in Bytes
  BY ConcatBytes DEF HoldsBytes
<1>2. (w.bytes \o w.filled) \o <<>> = w.bytes \o w.filled
  BY <1>1, ConcatBytes
<1>3. <<>> \in Bytes /\ NoBuffer \in Int
  BY DEF Bytes, NoBuffer
<1>4. QED
  BY <1>1, <1>2, <1>3 DEF HoldsBytes, Flushed

(* take_append_buffer splits the cord in two: nothing is lost in between. *)
LEMMA TakenHolds ==
  ASSUME NEW w, w.bytes \in Bytes, NEW k \in 0..Len(w.bytes), NEW r \in Rooms
  PROVE  HoldsBytes(TakeAppendBuffer(w, k, r), w.bytes)
<1> DEFINE b == w.bytes
           n == Len(b)
<1>1. b \in Seq(Nat) /\ n \in Nat /\ DOMAIN b = 1..n /\ \A i \in 1..n : b[i] \in Nat
  BY LenProperties DEF Bytes
<1>2. SubSeq(b, 1, n - k) \in Bytes /\ SubSeq(b, n - k + 1, n) \in Bytes
  BY <1>1, SubSeqProperties DEF Bytes
<1>3. SubSeq(b, 1, n - k) \o SubSeq(b, n - k + 1, n) = SubSeq(b, 1, n)
  <2>1. 1 \in 1..(n + 1) /\ n - k \in (1 - 1)..n /\ n \in (n - k)..n
    BY <1>1
  <2>2. QED
    BY <1>1, <2>1, ConcatAdjacentSubSeq
<1>4. SubSeq(b, 1, n) = b
  BY <1>1, SubSeqFull
<1>5. r \in Int
  OBVIOUS
<1>6. QED
  BY <1>2, <1>3, <1>4, <1>5 DEF HoldsBytes, TakeAppendBuffer

(* buffer_mut keeps all bytes, whether it keeps the buffer or fetches one. *)
LEMMA BufferMutHolds ==
  ASSUME SinkInv, NEW k \in Tails, NEW r \in Rooms
  PROVE  HoldsBytes(BufferMut(k, r), bytes \o filled)
<1>1. HoldsBytes(Writer, bytes \o filled)
  BY DEF SinkInv, HoldsBytes, Writer
<1>2. HoldsBytes(Flushed(Writer), bytes \o filled) /\ Flushed(Writer).bytes = bytes \o filled
  BY <1>1, FlushedHolds
<1>3. k \in 0..Len(bytes \o filled) /\ bytes \o filled \in Bytes
  BY ConcatProperties DEF SinkInv, Tails, Bytes
<1>4. HoldsBytes(TakeAppendBuffer(Flushed(Writer), k, r), bytes \o filled)
  BY <1>2, <1>3, TakenHolds
<1>5. QED
  BY <1>1, <1>4 DEF BufferMut

(* A writer's step that leaves all bytes where SinkInv wants them. *)
LEMMA BecomeInv ==
  ASSUME SinkInv, NEW w, Become(w), spare' = spare, written' \in Bytes,
         HoldsBytes(w, Given \o written'),
         sink' \in {"none", "extend", "writer", "buffer", "filling"},
         sink' = "none" => w.filled = <<>>
  PROVE  SinkInv'
BY DEF Become, HoldsBytes, SinkInv

(* n new bytes go to the buffer of a writer, or behind the cord's. *)
LEMMA FilledHolds ==
  ASSUME SinkInv, NEW w, HoldsBytes(w, bytes \o filled), NEW n \in Nat
  PROVE  /\ HoldsBytes(Filled(w, n), Given \o (written \o Fresh(n)))
         /\ HoldsBytes(Appended(w, n), Given \o (written \o Fresh(n)))
         /\ written \o Fresh(n) \in Bytes
<1>1. Fresh(n) \in Bytes /\ written \in Bytes
  BY FreshType DEF SinkInv
<1>2. w.bytes \in Bytes /\ w.filled \in Bytes /\ w.room - n \in Int
      /\ w.bytes \o w.filled = Given \o written
  BY DEF HoldsBytes, SinkInv
<1>3. /\ w.filled \o Fresh(n) \in Bytes /\ written \o Fresh(n) \in Bytes
      /\ w.bytes \o (w.filled \o Fresh(n)) = Given \o (written \o Fresh(n))
      /\ (w.bytes \o w.filled) \o Fresh(n) = Given \o (written \o Fresh(n))
      /\ w.bytes \o w.filled \in Bytes
  <2>0. Given \in Bytes
    BY DEF Bytes
  <2>1. /\ w.bytes \o (w.filled \o Fresh(n)) = Given \o (written \o Fresh(n))
        /\ (w.bytes \o w.filled) \o Fresh(n) = Given \o (written \o Fresh(n))
    <3>1. (w.bytes \o w.filled) \o Fresh(n) = w.bytes \o (w.filled \o Fresh(n))
      BY <1>1, <1>2, ConcatBytesAssoc
    <3>2. (Given \o written) \o Fresh(n) = Given \o (written \o Fresh(n))
      BY <1>1, <2>0, ConcatBytesAssoc
    <3>3. QED
      BY <1>2, <3>1, <3>2
  <2>2. w.filled \o Fresh(n) \in Bytes /\ written \o Fresh(n) \in Bytes /\ w.bytes \o w.filled \in Bytes
    BY <1>1, <1>2, ConcatBytes
  <2>3. QED
    BY <2>1, <2>2
<1>4. HoldsBytes(Filled(w, n), Given \o (written \o Fresh(n)))
  BY <1>2, <1>3 DEF HoldsBytes, Filled
<1>5. HoldsBytes(Appended(w, n), Given \o (written \o Fresh(n)))
  <2>2. (w.bytes \o w.filled) \o Fresh(n) \in Bytes
    BY <1>1, <1>3, ConcatBytes
  <2>3. ((w.bytes \o w.filled) \o Fresh(n)) \o <<>> = (w.bytes \o w.filled) \o Fresh(n)
    BY <2>2, ConcatBytes
  <2>4. <<>> \in Bytes /\ NoBuffer \in Int
    BY DEF Bytes, NoBuffer
  <2>5. QED
    BY <1>3, <2>2, <2>3, <2>4 DEF HoldsBytes, Appended
<1>6. QED
  BY <1>3, <1>4, <1>5

(* The writer as it is, flushed or not, holds all the bytes handed over. *)
LEMMA WriterHolds ==
  ASSUME SinkInv
  PROVE  /\ HoldsBytes(Writer, Given \o written)
         /\ HoldsBytes(Flushed(Writer), Given \o written)
         /\ Flushed(Writer).filled = <<>>
<1>1. HoldsBytes(Writer, Given \o written)
  BY DEF SinkInv, HoldsBytes, Writer
<1>2. QED
  BY <1>1, FlushedHolds

-----------------------------------------------------------------------------
(* Extend<u8> for Cord *)
LEMMA ExtendInv ==
  ASSUME SinkInv, BeginExtend \/ NextByte \/ EndExtend \/ NextPanics
  PROVE  SinkInv'
<1>1. CASE BeginExtend
  <2>1. filled = <<>> /\ ChunkSize \in Int
    BY <1>1 DEF BeginExtend, SinkInv
  <2>2. QED
    BY <1>1, <2>1 DEF BeginExtend, SinkInv
<1>2. CASE NextByte
  <2> DEFINE all == filled \o Fresh(1)
  <2>1. HoldsBytes(Filled(Writer, 1), Given \o (written \o Fresh(1)))
        /\ written \o Fresh(1) \in Bytes
    <3>1. HoldsBytes(Writer, bytes \o filled) /\ 1 \in Nat
      BY WriterHolds DEF SinkInv
    <3>2. QED
      BY <3>1, FilledHolds
  <2>2. all \in Bytes /\ bytes \o all = Given \o (written \o Fresh(1))
    BY <2>1 DEF HoldsBytes, Filled, Writer
  <2>3. bytes \o all \in Bytes /\ (bytes \o all) \o <<>> = bytes \o all /\ <<>> \in Bytes
    BY <2>2, ConcatBytes DEF SinkInv
  <2>4. CASE Len(all) = ChunkSize
    <3>1. bytes' = bytes \o all /\ filled' = <<>> /\ room' \in Int
          /\ written' = written \o Fresh(1) /\ sink' = "extend" /\ spare' = spare
      BY <1>2, <2>4 DEF NextByte
    <3> HIDE DEF all
    <3>2. QED
      BY <2>1, <2>2, <2>3, <3>1 DEF SinkInv
  <2>5. CASE Len(all) # ChunkSize
    <3>1. bytes' = bytes /\ filled' = all /\ room' \in Int
          /\ written' = written \o Fresh(1) /\ sink' = "extend" /\ spare' = spare
      BY <1>2, <2>5 DEF NextByte, SinkInv
    <3> HIDE DEF all
    <3>2. QED
      BY <2>1, <2>2, <3>1 DEF SinkInv
  <2>6. QED
    BY <2>4, <2>5
<1>3. ASSUME bytes' = bytes \o filled, sink' = "none", filled' = <<>>, room' = NoBuffer,
             written' = written, spare' = spare
      PROVE  SinkInv'
  <2>1. bytes \o filled \in Bytes /\ (bytes \o filled) \o <<>> = bytes \o filled /\ <<>> \in Bytes
    BY ConcatBytes DEF SinkInv
  <2>2. QED
    BY <1>3, <2>1 DEF SinkInv, NoBuffer
<1>4. CASE EndExtend
  BY <1>3, <1>4 DEF EndExtend, DropGuard
<1>5. CASE NextPanics
  <2>1. bytes \o <<>> = bytes
    BY ConcatBytes DEF SinkInv
  <2>2. QED
    BY <1>3, <1>5, <2>1 DEF NextPanics, DropGuard
<1>6. QED
  BY <1>1, <1>2, <1>4, <1>5

(* CordWriter *)
LEMMA WriterInv ==
  ASSUME SinkInv, NewWriter \/ ChunkMut \/ Flush \/ EndWriter
  PROVE  SinkInv'
<1>0. written \in Bytes /\ bytes \o filled = Given \o written
  BY DEF SinkInv
<1>1. CASE NewWriter
  BY <1>1 DEF NewWriter, SinkInv
<1>2. CASE ChunkMut
  <2>1. PICK k \in Tails, r \in Rooms : Become(BufferMut(k, r))
    BY <1>2 DEF ChunkMut
  <2>2. HoldsBytes(BufferMut(k, r), Given \o written)
    BY <1>0, BufferMutHolds
  <2>3. QED
    BY <1>0, <1>2, <2>1, <2>2, BecomeInv DEF ChunkMut
<1>3. CASE Flush
  BY <1>0, <1>3, WriterHolds, BecomeInv DEF Flush
<1>4. CASE EndWriter
  BY <1>0, <1>4, WriterHolds, BecomeInv DEF EndWriter
<1>5. QED
  BY <1>1, <1>2, <1>3, <1>4

(* put_slice and advance_mut of CordWriter *)
LEMMA WriteInv ==
  ASSUME SinkInv, NEW n \in 0..SinkBound, PutSlice(n) \/ AdvanceMut(n)
  PROVE  SinkInv'
<1>0. n \in Nat /\ bytes \o filled = Given \o written
  BY DEF SinkInv
<1>1. CASE PutSlice(n)
  <2>1. PICK k \in Tails, r \in Rooms :
          IF n <= BufferMut(k, r).room
          THEN Become(Filled(BufferMut(k, r), n))
          ELSE Become(Appended(BufferMut(k, r), n))
    BY <1>1 DEF PutSlice
  <2>2. HoldsBytes(BufferMut(k, r), bytes \o filled)
    BY BufferMutHolds
  <2>3. QED
    BY <1>0, <1>1, <2>1, <2>2, FilledHolds, BecomeInv DEF PutSlice
<1>2. HoldsBytes(Writer, bytes \o filled)
  BY <1>0, WriterHolds
<1>3. CASE AdvanceMut(n)
  <2>1. HoldsBytes(Filled(Writer, n), Given \o (written \o Fresh(n)))
        /\ written \o Fresh(n) \in Bytes
    BY <1>0, <1>2, FilledHolds
  <2>2. HoldsBytes(Flushed(Filled(Writer, n)), Given \o (written \o Fresh(n)))
    BY <2>1, FlushedHolds
  <2>3. QED
    BY <1>3, <2>1, <2>2, BecomeInv DEF AdvanceMut
<1>4. QED
  BY <1>1, <1>3

(* take_append_buffer by the program, and the buffer's way back *)
LEMMA BufferInv ==
  ASSUME SinkInv, TakeBuffer \/ AppendBuffer
  PROVE  SinkInv'
<1>0. written \in Bytes
  BY DEF SinkInv
<1>1. CASE TakeBuffer
  <2>1. PICK k \in Tails, r \in Rooms : Become(TakeAppendBuffer(Writer, k, r))
    BY <1>1 DEF TakeBuffer
  <2>2. filled = <<>> /\ bytes \in Bytes /\ bytes \o <<>> = bytes /\ Len(<<>>) = 0
    BY <1>1, ConcatEmptySeq DEF TakeBuffer, SinkInv, Bytes
  <2>3. Writer.bytes = Given \o written /\ Writer.bytes = bytes /\ k \in 0..Len(bytes)
    BY <2>2 DEF SinkInv, Writer, Tails, Bytes
  <2>4. HoldsBytes(TakeAppendBuffer(Writer, k, r), Given \o written)
    BY <2>2, <2>3, TakenHolds
  <2>5. QED
    BY <1>0, <1>1, <2>1, <2>4, BecomeInv DEF TakeBuffer
<1>2. CASE AppendBuffer
  BY <1>0, <1>2, WriterHolds, BecomeInv DEF AppendBuffer
<1>3. QED
  BY <1>1, <1>2

(* Extend<u8> for CordBuffer *)
LEMMA BufferExtendInv ==
  ASSUME SinkInv, BeginBufferExtend \/ NextSlot \/ EndBufferExtend \/ BufferNextPanics
  PROVE  SinkInv'
<1>0. <<>> \in Bytes /\ Given \in Bytes
  BY DEF Bytes
<1>1. CASE BeginBufferExtend
  BY <1>0, <1>1 DEF BeginBufferExtend, SinkInv
<1>2. CASE NextSlot
  <2>1. Fresh(1) \in Bytes
    BY FreshType DEF SinkInv
  <2>2. spare \o Fresh(1) \in Bytes
    BY <2>1, ConcatBytes DEF SinkInv
  <2>3. QED
    BY <1>2, <2>2 DEF NextSlot, SinkInv
<1>3. CASE EndBufferExtend
  <2>1. filled \o spare \in Bytes /\ written \o spare \in Bytes
    BY ConcatBytes DEF SinkInv
  <2>2. bytes \o (filled \o spare) = (bytes \o filled) \o spare
    BY ConcatBytesAssoc DEF SinkInv
  <2>3. (Given \o written) \o spare = Given \o (written \o spare)
    BY <1>0, ConcatBytesAssoc DEF SinkInv
  <2>4. room - Len(spare) \in Int
    BY DEF SinkInv, Bytes
  <2>5. QED
    BY <1>0, <1>3, <2>1, <2>2, <2>3, <2>4 DEF EndBufferExtend, SinkInv
<1>4. CASE BufferNextPanics
  BY <1>0, <1>4 DEF BufferNextPanics, SinkInv
<1>5. QED
  BY <1>1, <1>2, <1>3, <1>4

(* Nothing was handed over at the start. *)
LEMMA SinkInitInv == SinkInit => SinkInv
<1>1. Given \o <<>> = Given /\ <<>> \in Bytes /\ Given \in Bytes /\ NoBuffer \in Int
  BY ConcatEmptySeq DEF Bytes, NoBuffer
<1>2. QED
  BY <1>1 DEF SinkInit, SinkInv

(* The bytes of the cord and of the buffer are those handed over, always.  *)
THEOREM SinkInvariance == SinkSpec => []SinkInv
<1>1. SinkInv /\ [SinkNext]_sinkVars => SinkInv'
  <2> SUFFICES ASSUME SinkInv, [SinkNext]_sinkVars PROVE SinkInv'
    OBVIOUS
  <2>1. CASE UNCHANGED sinkVars
    BY <2>1 DEF sinkVars, SinkInv
  <2>2. CASE SinkNext
    BY <2>2, ExtendInv, WriterInv, WriteInv, BufferInv, BufferExtendInv
       DEF SinkNext
  <2>3. QED
    BY <2>1, <2>2
<1>2. QED
  BY <1>1, SinkInitInv, PTL DEF SinkSpec

(***************************************************************************)
(* Extend for Cord, CordWriter and append buffers lose, repeat and reorder *)
(* no byte that was handed over, and leave all of them in the cord when    *)
(* they are done, for buffers of any size; a panic of the iterator costs   *)
(* Extend for Cord none, and Extend for CordBuffer only those of the call. *)
(***************************************************************************)
THEOREM NoByteIsLost == SinkSpec => []BytesKept
<1>1. SinkInv => BytesKept
  <2> SUFFICES ASSUME SinkInv PROVE BytesKept
    OBVIOUS
  <2>1. bytes \o <<>> = bytes
    BY ConcatBytes DEF SinkInv
  <2>2. QED
    BY <2>1 DEF SinkInv, BytesKept
<1>2. QED
  BY <1>1, SinkInvariance, PTL
=============================================================================
