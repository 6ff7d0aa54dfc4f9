------------------------ MODULE ExternalOwnerProofs ------------------------
(***************************************************************************)
(* The reference counts of external nodes and of the leaves above them are *)
(* exact, and no owner is dropped early or forgotten, for any owners,      *)
(* leaves and variables and whatever as_ref and the destructors do.        *)
(***************************************************************************)
EXTENDS ExternalOwner, FiniteSetTheorems, FunctionTheorems, SequenceTheorems, TLAPS

(* A step changes a number by d. *)
Delta(new, old, d) == new = old + d

(* 1 for the thing that is looked for *)
Is(a, n) == IF a = n THEN 1 ELSE 0

(* The number of keys whose value is n *)
Held(n, keys, f) == Cardinality({k \in keys : f[k] = n})

(* The leaves that are in use: the edges of others hold nothing. *)
Live(cnt) == {l \in Leaves : cnt[l] > 0}

Refs(n, rs, inn, es, cnt, ls) ==
    Held(n, Vars, rs) + Held(n, Owners, inn) + OccurrencesIn(n, es, Live(cnt)) + InLoops(n, ls)

LoopType == [leaf : Leaves \cup {NoNode}, edges : Seq(Nodes)]

OwnerTypes ==
    /\ place \in [Owners -> {"program", "guarded", "node", "dropped"}]
    /\ count \in [Nodes -> Nat]
    /\ edges \in [Leaves -> Seq(Owners)]
    /\ inner \in [Owners -> Nodes \cup {NoNode}]
    /\ roots \in [Vars -> Nodes \cup {NoNode}]
    /\ guard \in [owner : UserOwners, into : Vars] \cup {NoGuard}
    /\ loops \in Seq(LoopType)
    /\ lost \in [Nodes -> Nat]

(* The variable that as_ref's cord is for is kept free. *)
GuardFree == guard # NoGuard => roots[guard.into] = NoNode

(* Where an owner is, told from its count and the guard *)
PlacesKept ==
    \A o \in Owners :
      \/ place[o] = "node" /\ count[o] > 0 /\ guard.owner # o
      \/ place[o] = "guarded" /\ count[o] = 1 /\ guard.owner = o
      \/ place[o] \in {"program", "dropped"} /\ count[o] = 0 /\ guard.owner # o

(* Only a user's owner holds a cord, and only while the library has it. *)
InnerKept ==
    \A o \in Owners : inner[o] # NoNode => o \in UserOwners /\ place[o] \in {"guarded", "node"}

(* The leaf of a loop is not in use any more. *)
LoopsKept == \A i \in 1..Len(loops) : loops[i].leaf \in Leaves => count[loops[i].leaf] = 0

(* The guard owns the node that it is for. *)
CountKept(n) ==
    count[n] = Refs(n, roots, inner, edges, count, loops) + lost[n] + Is(guard.owner, n)

CountsKept == \A n \in Nodes : CountKept(n)

(* Only a panic loses references. *)
LostKept == panicked = "no" => \A n \in Nodes : lost[n] = 0

OwnerInv ==
    /\ OwnerTypes
    /\ GuardFree
    /\ PlacesKept
    /\ InnerKept
    /\ LoopsKept
    /\ CountsKept
    /\ LostKept

-----------------------------------------------------------------------------
(* Counting *)
LEMMA IsType == ASSUME NEW a, NEW n PROVE Is(a, n) \in {0, 1}
BY DEF Is

LEMMA HeldType ==
  ASSUME NEW n, NEW K, IsFiniteSet(K), NEW f
  PROVE  Held(n, K, f) \in Nat
<1> DEFINE S == {k \in K : f[k] = n}
<1>1. S \in SUBSET K
  OBVIOUS
<1> HIDE DEF S
<1>2. IsFiniteSet(S)
  BY <1>1, FS_Subset
<1>3. QED
  BY <1>2, FS_CardinalityType DEF Held, S

(* With and without one key *)
LEMMA HeldSplit ==
  ASSUME NEW n, NEW K, IsFiniteSet(K), NEW f, NEW k \in K
  PROVE  Held(n, K, f) = Held(n, K \ {k}, f) + Is(f[k], n)
<1> DEFINE S == {j \in K : f[j] = n}
           T == {j \in K \ {k} : f[j] = n}
<1>1. S \in SUBSET K /\ T = S \ {k} /\ (k \in S <=> f[k] = n)
  OBVIOUS
<1>2. Held(n, K, f) = Cardinality(S) /\ Held(n, K \ {k}, f) = Cardinality(T)
  BY DEF Held
<1> HIDE DEF S, T
<1>3. IsFiniteSet(S) /\ Cardinality(S) \in Nat
  BY <1>1, FS_Subset, FS_CardinalityType
<1>4. Cardinality(S \ {k}) = IF k \in S THEN Cardinality(S) - 1 ELSE Cardinality(S)
  BY <1>3, FS_RemoveElement
<1>5. QED
  BY <1>1, <1>2, <1>3, <1>4 DEF Is

LEMMA HeldSame ==
  ASSUME NEW n, NEW K, NEW f, NEW g, \A k \in K : f[k] = g[k]
  PROVE  Held(n, K, f) = Held(n, K, g)
<1>1. {k \in K : f[k] = n} = {k \in K : g[k] = n}
  OBVIOUS
<1>2. QED
  BY <1>1 DEF Held

(* One key gets another value, v for u. *)
Replaced(f, g, K, k, u, v) == f[k] = u /\ g[k] = v /\ \A j \in K \ {k} : g[j] = f[j]

LEMMA HeldReplaced ==
  ASSUME NEW n, NEW K, IsFiniteSet(K), NEW k \in K, NEW f, NEW g, NEW u, NEW v,
         Replaced(f, g, K, k, u, v)
  PROVE  Held(n, K, g) + Is(u, n) = Held(n, K, f) + Is(v, n)
<1> DEFINE h == Held(n, K \ {k}, f)
<1>1. IsFiniteSet(K \ {k})
  BY FS_RemoveElement
<1>2. h \in Nat
  BY <1>1, HeldType
<1>3. Held(n, K \ {k}, g) = h
  <2>1. \A j \in K \ {k} : g[j] = f[j]
    BY DEF Replaced
  <2>2. QED
    BY <2>1, HeldSame
<1>4. Held(n, K, f) = h + Is(f[k], n)
  BY HeldSplit
<1>5. Held(n, K, g) = h + Is(g[k], n)
  BY <1>3, HeldSplit
<1>6. f[k] = u /\ g[k] = v
  BY DEF Replaced
<1> HIDE DEF h
<1>7. QED
  BY <1>2, <1>4, <1>5, <1>6, IsType

LEMMA ReplacedExcept ==
  ASSUME NEW K, NEW V, NEW f \in [K -> V], NEW k \in K, NEW v, NEW g, g = [f EXCEPT ![k] = v],
         NEW u, u = f[k]
  PROVE  Replaced(f, g, K, k, u, v)
BY DEF Replaced

(* What is held, a member is there for. *)
LEMMA HeldSome ==
  ASSUME NEW n, NEW K, IsFiniteSet(K), NEW f, NEW k \in K, f[k] = n
  PROVE  Held(n, K, f) > 0
<1>1. IsFiniteSet(K \ {k})
  BY FS_RemoveElement
<1>2. Held(n, K \ {k}, f) \in Nat
  BY <1>1, HeldType
<1>3. QED
  BY <1>2, HeldSplit DEF Is

LEMMA HeldNone ==
  ASSUME NEW n, NEW K, NEW f, \A k \in K : f[k] # n
  PROVE  Held(n, K, f) = 0
<1>1. {k \in K : f[k] = n} = {}
  OBVIOUS
<1>2. QED
  BY <1>1, FS_EmptySet DEF Held

-----------------------------------------------------------------------------
(* The occurrences of a node in a sequence of edges *)
LEMMA OccurrencesHeld == ASSUME NEW n, NEW s PROVE Occurrences(n, s) = Held(n, 1..Len(s), s)
BY DEF Occurrences, Held

LEMMA OccurrencesType ==
  ASSUME NEW n, NEW T, NEW s \in Seq(T)
  PROVE  Occurrences(n, s) \in Nat
<1>1. IsFiniteSet(1..Len(s))
  BY FS_Interval
<1>2. QED
  BY <1>1, HeldType, OccurrencesHeld

LEMMA OccurrencesEmpty == ASSUME NEW n PROVE Occurrences(n, <<>>) = 0
<1>1. {i \in 1..Len(<<>>) : <<>>[i] = n} = {}
  OBVIOUS
<1>2. QED
  BY <1>1, FS_EmptySet DEF Occurrences

LEMMA OccurrencesAppend ==
  ASSUME NEW n, NEW T, NEW s \in Seq(T), NEW e
  PROVE  Occurrences(n, Append(s, e)) = Occurrences(n, s) + Is(e, n)
<1> DEFINE t == Append(s, e)
           L == Len(s)
<1>1. L \in Nat
  OBVIOUS
<1>2. Len(t) = L + 1 /\ t[L + 1] = e /\ \A i \in 1..L : t[i] = s[i]
  <2>1. s \in Seq(T \cup {e}) /\ e \in T \cup {e}
    <3>1. s \in [1..Len(s) -> T]
      OBVIOUS
    <3>2. s \in [1..Len(s) -> T \cup {e}]
      BY <3>1
    <3>3. QED
      BY <1>1, <3>2
  <2>2. QED
    BY <2>1, AppendProperties
<1> HIDE DEF t
<1>3. L + 1 \in 1..(L + 1) /\ (1..(L + 1)) \ {L + 1} = 1..L
  BY <1>1
<1>4. IsFiniteSet(1..(L + 1))
  BY <1>1, FS_Interval
<1>5. Held(n, 1..(L + 1), t) = Held(n, 1..L, t) + Is(e, n)
  BY <1>2, <1>3, <1>4, HeldSplit
<1>6. Held(n, 1..L, t) = Held(n, 1..L, s)
  BY <1>2, HeldSame
<1>7. QED
  BY <1>2, <1>5, <1>6, OccurrencesHeld DEF t

(* A round of a loop takes the first of its references. *)
LEMMA OccurrencesTail ==
  ASSUME NEW n, NEW T, NEW s \in Seq(T), s # <<>>
  PROVE  Occurrences(n, s) = Occurrences(n, Tail(s)) + Is(Head(s), n)
<1> DEFINE t == Tail(s)
           L == Len(s)
           A == {i \in 1..(L - 1) : t[i] = n}
           B == {i \in (1..L) \ {1} : s[i] = n}
           f == [i \in A |-> i + 1]
<1>1. L \in Nat /\ L > 0 /\ Head(s) = s[1]
  BY EmptySeq
<1>2. t \in Seq(T) /\ Len(t) = L - 1 /\ \A i \in 1..(L - 1) : t[i] = s[i + 1]
  BY HeadTailProperties
<1> HIDE DEF t, L
<1>3. f \in Bijection(A, B)
  <2>1. ASSUME NEW i \in A PROVE i + 1 \in B
    BY <1>1, <1>2
  <2>2. f \in [A -> B]
    BY <2>1
  <2>3. ASSUME NEW i \in A, NEW j \in A, i # j PROVE f[i] # f[j]
    BY <1>1, <2>3
  <2>4. ASSUME NEW j \in B PROVE \E i \in A : f[i] = j
    <3>1. j - 1 \in A /\ (j - 1) + 1 = j
      BY <1>1, <1>2
    <3>2. f[j - 1] = j
      BY <3>1
    <3>3. QED
      BY <3>1, <3>2
  <2> HIDE DEF f, A, B
  <2>5. f \in Injection(A, B)
    BY <2>2, <2>3, Fun_IsInj
  <2>6. f \in Surjection(A, B)
    BY <2>2, <2>4, Fun_IsSurj
  <2>7. QED
    BY <2>5, <2>6 DEF Bijection
<1>4. IsFiniteSet(1..L) /\ IsFiniteSet(1..(L - 1))
  BY <1>1, FS_Interval
<1>5. IsFiniteSet(A)
  BY <1>4, FS_Subset
<1>6. Cardinality(B) = Cardinality(A)
  <2> HIDE DEF A, B, f
  <2>1. QED
    BY <1>3, <1>5, FS_Bijection DEF ExistsBijection
<1>7. Occurrences(n, t) = Cardinality(A)
  BY <1>2 DEF Occurrences
<1>8. Held(n, (1..L) \ {1}, s) = Cardinality(B)
  BY DEF Held
<1>9. Held(n, 1..L, s) = Held(n, (1..L) \ {1}, s) + Is(s[1], n)
  <2>1. 1 \in 1..L
    BY <1>1
  <2>2. QED
    BY <1>4, <2>1, HeldSplit
<1>10. QED
  BY <1>1, <1>6, <1>7, <1>8, <1>9, OccurrencesHeld DEF t, L

-----------------------------------------------------------------------------
(* The occurrences in several sequences *)
AreSequences(f, K, T) == \A k \in K : f[k] \in Seq(T)

Spots(n, f, K) == UNION {{k} \X {i \in 1..Len(f[k]) : f[k][i] = n} : k \in K}

LEMMA SpotsFinite ==
  ASSUME NEW n, NEW K, IsFiniteSet(K), NEW T, NEW f, AreSequences(f, K, T)
  PROVE  IsFiniteSet(Spots(n, f, K))
<1> DEFINE P(k) == {i \in 1..Len(f[k]) : f[k][i] = n}
           Q(k) == {k} \X P(k)
           S == {Q(k) : k \in K}
           F == [k \in K |-> Q(k)]
<1>1. ASSUME NEW k \in K PROVE IsFiniteSet(Q(k))
  <2>1. f[k] \in Seq(T)
    BY DEF AreSequences
  <2>2. Len(f[k]) \in Int
    BY <2>1
  <2>3. IsFiniteSet(1..Len(f[k]))
    BY <2>2, FS_Interval
  <2>4. IsFiniteSet(P(k))
    BY <2>3, FS_Subset
  <2>5. IsFiniteSet({k})
    BY FS_Singleton
  <2> HIDE DEF P
  <2>6. QED
    BY <2>4, <2>5, FS_Product
<1> HIDE DEF Q
<1>2. F \in Surjection(K, S)
  <2>1. F \in [K -> S] /\ \A s \in S : \E k \in K : F[k] = s
    OBVIOUS
  <2> HIDE DEF F, S
  <2>2. QED
    BY <2>1, Fun_IsSurj
<1>3. IsFiniteSet(S)
  <2> HIDE DEF F, S
  <2>1. QED
    BY <1>2, FS_Surjection
<1>4. \A s \in S : IsFiniteSet(s)
  BY <1>1
<1>5. IsFiniteSet(UNION S)
  <2> HIDE DEF S
  <2>1. QED
    BY <1>3, <1>4, FS_UNION
<1>6. QED
  BY <1>5 DEF Spots, Q

LEMMA InType ==
  ASSUME NEW n, NEW K, IsFiniteSet(K), NEW T, NEW f, AreSequences(f, K, T)
  PROVE  OccurrencesIn(n, f, K) \in Nat
<1>1. Cardinality(Spots(n, f, K)) \in Nat
  BY SpotsFinite, FS_CardinalityType
<1>2. QED
  BY <1>1 DEF OccurrencesIn, Spots

(* With and without one sequence *)
LEMMA InSplit ==
  ASSUME NEW n, NEW K, IsFiniteSet(K), NEW T, NEW f, AreSequences(f, K, T), NEW k \in K
  PROVE  OccurrencesIn(n, f, K) = OccurrencesIn(n, f, K \ {k}) + Occurrences(n, f[k])
<1> DEFINE J == K \ {k}
           P == {i \in 1..Len(f[k]) : f[k][i] = n}
           A == Spots(n, f, J)
           B == {k} \X P
<1>1. IsFiniteSet(J) /\ AreSequences(f, J, T)
  BY FS_RemoveElement DEF AreSequences
<1>2. IsFiniteSet(A)
  BY <1>1, SpotsFinite
<1>3. f[k] \in Seq(T)
  BY DEF AreSequences
<1>4. IsFiniteSet(P)
  <2>1. IsFiniteSet(1..Len(f[k]))
    BY <1>3, FS_Interval
  <2>2. QED
    BY <2>1, FS_Subset
<1>5. Cardinality(P) \in Nat /\ Cardinality(P) = Occurrences(n, f[k])
  BY <1>4, FS_CardinalityType DEF Occurrences
<1>6. IsFiniteSet(B) /\ Cardinality(B) = Cardinality(P)
  <2>1. IsFiniteSet({k}) /\ Cardinality({k}) = 1
    BY FS_Singleton
  <2> HIDE DEF P
  <2>2. IsFiniteSet(B) /\ Cardinality(B) = 1 * Cardinality(P)
    BY <1>4, <2>1, FS_Product
  <2>3. QED
    BY <1>5, <2>2
<1>7. Spots(n, f, K) = A \cup B
  BY DEF Spots
<1>8. A \cap B = {}
  BY DEF Spots
<1> HIDE DEF A, B
<1>9. Cardinality(A \cup B) = Cardinality(A) + Cardinality(B) - Cardinality(A \cap B)
  BY <1>2, <1>6, FS_Union
<1>10. Cardinality(A \cap B) = 0 /\ Cardinality(A) \in Nat
  BY <1>2, <1>8, FS_EmptySet, FS_CardinalityType
<1>11. Cardinality(A \cup B) = Cardinality(A) + Cardinality(P)
  BY <1>5, <1>6, <1>9, <1>10
<1>12. OccurrencesIn(n, f, K) = Cardinality(A \cup B) /\ OccurrencesIn(n, f, J) = Cardinality(A)
  BY <1>7 DEF OccurrencesIn, Spots, A
<1>13. QED
  BY <1>5, <1>11, <1>12

LEMMA InSame ==
  ASSUME NEW n, NEW K, NEW f, NEW g, \A k \in K : f[k] = g[k]
  PROVE  OccurrencesIn(n, f, K) = OccurrencesIn(n, g, K)
<1>1. {{k} \X {i \in 1..Len(f[k]) : f[k][i] = n} : k \in K}
        = {{k} \X {i \in 1..Len(g[k]) : g[k][i] = n} : k \in K}
  OBVIOUS
<1>2. QED
  BY <1>1 DEF OccurrencesIn

LEMMA InNone == ASSUME NEW n, NEW f PROVE OccurrencesIn(n, f, {}) = 0
<1>1. UNION {{k} \X {i \in 1..Len(f[k]) : f[k][i] = n} : k \in {}} = {}
  OBVIOUS
<1>2. QED
  BY <1>1, FS_EmptySet DEF OccurrencesIn

-----------------------------------------------------------------------------
(* The loops *)
LEMMA LoopsType ==
  ASSUME NEW n, NEW ls \in Seq(LoopType)
  PROVE  InLoops(n, ls) \in Nat
<1> DEFINE f == [i \in 1..Len(ls) |-> ls[i].edges]
<1>1. \A i \in 1..Len(ls) : ls[i] \in LoopType
  BY ElementOfSeq
<1>2. AreSequences(f, 1..Len(ls), Nodes)
  BY <1>1 DEF AreSequences, LoopType
<1>3. IsFiniteSet(1..Len(ls))
  BY FS_Interval
<1> HIDE DEF f
<1>4. OccurrencesIn(n, f, 1..Len(ls)) \in Nat
  BY <1>2, <1>3, InType
<1>5. QED
  BY <1>4 DEF InLoops, f

LEMMA LoopsNone == ASSUME NEW n PROVE InLoops(n, <<>>) = 0
<1> DEFINE f == [i \in 1..Len(<<>>) |-> <<>>[i].edges]
<1>1. 1..Len(<<>>) = {}
  OBVIOUS
<1>2. InLoops(n, <<>>) = OccurrencesIn(n, f, 1..Len(<<>>))
  BY DEF InLoops
<1> HIDE DEF f
<1>3. QED
  BY <1>1, <1>2, InNone

LEMMA LoopsAppend ==
  ASSUME NEW n, NEW ls \in Seq(LoopType), NEW l \in LoopType
  PROVE  /\ Append(ls, l) \in Seq(LoopType)
         /\ InLoops(n, Append(ls, l)) = InLoops(n, ls) + Occurrences(n, l.edges)
<1> DEFINE m == Append(ls, l)
           L == Len(ls)
           f == [i \in 1..L |-> ls[i].edges]
           g == [i \in 1..(L + 1) |-> m[i].edges]
<1>1. L \in Nat /\ Len(m) = L + 1 /\ m[L + 1] = l /\ m \in Seq(LoopType)
      /\ \A i \in 1..L : m[i] = ls[i]
  OBVIOUS
<1>2. InLoops(n, ls) = OccurrencesIn(n, f, 1..L) /\ InLoops(n, m) = OccurrencesIn(n, g, 1..(L + 1))
  BY <1>1 DEF InLoops
<1>3. L + 1 \in 1..(L + 1) /\ (1..(L + 1)) \ {L + 1} = 1..L /\ \A i \in 1..L : i \in 1..(L + 1)
  BY <1>1
<1> HIDE DEF m
<1>4. \A i \in 1..L : f[i] = g[i]
  BY <1>1, <1>3
<1>5. g[L + 1] = l.edges
  BY <1>1, <1>3
<1>6. AreSequences(g, 1..(L + 1), Nodes)
  <2>1. \A i \in 1..(L + 1) : m[i] \in LoopType
    BY <1>1, ElementOfSeq
  <2>2. QED
    BY <2>1 DEF AreSequences, LoopType
<1> HIDE DEF f, g
<1>7. IsFiniteSet(1..(L + 1))
  BY <1>1, FS_Interval
<1>8. OccurrencesIn(n, g, 1..(L + 1)) = OccurrencesIn(n, g, 1..L) + Occurrences(n, l.edges)
  <2> DEFINE K == 1..(L + 1)
             k == L + 1
  <2>1. IsFiniteSet(K) /\ AreSequences(g, K, Nodes) /\ k \in K
    BY <1>3, <1>6, <1>7
  <2>2. K \ {k} = 1..L /\ g[k] = l.edges
    BY <1>3, <1>5
  <2> HIDE DEF K, k
  <2>3. OccurrencesIn(n, g, K) = OccurrencesIn(n, g, K \ {k}) + Occurrences(n, g[k])
    BY <2>1, InSplit
  <2>4. QED
    BY <2>2, <2>3 DEF K
<1>9. OccurrencesIn(n, g, 1..L) = OccurrencesIn(n, f, 1..L)
  BY <1>4, InSame
<1>10. QED
  BY <1>1, <1>2, <1>8, <1>9 DEF m

(* The loops are the innermost one and the others. *)
LEMMA LoopsLast ==
  ASSUME loops \in Seq(LoopType), loops # <<>>
  PROVE  /\ Around \in Seq(LoopType) /\ Innermost \in LoopType
         /\ Innermost.edges \in Seq(Nodes) /\ Innermost.leaf \in Leaves \cup {NoNode}
         /\ loops = Append(Around, Innermost)
         /\ Len(Around) = Len(loops) - 1 /\ \A i \in 1..Len(Around) : Around[i] = loops[i]
<1> DEFINE L == Len(loops)
<1>1. L \in Nat /\ L > 0
  BY EmptySeq
<1>2. Innermost \in LoopType
  BY <1>1, ElementOfSeq DEF Innermost
<1>3. Around \in Seq(LoopType) /\ Len(Around) = L - 1 /\ \A i \in 1..(L - 1) : Around[i] = loops[i]
  <2> DEFINE m == L - 1
  <2>1. m \in Int /\ m - 1 + 1 = m /\ \A i \in 1..m : loops[i] \in LoopType
    BY <1>1, ElementOfSeq
  <2>2. Around = SubSeq(loops, 1, m)
    BY DEF Around
  <2>3. m >= 0 /\ (m < 1 => m = 0)
    BY <1>1
  <2> HIDE DEF m
  <2>4. /\ Around \in Seq(LoopType)
        /\ Len(Around) = IF 1 <= m THEN m - 1 + 1 ELSE 0
        /\ \A i \in 1..(m - 1 + 1) : Around[i] = loops[1 + i - 1]
    BY <2>1, <2>2, SubSeqProperties
  <2>5. \A i \in 1..m : 1 + i - 1 = i
    BY <2>1
  <2>6. Len(Around) = m /\ \A i \in 1..m : Around[i] = loops[i]
    BY <2>1, <2>3, <2>4, <2>5
  <2>7. QED
    BY <2>4, <2>6 DEF m
<1>4. loops = Append(Around, Innermost)
  <2> DEFINE m == Append(Around, Innermost)
  <2>1. m \in Seq(LoopType) /\ Len(m) = L /\ m[L] = Innermost
        /\ \A i \in 1..(L - 1) : m[i] = Around[i]
    BY <1>1, <1>2, <1>3, AppendProperties
  <2> HIDE DEF m
  <2>2. ASSUME NEW i \in 1..L PROVE m[i] = loops[i]
    <3>1. i \in 1..(L - 1) \/ i = L
      BY <1>1
    <3>2. QED
      BY <1>3, <2>1, <3>1 DEF Innermost
  <2>3. m = loops
    BY <2>1, <2>2, SeqEqual
  <2>4. QED
    BY <2>3 DEF m
<1>5. Innermost.edges \in Seq(Nodes) /\ Innermost.leaf \in Leaves \cup {NoNode}
  BY <1>2 DEF LoopType
<1>6. QED
  BY <1>2, <1>3, <1>4, <1>5

LEMMA LoopExcept ==
  ASSUME NEW b \in LoopType, NEW s
  PROVE  [b EXCEPT !.edges = s] = [leaf |-> b.leaf, edges |-> s]
BY DEF LoopType

(* A round takes the first reference of the innermost loop. *)
LEMMA LoopsStepped ==
  ASSUME NEW n, loops \in Seq(LoopType), loops # <<>>, Innermost.edges # <<>>
  PROVE  /\ Stepped \in Seq(LoopType) /\ Head(Innermost.edges) \in Nodes
         /\ InLoops(n, loops) = InLoops(n, Stepped) + Is(Head(Innermost.edges), n)
         /\ Len(Stepped) = Len(loops)
         /\ \A i \in 1..Len(loops) : Stepped[i].leaf = loops[i].leaf
<1> DEFINE e == Innermost.edges
           l == [Innermost EXCEPT !.edges = Tail(e)]
<1>1. /\ Around \in Seq(LoopType) /\ Innermost \in LoopType
      /\ e \in Seq(Nodes) /\ Innermost.leaf \in Leaves \cup {NoNode}
      /\ loops = Append(Around, Innermost)
      /\ Len(Around) = Len(loops) - 1 /\ \A i \in 1..Len(Around) : Around[i] = loops[i]
  BY LoopsLast
<1>2. Head(e) \in Nodes /\ Tail(e) \in Seq(Nodes)
  <2>1. e \in Seq(Nodes) /\ e # <<>>
    BY <1>1
  <2> HIDE DEF e
  <2>2. QED
    BY <2>1, HeadTailProperties
<1>3. l = [leaf |-> Innermost.leaf, edges |-> Tail(e)]
  BY <1>1, LoopExcept
<1>4. l \in LoopType /\ l.edges = Tail(e) /\ l.leaf = Innermost.leaf
  BY <1>1, <1>2, <1>3 DEF LoopType
<1>5. Stepped = Append(Around, l)
  BY DEF Stepped
<1> HIDE DEF l
<1>6. Occurrences(n, e) = Occurrences(n, Tail(e)) + Is(Head(e), n)
  BY <1>1, OccurrencesTail
<1>7. InLoops(n, loops) = InLoops(n, Around) + Occurrences(n, e)
  BY <1>1, LoopsAppend
<1>8. InLoops(n, Stepped) = InLoops(n, Around) + Occurrences(n, Tail(e)) /\ Stepped \in Seq(LoopType)
  BY <1>1, <1>4, <1>5, LoopsAppend
<1>9. InLoops(n, Around) \in Nat /\ Occurrences(n, Tail(e)) \in Nat
  BY <1>1, <1>2, LoopsType, OccurrencesType
<1>10. InLoops(n, loops) = InLoops(n, Stepped) + Is(Head(e), n)
  BY <1>6, <1>7, <1>8, <1>9, IsType
<1>11. Len(loops) \in Nat /\ Len(loops) > 0
  BY EmptySeq
<1>12. Len(Stepped) = Len(loops) /\ Stepped[Len(loops)] = l /\ \A i \in 1..Len(Around) : Stepped[i] = Around[i]
  BY <1>1, <1>4, <1>5, <1>11, AppendProperties
<1>13. ASSUME NEW i \in 1..Len(loops) PROVE Stepped[i].leaf = loops[i].leaf
  <2>1. CASE i = Len(loops)
    BY <1>4, <1>12, <2>1 DEF Innermost
  <2>2. CASE i # Len(loops)
    <3>1. i \in 1..Len(Around)
      BY <1>1, <1>11, <2>2
    <3>2. QED
      BY <1>1, <1>12, <3>1
  <2>3. QED
    BY <2>1, <2>2
<1>14. QED
  BY <1>2, <1>8, <1>10, <1>12, <1>13

-----------------------------------------------------------------------------
(* The leaves in use *)
LEMMA Finite == IsFiniteSet(Owners) /\ IsFiniteSet(Leaves) /\ IsFiniteSet(Vars)
BY OwnerAssumption

LEMMA LiveFinite == ASSUME NEW c PROVE IsFiniteSet(Live(c))
<1>1. Live(c) \in SUBSET Leaves
  BY DEF Live
<1>2. QED
  BY <1>1, Finite, FS_Subset

LEMMA LiveEdges ==
  ASSUME NEW c, NEW es \in [Leaves -> Seq(Owners)]
  PROVE  AreSequences(es, Live(c), Owners)
BY DEF AreSequences, Live

LEMMA LiveSame ==
  ASSUME NEW c, NEW d, \A l \in Leaves : c[l] > 0 <=> d[l] > 0
  PROVE  Live(c) = Live(d)
BY DEF Live

(* Another leaf comes into use. *)
LeafAdded(c, d, f, g, l, e) ==
    /\ ~(c[l] > 0) /\ d[l] > 0 /\ g[l] = e
    /\ \A k \in Leaves \ {l} : (c[k] > 0 <=> d[k] > 0) /\ (c[k] > 0 => f[k] = g[k])

LEMMA LiveMore ==
  ASSUME NEW n, NEW c, NEW d, NEW f \in [Leaves -> Seq(Owners)], NEW g \in [Leaves -> Seq(Owners)],
         NEW l \in Leaves, NEW e, LeafAdded(c, d, f, g, l, e)
  PROVE  Delta(OccurrencesIn(n, g, Live(d)), OccurrencesIn(n, f, Live(c)), Occurrences(n, e))
<1>1. Live(d) \ {l} = Live(c) /\ l \in Live(d) /\ g[l] = e /\ \A k \in Live(c) : g[k] = f[k]
  BY DEF Live, LeafAdded
<1>2. IsFiniteSet(Live(d)) /\ AreSequences(g, Live(d), Owners)
  BY LiveFinite, LiveEdges
<1>3. OccurrencesIn(n, g, Live(d)) = OccurrencesIn(n, g, Live(d) \ {l}) + Occurrences(n, g[l])
  BY <1>1, <1>2, InSplit
<1>4. OccurrencesIn(n, g, Live(c)) = OccurrencesIn(n, f, Live(c))
  BY <1>1, InSame
<1>5. QED
  BY <1>1, <1>3, <1>4 DEF Delta

(* A leaf in use gets another edge. *)
EdgeAdded(f, g, l, o) == g[l] = Append(f[l], o) /\ \A k \in Leaves \ {l} : g[k] = f[k]

LEMMA LiveAppend ==
  ASSUME NEW n, NEW c, NEW f \in [Leaves -> Seq(Owners)], NEW g \in [Leaves -> Seq(Owners)],
         NEW l \in Leaves, c[l] > 0, NEW o \in Owners, EdgeAdded(f, g, l, o)
  PROVE  OccurrencesIn(n, g, Live(c)) = OccurrencesIn(n, f, Live(c)) + Is(o, n)
<1> DEFINE K == Live(c)
           x == OccurrencesIn(n, f, K \ {l})
           y == Occurrences(n, f[l])
<1>1. l \in K /\ \A k \in K \ {l} : g[k] = f[k]
  BY DEF Live, EdgeAdded
<1>2. IsFiniteSet(K) /\ AreSequences(g, K, Owners) /\ AreSequences(f, K, Owners)
  BY LiveFinite, LiveEdges
<1> HIDE DEF K
<1>3. OccurrencesIn(n, g, K) = OccurrencesIn(n, g, K \ {l}) + Occurrences(n, g[l])
  BY <1>1, <1>2, InSplit
<1>4. OccurrencesIn(n, f, K) = x + y
  BY <1>1, <1>2, InSplit
<1>5. OccurrencesIn(n, g, K \ {l}) = x
  BY <1>1, InSame
<1>6. Occurrences(n, g[l]) = y + Is(o, n) /\ y \in Nat
  <2>1. f[l] \in Seq(Owners)
    OBVIOUS
  <2>2. g[l] = Append(f[l], o)
    BY DEF EdgeAdded
  <2>3. QED
    BY <2>1, <2>2, OccurrencesAppend, OccurrencesType
<1>7. x \in Nat
  <2>1. IsFiniteSet(K \ {l}) /\ AreSequences(f, K \ {l}, Owners)
    BY <1>2, FS_RemoveElement DEF AreSequences
  <2>2. QED
    BY <2>1, InType
<1> HIDE DEF x, y
<1>8. QED
  BY <1>3, <1>4, <1>5, <1>6, <1>7, IsType DEF K

-----------------------------------------------------------------------------
(* What the invariant says of one node *)
Part(n) == /\ Held(n, Vars, roots) \in Nat /\ Held(n, Owners, inner) \in Nat
           /\ OccurrencesIn(n, edges, Live(count)) \in Nat /\ InLoops(n, loops) \in Nat
           /\ count[n] \in Nat /\ lost[n] \in Nat /\ Is(guard.owner, n) \in {0, 1}
           /\ count[n] = Held(n, Vars, roots) + Held(n, Owners, inner)
                         + OccurrencesIn(n, edges, Live(count)) + InLoops(n, loops)
                         + lost[n] + Is(guard.owner, n)

LEMMA Parts == ASSUME OwnerInv, NEW n \in Nodes PROVE Part(n)
<1>1. Held(n, Vars, roots) \in Nat /\ Held(n, Owners, inner) \in Nat
  BY Finite, HeldType
<1>2. OccurrencesIn(n, edges, Live(count)) \in Nat
  <2>1. edges \in [Leaves -> Seq(Owners)]
    BY DEF OwnerInv, OwnerTypes
  <2>2. QED
    BY <2>1, LiveFinite, LiveEdges, InType
<1>3. InLoops(n, loops) \in Nat
  BY LoopsType DEF OwnerInv, OwnerTypes
<1>4. count[n] \in Nat /\ lost[n] \in Nat
  BY DEF OwnerInv, OwnerTypes
<1>5. count[n] = Held(n, Vars, roots) + Held(n, Owners, inner)
                 + OccurrencesIn(n, edges, Live(count)) + InLoops(n, loops)
                 + lost[n] + Is(guard.owner, n)
  BY DEF OwnerInv, CountsKept, CountKept, Refs
<1>6. QED
  BY <1>1, <1>2, <1>3, <1>4, <1>5, IsType DEF Part

LEMMA NoNodeIs == ASSUME NEW n \in Nodes PROVE Is(NoNode, n) = 0 /\ n # NoNode
BY OwnerAssumption DEF Is

LEMMA GuardIs ==
  ASSUME OwnerInv
  PROVE  \/ guard = NoGuard /\ guard.owner = NoNode /\ guard.owner \notin Nodes
         \/ /\ guard # NoGuard /\ guard.owner \in UserOwners /\ guard.into \in Vars
            /\ guard.owner \in Owners /\ guard.owner \in Nodes /\ guard.owner # NoNode
            /\ roots[guard.into] = NoNode
<1>1. CASE guard = NoGuard
  <2>1. guard.owner = NoNode
    BY <1>1 DEF NoGuard
  <2>2. QED
    BY <1>1, <2>1, OwnerAssumption
<1>2. CASE guard # NoGuard
  <2>1. guard \in [owner : UserOwners, into : Vars]
    BY <1>2 DEF OwnerInv, OwnerTypes
  <2>2. guard.owner \in UserOwners /\ guard.into \in Vars
    BY <2>1
  <2>3. guard.owner \in Owners /\ guard.owner \in Nodes
    BY <2>2 DEF Owners, Nodes
  <2>4. QED
    BY <1>2, <2>2, <2>3, OwnerAssumption DEF OwnerInv, GuardFree
<1>3. QED
  BY <1>1, <1>2

(* A node that something refers to is not the guarded one, and is in use. *)
LEMMA Referenced ==
  ASSUME OwnerInv, NEW n \in Nodes,
         \/ Held(n, Vars, roots) > 0 \/ Held(n, Owners, inner) > 0
         \/ OccurrencesIn(n, edges, Live(count)) > 0 \/ InLoops(n, loops) > 0
  PROVE  /\ count[n] > 0 /\ guard.owner # n
         /\ n \in Owners => place[n] = "node"
<1>1. Part(n)
  BY Parts
<1>2. count[n] > 0
  BY <1>1 DEF Part
<1>3. guard.owner # n
  <2>1. SUFFICES ASSUME guard.owner = n PROVE FALSE
    OBVIOUS
  <2>2. n \in Owners /\ count[n] = 1
    BY <2>1, GuardIs DEF OwnerInv, PlacesKept
  <2>3. Is(guard.owner, n) = 1
    BY <2>1 DEF Is
  <2>4. QED
    BY <1>1, <2>2, <2>3 DEF Part
<1>4. n \in Owners => place[n] = "node"
  BY <1>2, <1>3 DEF OwnerInv, PlacesKept
<1>5. QED
  BY <1>2, <1>3, <1>4

(* The guarded node, and an owner that has no node *)
LEMMA GuardedIs ==
  ASSUME OwnerInv, guard # NoGuard
  PROVE  LET o == guard.owner
         IN  /\ count[o] = 1 /\ lost[o] = 0 /\ place[o] = "guarded"
             /\ Held(o, Vars, roots) = 0 /\ Held(o, Owners, inner) = 0
             /\ OccurrencesIn(o, edges, Live(count)) = 0 /\ InLoops(o, loops) = 0
<1> DEFINE o == guard.owner
<1>1. o \in Owners /\ o \in Nodes
  BY GuardIs
<1>2. Part(o)
  BY <1>1, Parts
<1>3. count[o] = 1 /\ place[o] = "guarded"
  BY <1>1 DEF OwnerInv, PlacesKept
<1>4. Is(guard.owner, o) = 1
  BY DEF Is
<1>5. QED
  BY <1>2, <1>3, <1>4 DEF Part

LEMMA ZeroSum ==
  ASSUME NEW a \in Nat, NEW b \in Nat, NEW c \in Nat, NEW d \in Nat, NEW e \in Nat,
         a + b + c + d + e = 0
  PROVE  a = 0 /\ b = 0 /\ c = 0 /\ d = 0 /\ e = 0
OBVIOUS

LEMMA UnusedIs ==
  ASSUME OwnerInv, NEW n \in Nodes, count[n] = 0
  PROVE  /\ Held(n, Vars, roots) = 0 /\ Held(n, Owners, inner) = 0
         /\ OccurrencesIn(n, edges, Live(count)) = 0 /\ InLoops(n, loops) = 0
         /\ lost[n] = 0 /\ guard.owner # n
<1>1. Part(n)
  BY Parts
<1>2. Is(guard.owner, n) = 0
  BY <1>1 DEF Part
<1>3. guard.owner # n
  BY <1>2 DEF Is
<1> DEFINE a == Held(n, Vars, roots)
           b == Held(n, Owners, inner)
           c == OccurrencesIn(n, edges, Live(count))
           d == InLoops(n, loops)
<1>4. /\ a \in Nat /\ b \in Nat /\ c \in Nat /\ d \in Nat /\ lost[n] \in Nat
      /\ a + b + c + d + lost[n] = 0
  BY <1>1, <1>2 DEF Part
<1> HIDE DEF a, b, c, d
<1>5. a = 0 /\ b = 0 /\ c = 0 /\ d = 0 /\ lost[n] = 0
  BY <1>4, ZeroSum
<1>6. QED
  BY <1>3, <1>5 DEF a, b, c, d

(* A variable that was free is assigned. *)
LEMMA HeldMore ==
  ASSUME NEW n \in Nodes, NEW K, IsFiniteSet(K), NEW k \in K, NEW f, NEW g, NEW v,
         Replaced(f, g, K, k, NoNode, v)
  PROVE  Held(n, K, g) = Held(n, K, f) + Is(v, n)
<1>1. Held(n, K, g) + Is(NoNode, n) = Held(n, K, f) + Is(v, n)
  BY HeldReplaced
<1>2. Is(NoNode, n) = 0
  BY NoNodeIs
<1>3. Held(n, K, g) \in Nat
  BY HeldType
<1>4. QED
  BY <1>1, <1>2, <1>3

(* The value of one is given up. *)
LEMMA HeldLess ==
  ASSUME NEW n \in Nodes, NEW K, IsFiniteSet(K), NEW k \in K, NEW f, NEW g, NEW u,
         Replaced(f, g, K, k, u, NoNode)
  PROVE  Held(n, K, g) + Is(u, n) = Held(n, K, f)
<1>1. Held(n, K, g) + Is(u, n) = Held(n, K, f) + Is(NoNode, n)
  BY HeldReplaced
<1>2. Is(NoNode, n) = 0 /\ Held(n, K, f) \in Nat
  BY HeldType, NoNodeIs
<1>3. QED
  BY <1>1, <1>2

-----------------------------------------------------------------------------
Sums(k, a, b, c, d, e, g) == k = a + b + c + d + e + g

LEMMA NoDelta == ASSUME NEW a \in Int PROVE Delta(a, a, 0)
BY DEF Delta

LEMMA Balance ==
  ASSUME NEW a \in Nat, NEW b \in Nat, NEW c \in Nat, NEW d \in Nat, NEW e \in Nat, NEW g \in Nat,
         NEW k, k = a + b + c + d + e + g,
         NEW da \in Int, NEW db \in Int, NEW dc \in Int, NEW dd \in Int, NEW de \in Int, NEW dg \in Int,
         NEW dk, dk = da + db + dc + dd + de + dg
  PROVE  k + dk = (a + da) + (b + db) + (c + dc) + (d + dd) + (e + de) + (g + dg)
OBVIOUS

(* The count changes by what its parts change by. *)
Changes(n, da, db, dc, dd, de, dg, dk) ==
    /\ da \in Int /\ db \in Int /\ dc \in Int /\ dd \in Int /\ de \in Int /\ dg \in Int
    /\ Sums(dk, da, db, dc, dd, de, dg)
    /\ Delta(Held(n, Vars, roots'), Held(n, Vars, roots), da)
    /\ Delta(Held(n, Owners, inner'), Held(n, Owners, inner), db)
    /\ Delta(OccurrencesIn(n, edges', Live(count')), OccurrencesIn(n, edges, Live(count)), dc)
    /\ Delta(InLoops(n, loops'), InLoops(n, loops), dd)
    /\ Delta(lost'[n], lost[n], de)
    /\ Delta(Is(guard'.owner, n), Is(guard.owner, n), dg)
    /\ Delta(count'[n], count[n], dk)

LEMMA CountStep ==
  ASSUME OwnerInv, NEW n \in Nodes,
         NEW da, NEW db, NEW dc, NEW dd, NEW de, NEW dg, NEW dk,
         Changes(n, da, db, dc, dd, de, dg, dk)
  PROVE  CountKept(n)'
<1> DEFINE a == Held(n, Vars, roots)
           b == Held(n, Owners, inner)
           c == OccurrencesIn(n, edges, Live(count))
           d == InLoops(n, loops)
           e == lost[n]
           g == Is(guard.owner, n)
           k == count[n]
<1>1. /\ a \in Nat /\ b \in Nat /\ c \in Nat /\ d \in Nat /\ e \in Nat /\ g \in Nat
      /\ k = a + b + c + d + e + g
  BY Parts DEF Part
<1>2. /\ Held(n, Vars, roots') = a + da /\ Held(n, Owners, inner') = b + db
      /\ OccurrencesIn(n, edges', Live(count')) = c + dc /\ InLoops(n, loops') = d + dd
      /\ lost'[n] = e + de /\ Is(guard'.owner, n) = g + dg /\ count'[n] = k + dk
  BY DEF Changes, Delta
<1> HIDE DEF a, b, c, d, e, g, k
<1>3. k + dk = (a + da) + (b + db) + (c + dc) + (d + dd) + (e + de) + (g + dg)
  <2>1. /\ dk = da + db + dc + dd + de + dg
        /\ da \in Int /\ db \in Int /\ dc \in Int /\ dd \in Int /\ de \in Int /\ dg \in Int
    BY DEF Changes, Sums
  <2>2. QED
    BY <1>1, <2>1, Balance
<1>4. QED
  BY <1>2, <1>3 DEF CountKept, Refs

(* What a step leaves alone does not change. *)
LEMMA Unchanged ==
  ASSUME OwnerInv, NEW n \in Nodes
  PROVE  /\ roots' = roots => Delta(Held(n, Vars, roots'), Held(n, Vars, roots), 0)
         /\ inner' = inner => Delta(Held(n, Owners, inner'), Held(n, Owners, inner), 0)
         /\ edges' = edges /\ Live(count') = Live(count) =>
              Delta(OccurrencesIn(n, edges', Live(count')), OccurrencesIn(n, edges, Live(count)), 0)
         /\ loops' = loops => Delta(InLoops(n, loops'), InLoops(n, loops), 0)
         /\ lost' = lost => Delta(lost'[n], lost[n], 0)
         /\ guard' = guard => Delta(Is(guard'.owner, n), Is(guard.owner, n), 0)
         /\ count' = count => Delta(count'[n], count[n], 0)
<1>1. /\ Held(n, Vars, roots) \in Int /\ Held(n, Owners, inner) \in Int
      /\ OccurrencesIn(n, edges, Live(count)) \in Int /\ InLoops(n, loops) \in Int
      /\ count[n] \in Int /\ lost[n] \in Int /\ Is(guard.owner, n) \in Int
  BY Parts DEF Part
<1>2. QED
  BY <1>1, NoDelta

-----------------------------------------------------------------------------
(* One action after the other *)
LEMMA Types ==
  ASSUME OwnerInv
  PROVE  /\ place \in [Owners -> {"program", "guarded", "node", "dropped"}]
         /\ count \in [Nodes -> Nat]
         /\ edges \in [Leaves -> Seq(Owners)]
         /\ inner \in [Owners -> Nodes \cup {NoNode}]
         /\ roots \in [Vars -> Nodes \cup {NoNode}]
         /\ guard \in [owner : UserOwners, into : Vars] \cup {NoGuard}
         /\ loops \in Seq(LoopType)
         /\ lost \in [Nodes -> Nat]
BY DEF OwnerInv, OwnerTypes

(* The cord of a variable *)
LEMMA RootIs ==
  ASSUME OwnerInv, NEW x \in Vars, roots[x] # NoNode
  PROVE  /\ roots[x] \in Nodes /\ Held(roots[x], Vars, roots) > 0
         /\ count[roots[x]] > 0 /\ guard.owner # roots[x]
         /\ roots[x] \in Owners => place[roots[x]] = "node"
<1>1. roots[x] \in Nodes
  BY Types
<1>2. Held(roots[x], Vars, roots) > 0
  BY Finite, HeldSome
<1>3. QED
  BY <1>1, <1>2, Referenced

LEMMA StepCloneCord ==
  ASSUME OwnerInv, NEW x \in Vars, NEW y \in Vars, CloneCord(x, y)
  PROVE  OwnerInv'
<1> DEFINE r == roots[x]
<1>1. /\ r # NoNode /\ roots[y] = NoNode /\ guard.into # y /\ loops = <<>>
      /\ count' = [count EXCEPT ![r] = @ + 1]
      /\ roots' = [roots EXCEPT ![y] = r]
      /\ UNCHANGED <<place, edges, inner, guard, loops, panicked, lost>>
  BY DEF CloneCord, Running, IsFree
<1>2. /\ r \in Nodes /\ count[r] > 0 /\ guard.owner # r
      /\ r \in Owners => place[r] = "node"
  BY <1>1, RootIs
<1>3. Replaced(roots, roots', Vars, y, NoNode, r)
  BY <1>1, Types, ReplacedExcept
<1> HIDE DEF r
<1>4. OwnerTypes'
  BY <1>1, <1>2, Types DEF OwnerTypes
<1>5. GuardFree'
  BY <1>1, Types, GuardIs DEF GuardFree
<1>6. PlacesKept'
  BY <1>1, <1>2, Types DEF OwnerInv, PlacesKept, Nodes
<1>7. InnerKept' /\ LostKept'
  BY <1>1 DEF OwnerInv, InnerKept, LostKept
<1>8. LoopsKept'
  BY <1>1 DEF LoopsKept
<1>9. ASSUME NEW n \in Nodes PROVE CountKept(n)'
  <2>1. Is(r, n) \in Int /\ Sums(Is(r, n), Is(r, n), 0, 0, 0, 0, 0)
    BY IsType DEF Sums
  <2>2. Delta(Held(n, Vars, roots'), Held(n, Vars, roots), Is(r, n))
    BY <1>3, Finite, HeldMore DEF Delta
  <2>3. Live(count') = Live(count)
    <3>1. \A l \in Leaves : count[l] > 0 <=> count'[l] > 0
      BY <1>1, <1>2, Types DEF Nodes
    <3>2. QED
      BY <3>1, LiveSame
  <2>4. Delta(count'[n], count[n], Is(r, n))
    BY <1>1, Types DEF Is, Delta
  <2>5. /\ Delta(Held(n, Owners, inner'), Held(n, Owners, inner), 0)
        /\ Delta(OccurrencesIn(n, edges', Live(count')), OccurrencesIn(n, edges, Live(count)), 0)
        /\ Delta(InLoops(n, loops'), InLoops(n, loops), 0)
        /\ Delta(lost'[n], lost[n], 0)
        /\ Delta(Is(guard'.owner, n), Is(guard.owner, n), 0)
    BY <1>1, <2>3, Unchanged
  <2>6. Changes(n, Is(r, n), 0, 0, 0, 0, 0, Is(r, n))
    BY <2>1, <2>2, <2>4, <2>5 DEF Changes
  <2>7. QED
    BY <2>6, CountStep
<1>10. QED
  BY <1>4, <1>5, <1>6, <1>7, <1>8, <1>9 DEF OwnerInv, CountsKept

LEMMA OccurrencesOne == ASSUME NEW n, NEW e PROVE Occurrences(n, <<e>>) = Is(e, n)
<1>1. <<>> \in Seq({e}) /\ Append(<<>>, e) = <<e>>
  OBVIOUS
<1>2. Occurrences(n, Append(<<>>, e)) = Occurrences(n, <<>>) + Is(e, n)
  BY <1>1, OccurrencesAppend
<1>3. QED
  BY <1>1, <1>2, OccurrencesEmpty, IsType

(* The loop that starts with a reference, or with nothing *)
LEMMA OneLoop ==
  ASSUME NEW n, NEW l \in LoopType
  PROVE  <<l>> \in Seq(LoopType) /\ InLoops(n, <<l>>) = Occurrences(n, l.edges)
<1>1. <<>> \in Seq(LoopType) /\ Append(<<>>, l) = <<l>>
  OBVIOUS
<1>2. /\ Append(<<>>, l) \in Seq(LoopType)
      /\ InLoops(n, Append(<<>>, l)) = InLoops(n, <<>>) + Occurrences(n, l.edges)
  BY <1>1, LoopsAppend
<1>3. Occurrences(n, l.edges) \in Nat
  BY OccurrencesType DEF LoopType
<1>4. QED
  BY <1>1, <1>2, <1>3, LoopsNone

LEMMA StepDropCord ==
  ASSUME OwnerInv, NEW x \in Vars, DropCord(x)
  PROVE  OwnerInv'
<1> DEFINE r == roots[x]
           l == Loop(NoNode, <<r>>)
<1>1. /\ r # NoNode /\ loops = <<>>
      /\ roots' = [roots EXCEPT ![x] = NoNode]
      /\ loops' = <<l>>
      /\ UNCHANGED <<place, count, edges, inner, guard, panicked, lost>>
  BY DEF DropCord, Running
<1>2. r \in Nodes
  BY <1>1, RootIs
<1>3. Replaced(roots, roots', Vars, x, r, NoNode)
  BY <1>1, Types, ReplacedExcept
<1> HIDE DEF r
<1>4. l \in LoopType /\ l.edges = <<r>> /\ l.leaf = NoNode
  BY <1>2 DEF Loop, LoopType
<1> HIDE DEF l
<1>5. OwnerTypes'
  <2>1. loops' \in Seq(LoopType)
    BY <1>1, <1>4, OneLoop
  <2>2. QED
    BY <1>1, <2>1, Types DEF OwnerTypes
<1>6. GuardFree'
  BY <1>1, Types, GuardIs DEF GuardFree
<1>7. PlacesKept' /\ InnerKept' /\ LostKept'
  BY <1>1 DEF OwnerInv, PlacesKept, InnerKept, LostKept
<1>8. LoopsKept'
  <2>1. ASSUME NEW i \in 1..Len(loops') PROVE loops'[i].leaf \notin Leaves
    BY <1>1, <1>4, OwnerAssumption DEF Nodes
  <2>2. QED
    BY <2>1 DEF LoopsKept
<1>9. ASSUME NEW n \in Nodes PROVE CountKept(n)'
  <2> DEFINE i == Is(r, n)
             j == 0 - i
  <2>1. i \in Int /\ j \in Int /\ Sums(0, j, 0, 0, i, 0, 0)
    BY IsType DEF Sums
  <2>2. Delta(Held(n, Vars, roots'), Held(n, Vars, roots), j)
    <3>1. Held(n, Vars, roots') + i = Held(n, Vars, roots)
      BY <1>3, Finite, HeldLess
    <3>2. Held(n, Vars, roots') \in Int
      BY Finite, HeldType
    <3> HIDE DEF i
    <3>3. QED
      BY <2>1, <3>1, <3>2 DEF Delta
  <2>3. Delta(InLoops(n, loops'), InLoops(n, loops), i)
    <3>1. InLoops(n, loops') = i /\ InLoops(n, loops) = 0
      BY <1>1, <1>4, OneLoop, OccurrencesOne, LoopsNone
    <3>2. QED
      BY <2>1, <3>1 DEF Delta
  <2>4. /\ Delta(Held(n, Owners, inner'), Held(n, Owners, inner), 0)
        /\ Delta(OccurrencesIn(n, edges', Live(count')), OccurrencesIn(n, edges, Live(count)), 0)
        /\ Delta(lost'[n], lost[n], 0)
        /\ Delta(Is(guard'.owner, n), Is(guard.owner, n), 0)
        /\ Delta(count'[n], count[n], 0)
    BY <1>1, Unchanged
  <2> HIDE DEF i, j
  <2>5. Changes(n, j, 0, 0, i, 0, 0, 0)
    BY <2>1, <2>2, <2>3, <2>4 DEF Changes
  <2>6. QED
    BY <2>5, CountStep
<1>10. QED
  BY <1>5, <1>6, <1>7, <1>8, <1>9 DEF OwnerInv, CountsKept

LEMMA StepIntoVec ==
  ASSUME OwnerInv, NEW x \in Vars, IntoVec(x)
  PROVE  OwnerInv'
<1> DEFINE r == roots[x]
<1>1. /\ r \in GlobalOwners /\ count[r] = 1 /\ loops = <<>>
      /\ place' = [place EXCEPT ![r] = "program"]
      /\ count' = [count EXCEPT ![r] = 0]
      /\ roots' = [roots EXCEPT ![x] = NoNode]
      /\ UNCHANGED <<edges, inner, guard, loops, panicked, lost>>
  BY DEF IntoVec, Running
<1>2. r \in Owners /\ r \in Nodes /\ r # NoNode /\ r \notin Leaves /\ r \notin UserOwners
  BY <1>1, OwnerAssumption DEF Owners, Nodes
<1>3. guard.owner # r
  BY <1>2, RootIs
<1>4. Replaced(roots, roots', Vars, x, r, NoNode)
  BY <1>1, Types, ReplacedExcept
<1> HIDE DEF r
<1>5. OwnerTypes'
  BY <1>1, <1>2, Types DEF OwnerTypes
<1>6. GuardFree'
  BY <1>1, Types, GuardIs DEF GuardFree
<1>7. PlacesKept'
  BY <1>1, <1>2, <1>3, Types DEF OwnerInv, PlacesKept, Nodes
<1>8. InnerKept' /\ LostKept'
  BY <1>1, <1>2, Types DEF OwnerInv, InnerKept, LostKept
<1>9. LoopsKept'
  BY <1>1 DEF LoopsKept
<1>10. ASSUME NEW n \in Nodes PROVE CountKept(n)'
  <2> DEFINE j == 0 - Is(r, n)
  <2>1. j \in Int /\ Sums(j, j, 0, 0, 0, 0, 0)
    BY IsType DEF Sums
  <2>2. Delta(Held(n, Vars, roots'), Held(n, Vars, roots), j)
    <3>1. Held(n, Vars, roots') + Is(r, n) = Held(n, Vars, roots)
      BY <1>4, Finite, HeldLess
    <3>2. Held(n, Vars, roots') \in Int
      BY Finite, HeldType
    <3>3. QED
      BY <3>1, <3>2, IsType DEF Delta
  <2>3. Delta(count'[n], count[n], j)
    BY <1>1, <1>2, Types DEF Is, Delta
  <2>4. Live(count') = Live(count)
    <3>1. \A l \in Leaves : count[l] > 0 <=> count'[l] > 0
      BY <1>1, <1>2, Types DEF Nodes
    <3>2. QED
      BY <3>1, LiveSame
  <2>5. /\ Delta(Held(n, Owners, inner'), Held(n, Owners, inner), 0)
        /\ Delta(OccurrencesIn(n, edges', Live(count')), OccurrencesIn(n, edges, Live(count)), 0)
        /\ Delta(InLoops(n, loops'), InLoops(n, loops), 0)
        /\ Delta(lost'[n], lost[n], 0)
        /\ Delta(Is(guard'.owner, n), Is(guard.owner, n), 0)
    BY <1>1, <2>4, Unchanged
  <2> HIDE DEF j
  <2>6. Changes(n, j, 0, 0, 0, 0, 0, j)
    BY <2>1, <2>2, <2>3, <2>5 DEF Changes
  <2>7. QED
    BY <2>6, CountStep
<1>11. QED
  BY <1>5, <1>6, <1>7, <1>8, <1>9, <1>10 DEF OwnerInv, CountsKept

LEMMA StepFromGlobal ==
  ASSUME OwnerInv, NEW o \in Owners, NEW x \in Vars, NEW adopt \in BOOLEAN, FromGlobal(o, x, adopt)
  PROVE  OwnerInv'
<1>1. /\ o \in GlobalOwners /\ place[o] = "program" /\ roots[x] = NoNode /\ guard.into # x /\ loops = <<>>
      /\ UNCHANGED <<edges, inner, guard, loops, panicked, lost>>
      /\ \/ /\ place' = [place EXCEPT ![o] = "node"]
            /\ count' = [count EXCEPT ![o] = 1]
            /\ roots' = [roots EXCEPT ![x] = o]
         \/ /\ place' = [place EXCEPT ![o] = "dropped"]
            /\ UNCHANGED <<count, roots>>
  BY DEF FromGlobal, Running, IsFree
<1>2. o \in Nodes /\ o \notin Leaves /\ o \notin UserOwners
  BY <1>1, OwnerAssumption DEF Owners, Nodes
<1>3. count[o] = 0 /\ guard.owner # o
  BY <1>1 DEF OwnerInv, PlacesKept
<1>4. InnerKept' /\ LostKept' /\ LoopsKept'
  <2>1. InnerKept'
    BY <1>1, <1>2, Types DEF OwnerInv, InnerKept
  <2>2. QED
    BY <1>1, <2>1 DEF OwnerInv, LostKept, LoopsKept
<1>5. CASE /\ place' = [place EXCEPT ![o] = "dropped"]
           /\ UNCHANGED <<count, roots>>
  <2>1. OwnerTypes' /\ GuardFree'
    BY <1>1, <1>5, Types DEF OwnerInv, OwnerTypes, GuardFree
  <2>2. PlacesKept'
    BY <1>1, <1>3, <1>5, Types DEF OwnerInv, PlacesKept
  <2>3. CountsKept'
    BY <1>1, <1>5 DEF OwnerInv, CountsKept, CountKept, Refs, Live, Held, OccurrencesIn, InLoops
  <2>4. QED
    BY <1>4, <2>1, <2>2, <2>3 DEF OwnerInv
<1>6. CASE /\ place' = [place EXCEPT ![o] = "node"]
           /\ count' = [count EXCEPT ![o] = 1]
           /\ roots' = [roots EXCEPT ![x] = o]
  <2>1. OwnerTypes'
    BY <1>1, <1>2, <1>6, Types DEF OwnerTypes
  <2>2. GuardFree'
    BY <1>1, <1>6, Types, GuardIs DEF GuardFree
  <2>3. PlacesKept'
    BY <1>1, <1>2, <1>3, <1>6, Types DEF OwnerInv, PlacesKept, Nodes
  <2>4. Replaced(roots, roots', Vars, x, NoNode, o)
    BY <1>1, <1>6, Types, ReplacedExcept
  <2>5. ASSUME NEW n \in Nodes PROVE CountKept(n)'
    <3> DEFINE i == Is(o, n)
    <3>1. i \in Int /\ Sums(i, i, 0, 0, 0, 0, 0)
      BY IsType DEF Sums
    <3>2. Delta(Held(n, Vars, roots'), Held(n, Vars, roots), i)
      BY <2>4, Finite, HeldMore DEF Delta
    <3>3. Delta(count'[n], count[n], i)
      BY <1>2, <1>3, <1>6, Types DEF Is, Delta
    <3>4. Live(count') = Live(count)
      <4>1. \A l \in Leaves : count[l] > 0 <=> count'[l] > 0
        BY <1>2, <1>6, Types DEF Nodes
      <4>2. QED
        BY <4>1, LiveSame
    <3>5. /\ Delta(Held(n, Owners, inner'), Held(n, Owners, inner), 0)
          /\ Delta(OccurrencesIn(n, edges', Live(count')), OccurrencesIn(n, edges, Live(count)), 0)
          /\ Delta(InLoops(n, loops'), InLoops(n, loops), 0)
          /\ Delta(lost'[n], lost[n], 0)
          /\ Delta(Is(guard'.owner, n), Is(guard.owner, n), 0)
      BY <1>1, <3>4, Unchanged
    <3> HIDE DEF i
    <3>6. Changes(n, i, 0, 0, 0, 0, 0, i)
      BY <3>1, <3>2, <3>3, <3>5 DEF Changes
    <3>7. QED
      BY <3>6, CountStep
  <2>6. QED
    BY <1>4, <2>1, <2>2, <2>3, <2>5 DEF OwnerInv, CountsKept
<1>7. QED
  BY <1>1, <1>5, <1>6

LEMMA StepCreateOwner ==
  ASSUME OwnerInv, NEW o \in Owners, NEW x \in Vars, NEW y \in Vars, CreateOwner(o, x, y)
  PROVE  OwnerInv'
<1> DEFINE v == roots[y]
<1>1. /\ guard = NoGuard /\ o \in UserOwners /\ place[o] = "program" /\ x # y
      /\ roots[x] = NoNode /\ loops = <<>>
      /\ place' = [place EXCEPT ![o] = "guarded"]
      /\ count' = [count EXCEPT ![o] = 1]
      /\ inner' = [inner EXCEPT ![o] = v]
      /\ roots' = [roots EXCEPT ![y] = NoNode]
      /\ guard' = [owner |-> o, into |-> x]
      /\ UNCHANGED <<edges, loops, panicked, lost>>
  BY DEF CreateOwner, Running, IsFree
<1>2. o \in Nodes /\ o \notin Leaves /\ v \in Nodes \cup {NoNode}
  BY Types, OwnerAssumption DEF Nodes
<1>3. count[o] = 0 /\ inner[o] = NoNode
  BY <1>1 DEF OwnerInv, PlacesKept, InnerKept
<1>4. Replaced(roots, roots', Vars, y, v, NoNode) /\ Replaced(inner, inner', Owners, o, NoNode, v)
  BY <1>1, <1>3, Types, ReplacedExcept
<1> HIDE DEF v
<1>5. guard.owner = NoNode /\ guard'.owner = o /\ guard'.into = x
  BY <1>1 DEF NoGuard
<1>6. OwnerTypes'
  <2>1. guard' \in [owner : UserOwners, into : Vars]
    BY <1>1
  <2>2. QED
    BY <1>1, <1>2, <2>1, Types DEF OwnerTypes
<1>7. GuardFree'
  BY <1>1, <1>5, Types DEF GuardFree
<1>8. PlacesKept'
  BY <1>1, <1>2, <1>5, Types, OwnerAssumption DEF OwnerInv, PlacesKept, Nodes
<1>9. InnerKept' /\ LostKept'
  BY <1>1, Types DEF OwnerInv, InnerKept, LostKept
<1>10. LoopsKept'
  BY <1>1 DEF LoopsKept
<1>11. ASSUME NEW n \in Nodes PROVE CountKept(n)'
  <2> DEFINE i == Is(v, n)
             j == 0 - i
             k == Is(o, n)
  <2>1. i \in Int /\ j \in Int /\ k \in Int /\ Sums(k, j, i, 0, 0, 0, k)
    BY IsType DEF Sums
  <2>2. Delta(Held(n, Vars, roots'), Held(n, Vars, roots), j)
    <3>1. Held(n, Vars, roots') + i = Held(n, Vars, roots)
      BY <1>4, Finite, HeldLess
    <3>2. Held(n, Vars, roots') \in Int
      BY Finite, HeldType
    <3> HIDE DEF i
    <3>3. QED
      BY <2>1, <3>1, <3>2 DEF Delta
  <2>3. Delta(Held(n, Owners, inner'), Held(n, Owners, inner), i)
    BY <1>4, Finite, HeldMore DEF Delta
  <2>4. Delta(count'[n], count[n], k)
    BY <1>1, <1>2, <1>3, Types DEF Is, Delta
  <2>5. Delta(Is(guard'.owner, n), Is(guard.owner, n), k)
    <3>1. Is(guard'.owner, n) = k /\ Is(guard.owner, n) = 0
      BY <1>5, NoNodeIs
    <3>2. QED
      BY <2>1, <3>1 DEF Delta
  <2>6. Live(count') = Live(count)
    <3>1. \A l \in Leaves : count[l] > 0 <=> count'[l] > 0
      BY <1>1, <1>2, Types DEF Nodes
    <3>2. QED
      BY <3>1, LiveSame
  <2>7. /\ Delta(OccurrencesIn(n, edges', Live(count')), OccurrencesIn(n, edges, Live(count)), 0)
        /\ Delta(InLoops(n, loops'), InLoops(n, loops), 0)
        /\ Delta(lost'[n], lost[n], 0)
    BY <1>1, <2>6, Unchanged
  <2> HIDE DEF i, j, k
  <2>8. Changes(n, j, i, 0, 0, 0, k, k)
    BY <2>1, <2>2, <2>3, <2>4, <2>5, <2>7 DEF Changes
  <2>9. QED
    BY <2>8, CountStep
<1>12. QED
  BY <1>6, <1>7, <1>8, <1>9, <1>10, <1>11 DEF OwnerInv, CountsKept

LEMMA StepAsRefReturns ==
  ASSUME OwnerInv, AsRefReturns
  PROVE  OwnerInv'
<1> DEFINE o == guard.owner
           x == guard.into
<1>1. /\ guard # NoGuard /\ loops = <<>>
      /\ place' = [place EXCEPT ![o] = "node"]
      /\ roots' = [roots EXCEPT ![x] = o]
      /\ guard' = NoGuard
      /\ UNCHANGED <<count, edges, inner, loops, panicked, lost>>
  BY DEF AsRefReturns, Running
<1>2. o \in UserOwners /\ o \in Owners /\ o \in Nodes /\ x \in Vars /\ roots[x] = NoNode
  BY <1>1, GuardIs
<1>3. count[o] = 1
  BY <1>1, GuardedIs
<1>4. Replaced(roots, roots', Vars, x, NoNode, o)
  BY <1>1, <1>2, Types, ReplacedExcept
<1>5. guard'.owner = NoNode
  BY <1>1 DEF NoGuard
<1>6. OwnerTypes'
  BY <1>1, <1>2, Types DEF OwnerTypes
<1>7. GuardFree'
  BY <1>1 DEF GuardFree
<1>8. PlacesKept'
  <2>1. \A p \in Owners : p # NoNode
    BY OwnerAssumption DEF Nodes
  <2>2. QED
    BY <1>1, <1>2, <1>3, <1>5, <2>1, Types DEF OwnerInv, PlacesKept
<1>9. InnerKept' /\ LostKept'
  BY <1>1, <1>2, Types DEF OwnerInv, InnerKept, LostKept
<1>10. LoopsKept'
  BY <1>1 DEF LoopsKept
<1>11. ASSUME NEW n \in Nodes PROVE CountKept(n)'
  <2> DEFINE i == Is(o, n)
             j == 0 - i
  <2>1. i \in Int /\ j \in Int /\ Sums(0, i, 0, 0, 0, 0, j)
    BY IsType DEF Sums
  <2>2. Delta(Held(n, Vars, roots'), Held(n, Vars, roots), i)
    BY <1>2, <1>4, Finite, HeldMore DEF Delta
  <2>3. Delta(Is(guard'.owner, n), Is(guard.owner, n), j)
    <3>1. Is(guard'.owner, n) = 0 /\ Is(guard.owner, n) = i
      BY <1>5, NoNodeIs
    <3>2. QED
      BY <2>1, <3>1 DEF Delta
  <2>4. /\ Delta(Held(n, Owners, inner'), Held(n, Owners, inner), 0)
        /\ Delta(OccurrencesIn(n, edges', Live(count')), OccurrencesIn(n, edges, Live(count)), 0)
        /\ Delta(InLoops(n, loops'), InLoops(n, loops), 0)
        /\ Delta(lost'[n], lost[n], 0)
        /\ Delta(count'[n], count[n], 0)
    BY <1>1, Unchanged
  <2> HIDE DEF i, j
  <2>5. Changes(n, i, 0, 0, 0, 0, j, 0)
    BY <2>1, <2>2, <2>3, <2>4 DEF Changes
  <2>6. QED
    BY <2>5, CountStep
<1>12. QED
  BY <1>6, <1>7, <1>8, <1>9, <1>10, <1>11 DEF OwnerInv, CountsKept

(* The edges of a leaf are owners. *)
LEMMA OccurrencesOwners ==
  ASSUME NEW n, n \notin Owners, NEW s \in Seq(Owners)
  PROVE  Occurrences(n, s) = 0
<1>1. \A i \in 1..Len(s) : s[i] \in Owners
  BY ElementOfSeq
<1>2. Held(n, 1..Len(s), s) = 0
  BY <1>1, HeldNone
<1>3. QED
  BY <1>2, OccurrencesHeld

LEMMA OccurrencesTwo == ASSUME NEW n, NEW a, NEW b PROVE Occurrences(n, <<a, b>>) = Is(a, n) + Is(b, n)
<1>1. <<a>> \in Seq({a})
  OBVIOUS
<1>2. Append(<<a>>, b) = <<a, b>>
  <2> DEFINE s == Append(<<a>>, b)
             u == <<a, b>>
             T == {a, b}
  <2>1. <<a>> \in Seq(T) /\ Len(<<a>>) = 1 /\ b \in T
    OBVIOUS
  <2>2. s \in Seq(T) /\ Len(s) = 2 /\ s[1] = a /\ s[2] = b
    BY <2>1, AppendProperties
  <2>3. u \in Seq(T) /\ Len(u) = 2 /\ u[1] = a /\ u[2] = b
    OBVIOUS
  <2>4. \A i \in 1..2 : i = 1 \/ i = 2
    OBVIOUS
  <2> HIDE DEF s, u, T
  <2>5. s = u
    BY <2>2, <2>3, <2>4, SeqEqual
  <2>6. QED
    BY <2>5 DEF s, u
<1>3. Occurrences(n, Append(<<a>>, b)) = Occurrences(n, <<a>>) + Is(b, n)
  BY <1>1, OccurrencesAppend
<1>4. QED
  BY <1>2, <1>3, OccurrencesOne

-----------------------------------------------------------------------------
(* append_cord: what its cases have in common *)
LEMMA AppendIs ==
  ASSUME OwnerInv, NEW x \in Vars, NEW y \in Vars, AppendCord(x, y)
  PROVE  /\ roots[y] \in Owners /\ roots[y] \in Nodes /\ roots[y] \notin Leaves
         /\ count[roots[y]] > 0 /\ place[roots[y]] = "node" /\ guard.owner # roots[y]
         /\ guard.into # x
         /\ UNCHANGED <<place, inner, guard, loops, panicked, lost>>
         /\ InnerKept' /\ LostKept' /\ LoopsKept'
<1> DEFINE o == roots[y]
<1>1. /\ o \in Owners /\ guard.into # x /\ loops = <<>>
      /\ UNCHANGED <<place, inner, guard, loops, panicked, lost>>
  BY DEF AppendCord, Running
<1>2. o \in Nodes /\ o \notin Leaves /\ o # NoNode
  BY <1>1, OwnerAssumption DEF Nodes
<1>3. count[o] > 0 /\ place[o] = "node" /\ guard.owner # o
  BY <1>1, <1>2, RootIs
<1>4. InnerKept' /\ LostKept'
  BY <1>1 DEF OwnerInv, InnerKept, LostKept
<1>5. LoopsKept'
  BY <1>1 DEF LoopsKept
<1>6. QED
  BY <1>1, <1>2, <1>3, <1>4, <1>5

(* The empty cord becomes the node itself. *)
LEMMA AppendToEmpty ==
  ASSUME OwnerInv, NEW x \in Vars, NEW y \in Vars, AppendCord(x, y), roots[x] = NoNode,
         roots' = [roots EXCEPT ![x] = roots[y]],
         count' = [count EXCEPT ![roots[y]] = @ + 1],
         edges' = edges
  PROVE  OwnerInv'
<1> DEFINE o == roots[y]
<1>1. /\ o \in Owners /\ o \in Nodes /\ o \notin Leaves
      /\ count[o] > 0 /\ place[o] = "node" /\ guard.owner # o /\ guard.into # x
      /\ UNCHANGED <<place, inner, guard, loops, panicked, lost>>
      /\ InnerKept' /\ LostKept' /\ LoopsKept'
  BY AppendIs
<1>2. Replaced(roots, roots', Vars, x, NoNode, o)
  BY Types, ReplacedExcept
<1>3. roots' = [roots EXCEPT ![x] = o] /\ count' = [count EXCEPT ![o] = @ + 1]
  OBVIOUS
<1> HIDE DEF o
<1>4. OwnerTypes'
  BY <1>1, <1>3, Types DEF OwnerTypes
<1>5. GuardFree'
  BY <1>1, <1>3, Types, GuardIs DEF GuardFree
<1>6. PlacesKept'
  BY <1>1, <1>3, Types DEF OwnerInv, PlacesKept, Nodes
<1>7. ASSUME NEW n \in Nodes PROVE CountKept(n)'
  <2> DEFINE i == Is(o, n)
  <2>1. i \in Int /\ Sums(i, i, 0, 0, 0, 0, 0)
    BY IsType DEF Sums
  <2>2. Delta(Held(n, Vars, roots'), Held(n, Vars, roots), i)
    BY <1>2, Finite, HeldMore DEF Delta
  <2>3. Delta(count'[n], count[n], i)
    BY <1>1, <1>3, Types DEF Is, Delta
  <2>4. Live(count') = Live(count)
    <3>1. \A l \in Leaves : count[l] > 0 <=> count'[l] > 0
      BY <1>1, <1>3, Types DEF Nodes
    <3>2. QED
      BY <3>1, LiveSame
  <2>5. /\ Delta(Held(n, Owners, inner'), Held(n, Owners, inner), 0)
        /\ Delta(OccurrencesIn(n, edges', Live(count')), OccurrencesIn(n, edges, Live(count)), 0)
        /\ Delta(InLoops(n, loops'), InLoops(n, loops), 0)
        /\ Delta(lost'[n], lost[n], 0)
        /\ Delta(Is(guard'.owner, n), Is(guard.owner, n), 0)
    BY <1>1, <2>4, Unchanged
  <2> HIDE DEF i
  <2>6. Changes(n, i, 0, 0, 0, 0, 0, i)
    BY <2>1, <2>2, <2>3, <2>5 DEF Changes
  <2>7. QED
    BY <2>6, CountStep
<1>8. QED
  BY <1>1, <1>4, <1>5, <1>6, <1>7 DEF OwnerInv, CountsKept

(* A leaf that is not shared gets another edge. *)
EdgeInPlace(r, o) ==
    /\ count[r] = 1
    /\ edges' = [edges EXCEPT ![r] = Append(@, o)]
    /\ count' = [count EXCEPT ![o] = @ + 1]
    /\ roots' = roots

LEMMA AppendInPlace ==
  ASSUME OwnerInv, NEW x \in Vars, NEW y \in Vars, AppendCord(x, y),
         NEW r \in Leaves, NEW o, o = roots[y], EdgeInPlace(r, o)
  PROVE  OwnerInv'
<1>1. /\ o \in Owners /\ o \in Nodes /\ o \notin Leaves
      /\ count[o] > 0 /\ place[o] = "node" /\ guard.owner # o
      /\ UNCHANGED <<place, inner, guard, loops, panicked, lost>>
      /\ InnerKept' /\ LostKept' /\ LoopsKept'
  BY AppendIs
<1>2. /\ edges' = [edges EXCEPT ![r] = Append(@, o)] /\ count' = [count EXCEPT ![o] = @ + 1]
      /\ roots' = roots /\ count[r] > 0
  BY DEF EdgeInPlace
<1>3. edges[r] \in Seq(Owners) /\ Append(edges[r], o) \in Seq(Owners)
  <2>1. edges[r] \in Seq(Owners)
    BY Types
  <2>2. QED
    BY <1>1, <2>1, AppendProperties
<1>4. edges' \in [Leaves -> Seq(Owners)]
  BY <1>2, <1>3, Types
<1>5. OwnerTypes'
  BY <1>1, <1>2, <1>4, Types DEF OwnerTypes
<1>6. GuardFree'
  BY <1>1, <1>2 DEF OwnerInv, GuardFree
<1>7. PlacesKept'
  BY <1>1, <1>2, Types DEF OwnerInv, PlacesKept, Nodes
<1>8. EdgeAdded(edges, edges', r, o)
  BY <1>2, Types DEF EdgeAdded
<1>9. ASSUME NEW n \in Nodes PROVE CountKept(n)'
  <2> DEFINE i == Is(o, n)
  <2>1. i \in Int /\ Sums(i, 0, 0, i, 0, 0, 0)
    BY IsType DEF Sums
  <2>2. Live(count') = Live(count)
    <3>1. \A l \in Leaves : count[l] > 0 <=> count'[l] > 0
      BY <1>1, <1>2, Types DEF Nodes
    <3>2. QED
      BY <3>1, LiveSame
  <2>3. Delta(OccurrencesIn(n, edges', Live(count')), OccurrencesIn(n, edges, Live(count)), i)
    <3>1. edges \in [Leaves -> Seq(Owners)] /\ count[r] > 0 /\ o \in Owners
      BY <1>1, <1>2, Types
    <3>2. OccurrencesIn(n, edges', Live(count)) = OccurrencesIn(n, edges, Live(count)) + i
      BY <1>4, <1>8, <3>1, LiveAppend
    <3>3. QED
      BY <2>2, <3>2 DEF Delta
  <2>4. Delta(count'[n], count[n], i)
    BY <1>1, <1>2, Types DEF Is, Delta
  <2>5. /\ Delta(Held(n, Vars, roots'), Held(n, Vars, roots), 0)
        /\ Delta(Held(n, Owners, inner'), Held(n, Owners, inner), 0)
        /\ Delta(InLoops(n, loops'), InLoops(n, loops), 0)
        /\ Delta(lost'[n], lost[n], 0)
        /\ Delta(Is(guard'.owner, n), Is(guard.owner, n), 0)
    BY <1>1, <1>2, Unchanged
  <2> HIDE DEF i
  <2>6. Changes(n, 0, 0, i, 0, 0, 0, i)
    BY <2>1, <2>3, <2>4, <2>5 DEF Changes
  <2>7. QED
    BY <2>6, CountStep
<1>10. QED
  BY <1>1, <1>5, <1>6, <1>7, <1>9 DEF OwnerInv, CountsKept

(* A new leaf with the edges e takes the place of the node r, a reference  *)
(* on which is given up, while the edges are counted.                      *)
NewLeaf(x, r, l, e) ==
    /\ count[l] = 0 /\ roots[x] = r
    /\ roots' = [roots EXCEPT ![x] = l]
    /\ edges' = [edges EXCEPT ![l] = e]
    /\ count' \in [Nodes -> Nat]
    /\ \A n \in Nodes : Delta(count'[n], count[n], Is(l, n) - Is(r, n) + Occurrences(n, e))

(* No node that was in use goes, none but the leaf comes, and the guarded  *)
(* one is not referred to.                                                 *)
UseKept(l) ==
    \A n \in Nodes \ {l} : /\ count[n] > 0 <=> count'[n] > 0
                           /\ guard.owner = n => count'[n] = count[n]

LEMMA AppendNewLeaf ==
  ASSUME OwnerInv, NEW x \in Vars, NEW y \in Vars, AppendCord(x, y),
         NEW r \in Nodes, NEW l \in Leaves, NEW e \in Seq(Owners), NewLeaf(x, r, l, e), UseKept(l)
  PROVE  OwnerInv'
<1>1. /\ guard.into # x
      /\ UNCHANGED <<place, inner, guard, loops, panicked, lost>>
      /\ InnerKept' /\ LostKept' /\ LoopsKept'
  BY AppendIs
<1>2. /\ count[l] = 0 /\ roots[x] = r /\ roots' = [roots EXCEPT ![x] = l]
      /\ edges' = [edges EXCEPT ![l] = e] /\ count' \in [Nodes -> Nat]
      /\ \A n \in Nodes : Delta(count'[n], count[n], Is(l, n) - Is(r, n) + Occurrences(n, e))
  BY DEF NewLeaf
<1>3. Replaced(roots, roots', Vars, x, r, l)
  BY <1>2, Types, ReplacedExcept
<1>4. l \in Nodes /\ l \notin Owners /\ l # r
  <2>1. l \in Nodes /\ l \notin Owners
    BY OwnerAssumption DEF Nodes
  <2>2. r # NoNode
    BY NoNodeIs
  <2>3. count[r] > 0
    BY <1>2, <2>2, RootIs
  <2>4. QED
    BY <1>2, <2>1, <2>3
<1>5. edges' \in [Leaves -> Seq(Owners)] /\ edges'[l] = e
  BY <1>2, Types
<1>6. OwnerTypes'
  BY <1>1, <1>2, <1>4, <1>5, Types DEF OwnerTypes
<1>7. GuardFree'
  BY <1>1, <1>2, Types, GuardIs DEF GuardFree
<1>8. PlacesKept'
  <2>1. ASSUME NEW p \in Owners
        PROVE  count'[p] \in Nat /\ (count[p] > 0 <=> count'[p] > 0) /\ (guard.owner = p => count'[p] = count[p])
    <3>1. p \in Nodes /\ p # l
      BY <1>4 DEF Nodes
    <3>2. QED
      BY <1>2, <3>1 DEF UseKept
  <2>2. \A p \in Owners : count[p] \in Nat
    BY Types DEF Nodes
  <2>3. QED
    BY <1>1, <2>1, <2>2 DEF OwnerInv, PlacesKept
<1>9. count'[l] > 0
  <2>1. Occurrences(l, e) = 0
    BY <1>4, OccurrencesOwners
  <2>2. Is(l, l) = 1 /\ Is(r, l) = 0
    BY <1>4 DEF Is
  <2>3. Delta(count'[l], 0, 1 - 0 + 0)
    BY <1>2, <1>4, <2>1, <2>2
  <2>4. QED
    BY <2>3 DEF Delta
<1>10. \A m \in Leaves \ {l} : (count[m] > 0 <=> count'[m] > 0) /\ (count[m] > 0 => edges[m] = edges'[m])
  <2>1. \A m \in Leaves \ {l} : m \in Nodes \ {l}
    BY DEF Nodes
  <2>2. \A m \in Leaves \ {l} : edges[m] = edges'[m]
    BY <1>2, Types
  <2>3. QED
    BY <2>1, <2>2 DEF UseKept
<1>11. ASSUME NEW n \in Nodes PROVE CountKept(n)'
  <2> DEFINE j == Is(r, n)
             k == Is(l, n)
             q == Occurrences(n, e)
             da == k - j
             dk == k - j + q
  <2>1. j \in Int /\ k \in Int /\ q \in Int
    BY IsType, OccurrencesType
  <2>2. Delta(count'[n], count[n], dk)
    BY <1>2
  <2>3. Held(n, Vars, roots') + j = Held(n, Vars, roots) + k
    BY <1>3, Finite, HeldReplaced
  <2>4. Held(n, Vars, roots') \in Int /\ Held(n, Vars, roots) \in Int
    BY Finite, HeldType
  <2>5. Delta(OccurrencesIn(n, edges', Live(count')), OccurrencesIn(n, edges, Live(count)), q)
    <3> DEFINE d == count'
               g == edges'
    <3>1. LeafAdded(count, d, edges, g, l, e)
      BY <1>2, <1>5, <1>9, <1>10 DEF LeafAdded
    <3>2. edges \in [Leaves -> Seq(Owners)] /\ g \in [Leaves -> Seq(Owners)]
      BY <1>5, Types
    <3> HIDE DEF d, g
    <3>3. Delta(OccurrencesIn(n, g, Live(d)), OccurrencesIn(n, edges, Live(count)), Occurrences(n, e))
      BY <3>1, <3>2, LiveMore
    <3>4. QED
      BY <3>3 DEF d, g
  <2> HIDE DEF j, k, q
  <2>6. da \in Int /\ Sums(dk, da, 0, q, 0, 0, 0)
    BY <2>1 DEF Sums
  <2>7. Delta(Held(n, Vars, roots'), Held(n, Vars, roots), da)
    BY <2>1, <2>3, <2>4 DEF Delta
  <2>8. /\ Delta(Held(n, Owners, inner'), Held(n, Owners, inner), 0)
        /\ Delta(InLoops(n, loops'), InLoops(n, loops), 0)
        /\ Delta(lost'[n], lost[n], 0)
        /\ Delta(Is(guard'.owner, n), Is(guard.owner, n), 0)
    BY <1>1, Unchanged
  <2> HIDE DEF da, dk
  <2>9. Changes(n, da, 0, q, 0, 0, 0, dk)
    BY <2>1, <2>2, <2>5, <2>6, <2>7, <2>8 DEF Changes
  <2>10. QED
    BY <2>9, CountStep
<1>12. QED
  BY <1>1, <1>6, <1>7, <1>8, <1>11 DEF OwnerInv, CountsKept

(* The two cases that allocate: a node and the appended one become the     *)
(* edges of a leaf, or a shared leaf is copied with one more edge.         *)
PairedLeaf(x, r, l, o) ==
    /\ count[l] = 0 /\ roots[x] = r
    /\ roots' = [roots EXCEPT ![x] = l]
    /\ edges' = [edges EXCEPT ![l] = <<r, o>>]
    /\ count' = [count EXCEPT ![l] = 1, ![o] = @ + 1]

LEMMA PairedCount ==
  ASSUME NEW r, NEW x, NEW l \in Leaves, NEW o \in Owners, PairedLeaf(x, r, l, o),
         count \in [Nodes -> Nat]
  PROVE  /\ count' \in [Nodes -> Nat]
         /\ \A n \in Nodes : count'[n] = IF n = l THEN 1 ELSE IF n = o THEN count[o] + 1 ELSE count[n]
<1>1. l \in Nodes /\ o \in Nodes /\ l # o
  BY OwnerAssumption DEF Nodes
<1>2. count' = [count EXCEPT ![l] = 1, ![o] = @ + 1]
  BY DEF PairedLeaf
<1>3. \A n \in Nodes : count'[n] = IF n = l THEN 1 ELSE IF n = o THEN count[o] + 1 ELSE count[n]
  BY <1>1, <1>2
<1>4. count' = [n \in Nodes |-> count'[n]]
  BY <1>2
<1>5. \A n \in Nodes : count'[n] \in Nat
  BY <1>1, <1>3
<1>6. QED
  BY <1>3, <1>4, <1>5

LEMMA AppendToNode ==
  ASSUME OwnerInv, NEW x \in Vars, NEW y \in Vars, AppendCord(x, y),
         NEW r \in Owners, NEW o, o = roots[y], NEW l \in Leaves, PairedLeaf(x, r, l, o)
  PROVE  OwnerInv'
<1> DEFINE e == <<r, o>>
<1>1. o \in Owners /\ o \in Nodes /\ count[o] > 0 /\ guard.owner # o
  BY AppendIs
<1>2. l \in Nodes /\ l \notin Owners /\ r \in Nodes /\ l # o /\ l # r
  BY <1>1, OwnerAssumption DEF Nodes
<1>3. e \in Seq(Owners)
  BY <1>1
<1>4. count' \in [Nodes -> Nat]
  BY <1>1, Types, PairedCount
<1>5. \A n \in Nodes : count'[n] = IF n = l THEN 1 ELSE IF n = o THEN count[o] + 1 ELSE count[n]
  BY <1>1, Types, PairedCount
<1>6. \A n \in Nodes : count[n] \in Nat
  BY Types
<1>7. UseKept(l)
  <2>1. ASSUME NEW n \in Nodes \ {l}
        PROVE  /\ count[n] > 0 <=> count'[n] > 0
               /\ guard.owner = n => count'[n] = count[n]
    <3>1. count'[n] = IF n = o THEN count[o] + 1 ELSE count[n]
      BY <1>5
    <3>2. QED
      BY <1>1, <1>6, <3>1
  <2>2. QED
    BY <2>1 DEF UseKept
<1>8. count[l] = 0
  BY DEF PairedLeaf
<1>9. ASSUME NEW n \in Nodes
      PROVE  Delta(count'[n], count[n], Is(l, n) - Is(r, n) + Occurrences(n, e))
  <2>1. Occurrences(n, e) = Is(r, n) + Is(o, n)
    BY OccurrencesTwo
  <2>2. Is(l, n) - Is(r, n) + (Is(r, n) + Is(o, n)) = Is(l, n) + Is(o, n)
    BY IsType
  <2>3. count'[n] = count[n] + (Is(l, n) + Is(o, n))
    <3>1. CASE n = l
      BY <1>2, <1>5, <1>8, <3>1 DEF Is
    <3>2. CASE n = o
      BY <1>2, <1>5, <1>6, <3>2 DEF Is
    <3>3. CASE n # l /\ n # o
      BY <1>5, <1>6, <3>3 DEF Is
    <3>4. QED
      BY <3>1, <3>2, <3>3
  <2> HIDE DEF e
  <2>4. QED
    BY <2>1, <2>2, <2>3 DEF Delta
<1>10. NewLeaf(x, r, l, e)
  BY <1>4, <1>9 DEF NewLeaf, PairedLeaf
<1> HIDE DEF e
<1>11. QED
  BY <1>2, <1>3, <1>7, <1>10, AppendNewLeaf

(* The edges of a leaf in use *)
LEMMA EdgeReferenced ==
  ASSUME OwnerInv, NEW n \in Nodes, NEW r \in Leaves, count[r] > 0, Occurrences(n, edges[r]) > 0
  PROVE  count[n] > 0 /\ guard.owner # n
<1> DEFINE K == Live(count)
<1>1. edges \in [Leaves -> Seq(Owners)] /\ edges[r] \in Seq(Owners)
  BY Types
<1>2. r \in K
  BY DEF Live
<1>3. IsFiniteSet(K) /\ AreSequences(edges, K, Owners)
  BY <1>1, LiveFinite, LiveEdges
<1>4. IsFiniteSet(K \ {r}) /\ AreSequences(edges, K \ {r}, Owners)
  BY <1>3, FS_RemoveElement DEF AreSequences
<1> HIDE DEF K
<1>5. OccurrencesIn(n, edges, K) = OccurrencesIn(n, edges, K \ {r}) + Occurrences(n, edges[r])
  BY <1>2, <1>3, InSplit
<1>6. OccurrencesIn(n, edges, K \ {r}) \in Nat /\ Occurrences(n, edges[r]) \in Nat
  BY <1>1, <1>4, InType, OccurrencesType
<1>7. OccurrencesIn(n, edges, K) > 0
  BY <1>5, <1>6
<1>8. QED
  BY <1>7, Referenced DEF K

CopiedLeaf(r, l, e) ==
    count' = [n \in Nodes |-> IF n = l THEN 1 ELSE IF n = r THEN count[r] - 1
                              ELSE count[n] + Occurrences(n, e)]

SharedLeaf(x, r, l, e) ==
    /\ count[l] = 0 /\ count[r] > 1 /\ roots[x] = r
    /\ roots' = [roots EXCEPT ![x] = l]
    /\ edges' = [edges EXCEPT ![l] = e]
    /\ CopiedLeaf(r, l, e)

LEMMA AppendToShared ==
  ASSUME OwnerInv, NEW x \in Vars, NEW y \in Vars, AppendCord(x, y),
         NEW r \in Leaves, NEW o, o = roots[y], NEW l \in Leaves, NEW e, e = Append(edges[r], o),
         SharedLeaf(x, r, l, e)
  PROVE  OwnerInv'
<1>1. count[l] = 0 /\ count[r] > 1 /\ CopiedLeaf(r, l, e)
  BY DEF SharedLeaf
<1>2. o \in Owners /\ o \in Nodes /\ count[o] > 0 /\ guard.owner # o
  BY AppendIs
<1>3. l \in Nodes /\ l \notin Owners /\ r \in Nodes /\ r \notin Owners /\ l # o /\ r # o /\ l # r
  BY <1>1, <1>2, OwnerAssumption, Types DEF Nodes
<1>4. edges[r] \in Seq(Owners) /\ e \in Seq(Owners)
  <2>1. edges[r] \in Seq(Owners)
    BY Types
  <2>2. QED
    BY <1>2, <2>1, AppendProperties
<1>5. \A n \in Nodes : count[n] \in Nat /\ Occurrences(n, e) \in Nat
  BY <1>4, OccurrencesType, Types
<1>6. count' \in [Nodes -> Nat]
  BY <1>1, <1>3, <1>5 DEF CopiedLeaf
<1>7. \A n \in Nodes : count'[n] = IF n = l THEN 1 ELSE IF n = r THEN count[r] - 1
                                   ELSE count[n] + Occurrences(n, e)
  BY <1>1 DEF CopiedLeaf
<1>8. ASSUME NEW n \in Nodes, Occurrences(n, e) > 0 PROVE count[n] > 0 /\ guard.owner # n
  <2>1. Occurrences(n, e) = Occurrences(n, edges[r]) + Is(o, n)
    BY <1>4, OccurrencesAppend
  <2>2. CASE n = o
    BY <1>2, <2>2
  <2>3. CASE n # o
    <3>1. Occurrences(n, edges[r]) > 0
      BY <1>4, <1>8, <2>1, <2>3, OccurrencesType DEF Is
    <3>2. QED
      BY <1>1, <1>3, <1>5, <3>1, EdgeReferenced
  <2>4. QED
    BY <2>2, <2>3
<1>9. guard.owner # r
  BY <1>3, GuardIs, NoNodeIs
<1>10. UseKept(l)
  <2>1. ASSUME NEW n \in Nodes \ {l}
        PROVE  /\ count[n] > 0 <=> count'[n] > 0
               /\ guard.owner = n => count'[n] = count[n]
    <3>1. CASE n = r
      BY <1>1, <1>3, <1>5, <1>7, <1>9, <3>1
    <3>2. CASE n # r
      <4>1. count'[n] = count[n] + Occurrences(n, e)
        BY <1>7, <3>2
      <4>2. count[n] \in Nat /\ Occurrences(n, e) \in Nat
        BY <1>5
      <4>3. Occurrences(n, e) > 0 => count[n] > 0 /\ guard.owner # n
        BY <1>8
      <4>4. QED
        BY <4>1, <4>2, <4>3
    <3>3. QED
      BY <3>1, <3>2
  <2>2. QED
    BY <2>1 DEF UseKept
<1>11. ASSUME NEW n \in Nodes
       PROVE  Delta(count'[n], count[n], Is(l, n) - Is(r, n) + Occurrences(n, e))
  <2>1. n \notin Owners => Occurrences(n, e) = 0
    BY <1>4, OccurrencesOwners
  <2>2. count[n] \in Nat /\ Occurrences(n, e) \in Nat
    BY <1>5
  <2>3. CASE n = l
    BY <1>1, <1>3, <1>7, <2>1, <2>3 DEF Is, Delta
  <2>4. CASE n = r
    BY <1>3, <1>7, <2>1, <2>2, <2>4 DEF Is, Delta
  <2>5. CASE n # l /\ n # r
    BY <1>7, <2>2, <2>5 DEF Is, Delta
  <2>6. QED
    BY <2>3, <2>4, <2>5
<1>12. NewLeaf(x, r, l, e)
  BY <1>6, <1>11 DEF NewLeaf, SharedLeaf
<1>13. QED
  BY <1>3, <1>4, <1>10, <1>12, AppendNewLeaf

LEMMA StepAppendCord ==
  ASSUME OwnerInv, NEW x \in Vars, NEW y \in Vars, AppendCord(x, y)
  PROVE  OwnerInv'
<1> DEFINE r == roots[x]
           o == roots[y]
           e == Append(edges[r], o)
<1>1. \/ /\ r = NoNode
         /\ roots' = [roots EXCEPT ![x] = o]
         /\ count' = [count EXCEPT ![o] = @ + 1]
         /\ edges' = edges
      \/ \E l \in Leaves : r \in Owners /\ PairedLeaf(x, r, l, o)
      \/ r \in Leaves /\ EdgeInPlace(r, o)
      \/ \E l \in Leaves : r \in Leaves /\ SharedLeaf(x, r, l, e)
  BY DEF AppendCord, PairedLeaf, EdgeInPlace, SharedLeaf, CopiedLeaf
<1>2. CASE /\ r = NoNode
           /\ roots' = [roots EXCEPT ![x] = o]
           /\ count' = [count EXCEPT ![o] = @ + 1]
           /\ edges' = edges
  BY <1>2, AppendToEmpty
<1>3. CASE \E l \in Leaves : r \in Owners /\ PairedLeaf(x, r, l, o)
  <2>1. PICK l \in Leaves : r \in Owners /\ PairedLeaf(x, r, l, o)
    BY <1>3
  <2>2. o = roots[y]
    OBVIOUS
  <2> HIDE DEF r, o
  <2>3. QED
    BY <2>1, <2>2, AppendToNode
<1>4. CASE r \in Leaves /\ EdgeInPlace(r, o)
  <2>1. o = roots[y]
    OBVIOUS
  <2> HIDE DEF r, o
  <2>2. QED
    BY <1>4, <2>1, AppendInPlace
<1>5. CASE \E l \in Leaves : r \in Leaves /\ SharedLeaf(x, r, l, e)
  <2>1. PICK l \in Leaves : r \in Leaves /\ SharedLeaf(x, r, l, e)
    BY <1>5
  <2>2. o = roots[y] /\ e = Append(edges[r], o)
    OBVIOUS
  <2> HIDE DEF r, o, e
  <2>3. QED
    BY <2>1, <2>2, AppendToShared
<1>6. QED
  BY <1>1, <1>2, <1>3, <1>4, <1>5

-----------------------------------------------------------------------------
(* The destructors.  What the loops and the lost references add up to      *)
(* changes by what the owner held, whether a panic cuts the loops or not.  *)
HeldLoop(v) == Loop(NoNode, IF v = NoNode THEN <<>> ELSE <<v>>)

LEMMA HeldLoopIs ==
  ASSUME NEW v \in Nodes \cup {NoNode}
  PROVE  /\ HeldLoop(v) \in LoopType /\ HeldLoop(v).leaf \notin Leaves
         /\ \A n \in Nodes : Occurrences(n, HeldLoop(v).edges) = Is(v, n)
<1>1. NoNode \notin Leaves
  BY OwnerAssumption DEF Nodes
<1>2. CASE v = NoNode
  <2>1. HeldLoop(v) = [leaf |-> NoNode, edges |-> <<>>]
    BY <1>2 DEF HeldLoop, Loop
  <2>2. HeldLoop(v) \in LoopType /\ HeldLoop(v).leaf = NoNode /\ HeldLoop(v).edges = <<>>
    BY <2>1 DEF LoopType
  <2>3. \A n \in Nodes : Occurrences(n, <<>>) = Is(v, n)
    BY <1>2, OccurrencesEmpty, NoNodeIs
  <2>4. QED
    BY <1>1, <2>2, <2>3
<1>3. CASE v # NoNode
  <2>1. HeldLoop(v) = [leaf |-> NoNode, edges |-> <<v>>]
    BY <1>3 DEF HeldLoop, Loop
  <2>2. HeldLoop(v) \in LoopType /\ HeldLoop(v).leaf = NoNode /\ HeldLoop(v).edges = <<v>>
    BY <1>3, <2>1 DEF LoopType
  <2>3. \A n \in Nodes : Occurrences(n, <<v>>) = Is(v, n)
    BY OccurrencesOne
  <2>4. QED
    BY <1>1, <2>2, <2>3
<1>4. QED
  BY <1>2, <1>3

(* The leaves of the loops ls are among those of ms. *)
LeavesAmong(ls, ms) ==
    \A i \in 1..Len(ls) : ls[i].leaf \in Leaves => \E j \in 1..Len(ms) : ms[j].leaf = ls[i].leaf

LEMMA DestructorIs ==
  ASSUME OwnerInv, NEW o \in Owners, NEW around \in Seq(LoopType),
         NEW unwinding \in BOOLEAN, NEW panics \in BOOLEAN,
         Destructor(o, around, unwinding, panics)
  PROVE  /\ place' = [place EXCEPT ![o] = "dropped"] /\ inner' = [inner EXCEPT ![o] = NoNode]
         /\ loops' \in Seq(LoopType) /\ lost' \in [Nodes -> Nat]
         /\ \A n \in Nodes : InLoops(n, loops') + lost'[n] = InLoops(n, around) + lost[n] + Is(inner[o], n)
         /\ LeavesAmong(loops', around)
         /\ LostKept'
<1> DEFINE h == HeldLoop(inner[o])
<1>1. /\ place' = [place EXCEPT ![o] = "dropped"] /\ inner' = [inner EXCEPT ![o] = NoNode]
      /\ \/ /\ panics /\ ~unwinding /\ loops' = <<h>> /\ panicked' = "unwinding"
            /\ lost' = [n \in Nodes |-> lost[n] + InLoops(n, around)]
         \/ /\ loops' = Append(around, h) /\ lost' = lost
            /\ panicked' = "no" => panicked = "no"
  BY DEF Destructor, HeldLoop
<1>2. /\ h \in LoopType /\ h.leaf \notin Leaves
      /\ \A n \in Nodes : Occurrences(n, h.edges) = Is(inner[o], n)
  BY HeldLoopIs, Types
<1> HIDE DEF h
<1>3. \A n \in Nodes : InLoops(n, around) \in Nat /\ lost[n] \in Nat /\ Is(inner[o], n) \in {0, 1}
  BY LoopsType, IsType, Types
<1>4. CASE /\ panics /\ ~unwinding /\ loops' = <<h>> /\ panicked' = "unwinding"
           /\ lost' = [n \in Nodes |-> lost[n] + InLoops(n, around)]
  <2>1. loops' \in Seq(LoopType) /\ \A n \in Nodes : InLoops(n, loops') = Is(inner[o], n)
    BY <1>2, <1>4, OneLoop
  <2>2. lost' \in [Nodes -> Nat]
    BY <1>3, <1>4
  <2>3. ASSUME NEW n \in Nodes
        PROVE  InLoops(n, loops') + lost'[n] = InLoops(n, around) + lost[n] + Is(inner[o], n)
    <3>1. lost'[n] = lost[n] + InLoops(n, around)
      BY <1>4
    <3>2. QED
      BY <1>3, <2>1, <3>1
  <2>4. LeavesAmong(loops', around)
    BY <1>2, <1>4 DEF LeavesAmong
  <2>5. LostKept'
    BY <1>4 DEF LostKept
  <2>6. QED
    BY <1>1, <2>1, <2>2, <2>3, <2>4, <2>5
<1>5. CASE /\ loops' = Append(around, h) /\ lost' = lost
           /\ panicked' = "no" => panicked = "no"
  <2>1. /\ loops' \in Seq(LoopType)
        /\ \A n \in Nodes : InLoops(n, loops') = InLoops(n, around) + Is(inner[o], n)
    BY <1>2, <1>5, LoopsAppend
  <2>2. lost' \in [Nodes -> Nat]
    BY <1>5, Types
  <2>3. ASSUME NEW n \in Nodes
        PROVE  InLoops(n, loops') + lost'[n] = InLoops(n, around) + lost[n] + Is(inner[o], n)
    BY <1>3, <1>5, <2>1
  <2>4. LeavesAmong(loops', around)
    <3>1. /\ Len(around) \in Nat /\ Len(loops') = Len(around) + 1 /\ loops'[Len(around) + 1] = h
          /\ \A i \in 1..Len(around) : loops'[i] = around[i]
      BY <1>2, <1>5, AppendProperties
    <3>2. ASSUME NEW i \in 1..Len(loops'), loops'[i].leaf \in Leaves
          PROVE  i \in 1..Len(around) /\ around[i].leaf = loops'[i].leaf
      <4>1. i # Len(around) + 1
        BY <1>2, <3>1, <3>2
      <4>2. i \in 1..Len(around)
        BY <3>1, <4>1
      <4>3. QED
        BY <3>1, <4>2
    <3>3. QED
      BY <3>2 DEF LeavesAmong
  <2>5. LostKept'
    BY <1>5 DEF OwnerInv, LostKept
  <2>6. QED
    BY <1>1, <2>1, <2>2, <2>3, <2>4, <2>5
<1>6. QED
  BY <1>1, <1>4, <1>5

(* An owner whose node had one reference left is dropped: the reference was *)
(* the guard's, or one of the loops'.                                       *)
Released(o, around) ==
    /\ place' = [place EXCEPT ![o] = "dropped"] /\ inner' = [inner EXCEPT ![o] = NoNode]
    /\ count' = [count EXCEPT ![o] = 0]
    /\ loops' \in Seq(LoopType) /\ lost' \in [Nodes -> Nat]
    /\ \A n \in Nodes : InLoops(n, loops') + lost'[n] = InLoops(n, around) + lost[n] + Is(inner[o], n)
    /\ LeavesAmong(loops', around)
    /\ LostKept'
    /\ edges' = edges /\ roots' = roots

LEMMA ReleasedKept ==
  ASSUME OwnerInv, NEW o \in Owners, count[o] = 1, NEW around, LeavesAmong(around, loops),
         Released(o, around), guard' \in {guard, NoGuard}, guard'.owner # o,
         \A p \in Owners : p # o => (guard'.owner = p <=> guard.owner = p)
  PROVE  /\ OwnerTypes' /\ GuardFree' /\ PlacesKept' /\ InnerKept' /\ LoopsKept'
         /\ Live(count') = Live(count)
<1>1. /\ place' = [place EXCEPT ![o] = "dropped"] /\ inner' = [inner EXCEPT ![o] = NoNode]
      /\ count' = [count EXCEPT ![o] = 0] /\ edges' = edges /\ roots' = roots
      /\ loops' \in Seq(LoopType) /\ lost' \in [Nodes -> Nat] /\ LeavesAmong(loops', around)
  BY DEF Released
<1>2. o \in Nodes /\ o \notin Leaves
  BY OwnerAssumption DEF Nodes
<1>3. OwnerTypes'
  BY <1>1, Types DEF OwnerTypes
<1>4. GuardFree'
  BY <1>1 DEF OwnerInv, GuardFree
<1>5. PlacesKept'
  BY <1>1, <1>2, Types DEF OwnerInv, PlacesKept, Nodes
<1>6. InnerKept'
  BY <1>1, Types DEF OwnerInv, InnerKept
<1>7. \A l \in Leaves : count'[l] = count[l]
  BY <1>1, <1>2, Types DEF Nodes
<1>8. LoopsKept'
  <2>1. ASSUME NEW i \in 1..Len(loops'), loops'[i].leaf \in Leaves PROVE count'[loops'[i].leaf] = 0
    <3>1. PICK j \in 1..Len(around) : around[j].leaf = loops'[i].leaf
      BY <1>1, <2>1 DEF LeavesAmong
    <3>2. PICK k \in 1..Len(loops) : loops[k].leaf = around[j].leaf
      BY <2>1, <3>1 DEF LeavesAmong
    <3>3. count[loops[k].leaf] = 0
      BY <2>1, <3>1, <3>2 DEF OwnerInv, LoopsKept
    <3>4. QED
      BY <1>7, <2>1, <3>1, <3>2, <3>3
  <2>2. QED
    BY <2>1 DEF LoopsKept
<1>9. Live(count') = Live(count)
  BY <1>7, LiveSame
<1>10. QED
  BY <1>3, <1>4, <1>5, <1>6, <1>8, <1>9

LEMMA ReleasedCount ==
  ASSUME OwnerInv, NEW o \in Owners, count[o] = 1, NEW around \in Seq(LoopType), Released(o, around),
         Live(count') = Live(count), NEW n \in Nodes, NEW dg \in Int,
         InLoops(n, loops) = InLoops(n, around) + Is(o, n) + dg,
         Delta(Is(guard'.owner, n), Is(guard.owner, n), dg)
  PROVE  CountKept(n)'
<1> DEFINE v == Is(inner[o], n)
           i == Is(o, n)
           d1 == InLoops(n, loops')
           d0 == InLoops(n, loops)
           e1 == lost'[n]
           e0 == lost[n]
           a == InLoops(n, around)
           db == 0 - v
           dd == d1 - d0
           de == e1 - e0
           dk == 0 - i
<1>1. /\ inner' = [inner EXCEPT ![o] = NoNode] /\ count' = [count EXCEPT ![o] = 0]
      /\ edges' = edges /\ roots' = roots /\ loops' \in Seq(LoopType) /\ lost' \in [Nodes -> Nat]
      /\ d1 + e1 = a + e0 + v
  BY DEF Released
<1>2. o \in Nodes
  BY DEF Nodes
<1>3. v \in Int /\ i \in Int /\ v \in Nat
  BY IsType
<1>4. d1 \in Nat /\ d0 \in Nat /\ e1 \in Nat /\ e0 \in Nat /\ a \in Nat
  BY <1>1, LoopsType, Types
<1>5. d0 = a + i + dg
  OBVIOUS
<1>6. Delta(Held(n, Owners, inner'), Held(n, Owners, inner), db)
  <2>1. Replaced(inner, inner', Owners, o, inner[o], NoNode)
    BY <1>1, Types, ReplacedExcept
  <2>2. Held(n, Owners, inner') + v = Held(n, Owners, inner)
    BY <2>1, Finite, HeldLess
  <2>3. Held(n, Owners, inner') \in Int
    BY Finite, HeldType
  <2> HIDE DEF v
  <2>4. QED
    BY <1>3, <2>2, <2>3 DEF Delta
<1>7. Delta(count'[n], count[n], dk)
  BY <1>1, <1>2, Types DEF Is, Delta
<1>8. /\ Delta(Held(n, Vars, roots'), Held(n, Vars, roots), 0)
      /\ Delta(OccurrencesIn(n, edges', Live(count')), OccurrencesIn(n, edges, Live(count)), 0)
  BY <1>1, Unchanged
<1> HIDE DEF v, i, d1, d0, e1, e0, a
<1>9. /\ Sums(dk, 0, db, 0, dd, de, dg) /\ Delta(d1, d0, dd) /\ Delta(e1, e0, de)
      /\ dd \in Int /\ de \in Int /\ db \in Int
  <2>1. dd \in Int /\ de \in Int /\ db \in Int /\ dk \in Int
    BY <1>3, <1>4
  <2>2. Delta(d1, d0, dd)
    BY <1>4 DEF Delta
  <2>3. Delta(e1, e0, de)
    BY <1>4 DEF Delta
  <2>4. d1 + e1 = a + e0 + v /\ d0 = a + i + dg
    BY <1>1, <1>5
  <2>5. (d1 - d0) + (e1 - e0) = v - i - dg
    BY <1>3, <1>4, <2>4
  <2>6. dk = 0 + db + 0 + dd + de + dg
    BY <1>3, <1>4, <2>5
  <2>7. QED
    BY <2>1, <2>2, <2>3, <2>6 DEF Sums
<1> HIDE DEF db, dd, de, dk
<1>10. Changes(n, 0, db, 0, dd, de, dg, dk)
  BY <1>6, <1>7, <1>8, <1>9 DEF Changes, d1, d0, e1, e0
<1>11. QED
  BY <1>10, CountStep

(* as_ref failed: the guard drops its owner. *)
LEMMA StepAsRefFails ==
  ASSUME OwnerInv, NEW panics \in BOOLEAN, NEW dropPanics \in BOOLEAN, AsRefFails(panics, dropPanics)
  PROVE  OwnerInv'
<1> DEFINE o == guard.owner
           around == <<>>
<1>1. /\ guard # NoGuard /\ loops = <<>> /\ guard' = NoGuard
      /\ count' = [count EXCEPT ![o] = 0]
      /\ Destructor(o, around, panics, dropPanics)
      /\ edges' = edges /\ roots' = roots
  BY DEF AsRefFails, Running
<1>2. o \in Owners /\ o \in Nodes /\ count[o] = 1
  BY <1>1, GuardIs, GuardedIs
<1>3. around \in Seq(LoopType) /\ LeavesAmong(around, loops)
  BY DEF LeavesAmong
<1>4. guard'.owner = NoNode /\ \A p \in Owners : p # NoNode
  BY <1>1, OwnerAssumption DEF NoGuard, Nodes
<1>5. \A n \in Nodes : InLoops(n, loops) = 0 /\ InLoops(n, around) = 0
  BY <1>1, LoopsNone
<1> HIDE DEF around
<1>6. Released(o, around)
  BY <1>1, <1>2, <1>3, DestructorIs DEF Released
<1>7. LostKept'
  BY <1>6 DEF Released
<1>8. guard' \in {guard, NoGuard} /\ guard'.owner # o /\ \A p \in Owners : p # o => (guard'.owner = p <=> guard.owner = p)
  BY <1>1, <1>2, <1>4
<1>9. /\ OwnerTypes' /\ GuardFree' /\ PlacesKept' /\ InnerKept' /\ LoopsKept'
      /\ Live(count') = Live(count)
  BY <1>2, <1>3, <1>6, <1>8, ReleasedKept
<1>10. ASSUME NEW n \in Nodes PROVE CountKept(n)'
  <2> DEFINE i == Is(o, n)
             dg == 0 - i
  <2>1. i \in Int /\ dg \in Int /\ InLoops(n, loops) = InLoops(n, around) + i + dg
    BY <1>5, IsType
  <2>2. Delta(Is(guard'.owner, n), Is(guard.owner, n), dg)
    <3>1. Is(guard'.owner, n) = 0
      BY <1>4, NoNodeIs
    <3>2. QED
      BY <3>1, IsType DEF Delta
  <2> HIDE DEF dg
  <2>3. QED
    BY <1>2, <1>3, <1>6, <1>9, <2>1, <2>2, ReleasedCount
<1>11. QED
  BY <1>7, <1>9, <1>10 DEF OwnerInv, CountsKept

(* The first reference of the innermost loop *)
LEMMA GivenUpIs ==
  ASSUME OwnerInv, InLoop, Innermost.edges # <<>>
  PROVE  LET n == Head(Innermost.edges)
         IN  /\ n \in Nodes /\ count[n] > 0 /\ guard.owner # n
             /\ n \in Owners => place[n] = "node"
<1> DEFINE h == Head(Innermost.edges)
<1>1. loops \in Seq(LoopType) /\ loops # <<>>
  BY Types DEF InLoop
<1>2. h \in Nodes /\ Stepped \in Seq(LoopType) /\ InLoops(h, loops) = InLoops(h, Stepped) + Is(h, h)
  BY <1>1, LoopsStepped
<1> HIDE DEF h
<1>3. InLoops(h, Stepped) \in Nat /\ Is(h, h) = 1
  BY <1>2, LoopsType DEF Is
<1>4. InLoops(h, loops) > 0
  BY <1>2, <1>3
<1>5. QED
  BY <1>2, <1>4, Referenced DEF h

LEMMA StepDelete ==
  ASSUME OwnerInv, NEW panics \in BOOLEAN, Delete(panics)
  PROVE  OwnerInv'
<1> DEFINE o == Head(Innermost.edges)
           around == Stepped
           unwinding == panicked = "unwinding"
<1>1. /\ InLoop /\ Innermost.edges # <<>> /\ o \in Owners /\ count[o] = 1
      /\ count' = [count EXCEPT ![o] = 0]
      /\ Destructor(o, around, unwinding, panics)
      /\ edges' = edges /\ roots' = roots /\ guard' = guard
  BY DEF Delete
<1>2. guard.owner # o
  BY <1>1, GivenUpIs
<1>3. loops \in Seq(LoopType) /\ loops # <<>> /\ unwinding \in BOOLEAN
  BY <1>1, Types DEF InLoop
<1>4. /\ around \in Seq(LoopType) /\ Len(around) = Len(loops)
      /\ \A i \in 1..Len(loops) : around[i].leaf = loops[i].leaf
      /\ \A n \in Nodes : InLoops(n, loops) = InLoops(n, around) + Is(o, n)
  BY <1>1, <1>3, LoopsStepped
<1>5. LeavesAmong(around, loops)
  BY <1>4 DEF LeavesAmong
<1> HIDE DEF around, unwinding, o
<1>6. Released(o, around)
  BY <1>1, <1>3, <1>4, DestructorIs DEF Released
<1>7. LostKept'
  BY <1>6 DEF Released
<1>8. guard' \in {guard, NoGuard} /\ guard'.owner # o /\ \A p \in Owners : p # o => (guard'.owner = p <=> guard.owner = p)
  BY <1>1, <1>2
<1>9. /\ OwnerTypes' /\ GuardFree' /\ PlacesKept' /\ InnerKept' /\ LoopsKept'
      /\ Live(count') = Live(count)
  BY <1>1, <1>5, <1>6, <1>8, ReleasedKept
<1>10. ASSUME NEW n \in Nodes PROVE CountKept(n)'
  <2>1. InLoops(n, loops) = InLoops(n, around) + Is(o, n) + 0
    <3>1. InLoops(n, around) \in Nat
      BY <1>4, LoopsType
    <3>2. QED
      BY <1>4, <3>1, IsType
  <2>2. Delta(Is(guard'.owner, n), Is(guard.owner, n), 0)
    BY <1>1, Unchanged
  <2>3. 0 \in Int
    OBVIOUS
  <2>4. QED
    BY <1>1, <1>4, <1>6, <1>9, <2>1, <2>2, <2>3, ReleasedCount
<1>11. QED
  BY <1>7, <1>9, <1>10 DEF OwnerInv, CountsKept

(* A reference is given up that is not the last. *)
LEMMA GiveUpOne ==
  ASSUME OwnerInv, NEW h \in Nodes, count[h] > 1, loops' \in Seq(LoopType),
         \A n \in Nodes : InLoops(n, loops) = InLoops(n, loops') + Is(h, n),
         LeavesAmong(loops', loops),
         count' = [count EXCEPT ![h] = @ - 1],
         UNCHANGED <<place, edges, inner, roots, guard, panicked, lost>>
  PROVE  OwnerInv'
<1>1. guard.owner # h
  <2>1. guard.owner = h => h \in Owners
    BY GuardIs
  <2>2. QED
    BY <2>1 DEF OwnerInv, PlacesKept
<1>2. \A n \in Nodes : count[n] \in Nat
  BY Types
<1>3. \A n \in Nodes : count'[n] = IF n = h THEN count[h] - 1 ELSE count[n]
  BY Types
<1>4. OwnerTypes'
  BY <1>2, Types DEF OwnerTypes
<1>5. GuardFree' /\ InnerKept' /\ LostKept'
  BY DEF OwnerInv, GuardFree, InnerKept, LostKept
<1>6. PlacesKept'
  BY <1>1, <1>2, <1>3 DEF OwnerInv, PlacesKept, Nodes
<1>7. LoopsKept'
  <2>1. ASSUME NEW i \in 1..Len(loops'), loops'[i].leaf \in Leaves PROVE count'[loops'[i].leaf] = 0
    <3>1. PICK j \in 1..Len(loops) : loops[j].leaf = loops'[i].leaf
      BY <2>1 DEF LeavesAmong
    <3>2. count[loops[j].leaf] = 0
      BY <2>1, <3>1 DEF OwnerInv, LoopsKept
    <3>3. QED
      BY <1>3, <2>1, <3>1, <3>2 DEF Nodes
  <2>2. QED
    BY <2>1 DEF LoopsKept
<1>8. ASSUME NEW n \in Nodes PROVE CountKept(n)'
  <2> DEFINE j == 0 - Is(h, n)
  <2>1. j \in Int /\ Sums(j, 0, 0, 0, j, 0, 0)
    BY IsType DEF Sums
  <2>2. Delta(InLoops(n, loops'), InLoops(n, loops), j)
    <3>1. InLoops(n, loops') \in Nat
      BY LoopsType
    <3>2. QED
      BY <3>1, IsType DEF Delta
  <2>3. Delta(count'[n], count[n], j)
    BY <1>2, <1>3 DEF Is, Delta
  <2>4. Live(count') = Live(count)
    <3>1. \A l \in Leaves : count[l] > 0 <=> count'[l] > 0
      BY <1>2, <1>3 DEF Nodes
    <3>2. QED
      BY <3>1, LiveSame
  <2>5. /\ Delta(Held(n, Vars, roots'), Held(n, Vars, roots), 0)
        /\ Delta(Held(n, Owners, inner'), Held(n, Owners, inner), 0)
        /\ Delta(OccurrencesIn(n, edges', Live(count')), OccurrencesIn(n, edges, Live(count)), 0)
        /\ Delta(lost'[n], lost[n], 0)
        /\ Delta(Is(guard'.owner, n), Is(guard.owner, n), 0)
    BY <2>4, Unchanged
  <2> HIDE DEF j
  <2>6. Changes(n, 0, 0, 0, j, 0, 0, j)
    BY <2>1, <2>2, <2>3, <2>5 DEF Changes
  <2>7. QED
    BY <2>6, CountStep
<1>9. QED
  BY <1>4, <1>5, <1>6, <1>7, <1>8 DEF OwnerInv, CountsKept

(* The last reference on a leaf: a loop over its edges begins, and they    *)
(* are references of the loop from now on.                                 *)
LEMMA GiveUpLeaf ==
  ASSUME OwnerInv, NEW h \in Leaves, count[h] = 1, NEW ls \in Seq(LoopType),
         \A n \in Nodes : InLoops(n, loops) = InLoops(n, ls) + Is(h, n),
         LeavesAmong(ls, loops),
         count' = [count EXCEPT ![h] = @ - 1],
         loops' = Append(ls, Loop(h, edges[h])),
         UNCHANGED <<place, edges, inner, roots, guard, panicked, lost>>
  PROVE  OwnerInv'
<1> DEFINE e == edges[h]
           b == Loop(h, e)
<1>1. h \in Nodes /\ h \notin Owners
  BY OwnerAssumption DEF Nodes
<1>2. \A n \in Nodes : count[n] \in Nat
  BY Types
<1>3. \A n \in Nodes : count'[n] = IF n = h THEN 0 ELSE count[n]
  BY <1>1, Types
<1>4. e \in Seq(Owners) /\ e \in Seq(Nodes)
  <2>1. e \in Seq(Owners)
    BY Types
  <2>2. \A o \in Owners : o \in Nodes
    BY DEF Nodes
  <2> HIDE DEF e
  <2>3. \A i \in 1..Len(e) : e[i] \in Nodes
    BY <2>1, <2>2, ElementOfSeq
  <2>4. e = [i \in 1..Len(e) |-> e[i]] /\ Len(e) \in Nat
    BY <2>1
  <2>5. e \in [1..Len(e) -> Nodes]
    BY <2>3, <2>4
  <2>6. e \in Seq(Nodes)
    BY <2>4, <2>5
  <2>7. QED
    BY <2>1, <2>6
<1> HIDE DEF e
<1>5. b \in LoopType /\ b.edges = e /\ b.leaf = h
  BY <1>4 DEF Loop, LoopType
<1>6. loops' = Append(ls, b)
  BY DEF e
<1> HIDE DEF b
<1>7. loops' \in Seq(LoopType) /\ \A n \in Nodes : InLoops(n, loops') = InLoops(n, ls) + Occurrences(n, e)
  BY <1>5, <1>6, LoopsAppend
<1>8. OwnerTypes'
  <2>1. count' \in [Nodes -> Nat]
    BY <1>1, <1>2, Types
  <2>2. QED
    BY <1>7, <2>1, Types DEF OwnerTypes
<1>9. GuardFree' /\ InnerKept' /\ LostKept'
  BY DEF OwnerInv, GuardFree, InnerKept, LostKept
<1>10. PlacesKept'
  BY <1>1, <1>3 DEF OwnerInv, PlacesKept, Nodes
<1>11. LoopsKept'
  <2>1. /\ Len(ls) \in Nat /\ Len(loops') = Len(ls) + 1 /\ loops'[Len(ls) + 1] = b
        /\ \A i \in 1..Len(ls) : loops'[i] = ls[i]
    BY <1>5, <1>6, AppendProperties
  <2>2. ASSUME NEW i \in 1..Len(loops'), loops'[i].leaf \in Leaves PROVE count'[loops'[i].leaf] = 0
    <3>1. CASE i = Len(ls) + 1
      BY <1>1, <1>3, <1>5, <2>1, <3>1
    <3>2. CASE i # Len(ls) + 1
      <4>1. i \in 1..Len(ls) /\ loops'[i] = ls[i]
        BY <2>1, <3>2
      <4>2. PICK j \in 1..Len(loops) : loops[j].leaf = ls[i].leaf
        BY <2>2, <4>1 DEF LeavesAmong
      <4>3. count[loops[j].leaf] = 0
        BY <2>2, <4>1, <4>2 DEF OwnerInv, LoopsKept
      <4>4. QED
        BY <1>3, <2>2, <4>1, <4>2, <4>3 DEF Nodes
    <3>3. QED
      BY <3>1, <3>2
  <2>3. QED
    BY <2>2 DEF LoopsKept
<1>12. ASSUME NEW n \in Nodes PROVE CountKept(n)'
  <2> DEFINE i == Is(h, n)
             q == Occurrences(n, e)
             a == InLoops(n, ls)
             dc == 0 - q
             dd == q - i
             dk == 0 - i
  <2>1. i \in Int /\ q \in Int /\ a \in Int
    BY <1>4, IsType, OccurrencesType, LoopsType
  <2>2. InLoops(n, loops) = a + i /\ InLoops(n, loops') = a + q
    BY <1>7
  <2>3. Delta(OccurrencesIn(n, edges, Live(count)), OccurrencesIn(n, edges, Live(count')), q)
    <3> DEFINE d == count'
    <3>1. \A m \in Leaves \ {h} : d[m] > 0 <=> count[m] > 0
      BY <1>3 DEF Nodes
    <3>2. d[h] = 0 /\ edges[h] = e
      BY <1>1, <1>3 DEF e
    <3>3. ~(d[h] > 0) /\ count[h] > 0
      BY <3>2
    <3> HIDE DEF d
    <3>4. LeafAdded(d, count, edges, edges, h, e)
      BY <3>1, <3>2, <3>3 DEF LeafAdded
    <3>5. edges \in [Leaves -> Seq(Owners)]
      BY Types
    <3>6. Delta(OccurrencesIn(n, edges, Live(count)), OccurrencesIn(n, edges, Live(d)), Occurrences(n, e))
      BY <3>4, <3>5, LiveMore
    <3>7. QED
      BY <3>6 DEF d
  <2>4. OccurrencesIn(n, edges, Live(count')) \in Int
    <3>1. edges \in [Leaves -> Seq(Owners)]
      BY Types
    <3>2. IsFiniteSet(Live(count')) /\ AreSequences(edges, Live(count'), Owners)
      BY <3>1, LiveFinite, LiveEdges
    <3>3. QED
      BY <3>2, InType
  <2>5. Delta(count'[n], count[n], dk)
    BY <1>2, <1>3 DEF Is, Delta
  <2> HIDE DEF i, q, a
  <2>6. Delta(OccurrencesIn(n, edges', Live(count')), OccurrencesIn(n, edges, Live(count)), dc)
    BY <2>1, <2>3, <2>4 DEF Delta
  <2>7. Delta(InLoops(n, loops'), InLoops(n, loops), dd)
    BY <2>1, <2>2 DEF Delta
  <2>8. dc \in Int /\ dd \in Int /\ Sums(dk, 0, 0, dc, dd, 0, 0)
    BY <2>1 DEF Sums
  <2>9. /\ Delta(Held(n, Vars, roots'), Held(n, Vars, roots), 0)
        /\ Delta(Held(n, Owners, inner'), Held(n, Owners, inner), 0)
        /\ Delta(lost'[n], lost[n], 0)
        /\ Delta(Is(guard'.owner, n), Is(guard.owner, n), 0)
    BY Unchanged
  <2> HIDE DEF dc, dd, dk
  <2>10. Changes(n, 0, 0, dc, dd, 0, 0, dk)
    BY <2>5, <2>6, <2>7, <2>8, <2>9 DEF Changes
  <2>11. QED
    BY <2>10, CountStep
<1>13. QED
  BY <1>8, <1>9, <1>10, <1>11, <1>12 DEF OwnerInv, CountsKept

LEMMA StepGiveUp ==
  ASSUME OwnerInv, GiveUp
  PROVE  OwnerInv'
<1> DEFINE h == Head(Innermost.edges)
           ls == Stepped
<1>1. /\ InLoop /\ Innermost.edges # <<>>
      /\ count' = [count EXCEPT ![h] = @ - 1]
      /\ \/ count[h] > 1 /\ loops' = ls
         \/ count[h] = 1 /\ h \in Leaves /\ loops' = Append(ls, Loop(h, edges[h]))
      /\ UNCHANGED <<place, edges, inner, roots, guard, panicked, lost>>
  BY DEF GiveUp
<1>2. loops \in Seq(LoopType) /\ loops # <<>>
  BY <1>1, Types DEF InLoop
<1>3. /\ ls \in Seq(LoopType) /\ h \in Nodes /\ Len(ls) = Len(loops)
      /\ \A i \in 1..Len(loops) : ls[i].leaf = loops[i].leaf
      /\ \A n \in Nodes : InLoops(n, loops) = InLoops(n, ls) + Is(h, n)
  BY <1>1, <1>2, LoopsStepped
<1>4. LeavesAmong(ls, loops)
  BY <1>3 DEF LeavesAmong
<1> HIDE DEF h, ls
<1>5. CASE count[h] > 1 /\ loops' = ls
  BY <1>1, <1>3, <1>4, <1>5, GiveUpOne
<1>6. CASE count[h] = 1 /\ h \in Leaves /\ loops' = Append(ls, Loop(h, edges[h]))
  BY <1>1, <1>3, <1>4, <1>6, GiveUpLeaf
<1>7. QED
  BY <1>1, <1>5, <1>6

(* The leaf whose loop ends was not in use any more. *)
LEMMA StepEndLoop ==
  ASSUME OwnerInv, EndLoop
  PROVE  OwnerInv'
<1> DEFINE b == Innermost.leaf
<1>1. /\ loops # <<>> /\ Innermost.edges = <<>> /\ loops' = Around
      /\ edges' = [l \in Leaves |-> IF l = b THEN <<>> ELSE edges[l]]
      /\ panicked' = "no" => panicked = "no"
      /\ UNCHANGED <<place, count, inner, roots, guard, lost>>
  BY DEF EndLoop, InLoop
<1>2. /\ Around \in Seq(LoopType) /\ Innermost \in LoopType /\ loops = Append(Around, Innermost)
      /\ Len(Around) = Len(loops) - 1 /\ \A i \in 1..Len(Around) : Around[i] = loops[i]
  BY <1>1, LoopsLast, Types
<1>3. Len(loops) \in Nat /\ Len(loops) > 0
  BY <1>1, EmptySeq, Types
<1>4. b \in Leaves => count[b] = 0
  <2>1. Len(loops) \in 1..Len(loops) /\ loops[Len(loops)].leaf = b
    BY <1>3 DEF Innermost
  <2>2. QED
    BY <2>1 DEF OwnerInv, LoopsKept
<1> HIDE DEF b
<1>5. edges' \in [Leaves -> Seq(Owners)]
  <2>1. <<>> \in Seq(Owners)
    OBVIOUS
  <2>2. \A l \in Leaves : edges[l] \in Seq(Owners)
    BY Types
  <2>3. QED
    BY <1>1, <2>1, <2>2
<1>6. OwnerTypes'
  BY <1>1, <1>2, <1>5, Types DEF OwnerTypes
<1>7. GuardFree' /\ PlacesKept' /\ InnerKept' /\ LostKept'
  BY <1>1 DEF OwnerInv, GuardFree, PlacesKept, InnerKept, LostKept
<1>8. LoopsKept'
  <2>1. ASSUME NEW i \in 1..Len(Around) PROVE i \in 1..Len(loops) /\ Around[i] = loops[i]
    BY <1>2, <1>3
  <2>2. QED
    BY <1>1, <2>1 DEF OwnerInv, LoopsKept
<1>9. ASSUME NEW n \in Nodes PROVE CountKept(n)'
  <2>1. InLoops(n, loops) = InLoops(n, Around) + Occurrences(n, <<>>)
    BY <1>1, <1>2, LoopsAppend
  <2>2. InLoops(n, Around) \in Nat /\ Occurrences(n, <<>>) = 0
    BY <1>2, LoopsType, OccurrencesEmpty
  <2>3. Delta(InLoops(n, loops'), InLoops(n, loops), 0)
    BY <1>1, <2>1, <2>2 DEF Delta
  <2>4. Live(count') = Live(count)
    BY <1>1
  <2>5. OccurrencesIn(n, edges', Live(count)) = OccurrencesIn(n, edges, Live(count))
    <3>1. \A l \in Live(count) : edges'[l] = edges[l]
      BY <1>1, <1>4 DEF Live
    <3>2. QED
      BY <3>1, InSame
  <2>6. OccurrencesIn(n, edges, Live(count)) \in Int
    BY Parts DEF Part
  <2>7. Delta(OccurrencesIn(n, edges', Live(count')), OccurrencesIn(n, edges, Live(count)), 0)
    BY <2>4, <2>5, <2>6 DEF Delta
  <2>8. /\ Delta(Held(n, Vars, roots'), Held(n, Vars, roots), 0)
        /\ Delta(Held(n, Owners, inner'), Held(n, Owners, inner), 0)
        /\ Delta(lost'[n], lost[n], 0)
        /\ Delta(Is(guard'.owner, n), Is(guard.owner, n), 0)
        /\ Delta(count'[n], count[n], 0)
    BY <1>1, Unchanged
  <2>9. Sums(0, 0, 0, 0, 0, 0, 0) /\ 0 \in Int
    BY DEF Sums
  <2>10. Changes(n, 0, 0, 0, 0, 0, 0, 0)
    BY <2>3, <2>7, <2>8, <2>9 DEF Changes
  <2>11. QED
    BY <2>10, CountStep
<1>10. QED
  BY <1>6, <1>7, <1>8, <1>9 DEF OwnerInv, CountsKept

-----------------------------------------------------------------------------
(* The specification *)
LEMMA InitOwner == ASSUME OwnerInit PROVE OwnerInv
<1>1. /\ place = [o \in Owners |-> "program"] /\ count = [n \in Nodes |-> 0]
      /\ edges = [l \in Leaves |-> <<>>] /\ inner = [o \in Owners |-> NoNode]
      /\ roots = [x \in Vars |-> NoNode] /\ guard = NoGuard /\ loops = <<>>
      /\ panicked = "no" /\ lost = [n \in Nodes |-> 0]
  BY DEF OwnerInit
<1>2. guard.owner = NoNode /\ \A o \in Owners : o \in Nodes /\ o # NoNode
  BY <1>1, OwnerAssumption DEF NoGuard, Nodes
<1>3. OwnerTypes
  <2>1. edges \in [Leaves -> Seq(Owners)] /\ loops \in Seq(LoopType)
    BY <1>1
  <2>2. QED
    BY <1>1, <2>1 DEF OwnerTypes
<1>4. GuardFree /\ InnerKept /\ LostKept
  BY <1>1 DEF GuardFree, InnerKept, LostKept
<1>5. PlacesKept
  BY <1>1, <1>2 DEF PlacesKept
<1>6. LoopsKept
  BY <1>1 DEF LoopsKept
<1>7. ASSUME NEW n \in Nodes PROVE CountKept(n)
  <2>1. n # NoNode /\ Is(guard.owner, n) = 0
    BY <1>2, NoNodeIs
  <2>2. Held(n, Vars, roots) = 0 /\ Held(n, Owners, inner) = 0
    <3>1. (\A x \in Vars : roots[x] # n) /\ \A o \in Owners : inner[o] # n
      BY <1>1, <2>1
    <3>2. QED
      BY <3>1, HeldNone
  <2>3. OccurrencesIn(n, edges, Live(count)) = 0
    <3>1. Live(count) = {}
      BY <1>1 DEF Live, Nodes
    <3>2. QED
      BY <3>1, InNone
  <2>4. InLoops(n, loops) = 0
    BY <1>1, LoopsNone
  <2>5. count[n] = 0 /\ lost[n] = 0
    BY <1>1
  <2>6. QED
    BY <2>1, <2>2, <2>3, <2>4, <2>5 DEF CountKept, Refs
<1>8. QED
  BY <1>3, <1>4, <1>5, <1>6, <1>7 DEF OwnerInv, CountsKept

LEMMA OwnerUnchanged == ASSUME OwnerInv, UNCHANGED ownerVars PROVE OwnerInv'
<1>1. /\ place' = place /\ count' = count /\ edges' = edges /\ inner' = inner /\ roots' = roots
      /\ guard' = guard /\ loops' = loops /\ panicked' = panicked /\ lost' = lost
  BY DEF ownerVars
<1>2. OwnerTypes' /\ GuardFree' /\ PlacesKept'
  BY <1>1 DEF OwnerInv, OwnerTypes, GuardFree, PlacesKept
<1>3. InnerKept' /\ LoopsKept' /\ LostKept'
  BY <1>1 DEF OwnerInv, InnerKept, LoopsKept, LostKept
<1>4. CountsKept'
  BY <1>1 DEF OwnerInv, CountsKept, CountKept, Refs, Live, Held, OccurrencesIn, InLoops
<1>5. QED
  BY <1>2, <1>3, <1>4 DEF OwnerInv

LEMMA OwnerInductive == ASSUME OwnerInv, [OwnerNext]_ownerVars PROVE OwnerInv'
<1>1. ASSUME NEW o \in Owners, NEW x \in Vars, NEW y \in Vars, CreateOwner(o, x, y) PROVE OwnerInv'
  BY <1>1, StepCreateOwner
<1>2. CASE AsRefReturns
  BY <1>2, StepAsRefReturns
<1>3. ASSUME NEW p \in BOOLEAN, NEW d \in BOOLEAN, AsRefFails(p, d) PROVE OwnerInv'
  BY <1>3, StepAsRefFails
<1>4. ASSUME NEW o \in Owners, NEW x \in Vars, NEW adopt \in BOOLEAN, FromGlobal(o, x, adopt) PROVE OwnerInv'
  BY <1>4, StepFromGlobal
<1>5. ASSUME NEW x \in Vars, NEW y \in Vars, CloneCord(x, y) PROVE OwnerInv'
  BY <1>5, StepCloneCord
<1>6. ASSUME NEW x \in Vars, NEW y \in Vars, AppendCord(x, y) PROVE OwnerInv'
  BY <1>6, StepAppendCord
<1>7. ASSUME NEW x \in Vars, DropCord(x) PROVE OwnerInv'
  BY <1>7, StepDropCord
<1>8. ASSUME NEW x \in Vars, IntoVec(x) PROVE OwnerInv'
  BY <1>8, StepIntoVec
<1>9. CASE GiveUp
  BY <1>9, StepGiveUp
<1>10. ASSUME NEW p \in BOOLEAN, Delete(p) PROVE OwnerInv'
  BY <1>10, StepDelete
<1>11. CASE EndLoop
  BY <1>11, StepEndLoop
<1>12. CASE UNCHANGED ownerVars
  BY <1>12, OwnerUnchanged
<1>13. QED
  BY <1>1, <1>2, <1>3, <1>4, <1>5, <1>6, <1>7, <1>8, <1>9, <1>10, <1>11, <1>12 DEF OwnerNext

(***************************************************************************)
(* Whatever as_ref and the destructors do, panics included, every count of *)
(* external.rs is the number of references that variables, owners, leaves  *)
(* in use and destroy loops hold, plus those a panic lost and the guard's. *)
(***************************************************************************)
THEOREM OwnerInvariance == OwnerSpec => []OwnerInv
<1>1. OwnerInit => OwnerInv
  BY InitOwner
<1>2. OwnerInv /\ [OwnerNext]_ownerVars => OwnerInv'
  BY OwnerInductive
<1>3. QED
  BY <1>1, <1>2, PTL DEF OwnerSpec

LEMMA InvOwnersKept == ASSUME OwnerInv PROVE OwnersKept
<1>1. ASSUME NEW n \in Nodes PROVE References(n) = Refs(n, roots, inner, edges, count, loops)
  BY DEF References, Refs, Held, Live
<1>2. ASSUME NEW n \in Nodes, guard.owner # n PROVE count[n] = References(n) + lost[n]
  <2>1. Part(n) /\ Is(guard.owner, n) = 0
    BY <1>2, Parts DEF Is
  <2>2. QED
    BY <1>1, <2>1 DEF Part, Refs
<1>3. ASSUME NEW o \in Owners
      PROVE  \/ place[o] = "node" /\ count[o] > 0 /\ count[o] = References(o) + lost[o]
             \/ place[o] = "guarded" /\ guard.owner = o /\ count[o] = 1 /\ References(o) = 0
             \/ /\ place[o] \in {"program", "dropped"}
                /\ count[o] = 0 /\ References(o) = 0 /\ lost[o] = 0
  <2>1. o \in Nodes
    BY DEF Nodes
  <2>2. CASE place[o] = "node" /\ count[o] > 0 /\ guard.owner # o
    BY <1>2, <2>1, <2>2
  <2>3. CASE place[o] = "guarded" /\ count[o] = 1 /\ guard.owner = o
    <3>1. guard # NoGuard
      BY <2>1, <2>3, GuardIs
    <3>2. /\ Held(o, Vars, roots) = 0 /\ Held(o, Owners, inner) = 0
          /\ OccurrencesIn(o, edges, Live(count)) = 0 /\ InLoops(o, loops) = 0
      BY <2>3, <3>1, GuardedIs
    <3>3. References(o) = 0
      BY <1>1, <2>1, <3>2 DEF Refs
    <3>4. QED
      BY <2>3, <3>3
  <2>4. CASE place[o] \in {"program", "dropped"} /\ count[o] = 0 /\ guard.owner # o
    <3>1. /\ Held(o, Vars, roots) = 0 /\ Held(o, Owners, inner) = 0
          /\ OccurrencesIn(o, edges, Live(count)) = 0 /\ InLoops(o, loops) = 0 /\ lost[o] = 0
      BY <2>1, <2>4, UnusedIs
    <3>2. References(o) = 0
      BY <1>1, <2>1, <3>1 DEF Refs
    <3>3. QED
      BY <2>4, <3>1, <3>2
  <2>5. QED
    BY <2>2, <2>3, <2>4 DEF OwnerInv, PlacesKept
<1>4. ASSUME NEW l \in Leaves PROVE count[l] = References(l) + lost[l]
  <2>1. l \in Nodes /\ l \notin Owners
    BY OwnerAssumption DEF Nodes
  <2>2. guard.owner # l
    BY <2>1, GuardIs
  <2>3. QED
    BY <1>2, <2>1, <2>2
<1>5. panicked = "no" => \A n \in Nodes : lost[n] = 0
  BY DEF OwnerInv, LostKept
<1>6. QED
  BY <1>3, <1>4, <1>5 DEF OwnersKept

(***************************************************************************)
(* "The owner is moved into the cord and retained while any cord references *)
(* its storage": no owner is dropped while a reference is left, none is    *)
(* forgotten once the last one went, and only a panicking destructor loses *)
(* references (create_owner, delete and into_global_vec of external.rs,    *)
(* unref_edges and destroy of btree.rs).                                   *)
(***************************************************************************)
THEOREM OwnersAreKept == OwnerSpec => []OwnersKept
<1>1. OwnerInv => OwnersKept
  BY InvOwnersKept
<1>2. QED
  BY <1>1, OwnerInvariance, PTL

-----------------------------------------------------------------------------
(* An owner that was dropped is gone for good, and no other way leads out  *)
(* of its node than the destructor or, for a buffer of the allocator, the  *)
(* program getting it back unshared.                                       *)
ReleasedOnce ==
    \A o \in Owners :
      /\ place[o] = "dropped" => place'[o] = "dropped"
      /\ place[o] = "node" => \/ place'[o] \in {"node", "dropped"}
                              \/ o \in GlobalOwners /\ place'[o] = "program" /\ count[o] = 1

LEMMA StepReleasedOnce == ASSUME OwnerInv, [OwnerNext]_ownerVars PROVE ReleasedOnce
<1>1. place \in [Owners -> {"program", "guarded", "node", "dropped"}]
  BY Types
<1>2. CASE place' = place
  BY <1>2 DEF ReleasedOnce
<1>3. ASSUME NEW o \in Owners, NEW v, place' = [place EXCEPT ![o] = v],
             \/ v = "dropped" \/ place[o] \notin {"dropped", "node"}
             \/ place[o] = "node" /\ v = "program" /\ o \in GlobalOwners /\ count[o] = 1
      PROVE  ReleasedOnce
  BY <1>1, <1>3 DEF ReleasedOnce
<1>4. ASSUME NEW o \in Owners, NEW x \in Vars, NEW y \in Vars, CreateOwner(o, x, y) PROVE ReleasedOnce
  BY <1>3, <1>4 DEF CreateOwner
<1>5. ASSUME AsRefReturns PROVE ReleasedOnce
  <2>1. guard # NoGuard /\ place' = [place EXCEPT ![guard.owner] = "node"]
    BY <1>5 DEF AsRefReturns
  <2>2. guard.owner \in Owners /\ place[guard.owner] = "guarded"
    BY <2>1, GuardIs, GuardedIs
  <2>3. QED
    BY <1>3, <2>1, <2>2
<1>6. ASSUME NEW q \in BOOLEAN, NEW d \in BOOLEAN, AsRefFails(q, d) PROVE ReleasedOnce
  <2>1. guard # NoGuard /\ place' = [place EXCEPT ![guard.owner] = "dropped"]
    BY <1>6 DEF AsRefFails, Destructor
  <2>2. guard.owner \in Owners
    BY <2>1, GuardIs
  <2>3. QED
    BY <1>3, <2>1, <2>2
<1>7. ASSUME NEW o \in Owners, NEW x \in Vars, NEW adopt \in BOOLEAN, FromGlobal(o, x, adopt)
      PROVE  ReleasedOnce
  BY <1>3, <1>7 DEF FromGlobal
<1>8. ASSUME NEW x \in Vars, IntoVec(x) PROVE ReleasedOnce
  <2> DEFINE r == roots[x]
  <2>1. r \in GlobalOwners /\ count[r] = 1 /\ place' = [place EXCEPT ![r] = "program"]
    BY <1>8 DEF IntoVec
  <2>2. r \in Owners /\ r \in Nodes
    BY <2>1 DEF Owners, Nodes
  <2>3. r # NoNode
    BY <2>2, NoNodeIs
  <2>4. place[r] = "node"
    BY <2>2, <2>3, RootIs
  <2> HIDE DEF r
  <2>5. QED
    BY <1>3, <2>1, <2>2, <2>4
<1>9. ASSUME NEW q \in BOOLEAN, Delete(q) PROVE ReleasedOnce
  BY <1>3, <1>9 DEF Delete, Destructor
<1>10. ASSUME \/ \E x \in Vars, y \in Vars : CloneCord(x, y) \/ AppendCord(x, y)
              \/ \E x \in Vars : DropCord(x)
              \/ GiveUp \/ EndLoop \/ UNCHANGED ownerVars
       PROVE  place' = place
  BY <1>10 DEF CloneCord, AppendCord, DropCord, GiveUp, EndLoop, ownerVars
<1>11. QED
  BY <1>2, <1>4, <1>5, <1>6, <1>7, <1>8, <1>9, <1>10 DEF OwnerNext

(***************************************************************************)
(* No step drops an owner twice, revives one that was dropped, or takes it *)
(* out of its node but by the destructor or into_global_vec, which needs   *)
(* the only reference (release and into_global_vec of external.rs).        *)
(***************************************************************************)
THEOREM OwnersReleasedOnce == OwnerSpec => [][ReleasedOnce]_ownerVars
<1>1. OwnerInv /\ [OwnerNext]_ownerVars => [ReleasedOnce]_ownerVars
  BY StepReleasedOnce
<1>2. QED
  BY <1>1, OwnerInvariance, PTL DEF OwnerSpec
=============================================================================
