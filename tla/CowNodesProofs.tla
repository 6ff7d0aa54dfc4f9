--------------------------- MODULE CowNodesProofs ---------------------------
(***************************************************************************)
(* Copy-on-write isolates cords from each other and loses no node, for any *)
(* number of cords, nodes and edges and any interleaving of their steps.   *)
(***************************************************************************)
EXTENDS CowNodes, FiniteSetTheorems, NaturalsInduction, TLAPS

(***************************************************************************)
(* The inductive invariant.  Of the memory: the counts, that edges lead    *)
(* downwards, and that a free node has none.                               *)
(***************************************************************************)
Falls(n) ==
    \A i \in Slots :
        /\ ref[<<n, i>>] # None => Height[ref[<<n, i>>]] < Height[n]
        /\ state[n] = "free" => ref[<<n, i>>] = None

Memory == \A n \in Nodes : Counted(n) /\ Falls(n)

(***************************************************************************)
(* Of a hand: its stack leads from its reference downwards, edge by edge,  *)
(* what it owns is at the top of the stack, and has count one.             *)
(***************************************************************************)
Link(x, d) ==
    /\ stack[x][d] \in Nodes
    /\ d = 1 => stack[x][d] = ref[x]
    /\ d > 1 => \E i \in Slots : stack[x][d] = ref[<<stack[x][d - 1], i>>]

Borrowed(x) ==
    /\ busy[x] = "idle" <=> depth[x] = 0
    /\ share[x] <= depth[x]
    /\ share[x] > 0 => busy[x] = "write"

Walk(x) ==
    /\ Borrowed(x)
    /\ \A d \in 1..depth[x] : Link(x, d) /\ d + Height[stack[x][d]] <= MaxDepth
    /\ \A d \in 1..depth[x] : \A e \in 1..(d - 1) : Height[stack[x][d]] < Height[stack[x][e]]
    /\ \A d \in 1..share[x] : rc[stack[x][d]] = 1

Walks == \A x \in Hands : Walk(x)

CowInv == TypeOK /\ Memory /\ Walks

-----------------------------------------------------------------------------
(* Sets of references *)

LEMMA PlacesFinite == IsFiniteSet(Places)
<1>1. IsFiniteSet(Nodes \X Slots)
  BY FS_Product, CowAssumption
<1>2. QED
  BY <1>1, FS_Union, CowAssumption DEF Places

LEMMA PlaceKinds ==
  /\ \A x \in Hands : x \in Places
  /\ \A n \in Nodes, i \in Slots : <<n, i>> \in Places
  /\ \A x \in Hands, n \in Nodes, i \in Slots : x # <<n, i>>
BY CowAssumption DEF Places

LEMMA RefsFinite ==
  ASSUME NEW n
  PROVE  IsFiniteSet(Refs(n)) /\ Cardinality(Refs(n)) \in Nat
<1>1. Refs(n) \subseteq Places
  BY DEF Refs
<1>2. QED
  BY <1>1, PlacesFinite, FS_Subset, FS_CardinalityType

(* A count of one: there is one reference. *)
LEMMA OnlyRef ==
  ASSUME NEW n \in Nodes, Counted(n), rc[n] = 1,
         NEW p \in Places, ref[p] = n, NEW q \in Places, ref[q] = n
  PROVE  p = q
<1>1. Cardinality(Refs(n)) = 1
  BY DEF Counted
<1>2. PICK r : Refs(n) = {r}
  BY <1>1, RefsFinite, FS_Singleton
<1>3. p \in Refs(n) /\ q \in Refs(n)
  BY DEF Refs
<1>4. QED
  BY <1>2, <1>3

(* What there is a reference to is alive. *)
LEMMA ReferredLives ==
  ASSUME NEW n \in Nodes, Counted(n), NEW p \in Places, ref[p] = n
  PROVE  state[n] = "live" /\ rc[n] > 0
<1>1. p \in Refs(n)
  BY DEF Refs
<1>2. Cardinality(Refs(n)) # 0
  BY <1>1, RefsFinite, FS_EmptySet
<1>3. QED
  BY <1>1, <1>2, RefsFinite DEF Counted

-----------------------------------------------------------------------------
(* What a call owns *)

(* The only reference to a node that a call owns is the one it came along. *)
LEMMA OwnedOnce ==
  ASSUME TypeOK, Memory, Walks, NEW x \in Hands, NEW d \in 1..share[x],
         NEW p \in Places, ref[p] = stack[x][d]
  PROVE  /\ d \in 1..depth[x]
         /\ d = 1 => p = x
         /\ d > 1 => \E i \in Slots : p = <<stack[x][d - 1], i>>
<1>1. share[x] \in Nat /\ depth[x] \in Nat /\ share[x] <= depth[x] /\ d \in 1..depth[x]
  BY DEF TypeOK, Walks, Walk, Borrowed
<1>2. Link(x, d) /\ rc[stack[x][d]] = 1
  BY <1>1 DEF Walks, Walk
<1>3. Counted(stack[x][d]) /\ stack[x][d] \in Nodes
  BY <1>2 DEF Memory, Link
<1>4. CASE d = 1
  BY <1>1, <1>2, <1>3, <1>4, OnlyRef, PlaceKinds DEF Link
<1>5. CASE d > 1
  <2>1. PICK i \in Slots : stack[x][d] = ref[<<stack[x][d - 1], i>>]
    BY <1>2, <1>5 DEF Link
  <2>2. Link(x, d - 1)
    BY <1>1, <1>5 DEF Walks, Walk
  <2>3. <<stack[x][d - 1], i>> \in Places
    BY <2>2, PlaceKinds DEF Link
  <2>4. p = <<stack[x][d - 1], i>>
    BY <1>2, <1>3, <2>1, <2>3, OnlyRef
  <2>5. QED
    BY <1>1, <1>5, <2>4
<1>6. QED
  BY <1>1, <1>4, <1>5

LEMMA OwnedByHand ==
  ASSUME TypeOK, Memory, Walks, NEW x \in Hands, NEW d \in 1..share[x],
         NEW y \in Hands, ref[y] = stack[x][d]
  PROVE  y = x
<1>1. y \in Places /\ d \in Int /\ d >= 1
  BY PlaceKinds DEF TypeOK
<1>2. d = 1 \/ d > 1
  BY <1>1
<1>3. CASE d = 1
  BY <1>1, <1>3, OwnedOnce
<1>4. CASE d > 1
  <2>1. PICK i \in Slots : y = <<stack[x][d - 1], i>>
    BY <1>1, <1>4, OwnedOnce
  <2>2. Link(x, d - 1)
    BY <1>1, <1>4 DEF Walks, Walk, Borrowed, TypeOK
  <2>3. QED
    BY <2>1, <2>2, PlaceKinds DEF Link
<1>5. QED
  BY <1>2, <1>3, <1>4

LEMMA OwnedBySlot ==
  ASSUME TypeOK, Memory, Walks, NEW x \in Hands, NEW d \in 1..share[x],
         NEW n \in Nodes, NEW i \in Slots, ref[<<n, i>>] = stack[x][d]
  PROVE  d > 1 /\ n = stack[x][d - 1]
<1>1. <<n, i>> \in Places /\ d \in Int /\ d >= 1
  BY PlaceKinds DEF TypeOK
<1>2. d # 1
  BY <1>1, OwnedOnce, PlaceKinds
<1>3. PICK j \in Slots : <<n, i>> = <<stack[x][d - 1], j>>
  BY <1>1, <1>2, OwnedOnce
<1>4. QED
  BY <1>1, <1>2, <1>3

(* A set of numbers that is not empty has a least element. *)
LEMMA Smallest ==
  ASSUME NEW S \in SUBSET Nat, S # {}
  PROVE  \E n \in S : \A m \in S : n <= m
<1> DEFINE Less == {ss \in Nat \X Nat : ss[1] < ss[2]}
<1>1. IsWellFoundedOn(Less, Nat)
  BY NatLessThanWellFounded DEF OpToRel
<1>2. PICK n \in S : \A m \in S : <<m, n>> \notin Less
  <2> HIDE DEF Less
  <2>1. QED
    BY <1>1, WFMin
<1>3. \A m \in S : ~(m < n)
  BY <1>2
<1>4. QED
  BY <1>3

(* Nobody else walks over a node that a call owns. *)
LEMMA OwnedAlone ==
  ASSUME TypeOK, Memory, Walks, NEW z \in Hands, NEW x \in Hands, x # z,
         NEW e \in 1..share[z], NEW d \in 1..depth[x]
  PROVE  stack[x][d] # stack[z][e]
<1> DEFINE Meet(k) == k \in 1..share[z] /\ \E j \in 1..depth[x] : stack[x][j] = stack[z][k]
           Meets == {k \in Nat : Meet(k)}
<1>1. share[z] \in Nat /\ depth[x] \in Nat
  BY DEF TypeOK
<1>2. ASSUME NEW k \in Meets
      PROVE  \E m \in Meets : m < k
  <2>1. PICK j \in 1..depth[x] : stack[x][j] = stack[z][k]
    BY <1>2
  <2>2. k \in 1..share[z] /\ k \in Nat /\ j \in Nat
    BY <1>1, <1>2
  <2>3. Link(x, j)
    BY DEF Walks, Walk
  <2>4. j # 1
    BY <2>1, <2>2, <2>3, OwnedByHand DEF Link
  <2>5. stack[x][j - 1] \in Nodes /\ j - 1 \in 1..depth[x]
    BY <1>1, <2>2, <2>4 DEF Walks, Walk, Link
  <2>6. PICK i \in Slots : stack[x][j] = ref[<<stack[x][j - 1], i>>]
    BY <2>2, <2>3, <2>4 DEF Link
  <2>7. k > 1 /\ stack[x][j - 1] = stack[z][k - 1]
    <3>1. ref[<<stack[x][j - 1], i>>] = stack[z][k]
      BY <2>1, <2>6
    <3>2. QED
      BY <2>2, <2>5, <3>1, OwnedBySlot
  <2>8. k - 1 \in Meets /\ k - 1 < k
    BY <1>1, <2>2, <2>5, <2>7
  <2>9. QED
    BY <2>8
<1>3. Meets = {}
  <2> HIDE DEF Meet
  <2>1. Meets \in SUBSET Nat
    OBVIOUS
  <2>2. SUFFICES ASSUME Meets # {} PROVE FALSE
    OBVIOUS
  <2>3. PICK n \in Meets : \A m \in Meets : n <= m
    BY <2>1, <2>2, Smallest
  <2>4. PICK m \in Meets : m < n
    BY <1>2
  <2>5. QED
    BY <2>1, <2>3, <2>4
<1>4. e \in Nat /\ ~Meet(e)
  BY <1>1, <1>3
<1>5. QED
  BY <1>4

-----------------------------------------------------------------------------
(* How the references to a node change *)

(* The place p now refers to v. *)
OnlyAt(p, v) == \A r \in Places : ref'[r] = IF r = p THEN v ELSE ref[r]

(* The places p and q exchange their references. *)
Exchanged(p, q) ==
    \A r \in Places : ref'[r] = IF r = p THEN ref[q] ELSE IF r = q THEN ref[p] ELSE ref[r]

LEMMA RefAdded ==
  ASSUME NEW p \in Places, NEW n \in Nodes, ref[p] = None, OnlyAt(p, n)
  PROVE  /\ Refs(n)' # {}
         /\ Cardinality(Refs(n)') = Cardinality(Refs(n)) + 1
         /\ \A m \in Nodes : m # n => Refs(m)' = Refs(m)
<1>1. n # None /\ \A m \in Nodes : m # None
  BY CowAssumption
<1>2. Refs(n)' = Refs(n) \cup {p} /\ p \notin Refs(n)
  BY <1>1 DEF Refs, OnlyAt, Places
<1>3. \A m \in Nodes : m # n => Refs(m)' = Refs(m)
  BY <1>1 DEF Refs, OnlyAt, Places
<1>4. Cardinality(Refs(n)') = Cardinality(Refs(n)) + 1
  BY <1>2, RefsFinite, FS_AddElement
<1>5. QED
  BY <1>2, <1>3, <1>4

LEMMA RefDropped ==
  ASSUME NEW p \in Places, NEW n \in Nodes, ref[p] = n, OnlyAt(p, None)
  PROVE  /\ Cardinality(Refs(n)') = Cardinality(Refs(n)) - 1
         /\ Refs(n)' # {} <=> Cardinality(Refs(n)) # 1
         /\ \A m \in Nodes : m # n => Refs(m)' = Refs(m)
<1>1. n # None /\ \A m \in Nodes : m # None
  BY CowAssumption
<1>2. Refs(n)' = Refs(n) \ {p} /\ p \in Refs(n)
  BY <1>1 DEF Refs, OnlyAt, Places
<1>3. \A m \in Nodes : m # n => Refs(m)' = Refs(m)
  BY <1>1 DEF Refs, OnlyAt, Places
<1>4. Cardinality(Refs(n)') = Cardinality(Refs(n)) - 1 /\ IsFiniteSet(Refs(n)')
  BY <1>2, RefsFinite, FS_RemoveElement
<1>5. Refs(n)' # {} <=> Cardinality(Refs(n)) # 1
  BY <1>4, RefsFinite, FS_EmptySet
<1>6. QED
  BY <1>3, <1>4, <1>5

LEMMA RefsExchanged ==
  ASSUME NEW p \in Places, NEW q \in Places, Exchanged(p, q), NEW n \in Nodes
  PROVE  /\ Cardinality(Refs(n)') = Cardinality(Refs(n))
         /\ Refs(n)' # {} <=> Refs(n) # {}
<1>1. CASE ref[p] = ref[q]
  <2>1. Refs(n)' = Refs(n)
    BY <1>1 DEF Refs, Exchanged, Places
  <2>2. QED
    BY <2>1
<1>2. CASE ref[p] # ref[q] /\ ref[p] # n /\ ref[q] # n
  <2>1. Refs(n)' = Refs(n)
    BY <1>2 DEF Refs, Exchanged, Places
  <2>2. QED
    BY <2>1
<1>3. ASSUME NEW r \in Places, NEW s \in Places, ref[r] = n, ref[s] # n,
             ref'[r] = ref[s], ref'[s] = n, \A t \in Places \ {r, s} : ref'[t] = ref[t]
      PROVE  /\ Cardinality(Refs(n)') = Cardinality(Refs(n))
             /\ Refs(n)' # {} <=> Refs(n) # {}
  <2>1. Refs(n)' = (Refs(n) \ {r}) \cup {s} /\ r \in Refs(n) /\ s \notin Refs(n)
    BY <1>3 DEF Refs, Places
  <2>2. IsFiniteSet(Refs(n) \ {r}) /\ Cardinality(Refs(n) \ {r}) = Cardinality(Refs(n)) - 1
    BY <2>1, RefsFinite, FS_RemoveElement
  <2>3. Cardinality(Refs(n)') = (Cardinality(Refs(n)) - 1) + 1
    BY <2>1, <2>2, FS_AddElement
  <2>4. QED
    BY <2>1, <2>3, RefsFinite
<1>4. CASE ref[p] # ref[q] /\ ref[p] = n
  BY <1>4, <1>3 DEF Exchanged
<1>5. CASE ref[p] # ref[q] /\ ref[q] = n
  BY <1>5, <1>3 DEF Exchanged
<1>6. QED
  BY <1>1, <1>2, <1>4, <1>5

-----------------------------------------------------------------------------
(* Facts about the state that the proofs of the steps share *)

(* What a hand stands on is alive, and has slots. *)
LEMMA WalkedLives ==
  ASSUME TypeOK, Memory, Walks, NEW x \in Hands, NEW d \in 1..depth[x]
  PROVE  stack[x][d] \in Nodes /\ state[stack[x][d]] = "live"
<1>1. Link(x, d) /\ depth[x] \in Nat
  BY DEF Walks, Walk, TypeOK
<1>2. CASE d = 1
  BY <1>1, <1>2, ReferredLives, PlaceKinds DEF Link, Memory
<1>3. CASE d > 1
  <2>1. PICK i \in Slots : stack[x][d] = ref[<<stack[x][d - 1], i>>]
    BY <1>1, <1>3 DEF Link
  <2>2. Link(x, d - 1)
    BY <1>1, <1>3 DEF Walks, Walk
  <2>3. <<stack[x][d - 1], i>> \in Places
    BY <2>2, PlaceKinds DEF Link
  <2>4. QED
    BY <1>1, <2>1, <2>3, ReferredLives DEF Link, Memory
<1>4. QED
  BY <1>1, <1>2, <1>3

(* A hand that nothing of is touched keeps its walk. *)
Untouched(z) ==
    /\ busy'[z] = busy[z] /\ stack'[z] = stack[z]
    /\ depth'[z] = depth[z] /\ share'[z] = share[z]
    /\ depth[z] > 0 => ref'[z] = ref[z]
    /\ \A d \in 1..depth[z], i \in Slots : ref'[<<stack[z][d], i>>] = ref[<<stack[z][d], i>>]
    /\ \A d \in 1..share[z] : rc'[stack[z][d]] = rc[stack[z][d]]

LEMMA WalkKept ==
  ASSUME TypeOK, NEW z \in Hands, Walk(z), Untouched(z)
  PROVE  Walk(z)'
<1>1. depth[z] \in Nat /\ share[z] \in Nat
  BY DEF TypeOK
<1>2. Borrowed(z)'
  BY DEF Walk, Borrowed, Untouched
<1>3. ASSUME NEW d \in 1..depth[z]
      PROVE  Link(z, d)' /\ d + Height[stack'[z][d]] <= MaxDepth
  <2>1. Link(z, d) /\ d + Height[stack[z][d]] <= MaxDepth /\ d \in Int
    BY <1>1, <1>3 DEF Walk
  <2>2. d > 1 => d - 1 \in 1..depth[z]
    BY <1>1, <1>3
  <2>3. QED
    BY <1>1, <1>3, <2>1, <2>2 DEF Link, Untouched
<1>4. \A d \in 1..depth'[z] : \A e \in 1..(d - 1) : Height[stack'[z][d]] < Height[stack'[z][e]]
  BY DEF Walk, Untouched
<1>5. \A d \in 1..share'[z] : rc'[stack'[z][d]] = 1
  BY DEF Walk, Untouched
<1>6. \A d \in 1..depth'[z] : Link(z, d)' /\ d + Height[stack'[z][d]] <= MaxDepth
  BY <1>3 DEF Untouched
<1>7. QED
  BY <1>2, <1>4, <1>5, <1>6 DEF Walk

LEMMA HandKinds ==
  ASSUME CowInv, NEW x \in Hands
  PROVE  /\ Idle(x) => depth[x] = 0 /\ share[x] = 0
         /\ ~Idle(x) => depth[x] \in 1..MaxDepth
         /\ depth[x] \in Nat /\ share[x] \in Nat /\ share[x] <= depth[x]
<1>1. depth[x] \in 0..MaxDepth /\ share[x] \in 0..MaxDepth /\ MaxDepth \in Nat
  BY CowAssumption DEF CowInv, TypeOK
<1>2. Borrowed(x)
  BY DEF CowInv, Walks, Walk
<1>3. QED
  BY <1>1, <1>2 DEF Borrowed, Idle

(* Nothing of the edges of a node is touched. *)
LEMMA FallsKept ==
  ASSUME NEW n \in Nodes, Falls(n), \A i \in Slots : ref'[<<n, i>>] = ref[<<n, i>>],
         state'[n] = "free" => state[n] = "free"
  PROVE  Falls(n)'
BY DEF Falls

LEMMA CountedKept ==
  ASSUME NEW n \in Nodes, Counted(n), Refs(n)' = Refs(n), rc'[n] = rc[n], state'[n] = state[n]
  PROVE  Counted(n)'
BY DEF Counted

LEMMA AllRefsKept ==
  ASSUME NEW n \in Nodes, ref' = ref
  PROVE  Refs(n)' = Refs(n)
BY DEF Refs, Places

(* The updates of the actions, place by place *)
LEMMA UpdateAt ==
  ASSUME TypeOK, NEW p \in Places, NEW v, ref' = [ref EXCEPT ![p] = v]
  PROVE  OnlyAt(p, v)
BY DEF OnlyAt, TypeOK

-----------------------------------------------------------------------------
(* The steps of the reference counts *)

LEMMA NewKeeps ==
  ASSUME CowInv, NEW x \in Hands, NEW n \in Nodes, NEW v \in Data, New(x, n, v)
  PROVE  CowInv'
<1>1. x \in Places /\ Idle(x) /\ ref[x] = None /\ state[n] = "free"
  BY PlaceKinds DEF New, Empty
<1>2. OnlyAt(x, n)
  BY <1>1, UpdateAt DEF New, CowInv
<1>3. TypeOK'
  BY <1>1 DEF New, CowInv, TypeOK
<1>4. Memory'
  <2>1. ASSUME NEW m \in Nodes PROVE Falls(m)'
    <3>1. \A i \in Slots : ref'[<<m, i>>] = ref[<<m, i>>]
      BY <1>2, PlaceKinds DEF OnlyAt
    <3>2. state'[m] = "free" => state[m] = "free"
      BY DEF New, CowInv, TypeOK
    <3>3. QED
      BY <3>1, <3>2, FallsKept DEF CowInv, Memory
  <2>2. Counted(n)'
    <3>1. Refs(n) = {} /\ Cardinality(Refs(n)) = 0
      BY <1>1, FS_EmptySet DEF CowInv, Memory, Counted
    <3>2. Refs(n)' # {} /\ Cardinality(Refs(n)') = 1
      BY <1>1, <1>2, <3>1, RefAdded
    <3>3. rc'[n] = 1 /\ state'[n] = "live"
      BY DEF New, CowInv, TypeOK
    <3>4. QED
      BY <3>2, <3>3 DEF Counted
  <2>3. ASSUME NEW m \in Nodes, m # n PROVE Counted(m)'
    <3>1. Refs(m)' = Refs(m)
      BY <1>1, <1>2, <2>3, RefAdded
    <3>2. rc'[m] = rc[m] /\ state'[m] = state[m]
      BY <2>3 DEF New, CowInv, TypeOK
    <3>3. QED
      BY <3>1, <3>2, CountedKept DEF CowInv, Memory
  <2>4. QED
    BY <2>1, <2>2, <2>3 DEF Memory
<1>5. Walks'
  <2>1. ASSUME NEW z \in Hands PROVE Untouched(z)
    <3>1. busy'[z] = busy[z] /\ stack'[z] = stack[z] /\ depth'[z] = depth[z] /\ share'[z] = share[z]
      BY DEF New
    <3>2. depth[z] > 0 => ref'[z] = ref[z]
      BY <1>1, <1>2, PlaceKinds DEF OnlyAt, Idle, CowInv, Walks, Walk, Borrowed, TypeOK
    <3>3. ASSUME NEW d \in 1..depth[z]
          PROVE  /\ \A i \in Slots : ref'[<<stack[z][d], i>>] = ref[<<stack[z][d], i>>]
                 /\ rc'[stack[z][d]] = rc[stack[z][d]]
      <4>1. stack[z][d] \in Nodes /\ stack[z][d] # n
        BY <1>1, WalkedLives DEF CowInv
      <4>2. QED
        BY <1>2, <4>1, PlaceKinds DEF OnlyAt, New, CowInv, TypeOK
    <3>4. \A d \in 1..share[z] : d \in 1..depth[z]
      BY DEF CowInv, Walks, Walk, Borrowed, TypeOK
    <3>5. QED
      BY <3>1, <3>2, <3>3, <3>4 DEF Untouched
  <2>2. QED
    BY <2>1, WalkKept DEF CowInv, Walks
<1>6. QED
  BY <1>3, <1>4, <1>5 DEF CowInv

(***************************************************************************)
(* ref_rep: the hand y, which is empty, gets a reference to a node that p  *)
(* refers to, and which is not a node that a call owns.                    *)
(***************************************************************************)
Taken(p, y) ==
    /\ ref[p] # None /\ Empty(y)
    /\ ref' = [ref EXCEPT ![y] = ref[p]]
    /\ rc' = [rc EXCEPT ![ref[p]] = @ + 1]
    /\ UNCHANGED <<state, data, busy, stack, depth, share>>

LEMMA TakenKeeps ==
  ASSUME CowInv, NEW p \in Places, NEW y \in Hands, Taken(p, y),
         \A z \in Hands : \A d \in 1..share[z] : stack[z][d] # ref[p]
  PROVE  CowInv'
<1>1. y \in Places /\ Idle(y) /\ ref[y] = None /\ ref[p] \in Nodes
  BY PlaceKinds DEF Taken, Empty, CowInv, TypeOK
<1>2. OnlyAt(y, ref[p])
  BY <1>1, UpdateAt DEF Taken, CowInv
<1>3. TypeOK'
  BY <1>1 DEF Taken, CowInv, TypeOK
<1>4. Memory'
  <2>1. ASSUME NEW m \in Nodes PROVE Falls(m)'
    <3>1. \A i \in Slots : ref'[<<m, i>>] = ref[<<m, i>>]
      BY <1>2, PlaceKinds DEF OnlyAt
    <3>2. QED
      BY <3>1, FallsKept DEF Taken, CowInv, Memory
  <2>2. ASSUME NEW n \in Nodes, n = ref[p] PROVE Counted(n)'
    <3>1. Refs(n)' # {} /\ Cardinality(Refs(n)') = Cardinality(Refs(n)) + 1
      BY <1>1, <1>2, <2>2, RefAdded
    <3>2. state'[n] = "live"
      BY <2>2, ReferredLives DEF Taken, CowInv, Memory
    <3>3. rc'[n] = rc[n] + 1
      BY <2>2 DEF Taken, CowInv, TypeOK
    <3>4. QED
      BY <3>1, <3>2, <3>3 DEF CowInv, Memory, Counted
  <2>3. ASSUME NEW m \in Nodes, m # ref[p] PROVE Counted(m)'
    <3>1. Refs(m)' = Refs(m)
      <4>1. PICK n \in Nodes : n = ref[p]
        BY <1>1
      <4>2. QED
        BY <1>1, <1>2, <2>3, <4>1, RefAdded
    <3>2. rc'[m] = rc[m] /\ state'[m] = state[m]
      BY <2>3 DEF Taken, CowInv, TypeOK
    <3>3. QED
      BY <3>1, <3>2, CountedKept DEF CowInv, Memory
  <2>4. QED
    BY <2>1, <2>2, <2>3 DEF Memory
<1>5. Walks'
  <2>1. ASSUME NEW z \in Hands PROVE Untouched(z)
    <3>1. busy'[z] = busy[z] /\ stack'[z] = stack[z] /\ depth'[z] = depth[z] /\ share'[z] = share[z]
      BY DEF Taken
    <3>2. depth[z] > 0 => ref'[z] = ref[z]
      BY <1>1, <1>2, PlaceKinds DEF OnlyAt, Idle, CowInv, Walks, Walk, Borrowed, TypeOK
    <3>3. \A d \in 1..depth[z], i \in Slots : ref'[<<stack[z][d], i>>] = ref[<<stack[z][d], i>>]
      BY <1>2, WalkedLives, PlaceKinds DEF OnlyAt, CowInv
    <3>4. ASSUME NEW d \in 1..share[z] PROVE rc'[stack[z][d]] = rc[stack[z][d]]
      <4>1. d \in 1..depth[z]
        BY DEF CowInv, Walks, Walk, Borrowed, TypeOK
      <4>2. stack[z][d] \in Nodes /\ stack[z][d] # ref[p]
        BY <4>1, WalkedLives DEF CowInv
      <4>3. QED
        BY <4>2 DEF Taken, CowInv, TypeOK
    <3>5. QED
      BY <3>1, <3>2, <3>3, <3>4 DEF Untouched
  <2>2. QED
    BY <2>1, WalkKept DEF CowInv, Walks
<1>6. QED
  BY <1>3, <1>4, <1>5 DEF CowInv

LEMMA CloneKeeps ==
  ASSUME CowInv, NEW x \in Hands, NEW y \in Hands, Clone(x, y)
  PROVE  CowInv'
<1>1. Taken(x, y) /\ x \in Places
  BY PlaceKinds DEF Taken, Clone
<1>2. ASSUME NEW z \in Hands, NEW d \in 1..share[z], stack[z][d] = ref[x]
      PROVE  FALSE
  <2>1. x = z
    BY <1>2, OwnedByHand DEF CowInv
  <2>2. share[x] > 0
    BY <1>2, <2>1 DEF CowInv, TypeOK
  <2>3. QED
    BY <2>2 DEF Clone, CowInv, Walks, Walk, Borrowed
<1>3. QED
  BY <1>1, <1>2, TakenKeeps

LEMMA RefEdgeKeeps ==
  ASSUME CowInv, NEW x \in Hands, NEW y \in Hands, NEW d \in 1..MaxDepth, NEW i \in Slots,
         RefEdge(x, d, i, y)
  PROVE  CowInv'
<1>1. d \in 1..depth[x] /\ share[x] < d /\ share[x] \in Nat
  BY DEF RefEdge, CowInv, TypeOK
<1>2. stack[x][d] \in Nodes
  BY <1>1, WalkedLives DEF CowInv
<1>3. Taken(<<stack[x][d], i>>, y) /\ <<stack[x][d], i>> \in Places
  BY <1>2, PlaceKinds DEF Taken, RefEdge
<1>4. ASSUME NEW z \in Hands, NEW e \in 1..share[z], stack[z][e] = ref[<<stack[x][d], i>>]
      PROVE  FALSE
  <2>1. e > 1 /\ stack[x][d] = stack[z][e - 1]
    BY <1>2, <1>4, OwnedBySlot DEF CowInv
  <2>2. e - 1 \in 1..share[z] /\ share[z] \in Nat
    BY <1>4, <2>1 DEF CowInv, TypeOK
  <2>3. z = x
    BY <1>1, <2>1, <2>2, OwnedAlone DEF CowInv
  <2>4. e - 1 \in 1..(d - 1) /\ d \in Int
    BY <1>1, <2>2, <2>3
  <2>5. Height[stack[x][d]] < Height[stack[x][e - 1]]
    BY <1>1, <2>4 DEF CowInv, Walks, Walk
  <2>6. Height[stack[x][d]] \in Int
    BY <1>2, CowAssumption
  <2>7. QED
    BY <2>1, <2>3, <2>5, <2>6
<1>5. QED
  BY <1>3, <1>4, TakenKeeps

(* unref and ref_dec, of a reference that no call walks along *)
LEMMA GiveUpKeeps ==
  ASSUME CowInv, NEW p \in Places, GiveUp(p),
         \A x \in Hands : x = p => Idle(x),
         \A n \in Nodes, i \in Slots : <<n, i>> = p => state[n] = "dying"
  PROVE  CowInv'
<1>1. PICK n \in Nodes : n = ref[p]
  BY DEF GiveUp, CowInv, TypeOK
<1>2. OnlyAt(p, None)
  BY UpdateAt DEF GiveUp, CowInv
<1>3. /\ rc' = [rc EXCEPT ![n] = rc[n] - 1]
      /\ state' = [state EXCEPT ![n] = IF rc[n] = 1 THEN "dying" ELSE state[n]]
  BY <1>1 DEF GiveUp, UnrefState
<1>4. rc[n] > 0 /\ state[n] = "live" /\ rc[n] \in Nat
  BY <1>1, ReferredLives DEF CowInv, Memory, TypeOK
<1>5. TypeOK'
  <2>1. rc[n] - 1 \in Nat
    BY <1>4
  <2>2. ref' \in [Places -> Nodes \cup {None}]
    BY DEF GiveUp, CowInv, TypeOK
  <2>3. rc' \in [Nodes -> Nat]
    BY <1>3, <2>1 DEF CowInv, TypeOK
  <2>4. state' \in [Nodes -> {"free", "live", "dying"}]
    BY <1>3 DEF CowInv, TypeOK
  <2>5. QED
    BY <2>2, <2>3, <2>4 DEF GiveUp, CowInv, TypeOK
<1>6. Memory'
  <2>1. ASSUME NEW m \in Nodes PROVE Falls(m)'
    <3>1. \A i \in Slots : ref'[<<m, i>>] = ref[<<m, i>>] \/ ref'[<<m, i>>] = None
      BY <1>2, PlaceKinds DEF OnlyAt
    <3>2. state'[m] = "free" => state[m] = "free"
      BY <1>3, <1>4 DEF CowInv, TypeOK
    <3>3. QED
      BY <3>1, <3>2 DEF Falls, CowInv, Memory
  <2>2. Counted(n)'
    <3>1. /\ Cardinality(Refs(n)') = Cardinality(Refs(n)) - 1
          /\ Refs(n)' # {} <=> Cardinality(Refs(n)) # 1
      BY <1>1, <1>2, RefDropped
    <3>2. rc'[n] = rc[n] - 1 /\ (state'[n] = "live" <=> rc[n] # 1)
      BY <1>3, <1>4 DEF CowInv, TypeOK
    <3>3. QED
      BY <3>1, <3>2 DEF CowInv, Memory, Counted
  <2>3. ASSUME NEW m \in Nodes, m # n PROVE Counted(m)'
    <3>1. Refs(m)' = Refs(m)
      BY <1>1, <1>2, <2>3, RefDropped
    <3>2. rc'[m] = rc[m] /\ state'[m] = state[m]
      BY <1>3, <2>3 DEF CowInv, TypeOK
    <3>3. QED
      BY <3>1, <3>2, CountedKept DEF CowInv, Memory
  <2>4. QED
    BY <2>1, <2>2, <2>3 DEF Memory
<1>7. Walks'
  <2>1. ASSUME NEW z \in Hands PROVE Untouched(z)
    <3>1. busy'[z] = busy[z] /\ stack'[z] = stack[z] /\ depth'[z] = depth[z] /\ share'[z] = share[z]
      BY DEF GiveUp
    <3>2. depth[z] > 0 => z # p
      BY DEF Idle, CowInv, Walks, Walk, Borrowed, TypeOK
    <3>3. ASSUME NEW d \in 1..depth[z], NEW i \in Slots
          PROVE  <<stack[z][d], i>> # p /\ <<stack[z][d], i>> \in Places
      BY WalkedLives, PlaceKinds DEF CowInv
    <3>4. ASSUME NEW d \in 1..share[z] PROVE rc'[stack[z][d]] = rc[stack[z][d]]
      <4>1. d \in 1..depth[z] /\ depth[z] > 0 /\ d \in Int
        BY DEF CowInv, Walks, Walk, Borrowed, TypeOK
      <4>2. stack[z][d] \in Nodes
        BY <4>1, WalkedLives DEF CowInv
      <4>3. ASSUME stack[z][d] = n PROVE FALSE
        <5>1. d = 1 => p = z
          BY <1>1, <4>3, OwnedOnce DEF CowInv
        <5>2. d > 1 => \E i \in Slots : p = <<stack[z][d - 1], i>>
          BY <1>1, <4>3, OwnedOnce DEF CowInv
        <5>3. d > 1 => d - 1 \in 1..depth[z]
          BY <4>1 DEF CowInv, TypeOK
        <5>4. QED
          BY <3>2, <3>3, <4>1, <5>1, <5>2, <5>3
      <4>4. QED
        BY <1>3, <4>2, <4>3 DEF CowInv, TypeOK
    <3>5. QED
      BY <1>2, <3>1, <3>2, <3>3, <3>4, PlaceKinds DEF Untouched, OnlyAt
  <2>2. QED
    BY <2>1, WalkKept DEF CowInv, Walks
<1>8. QED
  BY <1>5, <1>6, <1>7 DEF CowInv

LEMMA UnrefKeeps ==
  ASSUME CowInv, NEW x \in Hands, Unref(x)
  PROVE  CowInv'
<1>1. GiveUp(x) /\ Idle(x) /\ x \in Places
  BY PlaceKinds DEF Unref
<1>2. QED
  BY <1>1, GiveUpKeeps, PlaceKinds

LEMMA UnrefEdgeKeeps ==
  ASSUME CowInv, NEW n \in Nodes, NEW i \in Slots, UnrefEdge(n, i)
  PROVE  CowInv'
<1>1. GiveUp(<<n, i>>) /\ state[n] = "dying" /\ <<n, i>> \in Places
  BY PlaceKinds DEF UnrefEdge
<1>2. \A x \in Hands : x # <<n, i>>
  BY PlaceKinds
<1>3. \A m \in Nodes, j \in Slots : <<m, j>> = <<n, i>> => state[m] = "dying"
  BY <1>1
<1>4. QED
  BY <1>1, <1>2, <1>3, GiveUpKeeps

(* An exchange of references between places leaves the counts alone. *)
LEMMA ExchangeCounted ==
  ASSUME CowInv, NEW p \in Places, NEW q \in Places, Exchanged(p, q), rc' = rc, state' = state
  PROVE  \A n \in Nodes : Counted(n)'
<1>1. SUFFICES ASSUME NEW n \in Nodes PROVE Counted(n)'
  OBVIOUS
<1>2. Cardinality(Refs(n)') = Cardinality(Refs(n)) /\ (Refs(n)' # {} <=> Refs(n) # {})
  BY RefsExchanged
<1>3. QED
  BY <1>2 DEF CowInv, Memory, Counted

LEMMA MoveKeeps ==
  ASSUME CowInv, NEW x \in Hands, NEW y \in Hands, Move(x, y)
  PROVE  CowInv'
<1>1. /\ x \in Places /\ y \in Places /\ x # y /\ Idle(x) /\ Idle(y)
      /\ ref[y] = None /\ ref[x] \in Nodes
  BY PlaceKinds DEF Move, Holding, Empty, CowInv, TypeOK
<1>2. Exchanged(x, y)
  BY <1>1 DEF Exchanged, Move, CowInv, TypeOK
<1>3. TypeOK'
  BY <1>1 DEF Move, CowInv, TypeOK
<1>4. \A n \in Nodes, i \in Slots : ref'[<<n, i>>] = ref[<<n, i>>]
  BY <1>2, PlaceKinds DEF Exchanged
<1>5. Memory'
  <2>1. \A n \in Nodes : Counted(n)'
    BY <1>1, <1>2, ExchangeCounted DEF Move
  <2>2. \A n \in Nodes : Falls(n)'
    BY <1>4, FallsKept DEF Move, CowInv, Memory
  <2>3. QED
    BY <2>1, <2>2 DEF Memory
<1>6. Walks'
  <2>1. ASSUME NEW z \in Hands PROVE Untouched(z)
    <3>1. /\ busy'[z] = busy[z] /\ stack'[z] = stack[z] /\ depth'[z] = depth[z] /\ share'[z] = share[z]
          /\ rc' = rc
      BY DEF Move
    <3>2. depth[z] > 0 => ref'[z] = ref[z]
      <4>1. depth[z] > 0 => z # x /\ z # y
        BY <1>1, HandKinds
      <4>2. z \in Places
        BY PlaceKinds
      <4>3. QED
        BY <1>2, <4>1, <4>2 DEF Exchanged
    <3>3. \A d \in 1..depth[z], i \in Slots : ref'[<<stack[z][d], i>>] = ref[<<stack[z][d], i>>]
      BY <1>4, WalkedLives DEF CowInv
    <3>4. QED
      BY <3>1, <3>2, <3>3 DEF Untouched
  <2>2. QED
    BY <2>1, WalkKept DEF CowInv, Walks
<1>7. QED
  BY <1>3, <1>5, <1>6 DEF CowInv

LEMMA TakeChildKeeps ==
  ASSUME CowInv, NEW n \in Nodes, NEW i \in Slots, NEW y \in Hands, TakeChild(n, i, y)
  PROVE  CowInv'
<1>1. /\ <<n, i>> \in Places /\ y \in Places /\ y # <<n, i>> /\ Idle(y)
      /\ ref[y] = None /\ ref[<<n, i>>] \in Nodes /\ state[n] = "dying"
  BY PlaceKinds DEF TakeChild, Empty, CowInv, TypeOK
<1>2. Exchanged(<<n, i>>, y)
  BY <1>1 DEF Exchanged, TakeChild, CowInv, TypeOK
<1>3. TypeOK'
  BY <1>1 DEF TakeChild, CowInv, TypeOK
<1>4. \A m \in Nodes, j \in Slots :
        ref'[<<m, j>>] = IF <<m, j>> = <<n, i>> THEN None ELSE ref[<<m, j>>]
  BY <1>1, <1>2, PlaceKinds DEF Exchanged
<1>5. Memory'
  <2>1. \A m \in Nodes : Counted(m)'
    BY <1>1, <1>2, ExchangeCounted DEF TakeChild
  <2>2. \A m \in Nodes : Falls(m)'
    BY <1>4 DEF TakeChild, Falls, CowInv, Memory
  <2>3. QED
    BY <2>1, <2>2 DEF Memory
<1>6. Walks'
  <2>1. ASSUME NEW z \in Hands PROVE Untouched(z)
    <3>1. /\ busy'[z] = busy[z] /\ stack'[z] = stack[z] /\ depth'[z] = depth[z] /\ share'[z] = share[z]
          /\ rc' = rc
      BY DEF TakeChild
    <3>2. depth[z] > 0 => ref'[z] = ref[z]
      <4>1. depth[z] > 0 => z # y
        BY <1>1, HandKinds
      <4>2. z \in Places /\ z # <<n, i>>
        BY PlaceKinds
      <4>3. QED
        BY <1>2, <4>1, <4>2 DEF Exchanged
    <3>3. ASSUME NEW d \in 1..depth[z], NEW j \in Slots
          PROVE  ref'[<<stack[z][d], j>>] = ref[<<stack[z][d], j>>]
      <4>1. stack[z][d] \in Nodes /\ stack[z][d] # n
        BY <1>1, WalkedLives DEF CowInv
      <4>2. QED
        BY <1>4, <4>1
    <3>4. QED
      BY <3>1, <3>2, <3>3 DEF Untouched
  <2>2. QED
    BY <2>1, WalkKept DEF CowInv, Walks
<1>7. QED
  BY <1>3, <1>5, <1>6 DEF CowInv

LEMMA DeleteKeeps ==
  ASSUME CowInv, NEW n \in Nodes, Delete(n)
  PROVE  CowInv'
<1>1. TypeOK'
  BY DEF Delete, CowInv, TypeOK
<1>2. Memory'
  <2>1. ASSUME NEW m \in Nodes PROVE Counted(m)'
    <3>1. Refs(m)' = Refs(m) /\ rc'[m] = rc[m]
      BY AllRefsKept DEF Delete
    <3>2. state'[m] = "live" <=> state[m] = "live"
      BY DEF Delete, CowInv, TypeOK
    <3>3. QED
      BY <3>1, <3>2 DEF CowInv, Memory, Counted
  <2>2. ASSUME NEW m \in Nodes PROVE Falls(m)'
    BY DEF Delete, Falls, CowInv, Memory, TypeOK
  <2>3. QED
    BY <2>1, <2>2 DEF Memory
<1>3. \A z \in Hands : Untouched(z)
  BY DEF Delete, Untouched
<1>4. Walks'
  BY <1>3, WalkKept DEF CowInv, Walks
<1>5. QED
  BY <1>1, <1>2, <1>4 DEF CowInv

-----------------------------------------------------------------------------
(* The steps of a walk *)

(* They change nothing of the memory but data. *)
LEMMA MemoryUnchanged ==
  ASSUME CowInv, ref' = ref, rc' = rc, state' = state
  PROVE  Memory'
<1>1. ASSUME NEW n \in Nodes PROVE Counted(n)' /\ Falls(n)'
  BY AllRefsKept, CountedKept, FallsKept DEF CowInv, Memory
<1>2. QED
  BY <1>1 DEF Memory

(* They change nothing of the other hands. *)
LEMMA OthersWalk ==
  ASSUME CowInv, NEW x \in Hands, ref' = ref, rc' = rc, NEW z \in Hands, z # x,
         busy'[z] = busy[z], stack'[z] = stack[z], depth'[z] = depth[z], share'[z] = share[z]
  PROVE  Walk(z)'
BY WalkKept DEF Untouched, CowInv, Walks

LEMMA BeginKeeps ==
  ASSUME CowInv, NEW x \in Hands, BeginRead(x) \/ BeginWrite(x)
  PROVE  CowInv'
<1>1. /\ busy[x] = "idle" /\ depth[x] = 0 /\ share[x] = 0 /\ ref[x] \in Nodes
      /\ ref' = ref /\ rc' = rc /\ state' = state /\ data' = data
  <2>1. Holding(x) /\ ref' = ref /\ rc' = rc /\ state' = state /\ data' = data
    BY DEF BeginRead, BeginWrite, Begin
  <2>2. Idle(x) /\ ref[x] \in Nodes
    BY <2>1, PlaceKinds DEF Holding, CowInv, TypeOK
  <2>3. QED
    BY <2>1, <2>2, HandKinds DEF Idle
<1>2. /\ stack' = [stack EXCEPT ![x] = [stack[x] EXCEPT ![1] = ref[x]]]
      /\ depth' = [depth EXCEPT ![x] = 1]
  BY DEF BeginRead, BeginWrite, Begin
<1>3. \E what \in {"read", "write"} : busy' = [busy EXCEPT ![x] = what]
  BY DEF BeginRead, BeginWrite, Begin
<1>4. \E s \in {0, 1} : /\ share' = [share EXCEPT ![x] = s]
                        /\ s = 1 => busy' = [busy EXCEPT ![x] = "write"] /\ rc[ref[x]] = 1
  <2>1. CASE BeginRead(x)
    <3>1. share' = [share EXCEPT ![x] = 0]
      BY <1>1, <2>1 DEF BeginRead, CowInv, TypeOK
    <3>2. QED
      BY <3>1
  <2>2. CASE BeginWrite(x)
    <3>1. busy' = [busy EXCEPT ![x] = "write"]
      BY <2>2 DEF BeginWrite, Begin
    <3>2. share' = [share EXCEPT ![x] = IF Owned(x, 0, ref[x]) THEN 1 ELSE 0]
      BY <2>2 DEF BeginWrite
    <3>3. CASE Owned(x, 0, ref[x])
      BY <3>1, <3>2, <3>3 DEF Owned
    <3>4. CASE ~Owned(x, 0, ref[x])
      BY <3>2, <3>4
    <3>5. QED
      BY <3>3, <3>4
  <2>3. QED
    BY <2>1, <2>2
<1>5. MaxDepth \in Nat /\ 1 \in 1..MaxDepth /\ 1 \in 0..MaxDepth /\ 0 \in 0..MaxDepth
  BY CowAssumption
<1>6. TypeOK'
  <2>1. stack' \in [Hands -> [1..MaxDepth -> Nodes \cup {None}]]
    BY <1>1, <1>2, <1>5 DEF CowInv, TypeOK
  <2>2. depth' \in [Hands -> 0..MaxDepth] /\ share' \in [Hands -> 0..MaxDepth]
    BY <1>2, <1>4, <1>5 DEF CowInv, TypeOK
  <2>3. busy' \in [Hands -> {"idle", "read", "write"}]
    BY <1>3 DEF CowInv, TypeOK
  <2>4. QED
    BY <1>1, <2>1, <2>2, <2>3 DEF CowInv, TypeOK
<1>7. Walk(x)'
  <2>1. stack'[x][1] = ref[x] /\ depth'[x] = 1 /\ ref'[x] = ref[x]
    BY <1>1, <1>2, <1>5 DEF CowInv, TypeOK
  <2>2. busy'[x] \in {"read", "write"}
    BY <1>3 DEF CowInv, TypeOK
  <2>3. share'[x] \in {0, 1} /\ (share'[x] = 1 => busy'[x] = "write" /\ rc'[ref[x]] = 1)
    BY <1>1, <1>4 DEF CowInv, TypeOK
  <2>4. Borrowed(x)'
    BY <2>1, <2>2, <2>3 DEF Borrowed
  <2>5. Height[ref[x]] \in 0..(MaxDepth - 1)
    BY <1>1, CowAssumption
  <2>6. ASSUME NEW d \in 1..depth'[x] PROVE d = 1
    BY <2>1, <2>6
  <2>7. Link(x, 1)'
    BY <1>1, <2>1 DEF Link
  <2>8. 1 + Height[stack'[x][1]] <= MaxDepth
    BY <1>5, <2>1, <2>5
  <2>9. \A d \in 1..share'[x] : rc'[stack'[x][d]] = 1
    BY <2>1, <2>3
  <2>10. \A d \in 1..depth'[x] : \A e \in 1..(d - 1) : FALSE
    BY <2>6
  <2>11. QED
    BY <2>4, <2>6, <2>7, <2>8, <2>9, <2>10 DEF Walk
<1>8. ASSUME NEW z \in Hands, z # x PROVE Walk(z)'
  <2>1. busy'[z] = busy[z] /\ stack'[z] = stack[z] /\ depth'[z] = depth[z] /\ share'[z] = share[z]
    BY <1>2, <1>3, <1>4, <1>8 DEF CowInv, TypeOK
  <2>2. QED
    BY <1>1, <1>8, <2>1, OthersWalk
<1>9. QED
  BY <1>1, <1>6, <1>7, <1>8, MemoryUnchanged DEF CowInv, Walks

LEMMA DescendKeeps ==
  ASSUME CowInv, NEW x \in Hands, NEW i \in Slots, Descend(x, i)
  PROVE  CowInv'
<1> DEFINE k == depth[x]
           n == ref[<<stack[x][k], i>>]
<1>1. k \in 1..MaxDepth /\ k \in Nat /\ share[x] \in Nat /\ share[x] <= k /\ ~Idle(x)
  BY HandKinds DEF Descend
<1>2. stack[x][k] \in Nodes /\ k + Height[stack[x][k]] <= MaxDepth
  BY <1>1, WalkedLives DEF CowInv, Walks, Walk
<1>3. n \in Nodes
  BY <1>2, PlaceKinds DEF Descend, CowInv, TypeOK
<1>4. Height[n] < Height[stack[x][k]] /\ Height[n] \in Nat /\ Height[stack[x][k]] \in Nat
  <2>1. Falls(stack[x][k]) /\ n # None
    BY <1>2, <1>3, CowAssumption DEF CowInv, Memory
  <2>2. Height[n] \in 0..(MaxDepth - 1) /\ Height[stack[x][k]] \in 0..(MaxDepth - 1)
    BY <1>2, <1>3, CowAssumption
  <2>3. QED
    BY <2>1, <2>2 DEF Falls
<1>5. k + 1 \in 1..MaxDepth /\ k + 1 + Height[n] <= MaxDepth /\ MaxDepth \in Nat
  BY <1>1, <1>2, <1>4, CowAssumption
<1>6. /\ stack' = [stack EXCEPT ![x] = [stack[x] EXCEPT ![k + 1] = n]]
      /\ depth' = [depth EXCEPT ![x] = k + 1]
      /\ share' = [share EXCEPT ![x] = IF Owned(x, k, n) THEN k + 1 ELSE share[x]]
      /\ ref' = ref /\ rc' = rc /\ state' = state /\ data' = data /\ busy' = busy
  BY DEF Descend
<1> HIDE DEF n
<1>7. TypeOK'
  <2>1. stack' \in [Hands -> [1..MaxDepth -> Nodes \cup {None}]]
    BY <1>3, <1>5, <1>6 DEF CowInv, TypeOK
  <2>2. depth' \in [Hands -> 0..MaxDepth] /\ share' \in [Hands -> 0..MaxDepth]
    BY <1>5, <1>6 DEF CowInv, TypeOK
  <2>3. QED
    BY <1>6, <2>1, <2>2 DEF CowInv, TypeOK
<1>8. Walk(x)'
  <2>1. depth'[x] = k + 1 /\ busy'[x] = busy[x] /\ stack'[x][k + 1] = n
    BY <1>5, <1>6 DEF CowInv, TypeOK
  <2>2. \A d \in 1..k : stack'[x][d] = stack[x][d]
    BY <1>1, <1>6 DEF CowInv, TypeOK
  <2>3. share'[x] = IF Owned(x, k, n) THEN k + 1 ELSE share[x]
    BY <1>6 DEF CowInv, TypeOK
  <2>4. Owned(x, k, n) => share[x] = k /\ rc[n] = 1
    BY DEF Owned
  <2>5. Walk(x) /\ Borrowed(x)
    BY DEF CowInv, Walks, Walk
  <2>6. Borrowed(x)'
    BY <1>1, <2>1, <2>3, <2>4, <2>5 DEF Borrowed, Idle
  <2>7. ASSUME NEW d \in 1..depth'[x]
        PROVE  Link(x, d)' /\ d + Height[stack'[x][d]] <= MaxDepth
    <3>1. CASE d = k + 1
      <4>1. n = ref'[<<stack'[x][k], i>>] /\ k + 1 > 1 /\ (k + 1) - 1 = k
        BY <1>1, <1>6, <2>2 DEF n
      <4>2. QED
        BY <1>3, <1>5, <2>1, <3>1, <4>1 DEF Link
    <3>2. CASE d # k + 1
      <4>1. d \in 1..k /\ (d > 1 => d - 1 \in 1..k)
        BY <1>1, <2>1, <2>7, <3>2
      <4>2. Link(x, d) /\ d + Height[stack[x][d]] <= MaxDepth
        BY <2>5, <4>1 DEF Walk
      <4>3. QED
        BY <1>6, <2>2, <4>1, <4>2 DEF Link
    <3>3. QED
      BY <3>1, <3>2
  <2>8. ASSUME NEW d \in 1..depth'[x], NEW e \in 1..(d - 1)
        PROVE  Height[stack'[x][d]] < Height[stack'[x][e]]
    <3>1. d \in Int /\ e \in 1..k /\ stack'[x][e] = stack[x][e] /\ stack[x][e] \in Nodes
      BY <1>1, <2>1, <2>2, <2>8, WalkedLives DEF CowInv
    <3>2. CASE d = k + 1
      <4>1. e = k \/ e \in 1..(k - 1)
        BY <1>1, <3>1
      <4>2. Height[stack[x][k]] < Height[stack[x][e]] \/ e = k
        BY <1>1, <2>5, <4>1 DEF Walk
      <4>3. Height[stack[x][e]] \in Int
        BY <3>1, CowAssumption
      <4>4. QED
        BY <1>4, <2>1, <3>1, <3>2, <4>2, <4>3
    <3>3. CASE d # k + 1
      <4>1. d \in 1..k
        BY <1>1, <2>1, <2>8, <3>3
      <4>2. Height[stack[x][d]] < Height[stack[x][e]]
        BY <2>5, <2>8, <4>1 DEF Walk
      <4>3. QED
        BY <2>2, <3>1, <4>1, <4>2
    <3>4. QED
      BY <3>2, <3>3
  <2>9. ASSUME NEW d \in 1..share'[x] PROVE rc'[stack'[x][d]] = 1
    <3>1. CASE d = k + 1
      <4>1. Owned(x, k, n)
        BY <1>1, <2>3, <2>9, <3>1
      <4>2. QED
        BY <1>6, <2>1, <2>4, <3>1, <4>1
    <3>2. CASE d # k + 1
      <4>1. d \in 1..share[x] /\ d \in 1..k
        BY <1>1, <2>3, <2>4, <2>9, <3>2
      <4>2. QED
        BY <1>6, <2>2, <2>5, <4>1 DEF Walk
    <3>3. QED
      BY <3>1, <3>2
  <2>10. QED
    BY <2>6, <2>7, <2>8, <2>9 DEF Walk
<1>9. ASSUME NEW z \in Hands, z # x PROVE Walk(z)'
  <2>1. busy'[z] = busy[z] /\ stack'[z] = stack[z] /\ depth'[z] = depth[z] /\ share'[z] = share[z]
    BY <1>6, <1>9 DEF CowInv, TypeOK
  <2>2. QED
    BY <1>6, <1>9, <2>1, OthersWalk
<1>10. QED
  BY <1>6, <1>7, <1>8, <1>9, MemoryUnchanged DEF CowInv, Walks

LEMMA LookAgainKeeps ==
  ASSUME CowInv, NEW x \in Hands, LookAgain(x)
  PROVE  CowInv'
<1> DEFINE k == depth[x]
<1>1. k \in 1..MaxDepth /\ k \in Nat /\ ~Idle(x)
  BY HandKinds DEF LookAgain
<1>2. /\ share' = [share EXCEPT ![x] = k]
      /\ ref' = ref /\ rc' = rc /\ state' = state /\ data' = data
      /\ busy' = busy /\ stack' = stack /\ depth' = depth
  BY DEF LookAgain
<1>3. busy[x] = "write" /\ share[x] = k - 1 /\ rc[stack[x][k]] = 1
  BY <1>1 DEF LookAgain, Owned, Idle, CowInv, TypeOK
<1>4. TypeOK'
  BY <1>1, <1>2 DEF CowInv, TypeOK
<1>5. Walk(x)'
  <2>1. Walk(x) /\ Borrowed(x) /\ share'[x] = k
    BY <1>2 DEF CowInv, Walks, Walk, TypeOK
  <2>2. Borrowed(x)'
    BY <1>1, <1>2, <1>3, <2>1 DEF Borrowed
  <2>3. \A d \in 1..share'[x] : rc[stack[x][d]] = 1
    <3>1. ASSUME NEW d \in 1..k PROVE d = k \/ d \in 1..share[x]
      BY <1>1, <1>3
    <3>2. QED
      BY <1>3, <2>1, <3>1 DEF Walk
  <2>4. \A d \in 1..k : Link(x, d)' <=> Link(x, d)
    BY <1>2 DEF Link
  <2>5. QED
    BY <1>2, <2>1, <2>2, <2>3, <2>4 DEF Walk
<1>6. ASSUME NEW z \in Hands, z # x PROVE Walk(z)'
  <2>1. busy'[z] = busy[z] /\ stack'[z] = stack[z] /\ depth'[z] = depth[z] /\ share'[z] = share[z]
    BY <1>2, <1>6 DEF CowInv, TypeOK
  <2>2. QED
    BY <1>2, <1>6, <2>1, OthersWalk
<1>7. QED
  BY <1>2, <1>4, <1>5, <1>6, MemoryUnchanged DEF CowInv, Walks

LEMMA EndKeeps ==
  ASSUME CowInv, NEW x \in Hands, End(x)
  PROVE  CowInv'
<1>1. /\ busy' = [busy EXCEPT ![x] = "idle"] /\ stack' = [stack EXCEPT ![x] = NoStack]
      /\ depth' = [depth EXCEPT ![x] = 0] /\ share' = [share EXCEPT ![x] = 0]
      /\ ref' = ref /\ rc' = rc /\ state' = state /\ data' = data
  BY DEF End
<1>2. NoStack \in [1..MaxDepth -> Nodes \cup {None}] /\ 0 \in 0..MaxDepth
  BY CowAssumption DEF NoStack
<1>3. TypeOK'
  BY <1>1, <1>2 DEF CowInv, TypeOK
<1>4. Walk(x)'
  <2>1. depth'[x] = 0 /\ share'[x] = 0 /\ busy'[x] = "idle"
    BY <1>1 DEF CowInv, TypeOK
  <2>2. QED
    BY <2>1 DEF Walk, Borrowed
<1>5. ASSUME NEW z \in Hands, z # x PROVE Walk(z)'
  <2>1. busy'[z] = busy[z] /\ stack'[z] = stack[z] /\ depth'[z] = depth[z] /\ share'[z] = share[z]
    BY <1>1, <1>5 DEF CowInv, TypeOK
  <2>2. QED
    BY <1>1, <1>5, <2>1, OthersWalk
<1>6. QED
  BY <1>1, <1>3, <1>4, <1>5, MemoryUnchanged DEF CowInv, Walks

-----------------------------------------------------------------------------
(* The writes *)

LEMMA SetEdgeKeeps ==
  ASSUME CowInv, NEW x \in Hands, NEW y \in Hands, NEW d \in 1..MaxDepth, NEW i \in Slots,
         SetEdge(x, d, i, y)
  PROVE  CowInv'
<1>1. /\ d \in 1..share[x] /\ d \in 1..depth[x] /\ d \in Nat /\ ~Idle(x) /\ Idle(y) /\ x # y
      /\ depth[x] \in Nat /\ share[x] \in Nat
  BY HandKinds DEF SetEdge, Writable
<1>2. PICK n \in Nodes : n = stack[x][d]
  BY <1>1, WalkedLives DEF CowInv
<1>3. state[n] = "live" /\ <<n, i>> \in Places /\ y \in Places /\ <<n, i>> # y
  BY <1>1, <1>2, WalkedLives, PlaceKinds DEF CowInv
<1>4. /\ ref[y] # None => Height[ref[y]] < Height[n]
      /\ ref' = [ref EXCEPT ![<<n, i>>] = ref[y], ![y] = ref[<<n, i>>]]
      /\ stack' = [stack EXCEPT ![x] = [e \in 1..MaxDepth |-> IF e <= d THEN stack[x][e] ELSE None]]
      /\ depth' = [depth EXCEPT ![x] = d] /\ share' = [share EXCEPT ![x] = d]
      /\ rc' = rc /\ state' = state /\ data' = data /\ busy' = busy
  BY <1>2 DEF SetEdge
<1>5. Exchanged(<<n, i>>, y)
  BY <1>3, <1>4 DEF Exchanged, CowInv, TypeOK
<1>6. TypeOK'
  <2>1. ref' \in [Places -> Nodes \cup {None}]
    BY <1>3, <1>4 DEF CowInv, TypeOK
  <2>2. stack[x] \in [1..MaxDepth -> Nodes \cup {None}]
    BY DEF CowInv, TypeOK
  <2>3. [e \in 1..MaxDepth |-> IF e <= d THEN stack[x][e] ELSE None] \in [1..MaxDepth -> Nodes \cup {None}]
    BY <2>2
  <2>4. stack' \in [Hands -> [1..MaxDepth -> Nodes \cup {None}]]
    BY <1>4, <2>3 DEF CowInv, TypeOK
  <2>5. d \in 0..MaxDepth
    BY CowAssumption
  <2>6. depth' \in [Hands -> 0..MaxDepth] /\ share' \in [Hands -> 0..MaxDepth]
    BY <1>4, <2>5 DEF CowInv, TypeOK
  <2>7. QED
    BY <1>4, <2>1, <2>4, <2>6 DEF CowInv, TypeOK
<1>7. \A m \in Nodes, j \in Slots : m # n => ref'[<<m, j>>] = ref[<<m, j>>]
  BY <1>5, PlaceKinds DEF Exchanged
<1>8. Memory'
  <2>1. \A m \in Nodes : Counted(m)'
    BY <1>3, <1>4, <1>5, ExchangeCounted
  <2>2. ASSUME NEW m \in Nodes, m # n PROVE Falls(m)'
    BY <1>4, <1>7, <2>2, FallsKept DEF CowInv, Memory
  <2>3. Falls(n)'
    <3>1. ref'[<<n, i>>] = ref[y]
      BY <1>3, <1>5 DEF Exchanged
    <3>2. \A j \in Slots : j # i => ref'[<<n, j>>] = ref[<<n, j>>]
      BY <1>5, PlaceKinds DEF Exchanged
    <3>3. Falls(n) /\ state'[n] = "live"
      BY <1>3, <1>4 DEF CowInv, Memory
    <3>4. ASSUME NEW j \in Slots
          PROVE  ref'[<<n, j>>] # None => Height[ref'[<<n, j>>]] < Height[n]
      <4>1. CASE j = i
        BY <1>4, <3>1, <4>1
      <4>2. CASE j # i
        BY <3>2, <3>3, <4>2 DEF Falls
      <4>3. QED
        BY <4>1, <4>2
    <3>5. QED
      BY <3>3, <3>4 DEF Falls
  <2>4. QED
    BY <2>1, <2>2, <2>3 DEF Memory
<1>9. Walk(x)'
  <2>1. depth'[x] = d /\ share'[x] = d /\ busy'[x] = busy[x] /\ rc' = rc
    BY <1>4 DEF CowInv, TypeOK
  <2>2. ASSUME NEW e \in 1..d
        PROVE  stack'[x][e] = stack[x][e] /\ e \in 1..depth[x] /\ e \in 1..share[x]
    <3>1. e \in 1..MaxDepth /\ e <= d /\ e \in 1..depth[x] /\ e \in 1..share[x]
      BY <1>1, CowAssumption
    <3>2. stack'[x] = [f \in 1..MaxDepth |-> IF f <= d THEN stack[x][f] ELSE None]
      BY <1>4 DEF CowInv, TypeOK
    <3>3. QED
      BY <3>1, <3>2
  <2>3. Walk(x) /\ Borrowed(x)
    BY DEF CowInv, Walks, Walk
  <2>4. ref'[x] = ref[x]
    BY <1>1, <1>5, PlaceKinds DEF Exchanged
  <2>5. Borrowed(x)'
    BY <1>1, <2>1, <2>3 DEF Borrowed, Idle
  <2>6. ASSUME NEW e \in 1..d
        PROVE  Link(x, e)' /\ e + Height[stack'[x][e]] <= MaxDepth
    <3>1. Link(x, e) /\ e + Height[stack[x][e]] <= MaxDepth
      BY <2>2, <2>3, <2>6 DEF Walk
    <3>2. CASE e = 1
      BY <2>2, <2>4, <3>1, <3>2 DEF Link
    <3>3. CASE e > 1
      <4>1. e - 1 \in 1..d /\ e - 1 \in 1..(d - 1) /\ e \in Int
        BY <1>1, <3>3
      <4>2. stack[x][e - 1] \in Nodes /\ stack'[x][e - 1] = stack[x][e - 1]
        BY <2>2, <4>1, WalkedLives DEF CowInv
      <4>3. Height[n] < Height[stack[x][e - 1]] /\ Height[n] \in Int
        BY <1>1, <1>2, <2>3, <4>1, CowAssumption DEF Walk
      <4>4. stack[x][e - 1] # n
        BY <4>3
      <4>5. \A j \in Slots : ref'[<<stack[x][e - 1], j>>] = ref[<<stack[x][e - 1], j>>]
        BY <1>7, <4>2, <4>4
      <4>6. QED
        BY <2>2, <3>1, <3>3, <4>2, <4>5 DEF Link
    <3>4. QED
      BY <1>1, <3>2, <3>3
  <2>7. \A e \in 1..d : \A f \in 1..(e - 1) : f \in 1..d
    BY <1>1
  <2>8. \A e \in 1..d : \A f \in 1..(e - 1) : Height[stack'[x][e]] < Height[stack'[x][f]]
    BY <2>2, <2>3, <2>7 DEF Walk
  <2>9. \A e \in 1..d : rc'[stack'[x][e]] = 1
    BY <2>1, <2>2, <2>3 DEF Walk
  <2>10. QED
    BY <2>1, <2>5, <2>6, <2>8, <2>9 DEF Walk
<1>10. ASSUME NEW z \in Hands, z # x PROVE Walk(z)'
  <2>1. /\ busy'[z] = busy[z] /\ stack'[z] = stack[z] /\ depth'[z] = depth[z] /\ share'[z] = share[z]
        /\ rc' = rc
    BY <1>4, <1>10 DEF CowInv, TypeOK
  <2>2. depth[z] > 0 => ref'[z] = ref[z]
    <3>1. depth[z] > 0 => z # y
      BY <1>1, HandKinds
    <3>2. QED
      BY <1>5, <3>1, PlaceKinds DEF Exchanged
  <2>3. ASSUME NEW e \in 1..depth[z]
        PROVE  \A j \in Slots : ref'[<<stack[z][e], j>>] = ref[<<stack[z][e], j>>]
    <3>1. stack[z][e] \in Nodes /\ stack[z][e] # n
      BY <1>1, <1>2, <1>10, WalkedLives, OwnedAlone DEF CowInv
    <3>2. QED
      BY <1>7, <3>1
  <2>4. Untouched(z)
    BY <2>1, <2>2, <2>3 DEF Untouched
  <2>5. QED
    BY <2>4, WalkKept DEF CowInv, Walks
<1>11. QED
  BY <1>6, <1>8, <1>9, <1>10 DEF CowInv, Walks

LEMMA WriteDataKeeps ==
  ASSUME CowInv, NEW x \in Hands, NEW d \in 1..MaxDepth, NEW v \in Data, WriteData(x, d, v)
  PROVE  CowInv'
<1>1. /\ ref' = ref /\ rc' = rc /\ state' = state /\ busy' = busy
      /\ stack' = stack /\ depth' = depth /\ share' = share
  BY DEF WriteData
<1>2. TypeOK'
  BY <1>1 DEF WriteData, CowInv, TypeOK
<1>3. \A z \in Hands : Untouched(z)
  BY <1>1 DEF Untouched
<1>4. QED
  BY <1>1, <1>2, <1>3, WalkKept, MemoryUnchanged DEF CowInv, Walks

-----------------------------------------------------------------------------
(* The invariant holds. *)

LEMMA CowInit == Init => CowInv
<1> SUFFICES ASSUME Init PROVE CowInv
  OBVIOUS
<1>2. NoStack \in [1..MaxDepth -> Nodes \cup {None}] /\ 0 \in 0..MaxDepth
  BY CowAssumption DEF NoStack
<1>3. TypeOK
  BY <1>2 DEF Init, TypeOK
<1>4. Memory
  <2>1. ASSUME NEW n \in Nodes PROVE Counted(n)
    <3>1. Refs(n) = {}
      BY CowAssumption DEF Init, Refs
    <3>2. QED
      BY <3>1, FS_EmptySet DEF Init, Counted
  <2>2. ASSUME NEW n \in Nodes PROVE Falls(n)
    BY PlaceKinds DEF Init, Falls
  <2>3. QED
    BY <2>1, <2>2 DEF Memory
<1>5. Walks
  <2>1. ASSUME NEW x \in Hands PROVE Walk(x)
    <3>1. depth[x] = 0 /\ share[x] = 0 /\ busy[x] = "idle"
      BY DEF Init
    <3>2. QED
      BY <3>1 DEF Walk, Borrowed
  <2>2. QED
    BY <2>1 DEF Walks
<1>6. QED
  BY <1>3, <1>4, <1>5 DEF CowInv

LEMMA CowStutter ==
  ASSUME CowInv, UNCHANGED vars
  PROVE  CowInv'
<1>1. TypeOK'
  BY DEF vars, CowInv, TypeOK
<1>2. \A z \in Hands : Untouched(z)
  BY DEF vars, Untouched
<1>3. Memory'
  BY MemoryUnchanged DEF vars
<1>4. QED
  BY <1>1, <1>2, <1>3, WalkKept DEF CowInv, Walks

LEMMA CowNext ==
  ASSUME CowInv, [Next]_vars
  PROVE  CowInv'
<1>1. ASSUME NEW n \in Nodes, Delete(n) \/ \E i \in Slots : UnrefEdge(n, i)
      PROVE  CowInv'
  BY <1>1, DeleteKeeps, UnrefEdgeKeeps
<1>2. ASSUME NEW x \in Hands, NEW n \in Nodes, NEW v \in Data, New(x, n, v)
      PROVE  CowInv'
  BY <1>2, NewKeeps
<1>3. ASSUME NEW x \in Hands, NEW y \in Hands, Clone(x, y) \/ Move(x, y)
      PROVE  CowInv'
  BY <1>3, CloneKeeps, MoveKeeps
<1>4. ASSUME NEW x \in Hands, NEW y \in Hands, NEW d \in 1..MaxDepth, NEW i \in Slots,
             RefEdge(x, d, i, y) \/ SetEdge(x, d, i, y)
      PROVE  CowInv'
  BY <1>4, RefEdgeKeeps, SetEdgeKeeps
<1>5. ASSUME NEW x \in Hands,
             Unref(x) \/ BeginRead(x) \/ BeginWrite(x) \/ LookAgain(x) \/ End(x)
      PROVE  CowInv'
  BY <1>5, UnrefKeeps, BeginKeeps, LookAgainKeeps, EndKeeps
<1>6. ASSUME NEW x \in Hands, NEW i \in Slots, Descend(x, i)
      PROVE  CowInv'
  BY <1>6, DescendKeeps
<1>7. ASSUME NEW x \in Hands, NEW d \in 1..MaxDepth, NEW v \in Data, WriteData(x, d, v)
      PROVE  CowInv'
  BY <1>7, WriteDataKeeps
<1>8. ASSUME NEW n \in Nodes, NEW i \in Slots, NEW y \in Hands, TakeChild(n, i, y)
      PROVE  CowInv'
  BY <1>8, TakeChildKeeps
<1>9. CASE UNCHANGED vars
  BY <1>9, CowStutter
<1>10. QED
  BY <1>1, <1>2, <1>3, <1>4, <1>5, <1>6, <1>7, <1>8, <1>9 DEF Next

-----------------------------------------------------------------------------
(* The nodes of a tree *)

LiveNodes == {n \in Nodes : state[n] = "live"}

LEMMA EdgesOfLive ==
  ASSUME CowInv, NEW n \in Nodes, NEW i \in Slots, ref[<<n, i>>] # None
  PROVE  ref[<<n, i>>] \in LiveNodes
<1>1. <<n, i>> \in Places
  BY PlaceKinds
<1>2. ref[<<n, i>>] \in Nodes
  BY <1>1 DEF CowInv, TypeOK
<1>3. QED
  BY <1>1, <1>2, ReferredLives DEF CowInv, Memory, LiveNodes

LEMMA HandLive ==
  ASSUME CowInv, NEW x \in Hands, ref[x] # None
  PROVE  ref[x] \in LiveNodes
<1>1. x \in Places /\ ref[x] \in Nodes
  BY PlaceKinds DEF CowInv, TypeOK
<1>2. QED
  BY <1>1, ReferredLives DEF CowInv, Memory, LiveNodes

LEMMA TreeLives ==
  ASSUME CowInv, NEW y \in Hands, NEW n \in Nodes, InTree(y, n)
  PROVE  state[n] = "live"
<1>1. Closed(LiveNodes)
  BY EdgesOfLive DEF Closed, LiveNodes
<1>2. ref[y] \in LiveNodes /\ LiveNodes \in SUBSET Nodes
  BY HandLive DEF InTree, LiveNodes
<1>3. n \in LiveNodes
  BY <1>1, <1>2 DEF InTree
<1>4. QED
  BY <1>3 DEF LiveNodes

(* A call owns no node of the tree of another hand. *)
LEMMA TreeNotOwned ==
  ASSUME CowInv, NEW y \in Hands, NEW n \in Nodes, busy[y] # "write", InTree(y, n),
         NEW x \in Hands, NEW d \in 1..share[x]
  PROVE  n # stack[x][d]
<1> DEFINE Mine == {stack[x][e] : e \in 1..share[x]}
           Rest == Nodes \ Mine
<1>1. share[x] > 0 /\ share[x] \in Nat /\ x # y
  BY HandKinds DEF CowInv, Walks, Walk, Borrowed
<1>2. ref[y] \in Rest
  <2>1. ref[y] \in Nodes
    BY PlaceKinds DEF InTree, CowInv, TypeOK
  <2>2. \A e \in 1..share[x] : ref[y] # stack[x][e]
    BY <1>1, OwnedByHand DEF CowInv
  <2>3. QED
    BY <2>1, <2>2
<1>3. Closed(Rest)
  <2>1. ASSUME NEW m \in Rest, NEW i \in Slots, ref[<<m, i>>] # None
        PROVE  ref[<<m, i>>] \in Rest
    <3>1. ref[<<m, i>>] \in Nodes
      BY <2>1, PlaceKinds DEF CowInv, TypeOK
    <3>2. ASSUME NEW e \in 1..share[x], ref[<<m, i>>] = stack[x][e] PROVE FALSE
      <4>1. e > 1 /\ m = stack[x][e - 1] /\ e \in Int
        BY <3>2, OwnedBySlot DEF CowInv
      <4>2. e - 1 \in 1..share[x]
        BY <1>1, <4>1
      <4>3. QED
        BY <4>1, <4>2
    <3>3. QED
      BY <3>1, <3>2
  <2>2. QED
    BY <2>1 DEF Closed
<1>4. n \in Rest
  <2>1. Rest \in SUBSET Nodes
    OBVIOUS
  <2> HIDE DEF Rest
  <2>2. QED
    BY <1>2, <1>3, <2>1 DEF InTree
<1>5. QED
  BY <1>4

(* The last reference to a node of a tree is the hand's or a live node's. *)
LEMMA TreeLastRef ==
  ASSUME CowInv, NEW y \in Hands, NEW n \in Nodes, InTree(y, n),
         NEW p \in Places, p # y, ref[p] = n,
         \A m \in Nodes, i \in Slots : p = <<m, i>> => state[m] # "live"
  PROVE  rc[n] # 1
<1> SUFFICES ASSUME rc[n] = 1 PROVE FALSE
  OBVIOUS
<1> DEFINE Rest == LiveNodes \ {n}
<1>1. \A q \in Places : ref[q] = n => q = p
  BY OnlyRef DEF CowInv, Memory
<1>2. ref[y] \in Rest
  BY <1>1, HandLive, PlaceKinds DEF InTree
<1>3. Closed(Rest)
  <2>1. ASSUME NEW m \in Rest, NEW i \in Slots, ref[<<m, i>>] # None
        PROVE  ref[<<m, i>>] \in Rest
    <3>1. m \in Nodes /\ state[m] = "live" /\ <<m, i>> \in Places
      BY <2>1, PlaceKinds DEF LiveNodes
    <3>2. ref[<<m, i>>] \in LiveNodes
      BY <2>1, <3>1, EdgesOfLive
    <3>3. ref[<<m, i>>] # n
      BY <1>1, <3>1
    <3>4. QED
      BY <3>2, <3>3
  <2>2. QED
    BY <2>1 DEF Closed
<1>4. Rest \in SUBSET Nodes
  BY DEF LiveNodes
<1>5. n \in Rest
  <2> HIDE DEF Rest
  <2>1. QED
    BY <1>2, <1>3, <1>4 DEF InTree
<1>6. QED
  BY <1>5

-----------------------------------------------------------------------------
(* No step touches the tree of a hand that is not borrowed for writing. *)

LEMMA GiveUpIsolated ==
  ASSUME CowInv, NEW y \in Hands, NEW n \in Nodes, InTree(y, n),
         NEW p \in Places, GiveUp(p), p # y,
         \A m \in Nodes, i \in Slots : p = <<m, i>> => state[m] # "live"
  PROVE  SameNode(n)
<1>1. OnlyAt(p, None) /\ data' = data
  BY UpdateAt DEF GiveUp, CowInv
<1>2. state[n] = "live"
  BY TreeLives
<1>3. \A i \in Slots : ref'[<<n, i>>] = ref[<<n, i>>]
  BY <1>1, <1>2, PlaceKinds DEF OnlyAt
<1>4. state'[n] = state[n]
  <2>1. ref[p] = n => rc[n] # 1
    BY TreeLastRef
  <2>2. state' = [state EXCEPT ![ref[p]] = IF rc[ref[p]] = 1 THEN "dying" ELSE state[ref[p]]]
    BY DEF GiveUp, UnrefState
  <2>3. CASE ref[p] = n
    BY <2>1, <2>2, <2>3 DEF CowInv, TypeOK
  <2>4. CASE ref[p] # n
    BY <2>2, <2>4 DEF CowInv, TypeOK
  <2>5. QED
    BY <2>3, <2>4
<1>5. QED
  BY <1>1, <1>3, <1>4 DEF SameNode

LEMMA TreeUntouched ==
  ASSUME CowInv, Next, NEW y \in Hands, NEW n \in Nodes,
         busy[y] # "write", ref'[y] = ref[y], InTree(y, n)
  PROVE  SameNode(n)
<1>1. state[n] = "live" /\ \A i \in Slots : <<n, i>> \in Places
  BY TreeLives, PlaceKinds
<1>2. ASSUME NEW m \in Nodes, Delete(m) PROVE SameNode(n)
  <2>1. m # n
    BY <1>1, <1>2 DEF Delete
  <2>2. QED
    BY <1>2, <2>1 DEF Delete, SameNode, CowInv, TypeOK
<1>3. ASSUME NEW m \in Nodes, NEW i \in Slots, UnrefEdge(m, i) PROVE SameNode(n)
  <2>1. GiveUp(<<m, i>>) /\ state[m] = "dying" /\ <<m, i>> \in Places /\ <<m, i>> # y
    BY <1>3, PlaceKinds DEF UnrefEdge
  <2>2. \A k \in Nodes, j \in Slots : <<m, i>> = <<k, j>> => state[k] # "live"
    BY <2>1
  <2>3. QED
    BY <2>1, <2>2, GiveUpIsolated
<1>4. ASSUME NEW x \in Hands, Unref(x) PROVE SameNode(n)
  <2>1. GiveUp(x) /\ x \in Places
    BY <1>4, PlaceKinds DEF Unref
  <2>2. x # y
    BY <2>1 DEF GiveUp, CowInv, TypeOK
  <2>3. \A k \in Nodes, j \in Slots : x # <<k, j>>
    BY PlaceKinds
  <2>4. QED
    BY <2>1, <2>2, <2>3, GiveUpIsolated
<1>5. ASSUME NEW x \in Hands, NEW m \in Nodes, NEW v \in Data, New(x, m, v) PROVE SameNode(n)
  <2>1. m # n /\ \A i \in Slots : x # <<n, i>>
    BY <1>1, <1>5, PlaceKinds DEF New
  <2>2. QED
    BY <1>1, <1>5, <2>1 DEF New, SameNode, CowInv, TypeOK
<1>6. ASSUME NEW x \in Hands, NEW z \in Hands, Clone(x, z) \/ Move(x, z) PROVE SameNode(n)
  <2>1. \A i \in Slots : x # <<n, i>> /\ z # <<n, i>>
    BY PlaceKinds
  <2>2. state' = state /\ data' = data
    BY <1>6 DEF Clone, Move
  <2>3. \A i \in Slots : ref'[<<n, i>>] = ref[<<n, i>>]
    BY <1>1, <1>6, <2>1 DEF Clone, Move, CowInv, TypeOK
  <2>4. QED
    BY <2>2, <2>3 DEF SameNode
<1>7. ASSUME NEW x \in Hands, NEW z \in Hands, NEW d \in 1..MaxDepth, NEW i \in Slots,
             RefEdge(x, d, i, z)
      PROVE  SameNode(n)
  <2>1. \A j \in Slots : z # <<n, j>>
    BY PlaceKinds
  <2>2. QED
    BY <1>1, <1>7, <2>1 DEF RefEdge, SameNode, CowInv, TypeOK
<1>8. ASSUME NEW x \in Hands, NEW z \in Hands, NEW d \in 1..MaxDepth, NEW i \in Slots,
             SetEdge(x, d, i, z)
      PROVE  SameNode(n)
  <2>1. d \in 1..share[x]
    BY <1>8 DEF SetEdge, Writable
  <2>2. n # stack[x][d]
    BY <2>1, TreeNotOwned
  <2>3. \A j \in Slots : z # <<n, j>> /\ <<stack[x][d], i>> # <<n, j>>
    BY <2>2, PlaceKinds
  <2>4. \A j \in Slots : ref'[<<n, j>>] = ref[<<n, j>>]
    BY <1>1, <1>8, <2>3 DEF SetEdge, CowInv, TypeOK
  <2>5. QED
    BY <1>8, <2>4 DEF SetEdge, SameNode
<1>9. ASSUME NEW x \in Hands, NEW d \in 1..MaxDepth, NEW v \in Data, WriteData(x, d, v)
      PROVE  SameNode(n)
  <2>1. d \in 1..share[x]
    BY <1>9 DEF WriteData, Writable
  <2>2. n # stack[x][d]
    BY <2>1, TreeNotOwned
  <2>3. QED
    BY <1>9, <2>2 DEF WriteData, SameNode, CowInv, TypeOK
<1>10. ASSUME NEW x \in Hands, BeginRead(x) \/ BeginWrite(x) \/ LookAgain(x) \/ End(x)
       PROVE  SameNode(n)
  BY <1>10 DEF BeginRead, BeginWrite, Begin, LookAgain, End, SameNode
<1>11. ASSUME NEW x \in Hands, NEW i \in Slots, Descend(x, i) PROVE SameNode(n)
  BY <1>11 DEF Descend, SameNode
<1>12. ASSUME NEW m \in Nodes, NEW i \in Slots, NEW z \in Hands, TakeChild(m, i, z)
       PROVE  SameNode(n)
  <2>1. m # n /\ \A j \in Slots : z # <<n, j>> /\ <<m, i>> # <<n, j>>
    BY <1>1, <1>12, PlaceKinds DEF TakeChild
  <2>2. \A j \in Slots : ref'[<<n, j>>] = ref[<<n, j>>]
    BY <1>1, <1>12, <2>1 DEF TakeChild, CowInv, TypeOK
  <2>3. QED
    BY <1>12, <2>2 DEF TakeChild, SameNode
<1>13. QED
  BY <1>2, <1>3, <1>4, <1>5, <1>6, <1>7, <1>8, <1>9, <1>10, <1>11, <1>12 DEF Next

-----------------------------------------------------------------------------
(* Every live node is held by something. *)

LEMMA LiveIsHeld ==
  ASSUME CowInv, NEW S \in SUBSET Nodes, Closed(S),
         \A x \in Hands : ref[x] \in S \cup {None},
         \A n \in Nodes, i \in Slots : state[n] = "dying" => ref[<<n, i>>] \in S \cup {None}
  PROVE  LiveNodes \subseteq S
<1> DEFINE Lost == LiveNodes \ S
           Low(n) == MaxDepth - Height[n]
           Lows == {Low(n) : n \in Lost}
<1>1. \A n \in Nodes : Low(n) \in Nat /\ Height[n] \in Int
  BY CowAssumption
<1>2. ASSUME NEW n \in Lost
      PROVE  \E m \in Lost : Low(m) < Low(n)
  <2>1. n \in Nodes /\ state[n] = "live" /\ n # None /\ n \notin S
    BY <1>2, CowAssumption DEF LiveNodes
  <2>2. PICK p \in Places : ref[p] = n
    BY <2>1 DEF CowInv, Memory, Counted, Refs
  <2>3. p \notin Hands
    BY <2>1, <2>2
  <2>4. PICK m \in Nodes, i \in Slots : p = <<m, i>>
    BY <2>3 DEF Places
  <2>5. state[m] # "dying" /\ m \notin S
    BY <2>1, <2>2, <2>4 DEF Closed
  <2>6. Falls(m) /\ state[m] \in {"free", "live", "dying"}
    BY <2>4 DEF CowInv, Memory, TypeOK
  <2>7. state[m] # "free" /\ Height[n] < Height[m]
    BY <2>1, <2>2, <2>4, <2>6 DEF Falls
  <2>8. m \in Lost
    BY <2>4, <2>5, <2>6, <2>7 DEF LiveNodes
  <2>9. Low(m) < Low(n)
    <3>1. Height[m] \in Int /\ Height[n] \in Int /\ MaxDepth \in Int
      BY <1>1, <2>1, <2>4, CowAssumption
    <3>2. QED
      BY <2>7, <3>1
  <2>10. QED
    BY <2>8, <2>9
<1>3. Lost = {}
  <2> SUFFICES ASSUME Lost # {} PROVE FALSE
    OBVIOUS
  <2>1. Lows \in SUBSET Nat /\ Lows # {}
    BY <1>1 DEF LiveNodes
  <2>2. PICK k \in Lows : \A j \in Lows : k <= j
    <3> HIDE DEF Lows
    <3>1. QED
      BY <2>1, Smallest
  <2>3. PICK n \in Lost : k = Low(n)
    BY <2>2
  <2>4. PICK m \in Lost : Low(m) < Low(n)
    BY <1>2
  <2>5. Low(m) \in Nat /\ Low(n) \in Nat /\ k <= Low(m)
    BY <1>1, <2>2, <2>4, <2>3 DEF LiveNodes
  <2> HIDE DEF Low
  <2>6. QED
    BY <2>3, <2>4, <2>5
<1>4. QED
  BY <1>3

-----------------------------------------------------------------------------
(* The theorems *)

(* The inductive invariant holds in every state, whatever the threads do   *)
(* with the cords they share (rep.rs, btree.rs).                           *)
THEOREM CowInvariance == Spec => []CowInv
<1>1. CowInv /\ [Next]_vars => CowInv'
  BY CowNext
<1>2. QED
  BY <1>1, CowInit, PTL DEF Spec

(* Every reference count is the number of references, and a node lives     *)
(* just as long as there are any (ref_rep, unref, destroy).                *)
THEOREM RefsAreCounted == Spec => []RefsCounted
<1>1. CowInv => RefsCounted
  BY DEF CowInv, Memory, RefsCounted
<1>2. QED
  BY <1>1, CowInvariance, PTL

(* The stack of a call and the position of a reader lead over nodes that   *)
(* are alive and still hang together, although neither holds a reference   *)
(* on any but the first (build_stack, RepRef::edge).                       *)
THEOREM WalksAreSafe == Spec => []WalksHold
<1>1. CowInv => WalksHold
  <2> SUFFICES ASSUME CowInv, NEW x \in Hands
               PROVE  depth[x] <= MaxDepth /\ \A d \in 1..depth[x] :
                      /\ stack[x][d] \in Nodes /\ state[stack[x][d]] = "live"
                      /\ IF d = 1 THEN stack[x][d] = ref[x]
                                  ELSE \E i \in Slots : stack[x][d] = ref[<<stack[x][d - 1], i>>]
    BY DEF WalksHold
  <2>1. depth[x] <= MaxDepth
    BY CowAssumption DEF CowInv, TypeOK
  <2> SUFFICES ASSUME NEW d \in 1..depth[x]
               PROVE  /\ stack[x][d] \in Nodes /\ state[stack[x][d]] = "live"
                      /\ IF d = 1 THEN stack[x][d] = ref[x]
                                  ELSE \E i \in Slots : stack[x][d] = ref[<<stack[x][d - 1], i>>]
    BY <2>1
  <2>2. stack[x][d] \in Nodes /\ state[stack[x][d]] = "live"
    BY WalkedLives DEF CowInv
  <2>3. Link(x, d) /\ (d = 1 \/ d > 1)
    BY HandKinds DEF CowInv, Walks, Walk
  <2>4. QED
    BY <2>2, <2>3 DEF Link
<1>2. QED
  BY <1>1, CowInvariance, PTL

(* Copy-on-write isolates: a step changes no node in the tree of a cord    *)
(* that is not being changed, even though ref_is_one was asked long before *)
(* the write and others cloned and dropped cords in between (build_stack,  *)
(* set_edge, to_op_result, get_append_buffer).                             *)
THEOREM CordsAreIsolated == Spec => CordsIsolated
<1>1. CowInv /\ [Next]_vars => [TreesIsolated]_vars
  <2> SUFFICES ASSUME CowInv, Next PROVE TreesIsolated
    OBVIOUS
  <2>1. QED
    BY TreeUntouched DEF TreesIsolated
<1>2. QED
  BY <1>1, CowInvariance, PTL DEF Spec, CordsIsolated

(* No node is lost: each live one is within reach of a hand or of a node   *)
(* that destroy is at work on (destroy, destroy_tree, unref_edges).        *)
THEOREM NothingIsLost == Spec => []NothingLeaks
<1>1. CowInv => NothingLeaks
  <2> SUFFICES ASSUME CowInv, NEW S \in SUBSET Nodes, Closed(S),
                      \A x \in Hands : ref[x] \in S \cup {None},
                      \A n \in Nodes, i \in Slots : state[n] = "dying" => ref[<<n, i>>] \in S \cup {None},
                      NEW n \in Nodes, state[n] = "live"
               PROVE  n \in S
    BY DEF NothingLeaks
  <2>1. LiveNodes \subseteq S
    BY LiveIsHeld
  <2>2. QED
    BY <2>1 DEF LiveNodes
<1>2. QED
  BY <1>1, CowInvariance, PTL
 
=============================================================================
