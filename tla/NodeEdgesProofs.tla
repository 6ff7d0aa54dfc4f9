--------------------------- MODULE NodeEdgesProofs ---------------------------
(***************************************************************************)
(* The edge array of a node of any capacity keeps its window intact.       *)
(***************************************************************************)
EXTENDS NodeEdges, TLAPS

USE CapacityAssumption, NullAssumption

(* A fresh node satisfies the invariant. *)
LEMMA InitIInv == Init => IInv
<1> SUFFICES ASSUME Init PROVE IInv
  OBVIOUS
<1>1. PICK n \in 0..Capacity : \E s \in Lists(n) :
        /\ NewNode(n, s) \/ NewLeafFront(n, s)
        /\ want = s /\ pc = "idle" /\ NoLocals
  BY DEF Init
<1>2. PICK s \in Lists(n) :
        /\ NewNode(n, s) \/ NewLeafFront(n, s)
        /\ want = s /\ pc = "idle" /\ NoLocals
  BY <1>1
<1>3. todo \in Lists(0)
  BY <1>2 DEF NoLocals, None, Lists
<1>4. ASSUME begin \in 0..Capacity, end \in 0..Capacity, begin <= end, end - begin = n,
             edges \in [Slots -> Edges \cup {Null}],
             \A k \in 0..(n - 1) : edges[begin + k] = s[k]
      PROVE  IInv
  <2>1. TypeOK
    <3>1. want \in Lists(n) /\ todo \in Lists(0) /\ 0 \in 0..Capacity
      BY <1>2, <1>3
    <3>2. QED
      BY <1>2, <1>4, <3>1 DEF TypeOK, NoLocals, Sides
  <2>2. Aligned
    BY <1>2, <1>4 DEF Aligned, size
  <2>3. QED
    BY <1>2, <2>1, <2>2 DEF IInv
<1>5. CASE NewNode(n, s)
  <2>1. edges = [k \in Slots |-> IF k < n THEN s[k] ELSE Null] /\ begin = 0 /\ end = n
    BY <1>5 DEF NewNode
  <2>2. edges \in [Slots -> Edges \cup {Null}]
    BY <2>1 DEF Lists, Slots
  <2>3. \A k \in 0..(n - 1) : k \in Slots /\ edges[k] = s[k] /\ begin + k = k
    BY <2>1 DEF Slots
  <2>4. QED
    BY <1>4, <2>1, <2>2, <2>3
<1>6. CASE NewLeafFront(n, s)
  <2>1. edges \in [Slots -> Edges \cup {Null}]
    BY <1>6 DEF NewLeafFront, Lists, Slots
  <2>2. \A k \in 0..(n - 1) : edges[(Capacity - n) + k] = s[k]
    BY <1>6 DEF NewLeafFront, Lists, Slots
  <2>3. begin = Capacity - n /\ end = Capacity
    BY <1>6 DEF NewLeafFront
  <2>4. begin \in 0..Capacity /\ begin <= end /\ end - begin = n /\ end \in 0..Capacity
    BY <2>3
  <2>5. QED
    BY <1>4, <2>1, <2>2, <2>3, <2>4
<1>7. QED
  BY <1>2, <1>5, <1>6

(* A cut of the window, and an edge replaced within it, keep it intact.    *)
LEMMA AtomicIInv ==
  ASSUME IInv, Cut \/ DropBack \/ (\E d \in Sides, e \in Edges : SetEdge(d, e))
  PROVE  IInv'
<1>0. pc = "idle" /\ TypeOK /\ Aligned
  BY DEF IInv, Cut, DropBack, SetEdge, CopyToEndFrom, CopyBeginTo, CopySuffix, CopyPrefix, Atomic
<1>9. ASSUME Aligned', begin' \in 0..Capacity, end' \in 0..Capacity, begin' <= end',
             edges' \in [Slots -> Edges \cup {Null}], Atomic
      PROVE  IInv'
  <2>1. TypeOK'
    BY <1>0, <1>9 DEF TypeOK, Aligned, size, Atomic, locals
  <2>2. QED
    BY <1>0, <1>9, <2>1 DEF IInv, Atomic
<1> USE DEF TypeOK, Aligned, size, Lists, Slots
<1>1. ASSUME NEW b \in 0..Capacity, CopyToEndFrom(b) PROVE IInv'
  BY <1>0, <1>1, <1>9 DEF CopyToEndFrom
<1>2. ASSUME NEW b \in 0..Capacity, CopyBeginTo(b) PROVE IInv'
  BY <1>0, <1>2, <1>9 DEF CopyBeginTo
<1>3. ASSUME NEW b \in 0..Capacity, NEW e \in Edges, CopySuffix(b, e) PROVE IInv'
  BY <1>0, <1>3, <1>9 DEF CopySuffix
<1>4. ASSUME NEW b \in 0..Capacity, NEW e \in Edges, CopyPrefix(b, e) PROVE IInv'
  BY <1>0, <1>4, <1>9 DEF CopyPrefix
<1>5. ASSUME DropBack PROVE IInv'
  BY <1>0, <1>5, <1>9 DEF DropBack
<1>6. ASSUME NEW d \in Sides, NEW e \in Edges, SetEdge(d, e) PROVE IInv'
  BY <1>0, <1>6, <1>9 DEF SetEdge, Sides, BACK, FRONT
<1>7. QED
  BY <1>1, <1>2, <1>3, <1>4, <1>5, <1>6 DEF Cut

(* Setting an operation up moves the window to where the loop will bring   *)
(* the edges.                                                              *)
LEMMA StartIInv ==
  ASSUME IInv, NEW d \in Sides, NEW g \in {"add", "from", "fill"},
         NEW n \in 1..Capacity, NEW s \in Lists(n), Start(d, g, s),
         g = "add" => n = 1, IF g = "from" THEN HasRoom(n) ELSE HasRoom(1)
  PROVE  IInv'
<1>0. pc = "idle" /\ TypeOK /\ Aligned
  BY DEF IInv, Start
<1>1. end - begin \in 0..Capacity /\ end' - begin' = end - begin
      /\ begin' \in 0..Capacity /\ end' \in 0..Capacity /\ begin' <= end'
  BY <1>0 DEF Start, TypeOK, Sides, BACK, FRONT
<1>2. want' = want /\ edges' = edges /\ want' \in Lists(size') /\ size' = size
  BY <1>0, <1>1 DEF Start, Aligned, size
<1>3. TypeOK'
  BY <1>0, <1>1, <1>2 DEF Start, TypeOK, Sides, BACK, FRONT
<1>4. RoomForTodo'
  BY <1>0, <1>2 DEF Start, RoomForTodo, HasRoom
<1>5. CASE d = BACK
  <2>1. CASE begin = 0
    BY <1>0, <1>1, <1>2, <1>3, <1>4, <1>5, <2>1 DEF Start, IInv, Aligned, TypeOK, size, BACK
  <2>2. CASE begin # 0
    BY <1>0, <1>1, <1>2, <1>3, <1>4, <1>5, <2>2
       DEF Start, IInv, Aligned, HalfBegin, TypeOK, size, BACK, FRONT
  <2>3. QED
    BY <2>1, <2>2
<1>6. CASE d = FRONT
  <2>1. CASE end = Capacity
    BY <1>0, <1>1, <1>2, <1>3, <1>4, <1>6, <2>1 DEF Start, IInv, Aligned, TypeOK, size, BACK, FRONT
  <2>2. CASE end # Capacity
    BY <1>0, <1>1, <1>2, <1>3, <1>4, <1>6, <2>2
       DEF Start, IInv, Aligned, HalfEnd, TypeOK, size, BACK, FRONT
  <2>3. QED
    BY <2>1, <2>2
<1>7. QED
  BY <1>5, <1>6 DEF Sides

(* One iteration of align_begin moves one edge down, over one already moved *)
(* or a stale slot.                                                        *)
LEMMA AlignBeginIInv ==
  ASSUME IInv, AlignBegin PROVE IInv'
<1>0. pc = "alignBegin" /\ TypeOK /\ side = BACK /\ HalfBegin /\ RoomForTodo
  BY DEF IInv, AlignBegin
<1>1. CASE i < end
  <2>1. TypeOK'
    BY <1>0, <1>1 DEF AlignBegin, TypeOK, HalfBegin, Slots
  <2>2. HalfBegin'
    BY <1>0, <1>1 DEF AlignBegin, TypeOK, HalfBegin, Slots
  <2>3. RoomForTodo'
    BY <1>0 DEF AlignBegin, RoomForTodo, HasRoom, size
  <2>4. QED
    BY <1>0, <1>1, <2>1, <2>2, <2>3 DEF AlignBegin, IInv
<1>2. CASE ~(i < end)
  <2>1. TypeOK' /\ RoomForTodo'
    BY <1>0, <1>2 DEF AlignBegin, TypeOK, RoomForTodo, HasRoom, size
  <2>2. Aligned'
    BY <1>0, <1>2 DEF AlignBegin, TypeOK, HalfBegin, Aligned, size
  <2>3. QED
    BY <1>0, <1>2, <2>1, <2>2 DEF AlignBegin, IInv, TypeOK, HalfBegin
<1>3. QED
  BY <1>1, <1>2

(* One iteration of align_end moves one edge up, over one already moved or *)
(* a stale slot.                                                           *)
LEMMA AlignEndIInv ==
  ASSUME IInv, AlignEnd PROVE IInv'
<1>0. pc = "alignEnd" /\ TypeOK /\ side = FRONT /\ HalfEnd /\ RoomForTodo
  BY DEF IInv, AlignEnd
<1>1. CASE i > begin
  <2>1. TypeOK'
    BY <1>0, <1>1 DEF AlignEnd, TypeOK, HalfEnd, Slots
  <2>2. HalfEnd'
    <3>1. /\ edges' = [edges EXCEPT ![i - 1] = edges[i - 1 - delta]] /\ i' = i - 1
          /\ UNCHANGED <<begin, end, delta, want>> /\ size' = size
      BY <1>0, <1>1 DEF AlignEnd, size
    <3>2. i - 1 \in Slots /\ i - 1 - delta \in Slots /\ begin <= i - 1
      BY <1>0, <1>1 DEF TypeOK, HalfEnd, Slots
    <3>3. ASSUME NEW k \in 0..(size - 1)
          PROVE  edges'[IF begin + k >= i - 1 THEN begin + k ELSE begin + k - delta] = want[k]
      <4>1. begin + k \in Slots /\ (begin + k < i => begin + k - delta \in Slots)
        BY <1>0 DEF TypeOK, HalfEnd, Slots, size
      <4>2. CASE begin + k >= i
        BY <1>0, <3>1, <3>2, <4>1, <4>2 DEF TypeOK, HalfEnd
      <4>3. CASE begin + k = i - 1
        BY <1>0, <3>1, <3>2, <4>1, <4>3 DEF TypeOK, HalfEnd
      <4>4. CASE begin + k < i - 1
        BY <1>0, <3>1, <3>2, <4>1, <4>4 DEF TypeOK, HalfEnd
      <4>5. QED
        BY <1>0, <4>2, <4>3, <4>4 DEF TypeOK, size
    <3>4. QED
      BY <1>0, <3>1, <3>2, <3>3 DEF HalfEnd
  <2>3. RoomForTodo'
    BY <1>0 DEF AlignEnd, RoomForTodo, HasRoom, size
  <2>4. QED
    BY <1>0, <1>1, <2>1, <2>2, <2>3 DEF AlignEnd, IInv
<1>2. CASE ~(i > begin)
  <2>1. TypeOK' /\ RoomForTodo'
    BY <1>0, <1>2 DEF AlignEnd, TypeOK, RoomForTodo, HasRoom, size
  <2>2. Aligned'
    BY <1>0, <1>2 DEF AlignEnd, TypeOK, HalfEnd, Aligned, size
  <2>3. QED
    BY <1>0, <1>2, <2>1, <2>2 DEF AlignEnd, IInv, TypeOK, HalfEnd, BACK, FRONT
<1>3. QED
  BY <1>1, <1>2

(* The m edges s written next to the window join the list at their side.   *)
LEMMA WriteAligned ==
  ASSUME TypeOK, Aligned, NEW m \in 1..Capacity, NEW s \in Lists(m), HasRoom(m),
         IF side = BACK THEN begin = 0 ELSE end = Capacity,
         Grow(m), want' = Joined(side, want, size, s, m),
         edges' \in [Slots -> Edges \cup {Null}],
         LET first == IF side = BACK THEN end ELSE begin - m
         IN  \A k \in Slots : edges'[k] = IF first <= k /\ k < first + m THEN s[k - first] ELSE edges[k]
  PROVE  /\ Aligned' /\ size' \in 0..Capacity
         /\ begin' \in 0..Capacity /\ end' \in 0..Capacity /\ begin' <= end'
         /\ IF side = BACK THEN begin' = 0 ELSE end' = Capacity
<1> USE DEF TypeOK, HasRoom, size, Grow
<1>1. CASE side = BACK
  <2>1. begin' = 0 /\ end' = end + m /\ end' \in 0..Capacity /\ size = end /\ size' = end + m
    BY <1>1
  <2>2. want' = [k \in 0..(end + m - 1) |-> IF k < end THEN want[k] ELSE s[k - end]]
    BY <1>1, <2>1 DEF Joined
  <2>3. want' \in Lists(end + m)
    BY <2>1, <2>2 DEF Aligned, Lists
  <2>4. ASSUME NEW k \in 0..(end + m - 1) PROVE edges'[k] = want'[k]
    <3>1. k \in Slots /\ want'[k] = IF k < end THEN want[k] ELSE s[k - end]
      BY <2>1, <2>2 DEF Slots
    <3>2. edges'[k] = IF end <= k /\ k < end + m THEN s[k - end] ELSE edges[k]
      BY <1>1, <3>1
    <3>3. CASE k < end
      <4>1. k \in 0..(size - 1) /\ begin + k = k
        BY <1>1, <3>3
      <4>2. edges[k] = want[k]
        BY <4>1 DEF Aligned
      <4>3. QED
        BY <3>1, <3>2, <3>3, <4>2
    <3>4. CASE k >= end
      BY <3>1, <3>2, <3>4
    <3>5. QED
      BY <3>3, <3>4
  <2>5. QED
    BY <1>1, <2>1, <2>3, <2>4 DEF Aligned
<1>2. CASE side # BACK
  <2>1. end' = Capacity /\ begin' = begin - m /\ begin' \in 0..Capacity
        /\ size = Capacity - begin /\ size' = size + m
    BY <1>2
  <2>2. want' = [k \in 0..(size + m - 1) |-> IF k < m THEN s[k] ELSE want[k - m]]
    BY <1>2, <2>1 DEF Joined
  <2>3. want' \in Lists(size')
    <3>1. ASSUME NEW k \in 0..(size + m - 1)
          PROVE  (IF k < m THEN s[k] ELSE want[k - m]) \in Edges
      <4>1. CASE k < m
        BY <4>1 DEF Lists
      <4>2. CASE k >= m
        <5>1. k - m \in 0..(size - 1)
          BY <4>2
        <5>2. QED
          BY <4>2, <5>1 DEF Aligned, Lists
      <4>3. QED
        BY <4>1, <4>2
    <3>2. want' \in [0..(size + m - 1) -> Edges]
      BY <2>2, <3>1
    <3>3. QED
      BY <2>1, <3>2 DEF Lists
  <2>4. ASSUME NEW k \in 0..(size' - 1) PROVE edges'[begin' + k] = want'[k]
    <3>1. begin' + k \in Slots
      BY <2>1 DEF Slots
    <3>2. CASE k < m
      BY <1>2, <2>1, <2>2, <3>1, <3>2
    <3>3. CASE k >= m
      <4>1. k - m \in 0..(size - 1) /\ edges[begin + (k - m)] = want[k - m]
        BY <2>1, <3>3 DEF Aligned
      <4>2. begin' + k = begin + (k - m) /\ begin' + k >= begin
        BY <2>1, <3>3
      <4>3. QED
        BY <1>2, <2>1, <2>2, <3>1, <3>3, <4>1, <4>2
    <3>4. QED
      BY <3>2, <3>3
  <2>5. QED
    BY <1>2, <2>1, <2>3, <2>4 DEF Aligned
<1>3. QED
  BY <1>1, <1>2

(* What returning to the caller leaves. *)
LEMMA ReturnIInv ==
  ASSUME TypeOK, Return, Aligned', size' \in 0..Capacity,
         begin' \in 0..Capacity, end' \in 0..Capacity, begin' <= end',
         edges' \in [Slots -> Edges \cup {Null}]
  PROVE  IInv'
<1>1. todo' \in Lists(0)
  BY DEF Return, None, Lists
<1>2. TypeOK'
  <2>1. \E n \in 0..Capacity : todo' \in Lists(n)
    BY <1>1
  <2>2. \E n \in 0..Capacity : want' \in Lists(n)
    BY DEF Aligned
  <2>3. QED
    BY <2>1, <2>2 DEF TypeOK, Return, Sides
<1>3. QED
  BY <1>2 DEF IInv, Return

(* add and add_edges_from write into slots that exist. *)
LEMMA WriteIInv ==
  ASSUME IInv, WriteEdge \/ (\E n \in 1..Capacity : WriteFrom(n))
  PROVE  IInv'
<1>0. /\ TypeOK /\ Aligned /\ RoomForTodo /\ goal = pc
      /\ IF side = BACK THEN begin = 0 ELSE end = Capacity
  BY DEF IInv, WriteEdge, WriteFrom
<1>1. ASSUME WriteEdge PROVE IInv'
  <2>1. todo \in Lists(1) /\ HasRoom(1) /\ 1 \in 1..Capacity
    BY <1>0, <1>1 DEF WriteEdge, RoomForTodo
  <2>2. NextSlot \in Slots
        /\ NextSlot = IF side = BACK THEN end ELSE begin - 1
    BY <1>0, <2>1 DEF NextSlot, Slots, HasRoom, TypeOK, size
  <2>3. edges' \in [Slots -> Edges \cup {Null}]
    <3>1. todo[0] \in Edges
      BY <2>1 DEF Lists
    <3>2. QED
      BY <1>0, <1>1, <3>1 DEF WriteEdge, TypeOK
  <2>4. \A k \in Slots : edges'[k] = IF k = NextSlot THEN todo[0] ELSE edges[k]
    BY <1>0, <1>1, <2>2 DEF WriteEdge, TypeOK
  <2>5. ASSUME NEW first, first = IF side = BACK THEN end ELSE begin - 1, NEW k \in Slots
        PROVE  edges'[k] = IF first <= k /\ k < first + 1 THEN todo[k - first] ELSE edges[k]
    BY <1>0, <2>2, <2>4, <2>5 DEF TypeOK, Slots
  <2>6. /\ Aligned' /\ size' \in 0..Capacity
        /\ begin' \in 0..Capacity /\ end' \in 0..Capacity /\ begin' <= end'
    BY <1>0, <1>1, <2>1, <2>3, <2>5, WriteAligned DEF WriteEdge
  <2>7. QED
    BY <1>0, <1>1, <2>3, <2>6, ReturnIInv DEF WriteEdge
<1>2. ASSUME NEW n \in 1..Capacity, WriteFrom(n) PROVE IInv'
  <2>1. PICK m \in 1..Capacity : todo \in Lists(m) /\ HasRoom(m)
    BY <1>0, <1>2 DEF WriteFrom, RoomForTodo
  <2>2. m = n
    <3>1. 0..(m - 1) = 0..(n - 1)
      BY <1>2, <2>1 DEF WriteFrom, Lists
    <3>2. m - 1 \in 0..(m - 1) /\ n - 1 \in 0..(n - 1)
      OBVIOUS
    <3>3. QED
      BY <3>1, <3>2
  <2>3. todo \in Lists(n) /\ HasRoom(n)
    BY <2>1, <2>2
  <2>4. edges' \in [Slots -> Edges \cup {Null}]
    <3> DEFINE first == IF side = BACK THEN end ELSE begin - n
    <3>1. first \in Int /\ edges' = [k \in Slots |->
             IF first <= k /\ k < first + n THEN todo[k - first] ELSE edges[k]]
      BY <1>0, <1>2 DEF WriteFrom, TypeOK
    <3> HIDE DEF first
    <3>2. QED
      BY <1>0, <2>3, <3>1 DEF TypeOK, Lists, Slots
  <2>5. ASSUME NEW first, first = IF side = BACK THEN end ELSE begin - n, NEW k \in Slots
        PROVE  edges'[k] = IF first <= k /\ k < first + n THEN todo[k - first] ELSE edges[k]
    BY <1>2, <2>5 DEF WriteFrom
  <2>6. /\ Aligned' /\ size' \in 0..Capacity
        /\ begin' \in 0..Capacity /\ end' \in 0..Capacity /\ begin' <= end'
    BY <1>0, <1>2, <2>3, <2>4, <2>5, WriteAligned DEF WriteFrom
  <2>7. QED
    BY <1>0, <1>2, <2>4, <2>6, ReturnIInv DEF WriteFrom
<1>3. QED
  BY <1>1, <1>2

(* A window that ends at one end of the array and not at the other leaves  *)
(* a slot.                                                                 *)
LEMMA RoomLeft ==
  ASSUME NEW b \in 0..Capacity, NEW e \in 0..Capacity, NEW back \in BOOLEAN,
         back => b = 0 /\ e # Capacity, ~back => e = Capacity /\ b # 0
  PROVE  e - b + 1 <= Capacity
OBVIOUS

(* One iteration of the loop of add_data_to_leaf writes into a slot that   *)
(* exists, and there is another one if it goes on.                         *)
LEMMA FillIInv ==
  ASSUME IInv, NEW n \in 1..Capacity, FillOneFlat(n) PROVE IInv'
<1>0. /\ TypeOK /\ Aligned /\ RoomForTodo /\ goal = "fill" /\ pc = "fill"
      /\ IF side = BACK THEN begin = 0 ELSE end = Capacity
  BY DEF IInv, FillOneFlat
<1>1. todo \in Lists(n) /\ taken < n /\ HasRoom(1) /\ 1 \in 1..Capacity
  <2>1. PICK m \in 1..Capacity : todo \in Lists(m) /\ taken < m
    BY <1>0 DEF RoomForTodo
  <2>2. 0..(m - 1) = 0..(n - 1)
    BY <2>1 DEF FillOneFlat, Lists
  <2>3. m - 1 \in 0..(m - 1) /\ n - 1 \in 0..(n - 1)
    OBVIOUS
  <2>4. m = n
    BY <2>2, <2>3
  <2>5. QED
    BY <1>0, <2>1, <2>4 DEF RoomForTodo
<1> DEFINE f == todo[IF side = BACK THEN taken ELSE n - 1 - taken]
           s == [k \in {0} |-> f]
<1>2. f \in Edges /\ s \in Lists(1) /\ s[0] = f
  <2>1. f \in Edges
    BY <1>0, <1>1 DEF TypeOK, Lists
  <2>2. 0..(1 - 1) = {0}
    OBVIOUS
  <2>3. QED
    BY <2>1, <2>2 DEF Lists
<1>3. NextSlot \in Slots /\ NextSlot = IF side = BACK THEN end ELSE begin - 1
  BY <1>0, <1>1 DEF NextSlot, Slots, HasRoom, TypeOK, size
<1>4. edges' = [edges EXCEPT ![NextSlot] = f] /\ want' = Joined(side, want, size, s, 1) /\ Grow(1)
  BY DEF FillOneFlat
<1> HIDE DEF f, s
<1>5. edges' \in [Slots -> Edges \cup {Null}]
  BY <1>0, <1>2, <1>4 DEF TypeOK
<1>6. \A k \in Slots : edges'[k] = IF k = NextSlot THEN f ELSE edges[k]
  BY <1>0, <1>3, <1>4 DEF TypeOK
<1>7. ASSUME NEW first, first = IF side = BACK THEN end ELSE begin - 1, NEW k \in Slots
      PROVE  edges'[k] = IF first <= k /\ k < first + 1 THEN s[k - first] ELSE edges[k]
  BY <1>0, <1>2, <1>3, <1>6, <1>7 DEF TypeOK, Slots
<1>8. /\ Aligned' /\ size' \in 0..Capacity
      /\ begin' \in 0..Capacity /\ end' \in 0..Capacity /\ begin' <= end'
      /\ IF side = BACK THEN begin' = 0 ELSE end' = Capacity
  BY <1>0, <1>1, <1>2, <1>4, <1>5, <1>7, WriteAligned
<1>9. CASE taken + 1 = n \/ (IF side = BACK THEN end' = Capacity ELSE begin' = 0)
  BY <1>0, <1>5, <1>8, <1>9, ReturnIInv DEF FillOneFlat
<1>10. CASE ~(taken + 1 = n \/ (IF side = BACK THEN end' = Capacity ELSE begin' = 0))
  <2>1. taken' = taken + 1 /\ UNCHANGED <<pc, side, goal, i, delta, todo>>
    BY <1>10 DEF FillOneFlat
  <2>2. taken' \in 0..Capacity /\ taken' < n
    BY <1>0, <1>1, <1>10, <2>1 DEF TypeOK
  <2>3. TypeOK'
    BY <1>0, <1>5, <1>8, <2>1, <2>2 DEF TypeOK, Aligned
  <2>4. HasRoom(1)'
    <3>1. begin' \in 0..Capacity /\ end' \in 0..Capacity
      BY <1>8
    <3>2. (side = BACK => begin' = 0) /\ (side # BACK => end' = Capacity)
      BY <1>8
    <3>3. (side = BACK => end' # Capacity) /\ (side # BACK => begin' # 0)
      BY <1>10
    <3>4. end' - begin' + 1 <= Capacity
      BY <3>1, <3>2, <3>3, RoomLeft
    <3>5. QED
      BY <3>4 DEF HasRoom, size
  <2>5. RoomForTodo'
    BY <1>0, <1>1, <2>1, <2>2, <2>4 DEF RoomForTodo
  <2>6. QED
    BY <1>0, <1>8, <2>1, <2>3, <2>5 DEF IInv
<1>11. QED
  BY <1>9, <1>10

(* Every step keeps the invariant. *)
LEMMA NextIInv == IInv /\ [Next]_vars => IInv'
<1> SUFFICES ASSUME IInv, [Next]_vars PROVE IInv'
  OBVIOUS
<1>1. CASE Resume
  BY <1>1, AlignBeginIInv, AlignEndIInv, WriteIInv, FillIInv DEF Resume
<1>2. CASE Cut
  BY <1>2, AtomicIInv
<1>3. CASE DropBack
  BY <1>3, AtomicIInv
<1>4. CASE Extend
  <2>1. ASSUME NEW d \in Sides, NEW e \in Edges, Add(d, e) PROVE IInv'
    <3>1. 0..(1 - 1) = {0} /\ 1 \in 1..Capacity
      OBVIOUS
    <3>2. [k \in {0} |-> e] \in Lists(1)
      BY <3>1 DEF Lists
    <3>3. QED
      BY <2>1, <3>1, <3>2, StartIInv DEF Add
  <2>2. ASSUME NEW d \in Sides, NEW e \in Edges, SetEdge(d, e) PROVE IInv'
    BY <2>2, AtomicIInv
  <2>3. ASSUME NEW d \in Sides, NEW n \in 1..Capacity, NEW s \in Lists(n), AddEdgesFrom(d, n, s)
        PROVE  IInv'
    BY <2>3, StartIInv DEF AddEdgesFrom
  <2>4. ASSUME NEW d \in Sides, NEW n \in 1..Capacity, NEW s \in Lists(n), AddDataToLeaf(d, s)
        PROVE  IInv'
    BY <2>4, StartIInv DEF AddDataToLeaf
  <2>5. QED
    BY <1>4, <2>1, <2>2, <2>3, <2>4 DEF Extend
<1>5. CASE UNCHANGED vars
  BY <1>5 DEF vars, IInv, TypeOK, Aligned, HalfBegin, HalfEnd, RoomForTodo, HasRoom, size
<1>6. QED
  BY <1>1, <1>2, <1>3, <1>4, <1>5 DEF Next

(* The inductive invariant holds in every reachable state, for a node of   *)
(* any capacity: half-done loops included.                                 *)
THEOREM InvariantHolds == Spec => []IInv
BY InitIInv, NextIInv, PTL DEF Spec

(* Between calls the window of a node holds exactly the edges its callers  *)
(* gave it, in order, whatever alignments and cuts came before.            *)
THEOREM WindowStaysIntact == Spec => []WindowIntact
<1>1. IInv => WindowIntact
  BY DEF IInv, Aligned, WindowIntact
<1>2. QED
  BY <1>1, InvariantHolds, PTL

(* No iteration of align_begin or align_end overwrites an edge it has not  *)
(* moved yet.                                                              *)
THEOREM AlignmentLosesNothing == Spec => []NothingLost
<1>1. ASSUME IInv, NEW k \in DOMAIN want PROVE \E j \in Slots : edges[j] = want[k]
  <2>0. TypeOK
    BY <1>1 DEF IInv
  <2>1. CASE pc \in {"idle", "add", "from", "fill"}
    <3>1. k \in 0..(size - 1) /\ edges[begin + k] = want[k]
      BY <1>1, <2>1 DEF IInv, Aligned, Lists
    <3>2. begin + k \in Slots
      BY <2>0, <3>1 DEF TypeOK, size, Slots
    <3>3. QED
      BY <3>1, <3>2
  <2>2. CASE pc = "alignBegin"
    <3>1. HalfBegin
      BY <1>1, <2>2 DEF IInv
    <3>2. k \in 0..(end - 1) /\ edges[IF k < i THEN k ELSE k + delta] = want[k]
      BY <3>1 DEF HalfBegin, Lists
    <3>3. (IF k < i THEN k ELSE k + delta) \in Slots
      BY <2>0, <3>1, <3>2 DEF TypeOK, HalfBegin, Slots
    <3>4. QED
      BY <3>2, <3>3
  <2>3. CASE pc = "alignEnd"
    <3>1. HalfEnd
      BY <1>1, <2>3 DEF IInv
    <3>2. k \in 0..(size - 1) /\ edges[IF begin + k >= i THEN begin + k ELSE begin + k - delta] = want[k]
      BY <3>1 DEF HalfEnd, Lists
    <3>3. (IF begin + k >= i THEN begin + k ELSE begin + k - delta) \in Slots
      BY <2>0, <3>1, <3>2 DEF TypeOK, HalfEnd, Slots, size
    <3>4. QED
      BY <3>2, <3>3
  <2>4. QED
    BY <2>0, <2>1, <2>2, <2>3 DEF TypeOK
<1>2. IInv => NothingLost
  BY <1>1 DEF NothingLost
<1>3. QED
  BY <1>2, InvariantHolds, PTL

(* No operation reads or writes outside the array of MAX_CAPACITY slots.   *)
THEOREM ArrayBoundsHold == Spec => []WritesInBounds
<1>1. ASSUME IInv PROVE WritesInBounds
  <2>0. TypeOK
    BY <1>1 DEF IInv
  <2>1. pc = "alignBegin" /\ i < end => i \in Slots /\ i + delta \in Slots
    BY <1>1, <2>0 DEF IInv, HalfBegin, TypeOK, Slots
  <2>2. pc = "alignEnd" /\ i > begin => i - 1 \in Slots /\ i - 1 - delta \in Slots
    BY <1>1, <2>0 DEF IInv, HalfEnd, TypeOK, Slots
  <2>3. pc \in {"add", "fill"} => NextSlot \in Slots
    BY <1>1, <2>0 DEF IInv, TypeOK, RoomForTodo, HasRoom, size, NextSlot, Slots
  <2>4. ASSUME pc = "from", NEW k \in DOMAIN todo
        PROVE  (IF side = BACK THEN end + k ELSE begin - 1 - k) \in Slots
    <3>1. PICK n \in 1..Capacity : todo \in Lists(n) /\ HasRoom(n)
      BY <1>1, <2>4 DEF IInv, RoomForTodo
    <3>2. k \in 0..(n - 1)
      BY <3>1 DEF Lists
    <3>3. QED
      BY <1>1, <2>0, <2>4, <3>1, <3>2 DEF IInv, TypeOK, HasRoom, size, Slots
  <2>5. QED
    BY <2>0, <2>1, <2>2, <2>3, <2>4 DEF WritesInBounds, TypeOK
<1>2. QED
  BY <1>1, InvariantHolds, PTL

(***************************************************************************)
(* NodeEdges implements EdgeList.                                          *)
(***************************************************************************)

(* At every iteration of the loops the array holds the edges the callers   *)
(* mean the node to have, at the slots that SlotOf tells.                  *)
LEMMA ContentIsWant == IInv => Content = want /\ want \in Lists(size) /\ size \in 0..Capacity
<1> SUFFICES ASSUME IInv
             PROVE  Content = want /\ want \in Lists(size) /\ size \in 0..Capacity
  OBVIOUS
<1>0. TypeOK
  BY DEF IInv
<1>1. size \in 0..Capacity
  BY <1>0, CapacityAssumption DEF TypeOK, size
<1>2. CASE pc \in {"idle", "add", "from", "fill"}
  <2>1. Aligned
    BY <1>2 DEF IInv
  <2>2. \A k \in 0..(size - 1) : SlotOf(k) = begin + k
    BY <1>2 DEF SlotOf
  <2>3. Content = [k \in 0..(size - 1) |-> want[k]]
    BY <2>1, <2>2 DEF Content, Aligned
  <2>4. QED
    BY <1>1, <2>1, <2>3 DEF Aligned, Lists
<1>3. CASE pc = "alignBegin"
  <2>1. HalfBegin
    BY <1>3 DEF IInv
  <2>2. size = end
    BY <1>0, <2>1 DEF size, HalfBegin, TypeOK
  <2>3. \A k \in 0..(size - 1) : SlotOf(k) = IF k < i THEN k ELSE k + delta
    BY <1>0, <1>3, <2>1, <2>2 DEF SlotOf, HalfBegin, TypeOK
  <2>4. Content = [k \in 0..(size - 1) |-> want[k]]
    BY <2>1, <2>2, <2>3 DEF Content, HalfBegin
  <2>5. QED
    BY <1>1, <2>1, <2>2, <2>4 DEF HalfBegin, Lists
<1>4. CASE pc = "alignEnd"
  <2>1. HalfEnd
    BY <1>4 DEF IInv
  <2>2. \A k \in 0..(size - 1) :
          SlotOf(k) = IF begin + k >= i THEN begin + k ELSE begin + k - delta
    BY <1>0, <1>4, <2>1 DEF SlotOf, TypeOK
  <2>3. Content = [k \in 0..(size - 1) |-> want[k]]
    BY <2>1, <2>2 DEF Content, HalfEnd
  <2>4. QED
    BY <1>1, <2>1, <2>3 DEF HalfEnd, Lists
<1>5. QED
  BY <1>0, <1>2, <1>3, <1>4 DEF TypeOK

(* What EdgeList allows, said of the list the callers mean.                *)
WantStep ==
    \/ want' = want
    \/ \E a \in 0..size : \/ want' = [k \in 0..(size - a - 1) |-> want[k + a]]
                          \/ want' = [k \in 0..(a - 1) |-> want[k]]
    \/ \E a \in 1..size, e \in Edges :
         \/ want' = [k \in 0..(size - (a - 1) - 1) |-> IF k = 0 THEN e ELSE want[k + (a - 1)]]
         \/ want' = [k \in 0..(a - 1) |-> IF k = a - 1 THEN e ELSE want[k]]
    \/ \E m \in 1..(Capacity - size) : \E s \in Lists(m) :
         \/ want' = [k \in 0..(size + m - 1) |-> IF k < size THEN want[k] ELSE s[k - size]]
         \/ want' = [k \in 0..(size + m - 1) |-> IF k < m THEN s[k] ELSE want[k - m]]

LEMMA CutsListed ==
  ASSUME IInv, NEW b \in 0..Capacity, NEW e \in Edges,
         CopyToEndFrom(b) \/ CopyBeginTo(b) \/ CopySuffix(b, e) \/ CopyPrefix(b, e)
  PROVE  WantStep
<1>0. begin \in 0..Capacity /\ end \in 0..Capacity /\ begin <= end /\ size = end - begin
  BY DEF IInv, TypeOK, size
<1>1. CASE CopyToEndFrom(b)
  <2>1. b - begin \in 0..size /\ end - b - 1 = size - (b - begin) - 1
    BY <1>0, <1>1 DEF CopyToEndFrom
  <2>2. want' = [k \in 0..(size - (b - begin) - 1) |-> want[k + (b - begin)]]
    BY <1>1, <2>1 DEF CopyToEndFrom
  <2>3. QED
    BY <2>1, <2>2 DEF WantStep
<1>2. CASE CopyBeginTo(b)
  <2>1. b - begin \in 0..size /\ want' = [k \in 0..((b - begin) - 1) |-> want[k]]
    BY <1>0, <1>2 DEF CopyBeginTo
  <2>2. QED
    BY <2>1 DEF WantStep
<1>3. CASE CopySuffix(b, e)
  <2>1. /\ b - begin \in 1..size
        /\ end - b = size - ((b - begin) - 1) - 1
        /\ b - 1 - begin = (b - begin) - 1
    BY <1>0, <1>3 DEF CopySuffix
  <2>2. want' = [k \in 0..(size - ((b - begin) - 1) - 1) |->
                    IF k = 0 THEN e ELSE want[k + ((b - begin) - 1)]]
    BY <1>3, <2>1 DEF CopySuffix
  <2>3. QED
    BY <2>1, <2>2 DEF WantStep
<1>4. CASE CopyPrefix(b, e)
  <2>1. b - begin + 1 \in 1..size /\ (b - begin + 1) - 1 = b - begin
    BY <1>0, <1>4 DEF CopyPrefix
  <2>2. want' = [k \in 0..((b - begin + 1) - 1) |->
                    IF k = (b - begin + 1) - 1 THEN e ELSE want[k]]
    BY <1>4, <2>1 DEF CopyPrefix
  <2>3. QED
    BY <2>1, <2>2 DEF WantStep
<1>5. QED
  BY <1>1, <1>2, <1>3, <1>4

LEMMA DropBackListed ==
  ASSUME IInv, DropBack
  PROVE  WantStep
<1>1. size - 1 \in 0..size /\ (size - 1) - 1 = size - 2
  BY ContentIsWant DEF DropBack
<1>2. want' = [k \in 0..((size - 1) - 1) |-> want[k]]
  BY <1>1 DEF DropBack
<1>3. QED
  BY <1>1, <1>2 DEF WantStep

LEMMA SetEdgeListed ==
  ASSUME IInv, NEW d \in Sides, NEW e \in Edges, SetEdge(d, e)
  PROVE  WantStep
<1>0. size \in 1..Capacity /\ want \in [0..(size - 1) -> Edges]
  BY ContentIsWant DEF SetEdge, Lists
<1>1. CASE d = BACK
  <2>1. want' = [want EXCEPT ![size - 1] = e]
    BY <1>1 DEF SetEdge
  <2>2. want' = [k \in 0..(size - 1) |-> IF k = size - 1 THEN e ELSE want[k]]
    BY <1>0, <2>1
  <2>3. size \in 1..size
    BY <1>0
  <2>4. QED
    BY <2>2, <2>3 DEF WantStep
<1>2. CASE d # BACK
  <2>1. want' = [want EXCEPT ![0] = e]
    BY <1>2 DEF SetEdge
  <2>2. want' = [k \in 0..(size - 1) |-> IF k = 0 THEN e ELSE want[k]]
    BY <1>0, <2>1
  <2>3. size - (1 - 1) - 1 = size - 1 /\ \A k \in 0..(size - 1) : k + (1 - 1) = k
    BY <1>0
  <2>4. want' = [k \in 0..(size - (1 - 1) - 1) |-> IF k = 0 THEN e ELSE want[k + (1 - 1)]]
    BY <2>2, <2>3
  <2>5. 1 \in 1..size
    BY <1>0
  <2>6. QED
    BY <2>4, <2>5 DEF WantStep
<1>3. QED
  BY <1>1, <1>2

(* Adding edges within the capacity, at either side. *)
LEMMA JoinedListed ==
  ASSUME IInv, NEW m \in 1..Capacity, NEW s \in Lists(m), HasRoom(m),
         want' = Joined(side, want, size, s, m)
  PROVE  WantStep
<1>1. m \in 1..(Capacity - size)
  BY ContentIsWant, CapacityAssumption DEF HasRoom
<1>2. QED
  BY <1>1 DEF WantStep, Joined

(* As many edges as the array todo has numbers. *)
LEMMA TodoLength ==
  ASSUME NEW m \in 1..Capacity, NEW n \in 1..Capacity, todo \in Lists(m), DOMAIN todo = 0..(n - 1)
  PROVE  m = n
<1>1. 0..(m - 1) = 0..(n - 1)
  BY DEF Lists
<1>2. m - 1 \in 0..(m - 1) /\ n - 1 \in 0..(n - 1)
  OBVIOUS
<1>3. QED
  BY <1>1, <1>2

LEMMA WritesListed ==
  ASSUME IInv, NEW n \in 1..Capacity, WriteEdge \/ WriteFrom(n) \/ FillOneFlat(n)
  PROVE  WantStep
<1>0. TypeOK /\ RoomForTodo /\ goal = pc /\ 1 \in 1..Capacity
  BY CapacityAssumption DEF IInv, WriteEdge, WriteFrom, FillOneFlat
<1>1. CASE WriteEdge
  <2>1. todo \in Lists(1) /\ HasRoom(1) /\ want' = Joined(side, want, size, todo, 1)
    BY <1>0, <1>1 DEF WriteEdge, RoomForTodo
  <2>2. QED
    BY <1>0, <2>1, JoinedListed
<1>2. CASE WriteFrom(n)
  <2>1. PICK m \in 1..Capacity : todo \in Lists(m) /\ HasRoom(m)
    BY <1>0, <1>2 DEF WriteFrom, RoomForTodo
  <2>2. m = n
    BY <1>2, <2>1, TodoLength DEF WriteFrom
  <2>3. want' = Joined(side, want, size, todo, n)
    BY <1>2 DEF WriteFrom
  <2>4. QED
    BY <2>1, <2>2, <2>3, JoinedListed
<1>3. CASE FillOneFlat(n)
  <2>1. PICK m \in 1..Capacity : todo \in Lists(m) /\ taken < m
    BY <1>0, <1>3 DEF FillOneFlat, RoomForTodo
  <2>2. m = n
    BY <1>3, <2>1, TodoLength DEF FillOneFlat
  <2>3. HasRoom(1)
    BY <1>0, <1>3 DEF FillOneFlat, RoomForTodo
  <2> DEFINE f == todo[IF side = BACK THEN taken ELSE n - 1 - taken]
             s == [k \in {0} |-> f]
  <2>4. f \in Edges
    BY <1>0, <2>1, <2>2 DEF TypeOK, Lists
  <2>5. 0..(1 - 1) = {0}
    OBVIOUS
  <2>6. s \in Lists(1)
    BY <2>4, <2>5 DEF Lists
  <2>7. want' = Joined(side, want, size, s, 1)
    BY <1>3 DEF FillOneFlat
  <2> HIDE DEF s
  <2>8. QED
    BY <1>0, <2>3, <2>6, <2>7, JoinedListed
<1>4. QED
  BY <1>1, <1>2, <1>3

LEMMA NextListed ==
  ASSUME IInv, [Next]_vars
  PROVE  WantStep
<1>1. CASE Resume
  <2>1. CASE AlignBegin \/ AlignEnd
    BY <2>1 DEF AlignBegin, AlignEnd, WantStep
  <2>2. CASE WriteEdge
    <3>1. 1 \in 1..Capacity
      BY CapacityAssumption
    <3>2. QED
      BY <2>2, <3>1, WritesListed
  <2>3. CASE \E n \in 1..Capacity : WriteFrom(n) \/ FillOneFlat(n)
    BY <2>3, WritesListed
  <2>4. QED
    BY <1>1, <2>1, <2>2, <2>3 DEF Resume
<1>2. CASE Cut
  <2>1. PICK b \in 0..Capacity :
           \/ CopyToEndFrom(b) \/ CopyBeginTo(b)
           \/ \E e \in Edges : CopySuffix(b, e) \/ CopyPrefix(b, e)
    BY <1>2 DEF Cut
  <2>2. CASE \E e \in Edges : CopySuffix(b, e) \/ CopyPrefix(b, e)
    BY <2>2, CutsListed
  <2>3. CASE Edges # {} /\ (CopyToEndFrom(b) \/ CopyBeginTo(b))
    BY <2>3, CutsListed
  <2>4. CASE Edges = {} /\ (CopyToEndFrom(b) \/ CopyBeginTo(b))
    <3>1. want \in Lists(size) /\ size \in 0..Capacity
      BY ContentIsWant
    <3>2. size = 0
      <4> SUFFICES ASSUME size # 0 PROVE FALSE
        OBVIOUS
      <4>1. 0 \in 0..(size - 1)
        BY <3>1
      <4>2. QED
        BY <2>4, <3>1, <4>1 DEF Lists
    <3>3. begin = b /\ end = b
      BY <2>4, <3>2 DEF CopyToEndFrom, CopyBeginTo, IInv, TypeOK, size
    <3>4. 0..(0 - 1) = {} /\ end - b - 1 = 0 - 1 /\ b - begin - 1 = 0 - 1
      BY <3>3
    <3>5. want' = [k \in 0..(0 - 1) |-> want[k]] /\ want = [k \in 0..(0 - 1) |-> want[k]]
      BY <2>4, <3>1, <3>2, <3>4 DEF CopyToEndFrom, CopyBeginTo, Lists
    <3>6. QED
      BY <3>5 DEF WantStep
  <2>5. QED
    BY <2>1, <2>2, <2>3, <2>4
<1>3. CASE DropBack
  BY <1>3, DropBackListed
<1>4. CASE Extend
  <2>1. CASE \E d \in Sides : \E e \in Edges : SetEdge(d, e)
    BY <2>1, SetEdgeListed
  <2>2. CASE want' = want
    BY <2>2 DEF WantStep
  <2>3. QED
    BY <1>4, <2>1, <2>2 DEF Extend, Add, AddEdgesFrom, AddDataToLeaf, Start
<1>5. CASE UNCHANGED vars
  BY <1>5 DEF vars, WantStep
<1>6. QED
  BY <1>1, <1>2, <1>3, <1>4, <1>5 DEF Next

(* A step of the list the callers mean is a step of EdgeList. *)
LEMMA WantStepMapped ==
  ASSUME want \in Lists(size), size \in 0..Capacity, Content = want, Content' = want', WantStep
  PROVE  [List!Next]_Content
<1>1. Content \in List!Lists(size)
  BY DEF Lists, List!Lists
<1>2. CASE want' = want
  BY <1>2
<1>3. CASE \E a \in 0..size : \/ want' = [k \in 0..(size - a - 1) |-> want[k + a]]
                              \/ want' = [k \in 0..(a - 1) |-> want[k]]
  <2>1. \E a \in 0..size : List!KeepFrom(size, a) \/ List!KeepTo(a)
    BY <1>3 DEF List!KeepFrom, List!KeepTo
  <2>2. QED
    BY <1>1, <2>1 DEF List!Next
<1>4. CASE \E a \in 1..size, e \in Edges :
         \/ want' = [k \in 0..(size - (a - 1) - 1) |-> IF k = 0 THEN e ELSE want[k + (a - 1)]]
         \/ want' = [k \in 0..(a - 1) |-> IF k = a - 1 THEN e ELSE want[k]]
  <2>1. \E a \in 1..size, e \in Edges : List!CutFrom(size, a - 1, e) \/ List!CutTo(a, e)
    BY <1>4 DEF List!CutFrom, List!CutTo
  <2>2. QED
    BY <1>1, <2>1 DEF List!Next
<1>5. CASE \E m \in 1..(Capacity - size) : \E s \in Lists(m) :
         \/ want' = [k \in 0..(size + m - 1) |-> IF k < size THEN want[k] ELSE s[k - size]]
         \/ want' = [k \in 0..(size + m - 1) |-> IF k < m THEN s[k] ELSE want[k - m]]
  <2>1. PICK m \in 1..(Capacity - size) : \E s \in Lists(m) :
         \/ want' = [k \in 0..(size + m - 1) |-> IF k < size THEN want[k] ELSE s[k - size]]
         \/ want' = [k \in 0..(size + m - 1) |-> IF k < m THEN s[k] ELSE want[k - m]]
    BY <1>5
  <2>2. PICK s \in Lists(m) :
         \/ want' = [k \in 0..(size + m - 1) |-> IF k < size THEN want[k] ELSE s[k - size]]
         \/ want' = [k \in 0..(size + m - 1) |-> IF k < m THEN s[k] ELSE want[k - m]]
    BY <2>1
  <2>3. List!AddBack(size, m, s) \/ List!AddFront(size, m, s)
    BY <2>2 DEF List!AddBack, List!AddFront
  <2>4. s \in List!Lists(m)
    BY DEF List!Lists, Lists
  <2>5. QED
    BY <1>1, <2>3, <2>4 DEF List!Next
<1>6. QED
  BY <1>2, <1>3, <1>4, <1>5 DEF WantStep

(* The edge array implements a list of edges: however a node's window      *)
(* wanders through the array, and at every iteration in between, what is   *)
(* in it is a list that is cut and extended at its ends (btree.rs:         *)
(* align_begin, align_end, add, set_edge, copy_prefix, copy_suffix).       *)
THEOREM ArrayImplementsList == Spec => EdgeListKept
<1>1. Init => List!Init
  <2>1. IInv => List!Init
    BY ContentIsWant DEF List!Init, List!Lists, Lists
  <2>2. QED
    BY <2>1, InitIInv
<1>2. IInv' => (Content = want)'
  BY ContentIsWant, PTL
<1>3. IInv /\ IInv' /\ [Next]_vars => [List!Next]_Content
  BY <1>2, ContentIsWant, NextListed, WantStepMapped
<1>4. QED
  BY <1>1, <1>3, InvariantHolds, PTL DEF Spec, EdgeListKept, List!Spec
 
=============================================================================
