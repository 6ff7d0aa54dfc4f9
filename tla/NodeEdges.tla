------------------------------ MODULE NodeEdges ------------------------------
(***************************************************************************)
(* The edge array of one btree node (src/src/rep/btree.rs).  A node owns   *)
(* Capacity slots of which only those from begin up to, not including, end *)
(* are in use; the others hold null or pointers left behind by earlier     *)
(* operations.  Edges are added at either side after align_begin or        *)
(* align_end has moved the used ones out of the way, within the same       *)
(* array: one step here is one iteration of such a loop.  `want` is the    *)
(* list of edges the callers mean the node to have.                        *)
(***************************************************************************)
EXTENDS Integers

CONSTANTS Capacity,     \* MAX_CAPACITY
          Edges,        \* the reps that may become edges
          Null          \* what alloc fills the array with

ASSUME CapacityAssumption == Capacity \in Nat \ {0, 1}
ASSUME NullAssumption == Null \notin Edges

BACK == "back"
FRONT == "front"
Sides == {BACK, FRONT}

VARIABLES edges,        \* the array
          begin, end,   \* the window in use
          pc,           \* idle, or the loop or write that comes next
          side,         \* IS_BACK of the operation under way
          goal,         \* what follows the alignment: add, from, fill
          i, delta,     \* locals of the alignment loops
          todo, taken,  \* the edges the operation adds, and how many it has
          want          \* the edges the node is meant to have, in order

locals == <<side, goal, i, delta, todo, taken>>
vars == <<edges, begin, end, pc, side, goal, i, delta, todo, taken, want>>

Slots == 0..(Capacity - 1)

(* Lists of edges, from 0 as the loops count them. *)
Lists(n) == [0..(n - 1) -> Edges]

size == end - begin

(* fetch_add_end and sub_fetch_begin are guarded by their callers with this. *)
HasRoom(n) == size + n <= Capacity

(* The list of n edges w with the m edges of s added at side d. *)
Joined(d, w, n, s, m) ==
    IF d = BACK
    THEN [k \in 0..(n + m - 1) |-> IF k < n THEN w[k] ELSE s[k - n]]
    ELSE [k \in 0..(n + m - 1) |-> IF k < m THEN s[k] ELSE w[k - m]]

None == [k \in {} |-> Null]

(* No call is under way: its locals are gone. *)
NoLocals == side = BACK /\ goal = "add" /\ i = 0 /\ delta = 0 /\ todo = None /\ taken = 0

(* The last step of a call, and a call that is one step. *)
Return ==
    /\ pc' = "idle"
    /\ side' = BACK /\ goal' = "add" /\ i' = 0 /\ delta' = 0 /\ todo' = None /\ taken' = 0
Atomic == pc = "idle" /\ UNCHANGED <<pc, locals>>

-----------------------------------------------------------------------------
(* Nodes are created with their first edges in place.                      *)

(* new_node, new_with, new_pair, new_leaf::<BACK> and what sub_tree        *)
(* composes: n edges written from slot 0 into a fresh array.               *)
NewNode(n, s) ==
    /\ edges = [k \in Slots |-> IF k < n THEN s[k] ELSE Null]
    /\ begin = 0 /\ end = n

(* new_leaf::<FRONT> fills a fresh array from its last slot down. *)
NewLeafFront(n, s) ==
    /\ edges = [k \in Slots |-> IF k >= Capacity - n THEN s[k - (Capacity - n)] ELSE Null]
    /\ begin = Capacity - n /\ end = Capacity

Init ==
    \E n \in 0..Capacity : \E s \in Lists(n) :
        /\ NewNode(n, s) \/ NewLeafFront(n, s)
        /\ want = s
        /\ pc = "idle" /\ NoLocals

-----------------------------------------------------------------------------
(* Operations that cut the window or replace an edge.  The copies they     *)
(* start from take over the whole array, slots outside the window too.     *)

(* copy_to_end_from keeps the edges from slot b on. *)
CopyToEndFrom(b) ==
    /\ Atomic
    /\ begin <= b /\ b <= end
    /\ begin' = b
    /\ want' = [k \in 0..(end - b - 1) |-> want[k + (b - begin)]]
    /\ UNCHANGED <<edges, end>>

(* copy_suffix: the edge before the cut is added back, cut to e. *)
CopySuffix(b, e) ==
    /\ Atomic
    /\ begin <= b - 1 /\ b <= end
    /\ begin' = b - 1
    /\ edges' = [edges EXCEPT ![b - 1] = e]
    /\ want' = [k \in 0..(end - b) |-> IF k = 0 THEN e ELSE want[k + (b - 1 - begin)]]
    /\ UNCHANGED end

(* copy_begin_to, and consume_begin_to on a node it need not copy, keep    *)
(* the edges before slot b.                                                *)
CopyBeginTo(b) ==
    /\ Atomic
    /\ begin <= b /\ b <= end
    /\ end' = b
    /\ want' = [k \in 0..(b - begin - 1) |-> want[k]]
    /\ UNCHANGED <<edges, begin>>

(* copy_prefix, and remove_suffix: the edge at the cut is added back, cut  *)
(* to e.                                                                   *)
CopyPrefix(b, e) ==
    /\ Atomic
    /\ begin <= b /\ b < end
    /\ end' = b + 1
    /\ edges' = [edges EXCEPT ![b] = e]
    /\ want' = [k \in 0..(b - begin) |-> IF k = b - begin THEN e ELSE want[k]]
    /\ UNCHANGED begin

(* extract_append_buffer takes the last edge out of a node with others. *)
DropBack ==
    /\ Atomic
    /\ size > 1
    /\ end' = end - 1
    /\ want' = [k \in 0..(size - 2) |-> want[k]]
    /\ UNCHANGED <<edges, begin>>

(* set_edge replaces the front or back edge. *)
SetEdge(d, e) ==
    /\ Atomic
    /\ size > 0
    /\ edges' = [edges EXCEPT ![IF d = BACK THEN end - 1 ELSE begin] = e]
    /\ want' = [want EXCEPT ![IF d = BACK THEN size - 1 ELSE 0] = e]
    /\ UNCHANGED <<begin, end>>

-----------------------------------------------------------------------------
(* Operations that add edges begin by aligning the ones there are.         *)

(* The set-up of align_begin and align_end: the window moves first, and    *)
(* nothing else happens when it is where it should be.                     *)
Start(d, g, s) ==
    /\ pc = "idle"
    /\ side' = d /\ goal' = g /\ todo' = s /\ taken' = 0
    /\ delta' = IF d = BACK THEN begin ELSE Capacity - end
    /\ pc' = IF delta' = 0 THEN g ELSE IF d = BACK THEN "alignBegin" ELSE "alignEnd"
    /\ begin' = IF d = BACK THEN 0 ELSE begin + delta'
    /\ end' = IF d = BACK THEN end - delta' ELSE end + delta'
    /\ i' = IF d = BACK THEN 0 ELSE end'
    /\ UNCHANGED <<edges, want>>

(* add, add_edges_from and add_data_to_leaf.  The last one adds as many    *)
(* flats as fit, the others need room for all they add.                    *)
Add(d, e) == HasRoom(1) /\ Start(d, "add", [k \in {0} |-> e])
AddEdgesFrom(d, n, s) == HasRoom(n) /\ Start(d, "from", s)
AddDataToLeaf(d, s) == HasRoom(1) /\ Start(d, "fill", s)

(* One iteration of align_begin's loop, and its end. *)
AlignBegin ==
    /\ pc = "alignBegin"
    /\ IF i < end
       THEN edges' = [edges EXCEPT ![i] = edges[i + delta]] /\ i' = i + 1 /\ pc' = pc
       ELSE pc' = goal /\ UNCHANGED <<edges, i>>
    /\ UNCHANGED <<begin, end, side, goal, delta, todo, taken, want>>

(* Mutant: align_end copies upwards, like align_begin. *)
AlignEndUpwards ==
    /\ pc = "alignEnd"
    /\ IF i > begin
       THEN /\ edges' = [edges EXCEPT ![begin + (end - i)] = edges[begin + (end - i) - delta]]
            /\ i' = i - 1 /\ pc' = pc
       ELSE pc' = goal /\ UNCHANGED <<edges, i>>
    /\ UNCHANGED <<begin, end, side, goal, delta, todo, taken, want>>

(* Mutant: the slot is read before i is decremented. *)
AlignEndOffByOne ==
    /\ pc = "alignEnd"
    /\ IF i > begin
       THEN edges' = [edges EXCEPT ![i - 1] = edges[i - delta]] /\ i' = i - 1 /\ pc' = pc
       ELSE pc' = goal /\ UNCHANGED <<edges, i>>
    /\ UNCHANGED <<begin, end, side, goal, delta, todo, taken, want>>

(* Mutant: the loop of align_end forgets to decrement i. *)
AlignEndStuck ==
    /\ pc = "alignEnd"
    /\ IF i > begin
       THEN edges' = [edges EXCEPT ![i - 1] = edges[i - 1 - delta]] /\ i' = i /\ pc' = pc
       ELSE pc' = goal /\ UNCHANGED <<edges, i>>
    /\ UNCHANGED <<begin, end, side, goal, delta, todo, taken, want>>

(* One iteration of align_end's loop, downwards, and its end. *)
AlignEnd ==
    /\ pc = "alignEnd"
    /\ IF i > begin
       THEN edges' = [edges EXCEPT ![i - 1] = edges[i - 1 - delta]] /\ i' = i - 1 /\ pc' = pc
       ELSE pc' = goal /\ UNCHANGED <<edges, i>>
    /\ UNCHANGED <<begin, end, side, goal, delta, todo, taken, want>>

(* The slot that is written next, on either side of the window. *)
NextSlot == IF side = BACK THEN end ELSE begin - 1

(* The window grows by n slots. *)
Grow(n) ==
    IF side = BACK THEN end' = end + n /\ UNCHANGED begin
                   ELSE begin' = begin - n /\ UNCHANGED end

(* add writes its edge into the slot next to the window. *)
WriteEdge ==
    /\ pc = "add"
    /\ edges' = [edges EXCEPT ![NextSlot] = todo[0]]
    /\ Grow(1)
    /\ want' = Joined(side, want, size, todo, 1)
    /\ Return

(* add_edges_from copies the source's n edges into the slots next to the   *)
(* window.                                                                 *)
WriteFrom(n) ==
    /\ pc = "from" /\ DOMAIN todo = 0..(n - 1)
    /\ LET first == IF side = BACK THEN end ELSE begin - n
       IN edges' = [k \in Slots |-> IF first <= k /\ k < first + n THEN todo[k - first] ELSE edges[k]]
    /\ Grow(n)
    /\ want' = Joined(side, want, size, todo, n)
    /\ Return

(* Mutant: the loop of add_data_to_leaf stops only when the data ends. *)
FillOneFlatNoLimit(n) ==
    /\ pc = "fill" /\ DOMAIN todo = 0..(n - 1)
    /\ LET f == todo[IF side = BACK THEN taken ELSE n - 1 - taken]
       IN /\ edges' = [edges EXCEPT ![NextSlot] = f]
          /\ want' = Joined(side, want, size, [k \in {0} |-> f], 1)
    /\ Grow(1)
    /\ IF taken + 1 = n
       THEN Return
       ELSE taken' = taken + 1 /\ UNCHANGED <<pc, side, goal, i, delta, todo>>

(* One iteration of the loop of add_data_to_leaf: BACK consumes the data   *)
(* from its start, FRONT from its end; it stops when all the data is       *)
(* consumed or the window reaches the end of the array.                    *)
FillOneFlat(n) ==
    /\ pc = "fill" /\ DOMAIN todo = 0..(n - 1)
    /\ LET f == todo[IF side = BACK THEN taken ELSE n - 1 - taken]
       IN /\ edges' = [edges EXCEPT ![NextSlot] = f]
          /\ want' = Joined(side, want, size, [k \in {0} |-> f], 1)
    /\ Grow(1)
    /\ IF taken + 1 = n \/ (IF side = BACK THEN end' = Capacity ELSE begin' = 0)
       THEN Return
       ELSE taken' = taken + 1 /\ UNCHANGED <<pc, side, goal, i, delta, todo>>

-----------------------------------------------------------------------------
Resume ==
    \/ AlignBegin
    \/ AlignEnd
    \/ WriteEdge
    \/ \E n \in 1..Capacity : WriteFrom(n) \/ FillOneFlat(n)

Cut ==
    \E b \in 0..Capacity :
        \/ CopyToEndFrom(b)
        \/ CopyBeginTo(b)
        \/ \E e \in Edges : CopySuffix(b, e) \/ CopyPrefix(b, e)

Extend ==
    \E d \in Sides :
        \/ \E e \in Edges : Add(d, e) \/ SetEdge(d, e)
        \/ \E n \in 1..Capacity : \E s \in Lists(n) : AddEdgesFrom(d, n, s) \/ AddDataToLeaf(d, s)

Next == Resume \/ Cut \/ DropBack \/ Extend

(* A call runs to its end: the node is its caller's alone. *)
Spec == Init /\ [][Next]_vars /\ WF_vars(Resume)

-----------------------------------------------------------------------------
TypeOK ==
    /\ edges \in [Slots -> Edges \cup {Null}]
    /\ begin \in 0..Capacity /\ end \in 0..Capacity /\ begin <= end
    /\ pc \in {"idle", "alignBegin", "alignEnd", "add", "from", "fill"}
    /\ side \in Sides /\ goal \in {"add", "from", "fill"}
    /\ i \in 0..Capacity /\ delta \in 0..Capacity /\ taken \in 0..Capacity
    /\ \E n \in 0..Capacity : todo \in Lists(n)
    /\ \E n \in 0..Capacity : want \in Lists(n)

(* Between two calls the window holds exactly the edges the callers put    *)
(* there, in order: no alignment, copy or cut drops, repeats or reorders   *)
(* one, or uncovers a stale slot (the safety contract of BtreePtr).        *)
WindowIntact ==
    pc = "idle" => /\ want \in Lists(size)
                   /\ \A k \in 0..(size - 1) : edges[begin + k] = want[k]

(* Every edge of the node is somewhere in the array at every iteration of  *)
(* the alignment loops, whose source and destination overlap: an edge is   *)
(* never overwritten before it was moved.                                  *)
NothingLost ==
    \A k \in DOMAIN want : \E j \in Slots : edges[j] = want[k]

(* No step reads or writes a slot outside the array: the slots that        *)
(* alignment, add, add_edges_from and add_data_to_leaf are about to use    *)
(* exist (debug_assert!(index < self.capacity()) in set_edge_ptr), and the *)
(* window stays within it.                                                 *)
WritesInBounds ==
    /\ 0 <= begin /\ begin <= end /\ end <= Capacity
    /\ pc = "alignBegin" /\ i < end => i \in Slots /\ i + delta \in Slots
    /\ pc = "alignEnd" /\ i > begin => i - 1 \in Slots /\ i - 1 - delta \in Slots
    /\ pc \in {"add", "fill"} => NextSlot \in Slots
    /\ pc = "from" =>
         \A k \in DOMAIN todo : (IF side = BACK THEN end + k ELSE begin - 1 - k) \in Slots

(* The slot that edge number k is in: its old one until an alignment loop  *)
(* has moved it.                                                           *)
SlotOf(k) ==
    IF pc = "alignBegin" /\ k >= i THEN k + delta
    ELSE IF pc = "alignEnd" /\ begin + k < i THEN begin + k - delta
    ELSE begin + k

Content == [k \in 0..(size - 1) |-> edges[SlotOf(k)]]

List == INSTANCE EdgeList WITH list <- Content

(***************************************************************************)
(* The array, its window and the loops that move edges within it are a     *)
(* list that is cut, and grows, at its ends: an iteration of a loop does   *)
(* not change the list, and every call changes it the way EdgeList allows. *)
(***************************************************************************)
EdgeListKept == List!Spec

(* Every call returns: the loops of the alignment and of add_data_to_leaf  *)
(* end.                                                                    *)
CallsReturn == []<>(pc = "idle")

-----------------------------------------------------------------------------
(* The window and the list agree, apart from where a loop is at. *)
Aligned == want \in Lists(size) /\ \A k \in 0..(size - 1) : edges[begin + k] = want[k]

HalfBegin ==
    /\ begin = 0 /\ delta > 0 /\ i <= end /\ end + delta <= Capacity
    /\ want \in Lists(end)
    /\ \A k \in 0..(end - 1) : edges[IF k < i THEN k ELSE k + delta] = want[k]

HalfEnd ==
    /\ end = Capacity /\ delta > 0 /\ delta <= begin /\ begin <= i
    /\ want \in Lists(size)
    /\ \A k \in 0..(size - 1) :
         edges[IF begin + k >= i THEN begin + k ELSE begin + k - delta] = want[k]

RoomForTodo ==
    /\ goal = "add" => todo \in Lists(1) /\ HasRoom(1)
    /\ goal = "from" => \E n \in 1..Capacity : todo \in Lists(n) /\ HasRoom(n)
    /\ goal = "fill" => /\ \E n \in 1..Capacity : todo \in Lists(n) /\ taken < n
                        /\ HasRoom(1)

(* The inductive invariant: where each loop is, and what it has still to   *)
(* move.                                                                   *)
IInv ==
    /\ TypeOK
    /\ pc \in {"idle", "add", "from", "fill"} => Aligned
    /\ pc = "alignBegin" => side = BACK /\ HalfBegin
    /\ pc = "alignEnd" => side = FRONT /\ HalfEnd
    /\ pc # "idle" => RoomForTodo
    /\ pc \in {"add", "from", "fill"} =>
         goal = pc /\ (IF side = BACK THEN begin = 0 ELSE end = Capacity)
=============================================================================
