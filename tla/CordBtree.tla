----------------------------- MODULE CordBtree -----------------------------
(***************************************************************************)
(* The copy-on-write B-tree of data edges (src/src/rep/btree.rs).          *)
(*                                                                         *)
(* The window [begin, end) into a node's edge array is the sequence        *)
(* `edges'; stored lengths are kept, because every operation maintains     *)
(* them by hand.  `back' is the const parameter IS_BACK.                   *)
(***************************************************************************)
EXTENDS CordHeap

CONSTANTS
    MaxCapacity,   \* edges per node (MAX_CAPACITY)
    MaxHeight      \* of a tree (MAX_HEIGHT)

ASSUME BtreeAssumption == MaxCapacity \in Nat \ {0, 1} /\ MaxHeight \in Nat

BACK == TRUE
FRONT == FALSE

(* Mutant: the side is ignored. *)
EdgeAtFront(h, n, back) == h[n].edges[1]

EdgeAt(h, n, back) == IF back THEN h[n].edges[Len(h[n].edges)] ELSE h[n].edges[1]

AddLength(h, n, delta) == [h EXCEPT ![n].len = @ + delta]

RECURSIVE AddLengths(_, _, _)
AddLengths(h, s, delta) ==
    IF s = <<>> THEN h ELSE AddLengths(AddLength(h, Head(s), delta), Tail(s), delta)

(* The length of the first i edges of n. *)
LengthUpTo(h, n, i) ==
    LET sum[j \in 0..Len(h[n].edges)] ==
          IF j = 0 THEN 0 ELSE sum[j - 1] + Length(h, h[n].edges[j])
    IN  sum[i]

(* index_of: the edge that byte `offset' is in, and the byte within it. *)
IndexOf(h, n, offset) ==
    LET i == Min({j \in 1..Len(h[n].edges) : offset < LengthUpTo(h, n, j)})
    IN  [index |-> i, n |-> offset - LengthUpTo(h, n, i - 1)]

(* index_before_from, index_of_length: the edge that holds the last of the *)
(* first `length' bytes, and how many bytes of it those take.              *)
IndexBefore(h, n, length) ==
    LET i == Min({j \in 1..Len(h[n].edges) : length <= LengthUpTo(h, n, j)})
    IN  [index |-> i, n |-> length - LengthUpTo(h, n, i - 1)]

(* index_beyond: the first edge that starts at or after `offset', and how  *)
(* many bytes of the edge before it lie beyond `offset'.                   *)
IndexBeyond(h, n, offset) ==
    LET i == Min({j \in 1..(Len(h[n].edges) + 1) : offset <= LengthUpTo(h, n, j - 1)})
    IN  [index |-> i, n |-> LengthUpTo(h, n, i - 1) - offset]

-----------------------------------------------------------------------------
NewWith(h, n) ==
    Alloc(h, Btree(IF IsBtree(h, n) THEN h[n].height + 1 ELSE 0, <<n>>, Length(h, n)))

NewPair(h, front, back) ==
    Alloc(h, Btree(h[front].height + 1, <<front, back>>, h[front].len + h[back].len))

(* CordRepBtree::create, force_btree *)
Create(h, n) == IF IsBtree(h, n) THEN [heap |-> h, node |-> n] ELSE NewWith(h, n)

(* copy, copy_to_end_from, copy_begin_to: edges from..to, shared. *)
CopyEdges(h, n, from, to, len) ==
    LET es == SubSeq(h[n].edges, from, to)
    IN  Alloc(RefAll(h, es), Btree(h[n].height, es, len))

(* consume_begin_to: the first `to' edges, in place if that is possible. *)
ConsumeBeginTo(h, n, to, len) ==
    LET es == h[n].edges
        Replaces(c) == [heap |-> Unref(c.heap, n), node |-> c.node]
    IN  IF IsOne(h, n)
        THEN [heap |-> [UnrefAll(h, SubSeq(es, to + 1, Len(es))) EXCEPT
                          ![n].edges = SubSeq(@, 1, to), ![n].len = len],
              node |-> n]
        ELSE Replaces(CopyEdges(h, n, 1, to, len))

(* extract_front *)
ExtractFront(h, n) ==
    LET front == h[n].edges[1]
    IN  [heap |-> IF IsOne(h, n)
                  THEN Delete(UnrefAll(h, Tail(h[n].edges)), n)
                  ELSE Unref(Ref(h, front), n),
         node |-> front]

-----------------------------------------------------------------------------
(***************************************************************************)
(* StackOperations: the path from the root to the node `depth' levels      *)
(* down, and how many of its first nodes nobody else refers to.            *)
(***************************************************************************)
PathTo(h, tree, depth, back) ==
    LET p[d \in 0..depth] == IF d = 0 THEN tree ELSE EdgeAt(h, p[d - 1], back)
    IN  [i \in 1..(depth + 1) |-> p[i - 1]]

BuildStack(h, tree, depth, back) ==
    LET s == PathTo(h, tree, depth, back)
    IN  [stack |-> s,
         share |-> Max({0} \cup {d \in 1..(depth + 1) : \A i \in 1..d : IsOne(h, s[i])})]

BuildOwnedStack(h, tree, depth, back) ==
    [stack |-> PathTo(h, tree, depth, back), share |-> depth + 1]

Owned(ops, depth) == depth < ops.share

(* OpResult: the node is a copy of the one it replaces, or comes on top of it. *)
Copied(r) == [heap |-> r.heap, node |-> r.node, action |-> "copied"]

Popped(r) == [heap |-> r.heap, node |-> r.node, action |-> "popped"]

(* to_op_result: the node itself, or a copy of it if it is shared. *)
ToOpResult(h, n, owned) ==
    IF owned THEN [heap |-> h, node |-> n, action |-> "inplace"]
             ELSE Copied(CopyEdges(h, n, 1, Len(h[n].edges), h[n].len))

(* Mutant: edges always go to the back. *)
AddEdgesBack(h, n, es, delta, back) ==
    [h EXCEPT ![n].edges = @ \o es, ![n].len = @ + delta]

(* add, add_edges_from *)
AddEdges(h, n, es, delta, back) ==
    [h EXCEPT ![n].edges = IF back THEN @ \o es ELSE es \o @, ![n].len = @ + delta]

(* add_edge: a full node is left alone and the edge gets one of its own. *)
AddEdge(h, n, owned, edge, delta, back) ==
    LET Put(r) == [r EXCEPT !.heap = AddEdges(@, r.node, <<edge>>, delta, back)]
    IN  IF Len(h[n].edges) >= MaxCapacity THEN Popped(NewWith(h, edge))
                                          ELSE Put(ToOpResult(h, n, owned))

(* Mutant: the copy keeps the old length. *)
SetEdgeKeepsLength(h, n, owned, edge, delta, back) ==
    LET es    == h[n].edges
        idx   == IF back THEN Len(es) ELSE 1
        newEs == [es EXCEPT ![idx] = edge]
    IN  IF owned
        THEN [heap   |-> [Unref(h, es[idx]) EXCEPT ![n].edges = newEs, ![n].len = @ + delta],
              node   |-> n,
              action |-> "inplace"]
        ELSE Copied(Alloc(RefAll(h, IF back THEN SubSeq(es, 1, idx - 1) ELSE Tail(es)),
                          Btree(h[n].height, newEs, h[n].len)))

(* set_edge: replaces the outermost edge. *)
SetEdge(h, n, owned, edge, delta, back) ==
    LET es    == h[n].edges
        idx   == IF back THEN Len(es) ELSE 1
        newEs == [es EXCEPT ![idx] = edge]
    IN  IF owned
        THEN [heap   |-> [Unref(h, es[idx]) EXCEPT ![n].edges = newEs, ![n].len = @ + delta],
              node   |-> n,
              action |-> "inplace"]
        ELSE Copied(Alloc(RefAll(h, IF back THEN SubSeq(es, 1, idx - 1) ELSE Tail(es)),
                          Btree(h[n].height, newEs, h[n].len + delta)))

-----------------------------------------------------------------------------
(***************************************************************************)
(* rebuild: the data edges, in order, packed into full nodes.  `stack' has *)
(* the outermost node of each level, leaves first.                         *)
(***************************************************************************)
RECURSIVE RebuildAdd(_, _, _, _, _), RebuildUp(_, _, _, _)
RebuildAdd(h, stack, level, edge, length) ==
    RebuildUp(AddEdge(h, stack[level], TRUE, edge, length, BACK), stack, level, length)
RebuildUp(a, stack, level, length) ==
    LET s == [stack EXCEPT ![level] = a.node]
        p == NewPair(a.heap, stack[level], a.node)
    IN  CASE a.action # "popped" ->
               [heap  |-> AddLengths(a.heap, SubSeq(stack, level + 1, Len(stack)), length),
                stack |-> stack]
          [] a.action = "popped" /\ level = Len(stack) ->
               [heap |-> p.heap, stack |-> Append(s, p.node)]
          [] a.action = "popped" /\ level < Len(stack) ->
               RebuildAdd(a.heap, s, level + 1, a.node, length)

(***************************************************************************)
(* rebuild_into: moves the edges of nodes that are not shared, shares the  *)
(* others, and with `consume' gives the reference on n up.  RebuildEdges   *)
(* is its loop over the edges of a node of height `height'.                *)
(***************************************************************************)
RECURSIVE RebuildInto(_, _, _, _), RebuildEdges(_, _, _, _)
RebuildInto(h, stack, n, consume) ==
    LET owned == consume /\ IsOne(h, n)
    IN  [RebuildEdges([heap |-> h, stack |-> stack], h[n].edges, h[n].height, owned) EXCEPT
           !.heap = CASE ~consume -> @
                      [] consume /\ owned  -> Delete(@, n)
                      [] consume /\ ~owned -> Unref(@, n)]
RebuildEdges(a, es, height, owned) ==
    IF es = <<>> THEN a
    ELSE RebuildEdges(IF height = 0
                      THEN RebuildAdd(IF owned THEN a.heap ELSE Ref(a.heap, Head(es)),
                                      a.stack, 1, Head(es), Length(a.heap, Head(es)))
                      ELSE RebuildInto(a.heap, a.stack, Head(es), owned),
                      Tail(es), height, owned)

(* The root is the last node of the stack. *)
RebuildRoot(r) == [heap |-> r.heap, node |-> r.stack[Len(r.stack)]]

Rebuild(h, tree) ==
    LET leaf == Alloc(h, Btree(0, <<>>, 0))
    IN  RebuildRoot(RebuildInto(leaf.heap, <<leaf.node>>, tree, TRUE))

(* Mutant: a tree that has become too high is kept. *)
FinalizeKeepsHeight(tree, r, back) ==
    CASE r.action = "popped" ->
           IF back THEN NewPair(r.heap, tree, r.node) ELSE NewPair(r.heap, r.node, tree)
      [] r.action = "copied" ->
           [heap |-> Unref(r.heap, tree), node |-> r.node]
      [] r.action = "inplace" ->
           [heap |-> r.heap, node |-> r.node]

RebuildIfTooHigh(r) ==
    IF r.heap[r.node].height > MaxHeight THEN Rebuild(r.heap, r.node) ELSE r

(***************************************************************************)
(* finalize: the root of the result.  The abort of a tree that is still    *)
(* too high after its rebuild is the tree that HeightBounded rules out.    *)
(***************************************************************************)
Finalize(tree, r, back) ==
    CASE r.action = "popped" ->
           RebuildIfTooHigh(IF back THEN NewPair(r.heap, tree, r.node)
                                    ELSE NewPair(r.heap, r.node, tree))
      [] r.action = "copied" ->
           [heap |-> Unref(r.heap, tree), node |-> r.node]
      [] r.action = "inplace" ->
           [heap |-> r.heap, node |-> r.node]

(* unwind: carries the result of an operation at `depth' up to the root. *)
RECURSIVE Unwind(_, _, _, _, _, _)
Unwind(ops, tree, depth, length, r, back) ==
    LET node == ops.stack[depth]
        own  == Owned(ops, depth - 1)
    IN  CASE depth = 0 -> Finalize(tree, r, back)
          [] depth > 0 /\ r.action = "inplace" ->
               [heap |-> AddLengths(r.heap, SubSeq(ops.stack, 1, depth), length),
                node |-> ops.stack[1]]
          [] depth > 0 /\ r.action # "inplace" ->
               Unwind(ops, tree, depth - 1, length,
                      IF r.action = "popped"
                      THEN AddEdge(r.heap, node, own, r.node, length, back)
                      ELSE SetEdge(r.heap, node, own, r.node, length, back), back)

(* add_cord_rep *)
AddCordRep(h, tree, n, back) ==
    LET depth == h[tree].height
        len   == Length(h, n)
        ops   == BuildStack(h, tree, depth, back)
    IN  Unwind(ops, tree, depth, len,
               AddEdge(h, ops.stack[depth + 1], Owned(ops, depth), n, len, back), back)

-----------------------------------------------------------------------------
(* fill_one_flat, add_data_to_leaf: flats for `data' until the leaf is full. *)
RECURSIVE AddDataToLeaf(_, _, _, _, _)
AddDataToLeaf(h, leaf, data, extra, back) ==
    LET cap == FlatCapacity(Len(data) + extra)
        n   == Min({Len(data), cap})
        cut == Len(data) - n
        Put(f) ==
          AddDataToLeaf(AddEdges(f.heap, leaf, <<f.node>>, n, back), leaf,
                        IF back THEN Skip(data, n) ELSE Slice(data, 0, cut), extra, back)
    IN  IF data = <<>> \/ Len(h[leaf].edges) = MaxCapacity
        THEN [heap |-> h, rest |-> data]
        ELSE Put(Alloc(h, Flat(IF back THEN Slice(data, 0, n) ELSE Slice(data, cut, n), cap)))

(***************************************************************************)
(* add_data: fills the outermost leaf, or a new one if that is full, and   *)
(* goes on with new leaves (new_leaf) for what is left.  After propagate   *)
(* the code's stack is the path in the updated tree, all of it owned.      *)
(***************************************************************************)
NewLeaf(h) == Popped(Alloc(h, Btree(0, <<>>, 0)))

RECURSIVE FillLeaf(_, _, _, _, _, _), Carry(_, _, _, _, _, _, _), FillRest(_, _, _, _)
FillLeaf(ops, tree, r, data, extra, back) ==
    Carry(ops, tree, r, AddDataToLeaf(r.heap, r.node, data, extra, back),
          Len(data), extra, back)
Carry(ops, tree, r, f, len, extra, back) ==
    FillRest(Unwind(ops, tree, Len(ops.stack) - 1, len - Len(f.rest),
                    [r EXCEPT !.heap = f.heap], back), f.rest, extra, back)
FillRest(u, rest, extra, back) ==
    IF rest = <<>> THEN u
    ELSE FillLeaf(BuildOwnedStack(u.heap, u.node, u.heap[u.node].height, back),
                  u.node, NewLeaf(u.heap), rest, extra, back)

AddData(h, tree, data, extra, back) ==
    LET depth == h[tree].height
        ops   == BuildStack(h, tree, depth, back)
        leaf  == ops.stack[depth + 1]
    IN  IF data = <<>> THEN [heap |-> h, node |-> tree]
        ELSE FillLeaf(ops, tree,
                      IF Len(h[leaf].edges) = MaxCapacity THEN NewLeaf(h)
                      ELSE ToOpResult(h, leaf, Owned(ops, depth)),
                      data, extra, back)

(***************************************************************************)
(* merge: src, the lower tree, at the outer edge of dst.                   *)
(***************************************************************************)
Merge(h, dst, src, back) ==
    LET depth == h[dst].height - h[src].height
        len   == h[src].len
        es    == h[src].edges
        ops   == BuildStack(h, dst, depth, back)
        node  == ops.stack[depth + 1]
        Release(g) == IF IsOne(g, src) THEN Delete(g, src) ELSE Unref(RefAll(g, es), src)
        Take(r) == [r EXCEPT !.heap = Release(AddEdges(@, r.node, es, len, back))]
    IN  Unwind(ops, dst, depth, len,
               IF Len(h[node].edges) + Len(es) <= MaxCapacity
               THEN Take(ToOpResult(h, node, Owned(ops, depth)))
               ELSE [heap |-> h, node |-> src, action |-> "popped"], back)

MergeTrees(h, left, right) ==
    IF h[left].height >= h[right].height
    THEN Merge(h, left, right, BACK)
    ELSE Merge(h, right, left, FRONT)

(* CordRepBtree::append, prepend *)
AddRep(h, tree, n, back) ==
    CASE ~IsBtree(h, n) -> AddCordRep(h, tree, n, back)
      [] IsBtree(h, n) /\ back  -> MergeTrees(h, tree, n)
      [] IsBtree(h, n) /\ ~back -> MergeTrees(h, n, tree)

-----------------------------------------------------------------------------
(***************************************************************************)
(* copy_suffix and copy_prefix: what is wholly inside is shared, the node  *)
(* the cut goes through is copied, level by level.  CopyResult's height is *)
(* that of the node returned, -1 for a data edge.                          *)
(***************************************************************************)
Copy(r, height) == [heap |-> r.heap, node |-> r.node, height |-> height]

DataEdge(r) == Copy(r, -1)

(* The copy of a node with its cut outermost edge r.node and the edges es. *)
WithCutEdge(r, es, height, len, back) ==
    Alloc(r.heap, Btree(height, IF back THEN Append(es, r.node) ELSE <<r.node>> \o es, len))

RECURSIVE CutSuffix(_, _, _), CutSuffixAt(_, _, _, _)
CutSuffix(h, n, offset) == CutSuffixAt(h, n, IndexBeyond(h, n, offset), h[n].len - offset)
CutSuffixAt(h, n, pos, len) ==
    LET es   == SubSeq(h[n].edges, pos.index, Len(h[n].edges))
        h1   == RefAll(h, es)
        edge == h[n].edges[pos.index - 1]
    IN  IF pos.n = 0
        THEN Alloc(h1, Btree(h[n].height, es, len))
        ELSE WithCutEdge(IF h[n].height = 0
                         THEN MakeSubstring(Ref(h1, edge), edge, Length(h, edge) - pos.n, pos.n)
                         ELSE CutSuffix(h1, edge, Length(h, edge) - pos.n),
                         es, h[n].height, len, FRONT)

RECURSIVE CopySuffix(_, _, _)
CopySuffix(h, n, offset) ==
    LET back == EdgeAt(h, n, BACK)
        skip == Length(h, back) - (h[n].len - offset)
    IN  CASE skip >= 0 /\ h[n].height = 0 ->
               DataEdge(MakeSubstringFrom(Ref(h, back), back, skip))
          [] skip >= 0 /\ h[n].height > 0 -> CopySuffix(h, back, skip)
          [] skip < 0 /\ offset = 0 -> Copy([heap |-> Ref(h, n), node |-> n], h[n].height)
          [] OTHER -> Copy(CutSuffix(h, n, offset), h[n].height)

RECURSIVE CutPrefix(_, _, _), CutPrefixAt(_, _, _, _)
CutPrefix(h, n, len) == CutPrefixAt(h, n, IndexOf(h, n, len), len)
CutPrefixAt(h, n, pos, len) ==
    LET es   == SubSeq(h[n].edges, 1, pos.index - 1)
        h1   == RefAll(h, es)
        edge == h[n].edges[pos.index]
    IN  IF pos.n = 0
        THEN Alloc(h1, Btree(h[n].height, es, len))
        ELSE WithCutEdge(IF h[n].height = 0
                         THEN MakeSubstring(Ref(h1, edge), edge, 0, pos.n)
                         ELSE CutPrefix(h1, edge, pos.n),
                         es, h[n].height, len, BACK)

RECURSIVE CopyPrefix(_, _, _, _)
CopyPrefix(h, n, len, allowFolding) ==
    LET front == EdgeAt(h, n, FRONT)
        fold  == allowFolding /\ Length(h, front) >= len
    IN  CASE fold /\ h[n].height = 0 ->
               DataEdge(MakeSubstring(Ref(h, front), front, 0, len))
          [] fold /\ h[n].height > 0 -> CopyPrefix(h, front, len, TRUE)
          [] ~fold /\ h[n].len = len -> Copy([heap |-> Ref(h, n), node |-> n], h[n].height)
          [] OTHER -> Copy(CutPrefix(h, n, len), h[n].height)

(* Mutant: a low subtree becomes an edge of a high node as it is. *)
RaiseNot(h, n, from, to) == [heap |-> h, node |-> n]

(* The new_with loops of sub_tree: n, of height `from', under nodes of a   *)
(* single edge until it can be an edge of a node of height `to'.           *)
RECURSIVE Raise(_, _, _, _)
Raise(h, n, from, to) ==
    LET Up(w) == Raise(w.heap, w.node, from + 1, to)
    IN  IF from + 1 >= to THEN [heap |-> h, node |-> n] ELSE Up(NewWith(h, n))

(***************************************************************************)
(* sub_tree: bytes offset .. offset+n-1, sharing all it can.  SubTreeNode  *)
(* joins the copies of the two outer edges, in a node of the least height  *)
(* that will do if there is nothing between them.                          *)
(***************************************************************************)
SubTreeNode(prefix, suffix, middle, height, n) ==
    LET top == IF height > 0 /\ middle = <<>>
               THEN Max({prefix.height, suffix.height}) + 1
               ELSE height
        p   == Raise(suffix.heap, prefix.node, prefix.height, top)
        s   == Raise(p.heap, suffix.node, suffix.height, top)
    IN  Alloc(RefAll(s.heap, middle), Btree(top, <<p.node>> \o middle \o <<s.node>>, n))

SubTreeSpan(prefix, edge, k, middle, height, n) ==
    SubTreeNode(prefix,
                IF height = 0 THEN DataEdge(MakeSubstring(Ref(prefix.heap, edge), edge, 0, k))
                ELSE CopyPrefix(prefix.heap, edge, k, TRUE),
                middle, height, n)

RECURSIVE SubTree(_, _, _, _)
SubTree(h, tree, offset, n) ==
    LET front  == IndexOf(h, tree, offset)
        left   == h[tree].edges[front.index]
        back   == IndexBefore(h, tree, offset + n)
        leaf   == h[tree].height = 0
        inside == front.n + n <= Length(h, left)
    IN  CASE inside /\ leaf  -> MakeSubstring(Ref(h, left), left, front.n, n)
          [] inside /\ ~leaf -> SubTree(h, left, front.n, n)
          [] ~inside ->
               SubTreeSpan(IF leaf THEN DataEdge(MakeSubstringFrom(Ref(h, left), left, front.n))
                           ELSE CopySuffix(h, left, front.n),
                           h[tree].edges[back.index], back.n,
                           SubSeq(h[tree].edges, front.index + 1, back.index - 1),
                           h[tree].height, n)

-----------------------------------------------------------------------------
(* Mutant: the last edge is resized in place although it may be shared. *)
TrimBackInPlace(h, n, length) ==
    LET last == Len(h[n].edges)
        edge == h[n].edges[last]
        r    == ResizeEdge(h, edge, length, TRUE)
    IN  IF length = Length(h, edge) \/ h[n].height > 0 THEN h
        ELSE [r.heap EXCEPT ![n].edges[last] = r.node]

(* The second loop of remove_suffix: cuts n's last edge down to `length'. *)
RECURSIVE TrimBack(_, _, _)
TrimBack(h, n, length) ==
    LET last == Len(h[n].edges)
        edge == h[n].edges[last]
        Set(r) == [r.heap EXCEPT ![n].edges[last] = r.node]
        Descend(pos) ==
          TrimBack(ConsumeBeginTo(h, edge, pos.index, length).heap, edge, pos.n)
    IN  CASE length = Length(h, edge) -> h
          [] length # Length(h, edge) /\ h[n].height = 0 ->
               Set(ResizeEdge(h, edge, length, IsOne(h, edge)))
          [] length # Length(h, edge) /\ h[n].height > 0 /\ ~IsOne(h, edge) ->
               Unref(Set(CopyPrefix(h, edge, length, FALSE)), edge)
          [] OTHER -> Descend(IndexBefore(h, edge, length))

(* The first loop: descends while a single edge holds all that is kept. *)
RECURSIVE RemoveFold(_, _, _, _)
RemoveFold(h, tree, length, isMutable) ==
    LET pos == IndexBefore(h, tree, length)
        x   == ExtractFront(h, tree)
        mut == isMutable /\ IsOne(x.heap, x.node)
        c   == ConsumeBeginTo(h, tree, pos.index, length)
    IN  CASE pos.index = 1 /\ h[tree].height = 0 -> ResizeEdge(x.heap, x.node, length, mut)
          [] pos.index = 1 /\ h[tree].height > 0 -> RemoveFold(x.heap, x.node, length, mut)
          [] OTHER -> [heap |-> TrimBack(c.heap, c.node, pos.n), node |-> c.node]

(* remove_suffix, for 0 < n < len (its caller's case). *)
RemoveSuffix(h, tree, n) == RemoveFold(h, tree, h[tree].len - n, IsOne(h, tree))

(* as_flat *)
IsSingleChunk(h, n) == ~IsBtree(h, n) \/ (h[n].height = 0 /\ Len(h[n].edges) = 1)

(***************************************************************************)
(* get_append_buffer on a unique root: writes what fits of src into the    *)
(* spare capacity of the last flat, if nobody shares the path to it.       *)
(***************************************************************************)
GetAppendBuffer(h, tree, src) ==
    LET path  == PathTo(h, tree, h[tree].height + 1, BACK)
        flat  == path[Len(path)]
        n     == Min({Len(src), h[flat].cap - Len(h[flat].data)})
    IN  IF (\E i \in 2..Len(path) : ~IsOne(h, path[i])) \/ ~IsFlat(h, flat)
        THEN [heap |-> h, written |-> 0]
        ELSE [heap    |-> AddLengths([h EXCEPT ![flat].data = @ \o Slice(src, 0, n)],
                                     SubSeq(path, 1, Len(path) - 1), n),
              written |-> n]

(***************************************************************************)
(* extract_append_buffer: takes the last flat out of the tree if it and    *)
(* the path to it are not shared and it has `extra' bytes to spare.        *)
(***************************************************************************)
RECURSIVE DropEmptyTail(_, _)
DropEmptyTail(h, path) ==
    CASE path = <<>> -> [heap |-> h, path |-> path]
      [] path # <<>> /\ Len(h[path[Len(path)]].edges) = 1 ->
           DropEmptyTail(Delete(h, path[Len(path)]), SubSeq(path, 1, Len(path) - 1))
      [] OTHER -> [heap |-> h, path |-> path]

RECURSIVE DropSingleEdges(_, _)
DropSingleEdges(h, n) ==
    IF IsBtree(h, n) /\ Len(h[n].edges) = 1
    THEN DropSingleEdges(Delete(h, n), h[n].edges[1])
    ELSE [heap |-> h, node |-> n]

(* Mutant: only the flat is checked for being shared, not the path to it. *)
ExtractAppendBufferUnchecked(h, tree, extra) ==
    LET path == PathTo(h, tree, h[tree].height + 1, BACK)
        flat == path[Len(path)]
        d    == DropEmptyTail(h, SubSeq(path, 1, Len(path) - 1))
        node == d.path[Len(d.path)]
        cut  == [AddLengths(d.heap, d.path, -Len(h[flat].data)) EXCEPT
                   ![node].edges = SubSeq(@, 1, Len(@) - 1)]
        top  == DropSingleEdges(cut, d.path[1])
    IN  CASE ~IsOne(h, flat) \/ ~IsFlat(h, flat) \/ extra > h[flat].cap - Len(h[flat].data) ->
               [heap |-> h, tree |-> tree, extracted |-> Null]
          [] OTHER ->
               IF d.path = <<>>
               THEN [heap |-> d.heap, tree |-> Null, extracted |-> flat]
               ELSE [heap |-> top.heap, tree |-> top.node, extracted |-> flat]

ExtractAppendBuffer(h, tree, extra) ==
    LET path == PathTo(h, tree, h[tree].height + 1, BACK)
        flat == path[Len(path)]
        d    == DropEmptyTail(h, SubSeq(path, 1, Len(path) - 1))
        node == d.path[Len(d.path)]
        cut  == [AddLengths(d.heap, d.path, -Len(h[flat].data)) EXCEPT
                   ![node].edges = SubSeq(@, 1, Len(@) - 1)]
        top  == DropSingleEdges(cut, d.path[1])
    IN  CASE \/ \E i \in 1..Len(path) : ~IsOne(h, path[i])
             \/ ~IsFlat(h, flat)
             \/ extra > h[flat].cap - Len(h[flat].data) ->
               [heap |-> h, tree |-> tree, extracted |-> Null]
          [] OTHER ->
               IF d.path = <<>>
               THEN [heap |-> d.heap, tree |-> Null, extracted |-> flat]
               ELSE [heap |-> top.heap, tree |-> top.node, extracted |-> flat]
=============================================================================
