------------------------------ MODULE CordHeap ------------------------------
(***************************************************************************)
(* The rep nodes of cords and the primitive operations on them             *)
(* (src/src/rep.rs, src/src/rep/flat.rs).                                  *)
(*                                                                         *)
(* A heap is a sequence of slots, a node is the index of one; freeing it   *)
(* makes the slot free.  An operation takes a heap and returns a record    *)
(* with the new heap and the node it yields.  A node's bytes are a sequence; *)
(* pointers, headers and tags are reduced to the kind of node they tell.   *)
(***************************************************************************)
EXTENDS Integers, Sequences, FiniteSetsExt, TLC

CONSTANTS
    FlatSizes   \* the capacities a flat may have (the size classes of flat.rs)

ASSUME FlatSizesAssumption ==
    FlatSizes # {} /\ FlatSizes \subseteq Nat \ {0} /\ IsFiniteSet(FlatSizes)

MaxFlatLength == Max(FlatSizes)

Null == 0        \* the null pointer

Garbage == -1    \* a byte that was never written

Free == [tag |-> "free", rc |-> 0]

Flat(data, capacity) ==
    [tag |-> "flat", rc |-> 1, data |-> data, cap |-> capacity]

External(data) ==
    [tag |-> "external", rc |-> 1, data |-> data]

Substring(start, len, child) ==
    [tag |-> "substring", rc |-> 1, start |-> start, len |-> len, child |-> child]

Btree(height, edges, len) ==
    [tag |-> "btree", rc |-> 1, height |-> height, edges |-> edges, len |-> len]

-----------------------------------------------------------------------------
IsBtree(h, n) == h[n].tag = "btree"

IsFlat(h, n) == h[n].tag = "flat"

IsOne(h, n) == h[n].rc = 1

Length(h, n) ==
    IF h[n].tag \in {"flat", "external"} THEN Len(h[n].data) ELSE h[n].len

(* n bytes of s from offset on; what lies beyond s is garbage. *)
Slice(s, offset, n) ==
    SubSeq(s \o [i \in 1..(offset + n) |-> Garbage], offset + 1, offset + n)

Skip(s, n) == Slice(s, n, Len(s) - n)

(* The bytes of a flat or an external; a freed node has none to trust. *)
Payload(h, n) == IF h[n].tag \in {"flat", "external"} THEN h[n].data ELSE <<Garbage>>

(* edge_data *)
EdgeData(h, n) ==
    IF h[n].tag = "substring"
    THEN Slice(Payload(h, h[n].child), h[n].start, h[n].len)
    ELSE Payload(h, n)

(* is_data_edge *)
IsDataEdge(h, n) ==
    \/ h[n].tag \in {"flat", "external"}
    \/ h[n].tag = "substring" /\ h[h[n].child].tag \in {"flat", "external"}

(* The references a node holds. *)
Children(node) ==
    CASE node.tag = "btree"     -> node.edges
      [] node.tag = "substring" -> <<node.child>>
      [] OTHER                  -> <<>>

(* The chunks below n, in order (the leaves' data edges). *)
RECURSIVE Chunks(_, _)
Chunks(h, n) ==
    IF IsBtree(h, n)
    THEN LET cat[i \in 0..Len(h[n].edges)] ==
               IF i = 0 THEN <<>> ELSE cat[i - 1] \o Chunks(h, h[n].edges[i])
         IN  cat[Len(h[n].edges)]
    ELSE <<EdgeData(h, n)>>

(* The bytes n stands for. *)
Bytes(h, n) ==
    LET chunks == Chunks(h, n)
        cat[i \in 0..Len(chunks)] == IF i = 0 THEN <<>> ELSE cat[i - 1] \o chunks[i]
    IN  cat[Len(chunks)]

-----------------------------------------------------------------------------
(* Which free slot is taken cannot be observed: the first one. *)
Alloc(h, node) ==
    LET free == {n \in DOMAIN h : h[n].tag = "free"}
        n    == Min(free)
    IN  IF free = {} THEN [heap |-> Append(h, node), node |-> Len(h) + 1]
                     ELSE [heap |-> [h EXCEPT ![n] = node], node |-> n]

Delete(h, n) == [h EXCEPT ![n] = Free]

Allocated(h) == {n \in DOMAIN h : h[n].tag # "free"}

(* flat::new: the least capacity that holds n bytes, or the largest one. *)
FlatCapacity(n) ==
    LET fit == {c \in FlatSizes : c >= n}
    IN  IF fit = {} THEN MaxFlatLength ELSE Min(fit)

(* flat::create *)
CreateFlat(h, data, extra) ==
    Alloc(h, Flat(data, FlatCapacity(Len(data) + Min({extra, MaxFlatLength}))))

(* ref_rep *)
Ref(h, n) == [h EXCEPT ![n].rc = @ + 1]

RECURSIVE RefAll(_, _)
RefAll(h, s) == IF s = <<>> THEN h ELSE RefAll(Ref(h, Head(s)), Tail(s))

(***************************************************************************)
(* unref of every node of s, and destroy of those that lose their last     *)
(* reference, with what they alone keep alive.                             *)
(***************************************************************************)
RECURSIVE UnrefAll(_, _)
UnrefAll(h, s) ==
    IF s = <<>> THEN h
    ELSE LET n == Head(s)
         IN  IF IsOne(h, n)
             THEN UnrefAll(Delete(h, n), Children(h[n]) \o Tail(s))
             ELSE UnrefAll([h EXCEPT ![n].rc = @ - 1], Tail(s))

Unref(h, n) == UnrefAll(h, <<n>>)

-----------------------------------------------------------------------------
(***************************************************************************)
(* substring_impl: a substring of a substring refers to the latter's       *)
(* child.  With adopt the caller's reference on n is consumed.             *)
(***************************************************************************)
SubstringImpl(h, n, offset, len, adopt) ==
    IF h[n].tag = "substring"
    THEN LET child == h[n].child
             h1    == Ref(h, child)
         IN  Alloc(IF adopt THEN Unref(h1, n) ELSE h1,
                   Substring(h[n].start + offset, len, child))
    ELSE Alloc(IF adopt THEN h ELSE Ref(h, n), Substring(offset, len, n))

(* Mutant: takes over a reference that it was only lent. *)
SharedSubstringAdopts(h, n, offset, len) ==
    IF len = Length(h, n)
    THEN [heap |-> Ref(h, n), node |-> n]
    ELSE SubstringImpl(h, n, offset, len, TRUE)

(* CordRepSubstring::substring: shares n. *)
SharedSubstring(h, n, offset, len) ==
    IF len = Length(h, n)
    THEN [heap |-> Ref(h, n), node |-> n]
    ELSE SubstringImpl(h, n, offset, len, FALSE)

(* make_substring: consumes the reference on n. *)
MakeSubstring(h, n, offset, len) ==
    CASE len = Length(h, n) -> [heap |-> h, node |-> n]
      [] len = 0            -> [heap |-> Unref(h, n), node |-> Null]
      [] OTHER              -> SubstringImpl(h, n, offset, len, TRUE)

(* make_substring_from *)
MakeSubstringFrom(h, n, offset) ==
    IF offset = 0
    THEN [heap |-> h, node |-> n]
    ELSE SubstringImpl(h, n, offset, Length(h, n) - offset, TRUE)

(* set_length on a uniquely owned data edge. *)
SetLength(h, n, len) ==
    IF IsFlat(h, n)
    THEN [h EXCEPT ![n].data = Slice(@, 0, len)]
    ELSE [h EXCEPT ![n].len = len]

(* resize_edge *)
ResizeEdge(h, n, len, isMutable) ==
    CASE len >= Length(h, n) -> [heap |-> h, node |-> n]
      [] len < Length(h, n) /\ isMutable /\ h[n].tag \in {"flat", "substring"} ->
           [heap |-> SetLength(h, n, len), node |-> n]
      [] OTHER -> SubstringImpl(h, n, 0, len, TRUE)
=============================================================================
