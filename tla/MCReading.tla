----------------------------- MODULE MCReading -----------------------------
(***************************************************************************)
(* Small cords to read.  A tree's shape is a nested sequence of the        *)
(* lengths of its chunks; the chunks are, in turn, flats and substrings of *)
(* one external that holds all the bytes.                                  *)
(***************************************************************************)
EXTENDS CordIter

VARIABLES
    rest,   \* the bytes still to come, a function of the position
    all     \* the bytes of the cord

MCInit == Init /\ rest = Rest /\ all = CordData(heap, cord)

MCNext == Next /\ rest' = Rest' /\ UNCHANGED all

MCSpec == MCInit /\ [][MCNext]_<<vars, rest, all>>

Abstract == INSTANCE Reading

(***************************************************************************)
(* Reading hands out the bytes of the cord in order, each of them once,    *)
(* from both ends, whichever calls are mixed: skips, seeks, reads that     *)
(* copy and reads that share, single bytes, chunks.                        *)
(***************************************************************************)
ReadsInOrder == Abstract!Spec

(* What the last call returned does not matter to the next one, nor does   *)
(* leaf_offset where there is a reader.                                    *)
Position == <<heap, cord, read, [it EXCEPT !.front.off = IF HasReader(it.front) THEN 0 ELSE @]>>

LeafShapes == {<<1>>, <<3>>, <<2, 1>>, <<1, 3>>}

LowShapes == {<<a>> : a \in LeafShapes} \cup {<<a, b>> : a \in LeafShapes, b \in LeafShapes}

HighShapes ==
    LET inner == {<<<<1>>>>, <<<<2, 1>>>>, <<<<1>>, <<3>>>>, <<<<1, 1>>, <<2>>>>}
    IN  {<<a, b>> : a \in inner, b \in inner}

External1 == <<External([i \in 1..16 |-> i])>>

(* A chunk of n bytes after the first `start' ones. *)
AddLeaf(h, start, n) ==
    IF (start + n) % 2 = 0
    THEN Alloc(h, Flat([i \in 1..n |-> start + i], n))
    ELSE Alloc(Ref(h, 1), Substring(start, n, 1))

RECURSIVE AddShape(_, _, _, _), AddShapes(_, _, _, _, _)
AddShape(h, shape, height, start) ==
    IF height < 0
    THEN AddLeaf(h, start, shape)
    ELSE LET r == AddShapes(h, shape, height, start, <<>>)
         IN  Alloc(r.heap, Btree(height, r.edges, r.len))
AddShapes(h, shape, height, start, edges) ==
    IF shape = <<>> THEN [heap |-> h, edges |-> edges, len |-> 0]
    ELSE LET first == AddShape(h, Head(shape), height - 1, start)
             len   == Length(first.heap, first.node)
             more  == AddShapes(first.heap, Tail(shape), height, start + len, Append(edges, first.node))
         IN  [more EXCEPT !.len = @ + len]

(* The program gives up its own reference on the external. *)
Built(r) == [heap |-> Unref(r.heap, 1), cord |-> TreeCord(r.node)]

TreeSources ==
    {Built(AddShape(External1, s, 0, 0)) : s \in LeafShapes} \cup
    {Built(AddShape(External1, s, 1, 0)) : s \in LowShapes} \cup
    {Built(AddShape(External1, s, 2, 0)) : s \in HighShapes}

(* A flat, an external and a substring by themselves, inline bytes, none. *)
OtherSources ==
    {[heap |-> <<Flat(<<1, 2, 3, 4>>, 4)>>, cord |-> TreeCord(1)],
     [heap |-> <<External(<<1, 2, 3, 4>>)>>, cord |-> TreeCord(1)],
     [heap |-> <<External(<<9, 1, 2, 3, 4, 9>>), Substring(1, 4, 1)>>, cord |-> TreeCord(2)],
     [heap |-> <<>>, cord |-> InlineCord(<<1>>)],
     [heap |-> <<>>, cord |-> InlineCord(<<>>)]}

SmallCords == TreeSources \cup OtherSources
=============================================================================
