------------------------------ MODULE Navigator ------------------------------
(***************************************************************************)
(* Positions in a btree: the navigator (src/src/rep/navigator.rs), which   *)
(* keeps the node and the index within it for every level of the path from *)
(* the root to the current data edge, and the reader                       *)
(* (src/src/rep/reader.rs), which adds the number of bytes that follow the *)
(* last chunk it returned.  Level 0 is the leaf.  A position is changed by *)
(* operators that return the new one.                                      *)
(***************************************************************************)
EXTENDS CordBtree

NoNav == [height |-> -1]

Current(h, nav) == h[nav.node[0]].edges[nav.index[0]]

Last(h, n) == Len(h[n].edges)

(* The position that follows edge i of the node on level l, on the first   *)
(* or last edge of every level below.                                      *)
DescendFrom(h, nav, l, i, back) ==
    LET node[k \in 0..nav.height] ==
          CASE k >= l    -> nav.node[k]
            [] k = l - 1 -> h[nav.node[l]].edges[i]
            [] OTHER     -> EdgeAt(h, node[k + 1], back)
    IN  [nav EXCEPT !.node = node,
                    !.index = [k \in 0..nav.height |->
                                 CASE k > l -> nav.index[k]
                                   [] k = l -> i
                                   [] OTHER -> IF back THEN Last(h, node[k]) ELSE 1]]

(* init_first and init_last *)
InitNav(h, tree, back) ==
    LET height == h[tree].height
        nav    == [height |-> height, node  |-> [k \in 0..height |-> tree],
                                      index |-> [k \in 0..height |-> 1]]
    IN  DescendFrom(h, nav, height, IF back THEN Last(h, tree) ELSE 1, back)

(* next and next_up: the lowest level that has another edge moves on; no   *)
(* position is returned at the end of the tree.                            *)
NextNav(h, nav) ==
    LET open == {l \in 0..nav.height : nav.index[l] < Last(h, nav.node[l])}
        l    == Min(open)
    IN  IF open = {} THEN NoNav ELSE DescendFrom(h, nav, l, nav.index[l] + 1, FRONT)

(* previous and previous_up *)
PreviousNav(h, nav) ==
    LET open == {l \in 0..nav.height : nav.index[l] > 1}
        l    == Min(open)
    IN  IF open = {} THEN NoNav ELSE DescendFrom(h, nav, l, nav.index[l] - 1, BACK)

(* seek: the edge that holds byte `offset', and the byte within it. *)
SeekNav(h, nav, offset) ==
    LET pos[l \in 0..nav.height] ==
          LET up   == pos[l + 1]
              node == IF l = nav.height THEN nav.node[l] ELSE h[up.node].edges[up.index]
              p    == IndexOf(h, node, IF l = nav.height THEN offset ELSE up.n)
          IN  [node |-> node, index |-> p.index, n |-> p.n]
    IN  IF offset >= Length(h, nav.node[nav.height])
        THEN [nav |-> nav, found |-> FALSE, offset |-> 0]
        ELSE [nav |-> [nav EXCEPT !.node  = [l \in 0..nav.height |-> pos[l].node],
                                  !.index = [l \in 0..nav.height |-> pos[l].index]],
              found |-> TRUE, offset |-> pos[0].n]

(* skip, down from edge i on level l: to the edge that byte n is in. *)
RECURSIVE SkipDown(_, _, _, _, _)
SkipDown(h, nav, l, i, n) ==
    IF l = 0
    THEN [nav |-> [nav EXCEPT !.index[0] = i], found |-> TRUE, offset |-> n]
    ELSE LET child == h[nav.node[l]].edges[i]
             pos   == IndexOf(h, child, n)
         IN  SkipDown(h, [nav EXCEPT !.index[l] = i, !.node[l - 1] = child], l - 1, pos.index, pos.n)

(* skip: over whole edges, up a level where one is exhausted. *)
RECURSIVE SkipUp(_, _, _, _, _)
SkipUp(h, nav, l, i, n) ==
    IF i > Last(h, nav.node[l])
    THEN IF l = nav.height THEN [nav |-> nav, found |-> FALSE, offset |-> n]
                           ELSE SkipUp(h, nav, l + 1, nav.index[l + 1] + 1, n)
    ELSE LET length == Length(h, h[nav.node[l]].edges[i])
         IN  IF n >= length THEN SkipUp(h, nav, l, i + 1, n - length)
                            ELSE SkipDown(h, nav, l, i, n)

SkipNav(h, nav, n) == SkipUp(h, nav, 0, nav.index[0], n)

-----------------------------------------------------------------------------
(* navigator::substring *)
NavSubstring(h, n, offset, len) ==
    IF len = 0 THEN [heap |-> h, node |-> Null] ELSE SharedSubstring(h, n, offset, len)

(* A child with one more reference becomes the last edge of n. *)
AddChild(h, n, child) == [h EXCEPT ![n].edges = Append(@, child)]

ReadResult(h, nav, tree, n) == [heap |-> h, nav |-> nav, tree |-> tree, n |-> n]

(* The partial edge, once the leaf is reached. *)
ReadPart(r, nav, i, len, tree, sub) ==
    ReadResult(IF len = 0 THEN r.heap ELSE AddChild(r.heap, sub, r.node),
               [nav EXCEPT !.index[0] = i], tree, len)

(* read, down from edge i on level l with len bytes of it to take: what is *)
(* taken below an edge goes into a node of its own, added to sub.          *)
RECURSIVE ReadDown(_, _, _, _, _, _, _)
ReadDown(h, nav, l, i, len, tree, sub) ==
    IF l = 0
    THEN ReadPart(NavSubstring(h, h[nav.node[0]].edges[i], 0, len), nav, i, len, tree, sub)
    ELSE LET child == h[nav.node[l]].edges[i]
             pos   == IndexOf(h, child, len)
             taken == SubSeq(h[child].edges, 1, pos.index - 1)
             right == Alloc(RefAll(h, taken), Btree(l - 1, taken, len))
             down  == [nav EXCEPT !.index[l] = i, !.node[l - 1] = child]
         IN  IF len = 0
             THEN ReadDown(h, down, l - 1, 1, 0, tree, sub)
             ELSE ReadDown(AddChild(right.heap, sub, right.node), down, l - 1,
                           pos.index, pos.n, tree, right.node)

(* Mutant: the subtree is not raised when a level is exhausted. *)
ReadWrapNever(h, sub, len) == [heap |-> h, node |-> sub]

(* A level of the path is exhausted and there is more to read: what comes  *)
(* next goes beside the subtree.                                           *)
ReadWrap(h, sub, len) ==
    IF len = 0 THEN [heap |-> h, node |-> sub] ELSE NewWith(h, sub)

(* read: whole edges are shared and added to the subtree. *)
RECURSIVE ReadUp(_, _, _, _, _, _)
ReadUp(h, nav, l, i, len, sub) ==
    IF i > Last(h, nav.node[l])
    THEN LET past == [nav EXCEPT !.index[l] = i]
             up   == ReadWrap(h, sub, len)
         IN  CASE l = nav.height /\ len = 0 -> ReadResult(h, past, sub, 0)
               [] l = nav.height /\ len > 0 -> ReadResult(Unref(h, sub), past, Null, len)
               [] OTHER -> ReadUp(up.heap, past, l + 1, nav.index[l + 1] + 1, len, up.node)
    ELSE LET edge   == h[nav.node[l]].edges[i]
             length == Length(h, edge)
         IN  IF len >= length
             THEN ReadUp(AddChild(AddLength(Ref(h, edge), sub, length), sub, edge),
                         nav, l, i + 1, len - length, sub)
             ELSE ReadDown(AddLength(h, sub, len), nav, l, i, len, sub, sub)

ReadFrom(w, nav, len) == ReadUp(w.heap, nav, 0, nav.index[0] + 1, len, w.node)

(* read: n bytes from byte `offset' of the current edge, as a tree. *)
ReadNav(h, nav, offset, n) ==
    LET edge   == Current(h, nav)
        length == Length(h, edge)
        part   == NavSubstring(h, edge, offset, IF offset + n < length THEN n ELSE length - offset)
    IN  IF offset + n < length
        THEN ReadResult(part.heap, nav, part.node, offset + n)
        ELSE ReadFrom(NewWith(part.heap, part.node), nav, offset + n - length)

-----------------------------------------------------------------------------
NoReader == [nav |-> NoNav, remaining |-> 0]

Reader(h, nav, remaining, offset) ==
    [reader |-> [nav |-> nav, remaining |-> remaining], chunk |-> Skip(EdgeData(h, Current(h, nav)), offset)]

AtEnd(reader) == [reader |-> [reader EXCEPT !.remaining = 0], chunk |-> <<>>]

(* init *)
ReaderInit(h, tree) ==
    LET nav == InitNav(h, tree, FRONT)
    IN  Reader(h, nav, Length(h, tree) - Length(h, Current(h, nav)), 0)

(* init_last_from *)
ReaderInitLast(h, reader) ==
    Reader(h, InitNav(h, reader.nav.node[reader.nav.height], BACK), 0, 0)

(* next *)
ReaderNext(h, reader) ==
    LET nav == NextNav(h, reader.nav)
    IN  IF reader.remaining = 0
        THEN [reader |-> reader, chunk |-> <<>>]
        ELSE Reader(h, nav, reader.remaining - Length(h, Current(h, nav)), 0)

(* previous; the caller has not reached the front yet. *)
ReaderPrevious(h, reader) == Reader(h, PreviousNav(h, reader.nav), reader.remaining, 0)

(* skip: the current edge was returned already, so it is skipped too. *)
ReaderSkip(h, reader, n) ==
    LET pos == SkipNav(h, reader.nav, n + Length(h, Current(h, reader.nav)))
    IN  IF pos.found
        THEN Reader(h, pos.nav,
                    reader.remaining - (n - pos.offset + Length(h, Current(h, pos.nav))), pos.offset)
        ELSE AtEnd([reader EXCEPT !.nav = pos.nav])

(* seek *)
ReaderSeek(h, reader, offset) ==
    LET pos  == SeekNav(h, reader.nav, offset)
        rest == Length(h, Current(h, pos.nav)) - pos.offset
        all  == Length(h, reader.nav.node[reader.nav.height])
    IN  IF pos.found
        THEN Reader(h, pos.nav, all - offset - rest, pos.offset)
        ELSE AtEnd(reader)

(* What read leaves to be returned by the next call. *)
AfterRead(reader, n, chunkSize, r) ==
    LET consumed == n - chunkSize - r.n
        left     == [reader EXCEPT !.nav = r.nav]
    IN  CASE n < chunkSize -> Reader(r.heap, r.nav, reader.remaining, r.n)
          [] n >= chunkSize /\ consumed >= reader.remaining -> AtEnd(left)
          [] OTHER -> Reader(r.heap, r.nav,
                             reader.remaining - (consumed + Length(r.heap, Current(r.heap, r.nav))), r.n)

(* read: n bytes, from the last chunkSize ones of the current edge on. *)
ReaderRead(h, reader, n, chunkSize) ==
    LET nav == IF chunkSize # 0 THEN reader.nav ELSE NextNav(h, reader.nav)
        off == IF chunkSize # 0 THEN Length(h, Current(h, nav)) - chunkSize ELSE 0
        r   == ReadNav(h, nav, off, n)
        a   == AfterRead([reader EXCEPT !.nav = nav], n, chunkSize, r)
    IN  [heap |-> r.heap, tree |-> r.tree, reader |-> a.reader, chunk |-> a.chunk]
=============================================================================
