------------------------------ MODULE CordIter ------------------------------
(***************************************************************************)
(* Reading a cord: the iterators and the cursor of src/src/iter.rs, with   *)
(* the std::io traits of the cursor (src/src/io.rs), byte access           *)
(* (src/src/cord.rs) and the reader used by itself (src/src/rep/reader.rs). *)
(* The cord is borrowed: its nodes stay as they are, but a cord that       *)
(* read_cord returns shares them.                                          *)
(*                                                                         *)
(* A byte of the cord is its position in it, 1, 2, ...                     *)
(***************************************************************************)
EXTENDS Navigator

CONSTANTS
    Sources,         \* the cords to read, with their heaps
    Kinds,           \* the ways to read one
    MaxInline,       \* MAX_INLINE
    MaxBytesToCopy   \* MAX_BYTES_TO_COPY

ASSUME CordIterAssumption ==
    /\ MaxInline \in Nat /\ MaxBytesToCopy \in Nat
    /\ MaxInline <= MaxBytesToCopy /\ MaxBytesToCopy <= MaxFlatLength
    /\ Kinds \subseteq {"chunks", "bytes", "cursor", "reader"}

VARIABLES
    heap,   \* the nodes
    cord,   \* the cord: inline bytes or a root
    it,     \* the position, and what the Bytes iterator keeps besides
    read,   \* a cord returned by read_cord that is still in use
    out     \* the last call and what it returned

vars == <<heap, cord, it, read, out>>

InlineCord(data) == [tree |-> Null, data |-> data]

TreeCord(n) == [tree |-> n, data |-> <<>>]

NoCord == InlineCord(<<>>)

CordData(h, c) == IF c.tree = Null THEN c.data ELSE Bytes(h, c.tree)

-----------------------------------------------------------------------------
(* ForwardChunks; `off' is leaf_offset and `rem' bytes_remaining. *)
EmptyFront == [chunk |-> <<>>, leaf |-> Null, off |-> 0, rem |-> 0, reader |-> NoReader]

HasReader(f) == f.reader.nav # NoNav

(* The reader moved to the chunk r, and rem bytes remain. *)
Moved(f, rem, r) == [f EXCEPT !.chunk = r.chunk, !.reader = r.reader, !.rem = rem]

Finished(f) == [f EXCEPT !.chunk = <<>>, !.rem = 0]

(* new, init_tree *)
NewFront(h, c) ==
    CASE c.tree = Null -> [EmptyFront EXCEPT !.chunk = c.data, !.rem = Len(c.data)]
      [] c.tree # Null /\ IsBtree(h, c.tree) ->
           Moved(EmptyFront, Length(h, c.tree), ReaderInit(h, c.tree))
      [] OTHER -> [EmptyFront EXCEPT !.chunk = EdgeData(h, c.tree), !.leaf = c.tree,
                                     !.rem = Length(h, c.tree)]

(* step; the panic of an invalid iterator is the empty chunk with bytes    *)
(* remaining that ChunkAtPosition rules out.                               *)
Step(h, f) ==
    LET rem == f.rem - Len(f.chunk)
    IN  IF rem > 0 THEN Moved(f, rem, ReaderNext(h, f.reader)) ELSE Finished(f)

(* remove_chunk_prefix *)
RemoveChunkPrefix(f, n) == [f EXCEPT !.chunk = Skip(@, n), !.rem = @ - n, !.off = @ + n]

(* Mutant: always on to the next chunk. *)
AdvanceBytesBtreeNext(h, f, n) ==
    LET rem == f.rem - n
    IN  IF rem = 0 THEN Finished(f) ELSE Moved(f, rem, ReaderNext(h, f.reader))

(* advance_bytes_btree *)
AdvanceBytesBtree(h, f, n) ==
    LET rem  == f.rem - n
        size == Length(h, f.reader.nav.node[f.reader.nav.height])
    IN  CASE rem = 0 -> Finished(f)
          [] rem # 0 /\ n = Len(f.chunk) -> Moved(f, rem, ReaderNext(h, f.reader))
          [] OTHER -> Moved(f, rem, ReaderSeek(h, f.reader, size - rem))

(* advance_bytes *)
AdvanceBytes(h, f, n) ==
    CASE n < Len(f.chunk) -> RemoveChunkPrefix(f, n)
      [] n >= Len(f.chunk) /\ n = 0 -> f
      [] OTHER -> IF HasReader(f) THEN AdvanceBytesBtree(h, f, n) ELSE Finished(f)

(* gather_inline, which keeps the position *)
RECURSIVE GatherInline(_, _, _, _)
GatherInline(h, f, n, gathered) ==
    IF n > Len(f.chunk)
    THEN GatherInline(h, Step(h, f), n - Len(f.chunk), gathered \o f.chunk)
    ELSE [bytes |-> gathered \o Slice(f.chunk, 0, n),
          front |-> CASE n = 0 -> f
                      [] n > 0 /\ n < Len(f.chunk) -> RemoveChunkPrefix(f, n)
                      [] OTHER -> Step(h, f)]

(* The cord c that read_bytes returns, and the position after it. *)
ReadInto(h, f, c) == [heap |-> h, front |-> f, cord |-> c]

(* read_bytes, in a btree: a few bytes of one chunk are copied. *)
ReadBytesBtree(h, f, n) ==
    LET size == Len(f.chunk)
        flat == CreateFlat(h, Slice(f.chunk, 0, n), 0)
        r    == ReaderRead(h, f.reader, n, size)
    IN  IF n <= size /\ n <= MaxBytesToCopy
        THEN ReadInto(flat.heap,
                      IF n < size THEN [f EXCEPT !.chunk = Skip(@, n), !.rem = @ - n]
                      ELSE Moved(f, f.rem - n, ReaderNext(h, f.reader)),
                      TreeCord(flat.node))
        ELSE ReadInto(r.heap, Moved(f, f.rem - n, r), TreeCord(r.tree))

(* read_bytes, in a single data edge *)
ReadBytesLeaf(h, f, n) ==
    LET part    == h[f.leaf].tag = "substring"
        payload == IF part THEN h[f.leaf].child ELSE f.leaf
        base    == IF part THEN h[f.leaf].start ELSE 0
        r       == SharedSubstring(h, payload, base + f.off, n)
    IN  IF n = Length(h, f.leaf)
        THEN ReadInto(Ref(h, f.leaf), Finished(f), TreeCord(f.leaf))
        ELSE ReadInto(r.heap, RemoveChunkPrefix(f, n), TreeCord(r.node))

(* read_bytes *)
ReadBytes(h, f, n) ==
    LET g == GatherInline(h, f, n, <<>>)
    IN  CASE n <= MaxInline -> ReadInto(h, g.front, InlineCord(g.bytes))
          [] n > MaxInline /\ HasReader(f) -> ReadBytesBtree(h, f, n)
          [] n > MaxInline /\ ~HasReader(f) -> ReadBytesLeaf(h, f, n)

-----------------------------------------------------------------------------
(* Chunks: a position p with p.front and, once next_back was called, p.back. *)
NoBack == [some |-> FALSE, chunk |-> <<>>, reader |-> NoReader]

(* advance_bytes_between_ends *)
RECURSIVE AdvanceBetweenEnds(_, _, _)
AdvanceBetweenEnds(h, f, n) ==
    LET available == Min({Len(f.chunk), f.rem})
        rem       == f.rem - available
    IN  CASE n = 0 -> f
          [] n > 0 /\ n < available -> RemoveChunkPrefix(f, n)
          [] n >= available /\ n > 0 /\ rem = 0 -> Finished(f)
          [] OTHER -> AdvanceBetweenEnds(h, Moved(f, rem, ReaderNext(h, f.reader)), n - available)

(* Chunks::advance_bytes *)
ChunksAdvance(h, p, n) ==
    [p EXCEPT !.front = IF p.back.some THEN AdvanceBetweenEnds(h, @, n) ELSE AdvanceBytes(h, @, n)]

(* Chunks::next; next_chunk where there is no back *)
ChunksNext(h, p) ==
    LET f   == p.front
        n   == Min({Len(f.chunk), f.rem})
        rem == f.rem - n
        met == IF rem = 0 THEN Finished(f) ELSE Moved(f, rem, ReaderNext(h, f.reader))
    IN  IF f.rem = 0 THEN [at |-> p, chunk |-> <<>>]
        ELSE [at    |-> [p EXCEPT !.front = IF p.back.some THEN met ELSE Step(h, f)],
              chunk |-> IF p.back.some THEN Slice(f.chunk, 0, n) ELSE f.chunk]

(* The back position of the first call of next_back *)
NewBack(h, f) ==
    LET r == ReaderInitLast(h, f.reader)
    IN  IF HasReader(f) THEN [some |-> TRUE, chunk |-> r.chunk, reader |-> r.reader]
        ELSE [some |-> TRUE, chunk |-> f.chunk, reader |-> NoReader]

(* Mutant: the back does not stop where the front has been. *)
ChunksNextBackPastFront(h, p) ==
    LET b     == IF p.back.some THEN p.back ELSE NewBack(h, p.front)
        n     == Len(b.chunk)
        split == Len(b.chunk) - n
        rem   == Max({p.front.rem - n, 0})
        prev  == ReaderPrevious(h, b.reader)
        back  == CASE rem = 0 -> [b EXCEPT !.chunk = <<>>]
                   [] rem > 0 /\ split = 0 -> [b EXCEPT !.chunk = prev.chunk, !.reader = prev.reader]
                   [] OTHER -> [b EXCEPT !.chunk = Slice(@, 0, split)]
        front == IF rem = 0 THEN Finished(p.front) ELSE [p.front EXCEPT !.rem = rem]
    IN  IF p.front.rem = 0 THEN [at |-> p, chunk |-> <<>>]
        ELSE [at |-> [p EXCEPT !.front = front, !.back = back], chunk |-> Skip(b.chunk, split)]

(* Chunks::next_back *)
ChunksNextBack(h, p) ==
    LET b     == IF p.back.some THEN p.back ELSE NewBack(h, p.front)
        n     == Min({Len(b.chunk), p.front.rem})
        split == Len(b.chunk) - n
        rem   == p.front.rem - n
        prev  == ReaderPrevious(h, b.reader)
        back  == CASE rem = 0 -> [b EXCEPT !.chunk = <<>>]
                   [] rem > 0 /\ split = 0 -> [b EXCEPT !.chunk = prev.chunk, !.reader = prev.reader]
                   [] OTHER -> [b EXCEPT !.chunk = Slice(@, 0, split)]
        front == IF rem = 0 THEN Finished(p.front) ELSE [p.front EXCEPT !.rem = rem]
    IN  IF p.front.rem = 0 THEN [at |-> p, chunk |-> <<>>]
        ELSE [at |-> [p EXCEPT !.front = front, !.back = back], chunk |-> Skip(b.chunk, split)]

(* Bytes::next *)
BytesNext(h, p) ==
    LET c == ChunksNext(h, p)
    IN  CASE p.cur # <<>> -> [at |-> [p EXCEPT !.cur = Tail(@)], bytes |-> <<Head(p.cur)>>]
          [] p.cur = <<>> /\ c.chunk # <<>> ->
               [at |-> [c.at EXCEPT !.cur = Tail(c.chunk)], bytes |-> <<Head(c.chunk)>>]
          [] OTHER -> [at    |-> [c.at EXCEPT !.bcur = Slice(@, 1, Max({Len(@) - 1, 0}))],
                       bytes |-> Slice(p.bcur, 0, Min({Len(p.bcur), 1}))]

(* Bytes::next_back *)
BytesNextBack(h, p) ==
    LET c == ChunksNextBack(h, p)
        Last1(s)  == Skip(s, Max({Len(s) - 1, 0}))
        Short1(s) == Slice(s, 0, Max({Len(s) - 1, 0}))
    IN  CASE p.bcur # <<>> -> [at |-> [p EXCEPT !.bcur = Short1(@)], bytes |-> Last1(p.bcur)]
          [] p.bcur = <<>> /\ c.chunk # <<>> ->
               [at |-> [c.at EXCEPT !.bcur = Short1(c.chunk)], bytes |-> Last1(c.chunk)]
          [] OTHER -> [at |-> [c.at EXCEPT !.cur = Short1(@)], bytes |-> Last1(p.cur)]

(* Bytes::nth *)
BytesNth(h, p, n) ==
    LET skip  == n - Len(p.cur)
        rem   == p.front.rem
        empty == [p EXCEPT !.cur = <<>>]
        last  == [empty EXCEPT !.front = IF rem = 0 THEN @ ELSE ChunksAdvance(h, p, rem).front,
                               !.bcur = Skip(@, Min({skip - rem, Len(@)}))]
    IN  CASE n < Len(p.cur) -> BytesNext(h, [p EXCEPT !.cur = Skip(@, n)])
          [] n >= Len(p.cur) /\ skip < rem -> BytesNext(h, ChunksAdvance(h, empty, skip))
          [] OTHER -> BytesNext(h, last)

-----------------------------------------------------------------------------
(* Read::read of the cursor: into a buffer of n bytes *)
RECURSIVE ReadLoop(_, _, _, _)
ReadLoop(h, f, n, written) ==
    LET k == Min({Len(f.chunk), n})
    IN  IF n = 0 \/ f.chunk = <<>> THEN [front |-> f, bytes |-> written]
        ELSE ReadLoop(h, AdvanceBytes(h, f, k), n - k, written \o Slice(f.chunk, 0, k))

(* read_to_end: the chunks of a copy of the position *)
RECURSIVE CollectChunks(_, _, _)
CollectChunks(h, f, collected) ==
    IF f.rem = 0 THEN collected ELSE CollectChunks(h, Step(h, f), collected \o f.chunk)

(* Seek::seek: ahead in place, back from the start of the cord *)
SeekFront(h, c, f, target) ==
    LET len      == IF c.tree = Null THEN Len(c.data) ELSE Length(h, c.tree)
        position == len - f.rem
    IN  CASE target < 0 \/ target > len -> f
          [] target \in position..len -> AdvanceBytes(h, f, target - position)
          [] OTHER -> AdvanceBytes(h, NewFront(h, c), target)

(* byte_ref *)
ByteAt(h, c, i) ==
    LET byte[n \in DOMAIN h] ==
          [offset \in 0..i |->
             CASE h[n].tag = "btree" ->
                    LET pos == IndexOf(h, n, offset) IN byte[h[n].edges[pos.index]][pos.n]
               [] OTHER -> EdgeData(h, n)[offset + 1]]
    IN  IF c.tree = Null THEN c.data[i + 1] ELSE byte[c.tree][i]

(* get_byte *)
GetByte(h, c, i) ==
    IF i >= (IF c.tree = Null THEN Len(c.data) ELSE Length(h, c.tree)) THEN <<>> ELSE <<ByteAt(h, c, i)>>

-----------------------------------------------------------------------------
Returned(op, n, bytes) == [op |-> op, n |-> n, bytes |-> bytes]

(* Cord::chunks, Cord::cursor, Cord::bytes, which takes the first chunk *)
NewIter(h, c, kind) ==
    LET p     == [kind |-> kind, front |-> NewFront(h, c), back |-> NoBack, cur |-> <<>>, bcur |-> <<>>]
        first == ChunksNext(h, p)
    IN  IF kind = "bytes" THEN [first.at EXCEPT !.cur = first.chunk] ELSE p

(* A reader has handed out its first chunk when it is initialised. *)
Init ==
    /\ \E s \in Sources : heap = s.heap /\ cord = s.cord
    /\ \E kind \in Kinds :
          /\ kind = "reader" => cord.tree # Null /\ IsBtree(heap, cord.tree)
          /\ it = NewIter(heap, cord, kind)
    /\ read = NoCord
    /\ out = Returned("new", 0, IF it.kind = "reader" THEN it.front.chunk ELSE <<>>)

Lengths == 0..(Len(CordData(heap, cord)) + 1)

(* The position becomes p and the call returns r; the cord is only read.   *)
(* A cord that was read out is dropped first.                              *)
Return(p, r) ==
    /\ read = NoCord
    /\ it' = p
    /\ out' = r
    /\ UNCHANGED <<heap, cord, read>>

NextChunk ==
    /\ it.kind = "chunks"
    /\ \/ LET c == ChunksNext(heap, it) IN Return(c.at, Returned("next", 0, c.chunk))
       \/ LET c == ChunksNextBack(heap, it) IN Return(c.at, Returned("next_back", 0, c.chunk))

(* next is nth(0) *)
TakeByte ==
    /\ it.kind = "bytes"
    /\ \/ LET b == BytesNext(heap, it) IN Return(b.at, Returned("nth", 0, b.bytes))
       \/ LET b == BytesNextBack(heap, it) IN Return(b.at, Returned("nth_back", 0, b.bytes))
       \/ \E n \in Lengths :
             LET b == BytesNth(heap, it, n) IN Return(b.at, Returned("nth", n, b.bytes))

AtFront(f) == [it EXCEPT !.front = f]

(* Cursor::advance, BufRead::consume; a larger n panics. *)
Advance ==
    /\ it.kind = "cursor"
    /\ \E n \in 0..it.front.rem :
          Return(AtFront(AdvanceBytes(heap, it.front, n)), Returned("advance", n, <<>>))

(* Cursor::next_byte *)
NextByte ==
    LET f == it.front
    IN  /\ it.kind = "cursor"
        /\ IF f.chunk = <<>> THEN Return(it, Returned("nth", 0, <<>>))
           ELSE Return(AtFront(IF Len(f.chunk) > 1 THEN RemoveChunkPrefix(f, 1) ELSE Step(heap, f)),
                       Returned("nth", 0, <<Head(f.chunk)>>))

(* Read::read, read_to_end *)
ReadSlice ==
    /\ it.kind = "cursor"
    /\ \/ \E n \in Lengths :
             LET r == ReadLoop(heap, it.front, n, <<>>)
             IN  Return(AtFront(r.front), Returned("read", n, r.bytes))
       \/ Return(AtFront(AdvanceBytes(heap, it.front, it.front.rem)),
                 Returned("read", it.front.rem, CollectChunks(heap, it.front, <<>>)))

(* Cursor::read_cord, Buf::copy_to_bytes; a larger n panics. *)
ReadCord ==
    /\ it.kind = "cursor" /\ read = NoCord
    /\ \E n \in 0..it.front.rem :
          LET r == ReadBytes(heap, it.front, n)
          IN  /\ heap' = r.heap
              /\ it' = AtFront(r.front)
              /\ read' = r.cord
              /\ out' = Returned("read", n, CordData(r.heap, r.cord))
    /\ UNCHANGED cord

(* The program drops the cord it has read. *)
DropRead ==
    /\ read # NoCord
    /\ heap' = IF read.tree = Null THEN heap ELSE Unref(heap, read.tree)
    /\ read' = NoCord
    /\ UNCHANGED <<cord, it, out>>

(* Seek::seek; the target is computed from the position or the end. *)
Seek ==
    /\ it.kind = "cursor"
    /\ \E target \in Lengths \cup {-1} :
          Return(AtFront(SeekFront(heap, cord, it.front, target)), Returned("seek", target, <<>>))

(* Cursor::chunks: the program goes on with the iterator. *)
ToChunks ==
    /\ it.kind = "cursor"
    /\ Return([it EXCEPT !.kind = "chunks"], out)

(* Cord::get(i) *)
Get == \E i \in Lengths : Return(it, Returned("get", i, GetByte(heap, cord, i)))

(* The reader by itself: next and skip, short of the end. *)
UseReader ==
    /\ it.kind = "reader" /\ it.front.reader.remaining > 0
    /\ \E n \in Lengths :
          LET r == ReaderSkip(heap, it.front.reader, n)
          IN  Return(AtFront(Moved(it.front, 0, r)), Returned("skip", n, r.chunk))

Next ==
    \/ NextChunk \/ TakeByte
    \/ Advance \/ NextByte \/ ReadSlice \/ ReadCord \/ DropRead \/ Seek \/ ToChunks
    \/ Get \/ UseReader

Spec == Init /\ [][Next]_vars

-----------------------------------------------------------------------------
(* The bytes a position has still to hand out, found from the chunk it is  *)
(* on and its count, or from a reader's last chunk.                        *)
Following(first, n) == [i \in 1..n |-> first + i - 1]

Rest ==
    LET f == it.front
    IN  CASE it.kind = "reader" ->
               IF f.chunk = <<>> THEN <<>> ELSE Following(f.chunk[Len(f.chunk)] + 1, f.reader.remaining)
          [] it.kind # "reader" ->
               it.cur \o (IF f.rem = 0 THEN <<>> ELSE Following(Head(f.chunk), f.rem)) \o it.bcur

(***************************************************************************)
(* Cursor::chunk is empty exactly at the end (its documentation), and a    *)
(* position with bytes to come is on a chunk of them: step's and next's    *)
(* unreachable!() are, and peek agrees with the next read.                 *)
(***************************************************************************)
ChunkAtPosition ==
    LET f == it.front
    IN  it.kind # "reader" =>
          /\ f.chunk = <<>> <=> f.rem = 0
          /\ \A i \in DOMAIN f.chunk : f.chunk[i] = Head(f.chunk) + i - 1
          /\ ~it.back.some => Len(f.chunk) <= f.rem

(* References on n: the two cords' and those of edges. *)
References(n) ==
    Cardinality({c \in {1, 2} : <<cord, read>>[c].tree = n}) +
    Cardinality({<<m, i>> \in (DOMAIN heap) \X (1..MaxCapacity) :
                    i \in DOMAIN Children(heap[m]) /\ Children(heap[m])[i] = n})

(***************************************************************************)
(* A cord read out of another adds exactly the references it holds, and    *)
(* dropping it takes away those and no others: the cursor itself, which    *)
(* only borrows, has none to release.                                      *)
(***************************************************************************)
ReadsCounted == \A n \in Allocated(heap) : heap[n].rc = References(n) /\ heap[n].rc > 0

(***************************************************************************)
(* The tree that read builds while it walks is a valid btree: lengths add  *)
(* up, every level is one lower than the one above, no node is empty or    *)
(* over its capacity.                                                      *)
(***************************************************************************)
ReadTreesValid ==
    \A n \in Allocated(heap) :
       LET node == heap[n]
       IN  CASE node.tag = "btree" ->
                  /\ Len(node.edges) \in 1..MaxCapacity
                  /\ node.len = LengthUpTo(heap, n, Len(node.edges))
                  /\ \A i \in DOMAIN node.edges :
                        IF node.height > 0
                        THEN /\ IsBtree(heap, node.edges[i])
                             /\ heap[node.edges[i]].height = node.height - 1
                        ELSE IsDataEdge(heap, node.edges[i]) /\ Length(heap, node.edges[i]) > 0
             [] node.tag = "substring" ->
                  /\ node.len > 0
                  /\ node.start + node.len <= Len(Payload(heap, node.child))
             [] OTHER -> Len(node.data) > 0
=============================================================================
