-------------------------------- MODULE Cord --------------------------------
(***************************************************************************)
(* Cords over a shared heap of rep nodes: the public operations of         *)
(* src/src/cord.rs and of the CordBuffer it hands out (src/src/buffer.rs). *)
(*                                                                         *)
(* Operators named ...To, or that take a heap h and a cord c, compute the  *)
(* effect of a method; the actions apply them to the program's cords.      *)
(***************************************************************************)
EXTENDS CordBtree

CONSTANTS
    Handles,         \* the Cord variables of the program
    Workloads,       \* what it may do: the operations it calls, the byte strings
                     \* it passes to them and a bound on the cords it makes
    MaxInline,       \* MAX_INLINE, also the capacity of a short CordBuffer
    MaxBytesToCopy,  \* MAX_BYTES_TO_COPY: longer sources are shared
    GrowthDivisor,   \* spare tail capacity is at most len / GrowthDivisor
    BufferSizes,     \* the capacities it asks of take_append_buffer
    MinCapacities    \* the spare capacity it requires of a buffer to reuse

ASSUME CordAssumption ==
    /\ MaxInline \in Nat /\ MaxBytesToCopy \in Nat
    /\ \A w \in Workloads : DOMAIN w = {"ops", "slices", "maxLen"} /\ w.maxLen \in Nat
    /\ GrowthDivisor \in Nat \ {0}
    /\ MaxInline <= MaxBytesToCopy
    /\ MaxInline <= Min(FlatSizes)
    /\ BufferSizes \subseteq Nat /\ MinCapacities \subseteq Nat

VARIABLES
    heap,    \* the allocated nodes
    cords,   \* the value of each Cord: inline bytes or a root
    buffer,  \* the CordBuffer in use, if there is one
    work     \* the workload of this behaviour

vars == <<heap, cords, buffer, work>>

Ops == work.ops

Slices == work.slices

MaxLen == work.maxLen   \* bound: no operation makes a longer cord

Inline(data) == [tree |-> Null, data |-> data]

Tree(n) == [tree |-> n, data |-> <<>>]

(* The result of a method that leaves the cord with the root r.node. *)
Rooted(r) == [heap |-> r.heap, cord |-> Tree(r.node)]

Empty == Inline(<<>>)

NoBuffer == [tree |-> -1, data |-> <<>>]

IsTree(c) == c.tree # Null

(* Cord::len *)
CordLen(h, c) == IF IsTree(c) THEN Length(h, c.tree) ELSE Len(c.data)

(* The chunks that an iteration over the cord yields. *)
CordChunks(h, c) == IF IsTree(c) THEN Chunks(h, c.tree) ELSE <<c.data>>

CordBytes(h, c) == IF IsTree(c) THEN Bytes(h, c.tree) ELSE c.data

RootOf(h, c) == [heap |-> h, node |-> c.tree]

(* Drop for Cord *)
Drop(h, c) == IF IsTree(c) THEN Unref(h, c.tree) ELSE h

(* The reference that to_owned on a borrowed cord's root adds. *)
Share(h, c) == IF IsTree(c) THEN Ref(h, c.tree) ELSE h

-----------------------------------------------------------------------------
NewTree(h, data, hint) ==
    LET first == CreateFlat(h, Slice(data, 0, MaxFlatLength), 0)
        root  == Create(first.heap, first.node)
    IN  IF Len(data) <= MaxFlatLength THEN CreateFlat(h, data, hint)
        ELSE AddData(root.heap, root.node, Skip(data, MaxFlatLength), hint, BACK)

(* rep_from_owned, rep_from_global: adopts a buffer that is worth it. *)
RepFromOwned(h, data, capacity) ==
    IF Len(data) <= MaxBytesToCopy \/ Len(data) < capacity \div 2
    THEN NewTree(h, data, 0)
    ELSE Alloc(h, External(data))

(* append_tree, prepend_tree: adopt the reference on t.node. *)
AddTree(t, c, back) ==
    LET flat == Alloc(t.heap, Flat(c.data, FlatCapacity(Len(c.data))))
        base == IF IsTree(c) THEN Create(t.heap, c.tree) ELSE Create(flat.heap, flat.node)
    IN  IF c = Empty THEN Rooted(t)
        ELSE Rooted(AddRep(base.heap, base.node, t.node, back))

(* prepare_append_region, on a unique root *)
PrepareAppendRegion(h, n, src) ==
    LET fits == Min({Len(src), h[n].cap - Len(h[n].data)})
    IN  CASE IsBtree(h, n) -> GetAppendBuffer(h, n, src)
          [] IsFlat(h, n)  -> [heap    |-> [h EXCEPT ![n].data = @ \o Slice(src, 0, fits)],
                               written |-> fits]
          [] OTHER         -> [heap |-> h, written |-> 0]

(* The last part of append_slice: what found no room, r.rest, goes into new flats. *)
GrowTree(r) ==
    LET b      == Create(r.heap, r.node)
        growth == Max({Length(r.heap, r.node) \div GrowthDivisor, Len(r.rest)})
    IN  IF r.rest = <<>> THEN Rooted(r)
        ELSE Rooted(AddData(b.heap, b.node, r.rest, growth - Len(r.rest), BACK))

AppendSliceTo(h, c, src) ==
    LET p   == IF IsOne(h, c.tree) THEN PrepareAppendRegion(h, c.tree, src)
                                   ELSE [heap |-> h, written |-> 0]
        all == c.data \o src
        cap == FlatCapacity(Len(all))
        f   == Alloc(h, Flat(Slice(all, 0, Min({Len(all), cap})), cap))
    IN  CASE src = <<>> -> [heap |-> h, cord |-> c]
          [] src # <<>> /\ ~IsTree(c) /\ Len(all) <= MaxInline ->
               [heap |-> h, cord |-> Inline(all)]
          [] OTHER ->
               GrowTree(IF IsTree(c)
                        THEN [heap |-> p.heap, node |-> c.tree, rest |-> Skip(src, p.written)]
                        ELSE [heap |-> f.heap, node |-> f.node, rest |-> Skip(all, cap)])

PrependSliceTo(h, c, src) ==
    LET b == Create(h, c.tree)
    IN  CASE src = <<>> -> [heap |-> h, cord |-> c]
          [] src # <<>> /\ IsTree(c) -> Rooted(AddData(b.heap, b.node, src, 0, FRONT))
          [] src # <<>> /\ ~IsTree(c) ->
               IF Len(c.data) + Len(src) <= MaxInline
               THEN [heap |-> h, cord |-> Inline(src \o c.data)]
               ELSE AddTree(NewTree(h, src, 0), c, FRONT)

(***************************************************************************)
(* The copying branch of append_cord: chunk after chunk of src, whose      *)
(* nodes c may share, is read while c is being changed.                    *)
(***************************************************************************)
RECURSIVE AppendChunksFrom(_, _, _)
AppendChunksFrom(a, src, i) ==
    IF i > Len(CordChunks(a.heap, src)) THEN a
    ELSE AppendChunksFrom(AppendSliceTo(a.heap, a.cord, CordChunks(a.heap, src)[i]), src, i + 1)

AppendChunksTo(h, c, src) == AppendChunksFrom([heap |-> h, cord |-> c], src, 1)

(* append_cord; append_owned_cord is the same with a reference given up. *)
AppendCordTo(h, c, src) ==
    CASE src = Empty -> [heap |-> h, cord |-> c]
      [] src # Empty /\ c = Empty -> [heap |-> Share(h, src), cord |-> src]
      [] src # Empty /\ c # Empty ->
           IF CordLen(h, src) <= MaxBytesToCopy
           THEN AppendChunksTo(h, c, src)
           ELSE AddTree(RootOf(Share(h, src), src), c, BACK)

(* Mutant: a source that was copied is not dropped. *)
AppendOwnedCordLeaks(h, c, src) ==
    CASE src = Empty -> [heap |-> h, cord |-> c]
      [] src # Empty /\ c = Empty -> [heap |-> h, cord |-> src]
      [] src # Empty /\ c # Empty ->
           IF CordLen(h, src) <= MaxBytesToCopy
           THEN AppendChunksTo(h, c, src)
           ELSE AddTree(RootOf(h, src), c, BACK)

AppendOwnedCordTo(h, c, src) ==
    CASE src = Empty -> [heap |-> h, cord |-> c]
      [] src # Empty /\ c = Empty -> [heap |-> h, cord |-> src]
      [] src # Empty /\ c # Empty ->
           IF CordLen(h, src) <= MaxBytesToCopy
           THEN [AppendChunksTo(h, c, src) EXCEPT !.heap = Drop(@, src)]
           ELSE AddTree(RootOf(h, src), c, BACK)

(* prepend_cord on Share(h, src), prepend_owned_cord on h *)
PrependCordTo(h, c, src) ==
    IF IsTree(src) THEN AddTree(RootOf(h, src), c, FRONT) ELSE PrependSliceTo(h, c, src.data)

-----------------------------------------------------------------------------
(* The cord whose root is now t.node and was c.tree. *)
Reroot(t, c) == Rooted([t EXCEPT !.heap = Unref(@, c.tree)])

AdvanceTo(h, c, n) ==
    LET len == Length(h, c.tree)
    IN  CASE ~IsTree(c) -> [heap |-> h, cord |-> Inline(Skip(c.data, n))]
          [] IsTree(c) /\ n >= len -> [heap |-> Drop(h, c), cord |-> Empty]
          [] IsTree(c) /\ n < len ->
               CASE IsBtree(h, c.tree) -> Reroot(SubTree(h, c.tree, n, len - n), c)
                 [] h[c.tree].tag = "substring" /\ IsOne(h, c.tree) ->
                      [heap |-> [h EXCEPT ![c.tree].start = @ + n, ![c.tree].len = @ - n],
                       cord |-> c]
                 [] OTHER -> Reroot(SharedSubstring(h, c.tree, n, len - n), c)

TruncateTo(h, c, len) ==
    LET n == CordLen(h, c) - len
    IN  CASE n <= 0 -> [heap |-> h, cord |-> c]
          [] n > 0 /\ ~IsTree(c) -> [heap |-> h, cord |-> Inline(Slice(c.data, 0, len))]
          [] n > 0 /\ IsTree(c) /\ len = 0 -> [heap |-> Drop(h, c), cord |-> Empty]
          [] n > 0 /\ IsTree(c) /\ len > 0 ->
               CASE IsBtree(h, c.tree) -> Rooted(RemoveSuffix(h, c.tree, n))
                 [] h[c.tree].tag \in {"flat", "substring"} /\ IsOne(h, c.tree) ->
                      [heap |-> SetLength(h, c.tree, len), cord |-> c]
                 [] OTHER -> Reroot(SharedSubstring(h, c.tree, 0, len), c)

Subcord(h, c, pos, n) ==
    CASE n = 0 -> [heap |-> h, cord |-> Empty]
      [] n > 0 /\ (~IsTree(c) \/ n <= MaxInline) ->
           [heap |-> h, cord |-> Inline(Slice(CordBytes(h, c), pos, n))]
      [] n > MaxInline /\ IsTree(c) ->
           Rooted(IF IsBtree(h, c.tree) THEN SubTree(h, c.tree, pos, n)
                                        ELSE SharedSubstring(h, c.tree, pos, n))

(* The single node that flatten_slow_path copies all bytes into. *)
Contiguous(bytes) ==
    IF Len(bytes) <= MaxFlatLength THEN Flat(bytes, FlatCapacity(Len(bytes)))
                                   ELSE External(bytes)

(* make_contiguous, flatten_slow_path *)
Flatten(h, c) ==
    IF ~IsTree(c) \/ IsSingleChunk(h, c.tree) THEN [heap |-> h, cord |-> c]
    ELSE Reroot(Alloc(h, Contiguous(CordBytes(h, c))), c)

-----------------------------------------------------------------------------
(* CordBuffer::with_capacity *)
BufferWithCapacity(h, capacity) ==
    LET Owning(f) == [heap |-> f.heap, buf |-> Tree(f.node)]
    IN  IF capacity > MaxInline THEN Owning(Alloc(h, Flat(<<>>, FlatCapacity(capacity))))
                                ELSE [heap |-> h, buf |-> Empty]

(* CordBuffer::available *)
Available(h, b) ==
    IF IsTree(b) THEN h[b.tree].cap - Len(h[b.tree].data) ELSE MaxInline - Len(b.data)

PutSliceTo(h, b, src) ==
    IF IsTree(b) THEN [heap |-> [h EXCEPT ![b.tree].data = @ \o src], buf |-> b]
                 ELSE [heap |-> h, buf |-> Inline(b.data \o src)]

(* extract_append_buffer for any rep *)
ExtractFrom(h, n, minCapacity) ==
    CASE IsBtree(h, n) -> ExtractAppendBuffer(h, n, minCapacity)
      [] /\ IsFlat(h, n)
         /\ IsOne(h, n)
         /\ h[n].cap - Len(h[n].data) >= minCapacity ->
           [heap |-> h, tree |-> Null, extracted |-> n]
      [] OTHER -> [heap |-> h, tree |-> n, extracted |-> Null]

(* Mutant: the inline bytes of the cord do not move to the buffer. *)
TakeBufferLosesInline(h, c, capacity, minCapacity) ==
    LET Keep(fresh) == [heap |-> fresh.heap, cord |-> c, buf |-> fresh.buf]
        Moved(r) == [heap |-> r.heap, cord |-> Empty, buf |-> r.buf]
        Rest(x) == [heap |-> x.heap,
                     cord |-> IF x.tree = Null THEN Empty ELSE Tree(x.tree),
                     buf  |-> Tree(x.extracted)]
        Taken(x) == IF x.extracted = Null THEN Keep(BufferWithCapacity(h, capacity)) ELSE Rest(x)
    IN  CASE c = Empty -> Keep(BufferWithCapacity(h, capacity))
          [] c # Empty /\ IsTree(c) -> Taken(ExtractFrom(h, c.tree, minCapacity))
          [] c # Empty /\ ~IsTree(c) -> Moved(BufferWithCapacity(h, capacity))

(* take_append_buffer_with, with the default block size *)
TakeBufferFrom(h, c, capacity, minCapacity) ==
    LET Keep(fresh) == [heap |-> fresh.heap, cord |-> c, buf |-> fresh.buf]
        Moved(r) == [heap |-> r.heap, cord |-> Empty, buf |-> r.buf]
        Rest(x) == [heap |-> x.heap,
                     cord |-> IF x.tree = Null THEN Empty ELSE Tree(x.tree),
                     buf  |-> Tree(x.extracted)]
        Taken(x) == IF x.extracted = Null THEN Keep(BufferWithCapacity(h, capacity)) ELSE Rest(x)
        Fill(larger) == PutSliceTo(larger.heap, larger.buf, c.data)
    IN  CASE c = Empty -> Keep(BufferWithCapacity(h, capacity))
          [] c # Empty /\ IsTree(c) -> Taken(ExtractFrom(h, c.tree, minCapacity))
          [] c # Empty /\ ~IsTree(c) -> Moved(Fill(BufferWithCapacity(h, capacity + Len(c.data))))

(* append_buffer, prepend_buffer, append_precise, prepend_precise *)
AddBufferTo(h, c, b, back) ==
    CASE IsTree(b) /\ h[b.tree].data = <<>> -> [heap |-> Delete(h, b.tree), cord |-> c]
      [] IsTree(b) /\ h[b.tree].data # <<>> -> AddTree(RootOf(h, b), c, back)
      [] b = Empty -> [heap |-> h, cord |-> c]
      [] ~IsTree(b) /\ b # Empty ->
           IF ~IsTree(c) /\ Len(c.data) + Len(b.data) <= MaxInline
           THEN [heap |-> h,
                 cord |-> Inline(IF back THEN c.data \o b.data ELSE b.data \o c.data)]
           ELSE AddTree(CreateFlat(h, b.data, 0), c, back)

-----------------------------------------------------------------------------
Init ==
    /\ heap = << >>
    /\ cords = [x \in Handles |-> Empty]
    /\ buffer = NoBuffer
    /\ work \in Workloads

(* The effect r of a method on the cord x. *)
Assign(x, r) ==
    /\ heap' = r.heap
    /\ cords' = [cords EXCEPT ![x] = r.cord]
    /\ UNCHANGED buffer

(* The new value r of the variable x, whose old one is dropped. *)
Replace(x, r) == Assign(x, [r EXCEPT !.heap = Drop(@, cords[x])])

Fits(x, n) == CordLen(heap, cords[x]) + n <= MaxLen

CopyFromSlice(x, s) ==
    Replace(x, IF Len(s) <= MaxInline THEN [heap |-> heap, cord |-> Inline(s)]
               ELSE Rooted(NewTree(heap, s, 0)))

(* From<Vec<u8>> and the like *)
FromOwned(x, s, capacity) ==
    Replace(x, IF Len(s) <= MaxInline THEN [heap |-> heap, cord |-> Inline(s)]
               ELSE Rooted(RepFromOwned(heap, s, capacity)))

FromStatic(x, s) ==
    Replace(x, IF Len(s) <= MaxInline THEN [heap |-> heap, cord |-> Inline(s)]
               ELSE Rooted(Alloc(heap, External(s))))

(* from_owner: external however short *)
FromOwner(x, s) ==
    Replace(x, IF s = <<>> THEN [heap |-> heap, cord |-> Empty]
               ELSE Rooted(Alloc(heap, External(s))))

(* clone, clone_from *)
CloneFrom(x, y) == Replace(x, [heap |-> Share(heap, cords[y]), cord |-> cords[y]])

Clear(x) == Assign(x, [heap |-> Drop(heap, cords[x]), cord |-> Empty])

AppendSlice(x, s) == Fits(x, Len(s)) /\ Assign(x, AppendSliceTo(heap, cords[x], s))

PrependSlice(x, s) == Fits(x, Len(s)) /\ Assign(x, PrependSliceTo(heap, cords[x], s))

(* append_owned, append_global *)
AppendOwned(x, s, capacity) ==
    /\ Fits(x, Len(s))
    /\ Assign(x, IF Len(s) <= MaxBytesToCopy THEN AppendSliceTo(heap, cords[x], s)
                 ELSE AddTree(RepFromOwned(heap, s, capacity), cords[x], BACK))

(* prepend_owned, prepend_global *)
PrependOwned(x, s, capacity) ==
    /\ Fits(x, Len(s))
    /\ Assign(x, IF Len(s) <= MaxBytesToCopy THEN PrependSliceTo(heap, cords[x], s)
                 ELSE AddTree(RepFromOwned(heap, s, capacity), cords[x], FRONT))

AppendCord(x, y) ==
    /\ Fits(x, CordLen(heap, cords[y]))
    /\ Assign(x, AppendCordTo(heap, cords[x], cords[y]))

PrependCord(x, y) ==
    /\ Fits(x, CordLen(heap, cords[y]))
    /\ Assign(x, PrependCordTo(Share(heap, cords[y]), cords[x], cords[y]))

(* The effect r on x of a method that takes the cord y by value. *)
Consume(x, y, r) ==
    /\ Fits(x, CordLen(heap, cords[y]))
    /\ heap' = r.heap
    /\ cords' = [cords EXCEPT ![x] = r.cord, ![y] = Empty]
    /\ UNCHANGED buffer

AppendOwnedCord(x, y) == Consume(x, y, AppendOwnedCordTo(heap, cords[x], cords[y]))

PrependOwnedCord(x, y) == Consume(x, y, PrependCordTo(heap, cords[x], cords[y]))

Advance(x, n) == Assign(x, AdvanceTo(heap, cords[x], n))

Truncate(x, n) == Assign(x, TruncateTo(heap, cords[x], n))

SliceOf(x, y, pos, n) == Replace(y, Subcord(heap, cords[x], pos, n))

(* x and y become the two results, the second on top of the first. *)
Halves(x, first, y, second) ==
    /\ cords' = [cords EXCEPT ![x] = first, ![y] = second.cord]
    /\ heap' = second.heap
    /\ UNCHANGED buffer

(* All of x moves to y. *)
MoveAll(x, y) ==
    /\ cords' = [cords EXCEPT ![x] = Empty, ![y] = cords[x]]
    /\ UNCHANGED <<heap, buffer>>

(* y = x.split_off(at) for an empty y *)
SplitOff(x, y, at) ==
    LET tail == Subcord(heap, cords[x], at, CordLen(heap, cords[x]) - at)
    IN  /\ cords[y] = Empty
        /\ IF at = 0 THEN MoveAll(x, y)
           ELSE Halves(y, tail.cord, x, TruncateTo(tail.heap, cords[x], at))

(* y = x.split_to(at) for an empty y *)
SplitTo(x, y, at) ==
    LET head == Subcord(heap, cords[x], 0, at)
    IN  /\ cords[y] = Empty
        /\ IF at = CordLen(heap, cords[x]) THEN MoveAll(x, y)
           ELSE Halves(y, head.cord, x, AdvanceTo(head.heap, cords[x], at))

MakeContiguous(x) == Assign(x, Flatten(heap, cords[x]))

(* take_append_buffer, take_append_buffer_with *)
TakeAppendBuffer(x, capacity, minCapacity) ==
    LET r == TakeBufferFrom(heap, cords[x], capacity, minCapacity)
    IN  /\ buffer = NoBuffer
        /\ heap' = r.heap
        /\ cords' = [cords EXCEPT ![x] = r.cord]
        /\ buffer' = r.buf

(* put_slice panics, and changes nothing, if there is no room. *)
PutSlice(s) ==
    LET r == PutSliceTo(heap, buffer, s)
    IN  /\ buffer # NoBuffer
        /\ Len(s) <= Available(heap, buffer)
        /\ heap' = r.heap
        /\ buffer' = r.buf
        /\ UNCHANGED cords

(* CordBuffer::truncate *)
TruncateBuffer(n) ==
    /\ buffer # NoBuffer
    /\ IF IsTree(buffer)
       THEN heap' = SetLength(heap, buffer.tree, n) /\ UNCHANGED buffer
       ELSE buffer' = Inline(Slice(buffer.data, 0, n)) /\ UNCHANGED heap
    /\ UNCHANGED cords

(* Drop for CordBuffer *)
DropBuffer ==
    /\ buffer # NoBuffer
    /\ heap' = IF IsTree(buffer) THEN Delete(heap, buffer.tree) ELSE heap
    /\ buffer' = NoBuffer
    /\ UNCHANGED cords

(* The effect r on x of a method that takes the buffer. *)
ConsumeBuffer(x, r) ==
    /\ buffer # NoBuffer
    /\ Fits(x, CordLen(heap, buffer))
    /\ heap' = r.heap
    /\ cords' = [cords EXCEPT ![x] = r.cord]
    /\ buffer' = NoBuffer

AppendBuffer(x) == ConsumeBuffer(x, AddBufferTo(heap, cords[x], buffer, BACK))

PrependBuffer(x) == ConsumeBuffer(x, AddBufferTo(heap, cords[x], buffer, FRONT))

-----------------------------------------------------------------------------
(* The capacity of an owned buffer of n bytes: exact, or wasteful. *)
Capacities(n) == {n, 2 * n + 2}

Offsets(x) == 0..CordLen(heap, cords[x])

FromBytes(x, s) ==
    /\ Len(s) <= MaxLen
    /\ \/ "from" \in Ops /\ CopyFromSlice(x, s)
       \/ "from_owned" \in Ops /\ \E c \in Capacities(Len(s)) : FromOwned(x, s, c)
       \/ "from_static" \in Ops /\ FromStatic(x, s)
       \/ "from_owner" \in Ops /\ FromOwner(x, s)

AddBytes(x, s) ==
    \/ "append" \in Ops /\ AppendSlice(x, s)
    \/ "prepend" \in Ops /\ PrependSlice(x, s)
    \/ "append_owned" \in Ops /\ \E c \in Capacities(Len(s)) : AppendOwned(x, s, c)
    \/ "prepend_owned" \in Ops /\ \E c \in Capacities(Len(s)) : PrependOwned(x, s, c)

AddCord(x, y) ==
    \/ "append_cord" \in Ops /\ AppendCord(x, y)
    \/ "prepend_cord" \in Ops /\ PrependCord(x, y)
    \/ "append_owned_cord" \in Ops /\ AppendOwnedCord(x, y)
    \/ "prepend_owned_cord" \in Ops /\ PrependOwnedCord(x, y)

Cut(x) ==
    \/ "advance" \in Ops /\ \E n \in Offsets(x) : Advance(x, n)
    \/ "truncate" \in Ops /\ \E n \in Offsets(x) : Truncate(x, n)

Split(x, y) ==
    \/ /\ "slice" \in Ops
       /\ \E i, j \in Offsets(x) : i <= j /\ SliceOf(x, y, i, j - i)
    \/ "split_off" \in Ops /\ \E n \in Offsets(x) : SplitOff(x, y, n)
    \/ "split_to" \in Ops /\ \E n \in Offsets(x) : SplitTo(x, y, n)

UseBuffer(x) ==
    \/ \E c \in BufferSizes, m \in MinCapacities : TakeAppendBuffer(x, c, m)
    \/ AppendBuffer(x)
    \/ PrependBuffer(x)

FillBuffer ==
    \/ \E s \in Slices : PutSlice(s)
    \/ buffer # NoBuffer /\ \E n \in 0..(CordLen(heap, buffer) - 1) : TruncateBuffer(n)
    \/ DropBuffer

Next ==
    /\ UNCHANGED work
    /\ \/ \E x \in Handles :
             \/ \E s \in Slices : FromBytes(x, s) \/ AddBytes(x, s)
             \/ "clear" \in Ops /\ Clear(x)
             \/ Cut(x)
             \/ "make_contiguous" \in Ops /\ MakeContiguous(x)
             \/ "take_append_buffer" \in Ops /\ UseBuffer(x)
             \/ \E y \in Handles \ {x} :
                   \/ "clone" \in Ops /\ CloneFrom(x, y)
                   \/ AddCord(x, y)
                   \/ Split(x, y)
       \/ "take_append_buffer" \in Ops /\ FillBuffer

Spec == Init /\ [][Next]_vars

-----------------------------------------------------------------------------
(* The nodes that the cords and the buffer refer to. *)
RootNodes == ({cords[x].tree : x \in Handles} \cup {buffer.tree}) \ {Null, NoBuffer.tree}

(* References on n: from the program, and from edges of other nodes. *)
References(n) ==
    Cardinality({x \in Handles : cords[x].tree = n}) +
    (IF buffer.tree = n THEN 1 ELSE 0) +
    Cardinality({<<m, i>> \in (DOMAIN heap) \X (1..MaxCapacity) :
                    i \in DOMAIN Children(heap[m]) /\ Children(heap[m])[i] = n})

(* Every reference leads to a node that has not been freed. *)
NoDangling ==
    /\ RootNodes \subseteq Allocated(heap)
    /\ \A n \in DOMAIN heap :
          \A i \in DOMAIN Children(heap[n]) : Children(heap[n])[i] \in Allocated(heap)

(***************************************************************************)
(* No reference dangles, and a node's count is the number of references on *)
(* it and is not zero: each operation consumes, hands back and adds        *)
(* exactly the references its contract says, on every path, so that        *)
(* nothing leaks and nothing is freed early.                               *)
(***************************************************************************)
CountsExact ==
    /\ NoDangling
    /\ \A n \in Allocated(heap) : heap[n].rc = References(n) /\ heap[n].rc > 0

(***************************************************************************)
(* check_valid, and what its callers rely on besides: stored lengths add   *)
(* up, heights step down by one to data edges, no node is empty or over    *)
(* its capacity, a flat's bytes fit, a substring lies within its child.    *)
(***************************************************************************)
NodeValid(n) ==
    LET node == heap[n]
    IN  CASE node.tag = "flat" -> Len(node.data) <= node.cap
          [] node.tag = "external" -> node.data # <<>>
          [] node.tag = "substring" ->
               /\ heap[node.child].tag \in {"flat", "external"}
               /\ node.len > 0
               /\ node.start + node.len <= Len(heap[node.child].data)
          [] node.tag = "btree" ->
               /\ Len(node.edges) \in 1..MaxCapacity
               /\ node.len = LengthUpTo(heap, n, Len(node.edges))
               /\ \A i \in DOMAIN node.edges :
                     /\ Length(heap, node.edges[i]) > 0
                     /\ IF node.height > 0
                        THEN /\ IsBtree(heap, node.edges[i])
                             /\ heap[node.edges[i]].height = node.height - 1
                        ELSE IsDataEdge(heap, node.edges[i])

TreesValid == \A n \in Allocated(heap) : NodeValid(n)

(***************************************************************************)
(* No operation leaves a tree higher than MaxHeight: however single-edge   *)
(* nodes pile up, the rebuild in finalize brings the height down, and its  *)
(* abort is never reached.                                                 *)
(***************************************************************************)
HeightBounded == \A n \in DOMAIN heap : IsBtree(heap, n) => heap[n].height <= MaxHeight

(* The nodes below n, and n. *)
RECURSIVE Reach(_, _)
Reach(h, n) == {n} \cup UNION {Reach(h, Children(h[n])[i]) : i \in DOMAIN Children(h[n])}

(***************************************************************************)
(* A node that two cords can reach is not written, and not freed, by an    *)
(* operation on one of them ("Nodes shared between cords are immutable",   *)
(* the comment that justifies Send and Sync for Cord): only its count      *)
(* changes.                                                                *)
(***************************************************************************)
SharedImmutable ==
    [][\A x, y \in Handles :
          /\ x # y
          /\ IsTree(cords[x])
          /\ IsTree(cords[y]) /\ cords'[y] = cords[y]
          => \A n \in Reach(heap, cords[x].tree) \cap Reach(heap, cords[y].tree) :
                [heap'[n] EXCEPT !.rc = 0] = [heap[n] EXCEPT !.rc = 0]]_vars
=============================================================================
