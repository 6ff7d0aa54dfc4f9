# A TLA+ development of cord-rs

`cord-rs` is a Rust port of Abseil's `Cord`: a byte string kept either inline
(up to 15 bytes) or as a reference-counted, copy-on-write B-tree of chunks, so
that copying, slicing, appending and prepending share memory. This directory
models that machinery in TLA+, model-checks it with TLC and proves parts of it
with TLAPS. Paths below are relative to the repository (`src/src/...` in
`PROJECT.json`).

## 1. Inventory

| Component | State | Operations | Hard part | What makes it correct |
|---|---|---|---|---|
| Reference counts, `src/rep.rs` (`Refcount`, `RepPtr`, `OwnedRep`, `RepRef`, `UniqueRep`) | one `AtomicI32` per node, in units of two | `increment`, `decrement` (load, then `fetch_sub`), `decrement_expect_high_refcount`, `is_one`, `unref`/`destroy`, overflow abort | the only concurrency of the crate: drops, clones through `&Cord`, uniqueness tests and moves of several threads interleave; weak memory ordering | the count is exact, the node is freed once and after every access, "one" means exclusive, the count does not wrap |
| Rep nodes, `src/rep.rs`, `src/rep/flat.rs` | flats (bytes, capacity), externals, substrings (start, length, child), btree nodes | create, share, substring, resize, destroy | who owns which reference on every path; substrings of substrings | counts equal references; a substring lies within its child |
| Flat size classes, `src/rep/flat.rs`, `src/buffer.rs` | a `u8` tag stands for the allocated size | rounding, tag from size, size from tag, block sizing of `CordBuffer` | three resolutions and their boundaries; sizes with and without header | `dealloc` gets the layout `alloc` got; promised capacities are met |
| B-tree, `src/rep/btree.rs` | height, window of edges, stored length per node | `create`, `append`/`prepend` of reps and data, `merge`, `sub_tree`, `remove_suffix`, `get_append_buffer`, `extract_append_buffer`, `rebuild`, `is_flat` | in place if unshared, copy otherwise, decided per node on a path recorded before the change; hand-maintained lengths; folding; height limit | valid trees, bounded height, no reference lost or duplicated, bytes in order |
| Cord, `src/cord.rs`, `src/source.rs` | inline bytes or a root | construction, append, prepend, `clear`, `clone`, `advance`, `truncate`, `slice`, `split_*`, `make_contiguous`, `take_append_buffer`, comparison, search | many cords over shared nodes; copying from a cord whose nodes the destination shares | cords behave as independent byte strings |
| `CordBuffer`, `src/buffer.rs` | inline bytes or an owned flat | fill, truncate, drop, give to a cord | its flat comes out of a cord's tree and goes back into one | no byte lost, the flat is in no cord meanwhile |
| Inline data, `src/inline_data.rs` | 16 bytes, a flag bit | edits in place, conversions, comparison | zeroed tail that word-wise comparison relies on | equal values have equal words |
| External owners, `src/rep/external.rs` | boxed owner, release function | create, borrow, adopt and give back vectors, release | `as_ref` and destructors are user code: they may panic, and a destructor may drop further cords in the middle of tearing down a tree | released exactly once, after the last reference |
| Navigator and reader, `src/rep/navigator.rs`, `src/rep/reader.rs` | stack of (node, index), bytes remaining | next, previous, skip, seek, read | climbing and descending by stored lengths; `read` builds a tree while it walks | positions agree with a walk over the chunks; what is read is a valid tree that holds its own references |
| Iterators and cursor, `src/iter.rs` | chunk, count, reader; for `Chunks` and `Bytes` a second position at the back | `Chunks`, `Bytes`, `Cursor` | both ends meet; skips, seeks, reads and single bytes are mixed | every byte is handed out once and in order |
| Analysis, `src/rep/analysis.rs` | none | memory estimates | | |
| Adapters, `src/io.rs`, `src/bytes_impl.rs`, `src/serde_impl.rs` | `CordWriter` holds a buffer that may contain the cord's tail; `visit_seq` a buffer sized by a hint | `Read`, `BufRead`, `Seek`, `Write`, `Buf`, `BufMut`, serde | buffered bytes on drop, flush and panic; a hint that is wrong | no byte lost or repeated; a wrong hint costs neither memory nor chunks |

A cord calls the btree and the rep functions; these keep the counts; counts are
the only state that threads share and change. `&mut Cord` operations of
different threads touch the same node only when they share it, and then only
its count and (for reading) its immutable fields. `CordRefcount` shows this of
one node, down to the memory orders, and implements `SharedNode`; `CowNodes`
takes such counts as atomic and shows it of whole trees: nobody writes to a
node of a cord that is not being changed. So the tree modules may treat an
operation on a cord as one step. The hazards, each at its line, are listed in
`PROJECT.json`.

## 2. Modules

| Module | Models | Role |
|---|---|---|
| `SharedNode` | what a counted node promises the holders of its references | abstract specification |
| `CordRefcount` | `src/rep.rs`: the count of one node among threads | specification, properties, inductive invariant |
| `CordRefcountProofs` | | its theorems |
| `CowNodes` | `src/rep.rs`, `src/rep/btree.rs`: references, walks, writes and destruction over many nodes and threads | specification |
| `CowNodesProofs` | | its inductive invariant and theorems |
| `FlatSizing` | `src/rep/flat.rs` tags and rounding, `src/buffer.rs` sizing | specification with the real constants |
| `FlatSizingProofs` | | its theorems |
| `CordHeap` | rep nodes and the operators on them | used by `CordBtree` |
| `CordBtree` | `src/rep/btree.rs` | operators heap to heap, one per function |
| `Cord` | `src/cord.rs`, `CordBuffer` | state machine over `CordBtree` |
| `CordSpec` | what the public interface promises | abstract specification: independent byte strings |
| `EdgeList` | what the edge array of a node is to the tree operations | abstract specification |
| `NodeEdges` | `src/rep/btree.rs`: the edge array of one node | specification, one step per slot moved, inductive invariant |
| `NodeEdgesProofs` | | its theorems |
| `Navigator` | `src/rep/navigator.rs`, `src/rep/reader.rs` | operators on positions, over `CordBtree` |
| `CordIter` | `src/iter.rs`, the reading traits of `src/io.rs`, `Cord::get` | state machine over `Navigator` |
| `Reading` | what reading a cord promises | abstract specification |
| `InlineData` | `src/inline_data.rs`, `small_memmove` | specification |
| `InlineDataProofs` | | its theorems |
| `CordSearch` | `src/cord.rs`: comparison, search, hashing | state machine over `InlineData` |
| `CordSearchProofs` | | its theorems, over those of `InlineDataProofs` |
| `ExternalOwner` | `src/rep/external.rs` and the loops that destroy trees | specification |
| `ExternalOwnerProofs` | | its theorems |
| `ByteSinks` | `Extend<u8>`, `CordWriter` | specification |
| `SeqVisitor` | `src/serde_impl.rs`: `visit_seq` | specification |
| `InputProofs` | | the theorems of `ByteSinks` and `SeqVisitor` |
| `MCCord`, `MCCordRefcount`, `MCCowNodes`, `MCFlatSizing`, `MCNodeEdges`, `MCReading`, `MCBytes`, `MCUserCode` | | instances for TLC, refinement mappings |

`CordIter` uses the operators of `CordBtree` and `CordHeap` that `Cord` uses, so
the trees that are read and those that are built are the same. `CordSearch`
takes from `Reading` that a cursor hands out the bytes of a cord chunk by chunk,
and `ByteSinks` takes from `Cord` that `take_append_buffer` moves a tail.

Operators whose comment begins with "Mutant:" are not part of the models. Each
is a definition with a plausible programming error; putting it in place of the
definition that follows makes the property it is listed with in `PROJECT.json`
fail, which is how we know that the property can.

### CordRefcount

One node, any number of threads and references. References are individuals
(`owner`, `lent`), so the stored `rc` can be compared with the references that
exist. A step is one atomic access, so `decrement` is `DecrementLoad` followed
by `DecrementSub`, and `increment`'s abort is a later step (`Abort`).
`OwnedRep::try_unique` is `IsOne`; the exclusive borrow lasts until `EndUnique`,
or `Consume` where the btree code dismantles a unique node without touching the
count. `Send` and `Lend`/`EndLend` are what `unsafe impl Send` and `Sync` allow:
moving a cord, and sharing `&Cord` through which another thread may read and
clone.

Memory ordering is in the state. `unseen[t]` is the set of plain accesses that
do not happen before `t`'s next step; `unseenMsg` the set that reading the latest
count would not make visible; `stale[t]` the outdated values a load of `t` may
still return. Acquire, release and relaxed accesses act on them as the header
of the module says. This is coarser than the C++ model in the safe direction: a
load of an outdated value synchronises with nothing. The edges that `Send`,
`Lend` and `EndLend` add come from whatever safe Rust uses to hand a value over
(a channel, a scope's join), which always synchronises.

The `immortal` bit is left out: no code of the crate sets it. The count is in
references; the code's `i32` counts in twos, hence `Wrap` = 2^30.

`SharedNode` is the same node without count, atomics or memory orders: who can
reach which reference, who has exclusive access, and whether the node is gone.
The mapping (`Holders`, `Writer`) takes a reference to its owner and those it is
lent to, and exclusive access to the thread between `IsOne` and `EndUnique`. A
reference is given up at the `fetch_sub`, or at the load that saw the last one.

### CowNodes

Many nodes, each with a count, edges and contents, and any number of `Hands`:
the owned references outside nodes, which are the roots of cords and the locals
in which a call keeps a reference. Every place that holds a reference, a hand
or a slot of a node, is an individual, so counts can be compared with
references. A step is one increment, one decrement, one look at a count, or one
write to a node, and the steps of all hands interleave.

- A call that changes a cord is `BeginWrite`, then `Descend` along edges.
  `stack`, `depth` and `share` are `StackOperations`: the raw pointers from the
  root and `share_depth`, the number of nodes at the top that `ref_is_one` found
  unshared. `LookAgain` is the extra test with which `build_stack` ends. A
  reader's walk (`BeginRead`) has no share, and clones may be taken from its cord
  meanwhile; `&mut` forbids that while a cord is written.
- A write in place (`SetEdge`, `WriteData`) needs a level up to `share`, and uses
  the answer of a look that may be many steps old. `SetEdge` exchanges a slot
  with a hand, which covers adding, removing and replacing an edge; the part of
  the walk below is given up, and walked again with new looks where the code
  goes on below. Giving up an edge in place is `SetEdge` and `Unref`. A shared
  node is copied by `New`, `RefEdge` for each edge, and `SetEdge`.
- Who drops the last reference makes the node `dying` and goes on to destroy it:
  `UnrefEdge` for each edge, then `Delete`, or for a substring, which the code
  frees before its child, `TakeChild`, `Delete` and `Unref`.
- `Height` is the place of a node in the order in which edges may point: flats
  and externals at the bottom, substrings over them, then the levels of the
  btree. That a walk ends, and that the stack is long enough, rests on it.

What a call is for is left out: any sequence of such steps is allowed, so what
holds here holds for every operation that keeps to them. One place does not:
the direct `delete` of nodes off the checked path in `extract_append_buffer`,
which is the first finding of section 5, has no step here.

### FlatSizing

The real constants of a 64-bit target (4096-byte default flats, 64 KiB blocks,
256 KiB largest flat). The state is one allocation: how it was asked for, the
bytes allocated, the tag, and what `dealloc` was told.

### CordHeap, CordBtree, Cord

The heap is a sequence of slots; a node is an index; a freed slot is `Free`.
Every function of the code that changes nodes is an operator from heap to heap
that consumes and returns references the way the function's safety comment
says. Reference counts are stored in the nodes and updated as the code does, so
leaks and early frees are visible. Abstractions:

- the window `[begin, end)` into the fixed edge array is the sequence `edges`;
  that the array behaves as a sequence is what `NodeEdges` shows;
- a flat's capacity is the least of `FlatSizes` that is enough, or the largest
  (`FlatCapacity`); that the real size classes behave so is `LeastClass` of
  `FlatSizing`, model-checked and proved;
- `MAX_CAPACITY` (6), `MAX_HEIGHT` (11), `MAX_INLINE` (15), `MAX_BYTES_TO_COPY`
  (511) and the growth divisor are constants, given small values so that full
  nodes, splits, rebuilds and sharing happen within a few operations;
- owned buffers come with an exact and with a wasteful capacity, the two sides
  of the test in `rep_from_owned`;
- `work` is the program: the operations it calls (`Ops`), the byte strings it
  passes to them (`Slices`) and a bound on its cords (`MaxLen`), chosen once
  among the run's `Workloads`;
- a read of bytes that were never written yields `Garbage`, which differs from
  every byte of an input, so an error there shows as a wrong value;
- `MaxLen` bounds cords. It also stands where the code would panic on a length
  that overflows `usize`, before anything is changed.

The `Cord` actions are the public methods; `FromBytes`, `AddBytes`, `AddCord`,
`Cut`, `Split`, `UseBuffer`, `FillBuffer` only group them. `x` and `y` are
different variables where the borrow checker demands it.

### CordSpec and the refinement

`CordSpec` has one variable `val`, the bytes of each cord, and `pending`, those
of the buffer. `MCCord` maps a cord to the bytes that a walk over its tree
yields, and `ValueSemantics` says every step of `Cord` is a step of
`CordSpec` under that mapping: the right bytes for the cords an operation is
given and no change to any other, whatever they share. TLC evaluates the
mapping through the variables `val` and `pending`, which are functions of the
state. `Canonical` is the view by which TLC identifies states: it numbers the
nodes in the order a walk meets them and counts the allocated ones, because
which free slot an allocation gets is not observable, and takes states that
differ by a permutation of the handles for one, because no operation tells one
variable from another.

### NodeEdges

One node's array, `begin` and `end`, and the locals of the call that is under
way; a step is one iteration of `align_begin`, `align_end` or of the loop of
`add_data_to_leaf`, or a whole call that has no loop. The slots outside the
window keep what they last held, as in the code. `want` is a history variable:
the list of edges the node's callers asked for. `Edges` are model values: an
edge's identity is all that the array has to preserve.

`EdgeList` is the list that the tree modules work with: cut at either end, with
the outermost edge replaced or not, or extended at either end. The mapping
(`Content`, `SlotOf`) reads the list off the array in every state, also in the
middle of an alignment, where an edge is at its new slot or still `delta` slots
away. So the moves of an alignment are stutters of the list, and the call takes
effect at its last write.

### Navigator, CordIter and Reading

A byte of the cord is its position, so a wrong offset shows as a wrong value. A
navigator is the node and the index on every level, as in the code; positions
are values, and `next`, `skip` and so on return new ones. The code descends in
loops that are shared by several methods; `DescendFrom` is that loop. `read`
keeps the code's construction: the subtree grows while the walk climbs, is
wrapped where a level is exhausted, and what is taken below an edge goes into a
node of its own. `CordIter` has one action per method; `it` is the iterator with
all its fields. `leaf_offset` (`off`) matters to a cord without a btree only.
Calls that panic on their arguments (`advance` and `read_cord` beyond the end)
have these arguments excluded by their guards. `get_byte` of a btree node, which
`byte_ref` inlines, is the same descent.

`Reading` has the bytes of the cord, those still to be handed out, and the last
call with its result. `MCReading` maps a position to the bytes to come (`Rest`),
found from the chunk it is on and its count.

### InlineData and CordSearch

`InlineData` keeps the control byte and the tail as separate fields; a word has
`Word` bytes and the tail one less than two words, so that the two words that
`compare` loads overlap in one byte as in the code. `small_memmove` is modelled
by the pieces it copies and clears; `MemmoveExact`, which TLC evaluates with the
other assumptions, is its specification at the real width. The bits of a
pointer occupy the last place of the tail, the padding is zero.

In `CordSearch` an operand is a byte string, the set of offsets at which it is
cut, and how it is stored (inline, tree, or a slice). A step is one round of the
outermost loop. Whether two trees are the same allocation is open unless they
differ, so both outcomes of the identity test are explored. `memchr` and
`memmem` are external: they return the first match.

### ExternalOwner, ByteSinks and SeqVisitor

User code that runs inside the library's. In `ExternalOwner` an owner is with
the program, guarded while its `as_ref` runs, in its node, or dropped; `loops`
is the stack of destroy loops, because a destructor may drop another cord. A
panic cuts the loops around it short: the references they had still to give up
are counted in `lost`. They leak, which is safe, and `OwnersKept` says that
nothing else does. Trees are leaves of externals, of up to `MaxEdges` edges;
deeper ones are destroyed by the same loop. References are counted as the
cardinality of the set of places that hold one (`Occurrences`, `OccurrencesIn`).

In `ByteSinks` a cord is its bytes, and `take_append_buffer` moves any number of
its last bytes to a buffer with any spare capacity of `Rooms`. The bytes handed
over are numbered, so that order, loss and repetition show. If the iterator
given to `CordBuffer::extend` panics, the bytes it had yielded in that call are
not in the buffer, because the code sets the length last (`BufferNextPanics`);
what lies past the length in the meantime is `spare`. Nothing in the repository
says otherwise, so `BytesKept` counts the bytes of such a call as handed over
when it ends, those of `Extend` for `Cord` as soon as they are consumed.

`SeqVisitor` reads elements one by one into a buffer; the hint is any number.
Size classes are a small set, like `FlatSizes`.

## 3. Runs

| Run | Checks | Bounds, and what happens within them |
|---|---|---|
| `Refcount` | `RefcountExact`, `NoUseAfterFree`, `UniqueIsExclusive`, `DestroyIsExclusive`, `NeverWraps`, `SharedNodeKept`, `NoLeak` | 2 threads, 5 references, limit 2, width 5: drops, clones through a borrow and uniqueness tests interleave, with stale loads; both threads are past the limit before either aborts |
| `CowNodes` | `RefsCounted`, `WalksHold`, `NothingLeaks`, `CordsIsolated` | 3 hands; 4 nodes (a flat, two leaves, a root) with one slot each: cords share a root, a leaf or the flat, one copies the leaf while another reads, drops or writes; a count seen as one by a writer and changed by others |
| `CordCalls` | `CountsExact` (`NoDangling` included), `TreesValid`, `SharedImmutable`, `ValueSemantics` | 2 cords up to 4 or 5 bytes in 2-byte flats, 2 edges per node, height limit 1; three workloads: `AppendWork` (bytes, borrowed and owned cords, `clear`, `truncate`), `PrependWork` (the same at the front, `advance`), `SplitWork` (`slice`, `split_off`, `split_to` at every offset) |
| `CordSharing` | `CountsExact`, `ValueSemantics` | 3-byte flats; `OwnedWork` and `OwnedFrontWork` (externals, static data, adopted buffers, substrings of substrings, flattening, cords up to 7 bytes), `BufferWork` (the life of an append buffer) |
| `CordDeep` | `TreesValid`, `HeightBounded`, `ValueSemantics` | one-byte flats, height limit 2: appends in bulk and slices of trees at the limit, rebuilds |
| `NodeEdges` | `WindowIntact`, `WritesInBounds`, `EdgeListKept`, `CallsReturn` | 3 slots, 3 edges: every content of the array, every window, every sequence of calls |
| `Reading` | `ChunkAtPosition`, `ReadsCounted`, `ReadTreesValid`, `ReadsInOrder` | leaves of one and two chunks of 1 to 3 bytes, all trees of height 1 over these, 16 of height 2, single flats, externals, substrings, inline and empty cords; every call at every position with every argument |
| `Bytes` | `InlineFaithful`, `WordsDecide`, `LayoutMatches`, `LeastClass`, `BlockRespected`, `SearchAnswers`, `EverySearchEnds` | inline values of 3 bytes (2-byte words), two of them; flats requested around every boundary of classes and blocks, with all legal block sizes up to 64 KiB and three beyond, which the code caps; every method on all operands of up to 3 bytes however cut and stored, `find` in all cords up to 6 bytes of needles up to 3 |
| `UserCode` | `OwnersKept`, `BytesKept`, `SequenceKept` | 3 owners, 2 leaves, 3 variables; buffers of up to 4 bytes and 6 bytes written; sequences up to 16 elements with all hints up to 12 and none, chunks of 5 |
| `CordExtract` | `NoDangling`, violated | see the findings |
| `FlatSizingDoc` | `SmallRequestsLikeDefault`, violated | see the findings |
| `SeqVisitorDoc` | `ChunkedLikeFrom`, violated | see the findings |

`MCBytes` and `MCUserCode` put several small specifications side by side: a
behaviour is about one of them (`part`, `about`), the others stand still.

Why the bounds are enough. With two edges per node and heights of one or two,
full and non-full nodes on each level, owned and shared parts of a path, and
folding to a leaf, to one edge or to nothing all happen within a few calls.
Two cords suffice for sharing, because a count only tells one from more than
one. What the bounds leave out are nodes with inner edges that are neither the
first nor the last: the code handles them in loops over whole ranges of edges.
For the edge array three slots give every overlap of source and destination,
and the theorems cover all capacities. A search compares bytes for equality
only, and its cases differ by where a match lies relative to two cuts, for which
six bytes are enough. For the reference count two
threads and three references interleave every pair of operations; more of either
is the theorems' part. In `CowNodes` one slot per node is enough for two parents
to share a child and for the path of a walk to be shared at any level; nodes
with several edges, more hands and more levels are the theorems' part too.

Views and symmetry. `Canonical` (above) and `Position` (what the last call
returned, and `leaf_offset` of a position in a btree, do not influence what
follows) are used with invariants and properties of steps only, which TLC
evaluates on every step it generates. `UserCode` uses symmetry under
permutations of owners of one kind, leaves and variables, `CowNodes` under
permutations of hands and of the two leaves, which have the same height; they
check invariants and properties of single steps only.

Deadlock checking is off in all runs but `NodeEdges` and `CowNodes`: programs may stop calling
operations, a node's life ends with its free, an allocation's with `delete`, an
iteration at the end of the cord.

Fairness. `CordRefcount` (`FairSpec`): weak fairness of a thread's
`DecrementSub` and `Destroy`. Neither waits for anything, so a
thread that the scheduler runs completes them. Starting a drop is the program's
choice and has no fairness: a program that keeps its references keeps the node.
`NodeEdges`: weak fairness of `Resume`, the next iteration of a loop that has
begun. `Bytes`: weak fairness of the next round of a search. Both are
sequential code that waits for nothing.

## 4. Theorems

All hold for every value of the constants under the assumptions named in the
modules.

`CordRefcountProofs` (any finite sets of threads and references, `Limit` plus
the number of threads below `Wrap`, which is 2^30 against 715827882):

- `Invariance`: `Spec => []IInv`; from it `TypeCorrect`, `CountIsExact`,
  `NoReferenceDangles`, `UniquenessIsStable`, `DestructionIsOrdered`,
  `ReadsDoNotRace`, `CountFitsWidth`.

`ReadsDoNotRace` (`ReadsAreOrdered`, a part of `IInv`) rests on the hand-over of
references between threads, which safe Rust orders (`Send`, `Lend`), and not on
the orderings of `src/rep.rs`; those are what `DestroyIsExclusive` and
`UniqueIsExclusive` need.

The properties by themselves are not inductive. `IInv` adds: `LendingInv` and
`OperationInv` (a thread within an operation owns an unlent reference, so
nobody else can be its holder); `StaleInv` (some holder of each reference can no
longer load an outdated "one", so a load of one by an owner that has lent to
nobody is the latest value); `SelfInv` and `ViewInv` (an access that the latest
count does not carry is in view of a remaining holder: this is what makes the
last dropper, and the thread that finds the count at one, see everything); and
`WidthInv` (each reference beyond the limit is due to a thread that is about to
abort). Each action has a lemma `...Preserves`; those of `DecrementSub` and
`DecrementExpectHigh` share `FetchSubPreserves`.

- `CountImplementsSharing`: `Spec` implements `SharedNode` (`SharedNodeKept`),
  and `FreedIsFinal` (`QuietAfterFree`): no thread takes a step on a freed node.

Each action maps to a step of `SharedNode` or to a stutter. Where the abstract
step has a guard that the code cannot see, `IInv` supplies it: that a thread
which read one is the sole holder of the sole reference, that a thread which
subtracts or frees does so while nobody has exclusive access.

`CowNodesProofs` (any finite sets of hands, nodes and slots, any heights below
`MaxDepth`): `CowInvariance`, and from it `RefsAreCounted`, `WalksAreSafe`,
`NothingIsLost` and, of the steps, `CordsAreIsolated`. None of the properties is
inductive by itself. `CowInv` says of the memory (`Memory`) that counts are the
numbers of references, that edges lead down and that a freed node has none; and
of every hand (`Walk`) that its stack leads from its root along edges, ever
lower, and that the levels up to `share` have count one. The argument:

- a node with count one that is reached from a known place has no other
  reference (`OwnedOnce`), so of the nodes a call owns none is on the stack of
  anybody else (`OwnedAlone`): take the top-most level at which one is; it has
  only one place that refers to it, hence the same parent is on both stacks a
  level higher, or both are the same hand. This is what lets an answer of
  `ref_is_one` be used after any number of steps of others: nobody else can
  reach the node to clone it;
- a step that writes to a node therefore does not disturb any other walk; one
  that gives up a reference lets only such nodes die that had one reference,
  which no walk passes;
- isolation needs no induction over trees: a node is in a cord's tree if every
  set that is closed under edges and holds the root holds it. So a node is shown
  to be outside by a closed set without it: all nodes but the owned part of the
  path, for a write; the live nodes, for destruction and allocation; the live
  nodes but one, for the node whose last reference goes (`TreeNotOwned`,
  `TreeLives`, `TreeLastRef`);
- nothing leaks, because the highest live node outside such a set would have a
  reference, by its count, from a hand, from a node under destruction, or from a
  live node higher up.

That `extract_append_buffer` breaks `NoDangling` is not at odds with these
theorems: it frees a node without having found its count to be one.

`FlatSizingProofs` (any set of requests; block sizes any powers of two above
the header, and beyond 64 KiB any numbers, since those are all capped alike):
`LayoutIsRecovered`, `ClassIsLeast` and `BlockIsRespected`, by cases on the
three resolutions of the tag. The lemma `SizingInvariance` is bookkeeping: it
says which request the size and the tag in the state come from. What the sizing
functions make of a request is in the lemmas about `RoundUpForTag`, `NewSize`
and `BlockFor`.

`NodeEdgesProofs` (any capacity of at least two, any set of edges):
`InvariantHolds`, and from it `WindowStaysIntact`, `AlignmentLosesNothing`,
`ArrayBoundsHold` and `ArrayImplementsList` (`EdgeListKept`). That the window is intact between calls is not inductive: in
the middle of an alignment the window has moved and the edges have not.
`HalfBegin` and `HalfEnd` say which edges a loop has moved and that the others
are still `delta` slots away; the ascending loop never overwrites one of those
because it writes below them, the descending one because it writes above.
`RoomForTodo` carries the room that the caller checked across the alignment, for
the bounds of the writes that follow. One lemma per action shows that it
preserves `IInv`; `WriteAligned` is shared by the three ways to write. For the
refinement, an iteration of an alignment leaves `Content` as it is, by
`HalfBegin` and `HalfEnd`, and every other action is the step of `EdgeList` that
its caller meant.

`InputProofs`, of `ByteSinks` (any `ChunkSize`, any positive `Rooms`, any bytes to begin
with): `SinkInvariance` and `NoByteIsLost`, which is `BytesKept`. `BytesKept`
speaks of the cord after a call and is not inductive; `SinkInv` says of every
state that the cord's bytes followed by those within the buffer's length are those handed over, and
that the buffer is empty between calls. `HoldsBytes` carries that through
`flush`, `take_append_buffer` and the writes.

`InlineDataProofs` (any slots, inputs and pointers; words of 2, 4, 6 or 8 bytes):
`InlineInvariance`, `InlineStaysFaithful` (`InlineFaithful`) and `RawWordsDecide`
(`WordsDecide`). The assumption on `Word` is the code's: `small_memmove` copies
two words or two half words that overlap, or three single bytes, which cover
what is shorter than half a word only if a word has at most eight bytes.
`Represents` says that
a slot has the bytes in front and zeros behind them; `EndsAt` and its
consequences show that two overlapping pieces write exactly the bytes between
their outer ends. That the words decide is then shown at the first place where
two values differ: the weight of that byte in its word outweighs all the later
ones.

`CordSearchProofs` (any operands, any division into chunks, any positive
`Block`): `SearchInvariance` and `AnswersAreFlat` (`SearchAnswers`). `SearchInv`
says in each stage what is known at the cursor: the bytes compared so far are
the same (`InPrefix`), no match begins before the cursor (`Scanning`), the first
chunk of the needle is at the cursor (`AtFirst`), and the hasher was given all
whole blocks up to it (`Hashing`).

`InputProofs`, of `SeqVisitor` (any size classes of which one is the largest, any hints):
`VisitInvariance` and `SequenceIsKept` (`SequenceKept`). `FillInv` says which
buffers may still be committed: one that is smaller than the largest is the
first, or has room for all that the hint still promises, and once a short chunk
is in the tree the hint is used up and buffers are the largest. So there is
never a second short chunk ahead of the last one.

`ExternalOwnerProofs` (any finite sets of owners, leaves and variables, any
`MaxEdges`): `OwnerInvariance`, `OwnersAreKept` (`OwnersKept`) and, of the steps,
`OwnersReleasedOnce`: a dropped owner is never dropped again or revived, and one
leaves its node only by its destructor or by `into_global_vec`. The counts alone
are not inductive. `OwnerInv` adds where an owner is, told by its count and
the guard (`PlacesKept`); that only owners in the library hold cords
(`InnerKept`); that a leaf under destruction has count zero, so that its edges
are the loop's and not the leaf's (`LoopsKept`); that the variable `as_ref`'s
cord is for stays free (`GuardFree`); and that only a panic loses references
(`LostKept`). `Changes` lists by how much a step changes each of the six parts
of a count; `CountStep` concludes that the count stays exact, and every action
has one lemma. The two ways in which `append_cord` allocates share
`AppendNewLeaf`, and the two ways in which an owner is dropped share
`DestructorIs`: the loops and the lost references together change by what the
owner held, whether a panic cuts the loops or not.

Induction over data (the first difference of two strings, the first chunk that
breaks a pattern, the value of a recursive function) is done by taking the least
counterexample: a non-empty set of natural numbers has a least element
(`NatLeast`, `LeastNumber`). The inductive invariants were model-checked
on the instances of the runs before they were proved; the configurations do not
repeat them.

Only model-checked: liveness (`NoLeak`, `CallsReturn`,
`EverySearchEnds`), which is out of the prover's reach; and everything about
`Cord`, `CordBtree`, `CordHeap`, `Navigator` and `CordIter` (`CountsExact`,
`TreesValid`, `HeightBounded`, `SharedImmutable`, `ChunkAtPosition`,
`ReadsCounted`, `ReadTreesValid`), whose definitions recurse over trees by
RECURSIVE operators, the refinements of `CordSpec` and `Reading` included. Of
these, what copy-on-write rests on (counts, sharing, no leaks) is proved in
`CowNodes` for operations made of its steps; that the operations of `CordBtree`
are made of such steps is by comparison with the code, and that they produce the
right trees is for TLC.

## 5. Findings

- `CordRepBtree::extract_append_buffer` (`src/rep/btree.rs:2366`) ends with a
  loop that frees single-edge nodes from the root down. Only the right-most
  path was checked for being unshared; once its last edge is gone, the loop
  goes down the remaining one. If that is a single-edge node another cord
  refers to, it is freed although its count is two. `CordExtract` shows the
  sequence of calls. `BufferWork` of `CordSharing`, which checks that the rest of
  the buffer's life is right, has no `append_cord` and cords too short for such a
  tree.
- `CordBuffer::with_capacity_and_block_size` says that up to
  `DEFAULT_MAX_CAPACITY` it "behaves like with_capacity" (`src/buffer.rs:369`).
  `FlatSizingDoc` shows that it does not: a request that fills the block gets
  only the block, and a short request gets a flat rather than an inline buffer.
- `Deserialize for Cord` says that "whatever length hint a `visit_seq` array
  reports - absent, honest, or wrong - the result has the same chunking as
  `Cord::from`" (`src/serde_impl.rs:204`). `SeqVisitorDoc` shows that a hint that
  is too low and ends a little beyond a full chunk leaves a short chunk in the
  middle. `SequenceKept` shows that there is at most one.

## 6. Not modelled, and the plan

Not modelled, because it only reads and has no state of its own: `analysis` and
`estimated_memory_usage` (in part floating point), `Debug`, `dump` and
`check_valid` (its conditions are `TreesValid` and `HeightBounded`). The crate
root re-exports. Adapters that call one modelled operation each (`Write`, `Buf`
and `Extend` of sources for `Cord`, conversions, `Serialize`) have no action of
their own. Of `CordBuffer`, `clone` and the comparisons copy or read the buffer's
own bytes.

Left open:

1. A step by step refinement of `CowNodes` by the operators of `CordBtree`, for
   which these would have to be written without recursion.
2. What steps may never do in the other modules whose invariants are proved, as
   `OwnersReleasedOnce` does for owners and `CordsAreIsolated` for trees.
