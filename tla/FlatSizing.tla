----------------------------- MODULE FlatSizing -----------------------------
(***************************************************************************)
(* The size classes of flat nodes (src/src/rep/flat.rs) and the sizes that *)
(* CordBuffer asks for (src/src/buffer.rs).                                *)
(*                                                                         *)
(* A flat does not store how many bytes it was allocated with: its tag, a  *)
(* u8, encodes that, its capacity is read off the tag, and so is the       *)
(* layout that delete hands back to the allocator.  The state is one       *)
(* allocation and the tag written into it.  The values are those of a      *)
(* 64-bit target.                                                          *)
(***************************************************************************)
EXTENDS Integers

CONSTANTS
    Requests,    \* the lengths and capacities the program asks for
    BlockSizes   \* the block sizes it asks for

(* The powers of two that a request, capped at MaxBlockSize, can meet. *)
PowersOfTwo == {1, 2, 4, 8, 16, 32, 64, 128, 256, 512, 1024, 2048, 4096, 8192, 16384,
                32768, 65536}

FLAT == 6
MaxFlatTag == 248
FlatOverhead == 13
MinFlatSize == 32
MaxFlatSize == 4096
MinFlatLength == MinFlatSize - FlatOverhead
MaxFlatLength == MaxFlatSize - FlatOverhead
MaxLargeFlatSize == 262144
TagBase == FLAT - 4

InlineCapacity == 15
MaxPageSlop == 128
DefaultMaxCapacity == MaxFlatLength
MaxBlockSize == 65536

(***************************************************************************)
(* with_capacity_and_block_size panics on a block size that is no power of *)
(* two or does not exceed the header.  Those beyond the cap are all capped *)
(* alike, so the assumption need not tell powers of two from others there. *)
(***************************************************************************)
ASSUME SizingAssumption ==
    /\ Requests \subseteq Nat
    /\ BlockSizes \subseteq {b \in Nat : b > FlatOverhead}
    /\ \A b \in BlockSizes : b <= MaxBlockSize => b \in PowersOfTwo

Lesser(a, b) == IF a <= b THEN a ELSE b

-----------------------------------------------------------------------------
(* Mutant: the coarse range starts one class too early. *)
AllocatedSizeToTagEarly(size) ==
    CASE size <= 512                 -> TagBase + size \div 8
      [] size > 512 /\ size < 8192   -> TagBase + 64 + size \div 64 - 8
      [] size >= 8192                -> TagBase + 184 + size \div 4096 - 1

(* allocated_size_to_tag, before small_u8 *)
AllocatedSizeToTag(size) ==
    CASE size <= 512                 -> TagBase + size \div 8
      [] size > 512 /\ size <= 8192  -> TagBase + 64 + size \div 64 - 8
      [] size > 8192                 -> TagBase + 184 + size \div 4096 - 2

TagToAllocatedSize(tag) ==
    CASE tag <= TagBase + 64                          -> 8 * (tag - TagBase)
      [] tag > TagBase + 64 /\ tag <= TagBase + 184   -> 512 + 64 * (tag - TagBase - 64)
      [] tag > TagBase + 184                          -> 8192 + 4096 * (tag - TagBase - 184)

TagToLength(tag) == TagToAllocatedSize(tag) - FlatOverhead

(* Mutant: sizes up to 1024 are rounded like larger ones. *)
RoundUpForTagCoarse(size) ==
    CASE size <= 8192 -> 64 * ((size + 63) \div 64)
      [] size > 8192  -> 4096 * ((size + 4095) \div 4096)

RoundUpForTag(size) ==
    CASE size <= 512                -> 8 * ((size + 7) \div 8)
      [] size > 512 /\ size <= 8192 -> 64 * ((size + 63) \div 64)
      [] size > 8192                -> 4096 * ((size + 4095) \div 4096)

(* new_impl: the bytes to allocate for a payload of len. *)
NewSize(len, maxSize) ==
    CASE len <= MinFlatLength -> RoundUpForTag(MinFlatSize)
      [] len > MinFlatLength /\ len <= maxSize - FlatOverhead ->
           RoundUpForTag(len + FlatOverhead)
      [] len > MinFlatLength /\ len > maxSize - FlatOverhead -> RoundUpForTag(maxSize)

(* usize::next_power_of_two, and 1 << ilog2 *)
NextPowerOfTwo(n) ==
    CHOOSE p \in PowersOfTwo : p >= n /\ \A q \in PowersOfTwo : q >= n => p <= q

PowerOfTwoBelow(n) ==
    CHOOSE p \in PowersOfTwo : p <= n /\ \A q \in PowersOfTwo : q <= n => q <= p

(* A block that neither fills `block' nor is small: a power of two near n. *)
FitBlock(n) ==
    LET slop == NextPowerOfTwo(n) - n
        good == slop >= FlatOverhead /\ slop <= MaxPageSlop + FlatOverhead
    IN  CASE n \in PowersOfTwo             -> n
          [] n \notin PowersOfTwo /\ good  -> NextPowerOfTwo(n)
          [] n \notin PowersOfTwo /\ ~good -> PowerOfTwoBelow(n)

(* A request or a block size, at most MAX_BLOCK_SIZE. *)
Capped(n) == Lesser(n, MaxBlockSize)

(* Mutant: a block size beyond the cap is taken as it is. *)
BlockForUncapped(request, block) ==
    LET n == Capped(request)
    IN  CASE n + FlatOverhead >= block -> block
          [] n + FlatOverhead < block /\ n <= DefaultMaxCapacity -> n + FlatOverhead
          [] n + FlatOverhead < block /\ n > DefaultMaxCapacity  -> FitBlock(n)

(* with_capacity_and_block_size: the bytes to allocate, header included. *)
BlockFor(request, block) ==
    LET n == Capped(request)
        b == Capped(block)
    IN  CASE n + FlatOverhead >= b -> b
          [] n + FlatOverhead < b /\ n <= DefaultMaxCapacity -> n + FlatOverhead
          [] n + FlatOverhead < b /\ n > DefaultMaxCapacity  -> FitBlock(n)

MaxCapacityFor(block) ==
    LET payload == Capped(block) - FlatOverhead
    IN  IF payload < MinFlatLength THEN MinFlatLength ELSE payload

-----------------------------------------------------------------------------
VARIABLES
    made,     \* how the buffer was asked for, "none" if there is none
    request,  \* the length or capacity asked for
    block,    \* the block size asked for
    size,     \* the bytes the allocator was asked for, 0 if none
    tag,      \* the tag in the header
    freed     \* the bytes that dealloc was told, 0 if it was not called

sizingVars == <<made, request, block, size, tag, freed>>

SizingInit == made = "none" /\ request = 0 /\ block = 0 /\ size = 0 /\ tag = 0 /\ freed = 0

(* The flat that flat::new or flat::new_large makes for a payload of len. *)
Allocate(len, maxSize) ==
    /\ size' = NewSize(len, maxSize)
    /\ tag' = AllocatedSizeToTag(NewSize(len, maxSize))
    /\ freed' = 0

(* flat::new *)
NewFlat(n) ==
    /\ made = "none"
    /\ made' = "flat" /\ request' = n /\ block' = 0
    /\ Allocate(n, MaxFlatSize)

(* CordBuffer::with_capacity *)
WithCapacity(n) ==
    /\ made = "none"
    /\ made' = "buffer" /\ request' = n /\ block' = 0
    /\ IF n > InlineCapacity THEN Allocate(n, MaxFlatSize)
       ELSE size' = 0 /\ tag' = 0 /\ freed' = 0

WithCapacityAndBlockSize(n, b) ==
    /\ made = "none"
    /\ made' = "block" /\ request' = n /\ block' = b
    /\ Allocate(BlockFor(n, b) - FlatOverhead, MaxLargeFlatSize)

(* flat::delete, by the buffer or by whoever adopted its flat *)
Delete ==
    /\ size # 0 /\ freed = 0
    /\ freed' = TagToAllocatedSize(tag)
    /\ UNCHANGED <<made, request, block, size, tag>>

SizingNext ==
    \/ \E n \in Requests : NewFlat(n) \/ WithCapacity(n)
    \/ \E n \in Requests, b \in BlockSizes : WithCapacityAndBlockSize(n, b)
    \/ Delete

SizingSpec == SizingInit /\ [][SizingNext]_sizingVars

(* CordBuffer::capacity *)
Capacity == IF size = 0 THEN InlineCapacity ELSE TagToLength(tag)

-----------------------------------------------------------------------------
(* The tag fits the range that means "flat", so the node is taken for no   *)
(* other kind, and dealloc is told exactly the bytes alloc was asked for,  *)
(* although the size is stored nowhere (flat.rs: new_impl, delete).        *)
LayoutMatches ==
    /\ size # 0 => FLAT <= tag /\ tag <= MaxFlatTag /\ TagToAllocatedSize(tag) = size
    /\ freed # 0 => freed = size

(* The sizes a tag can express. *)
SizeClasses == {TagToAllocatedSize(t) : t \in FLAT..MaxFlatTag}

(* flat::new gives the least class that holds the request, or the largest  *)
(* default one, and with_capacity keeps its promise of                     *)
(* min(DEFAULT_MAX_CAPACITY, capacity) bytes.                              *)
LeastClass ==
    made \in {"flat", "buffer"} =>
        /\ Capacity >= Lesser(request, DefaultMaxCapacity)
        /\ size # 0 =>
             \A s \in SizeClasses :
                (s - FlatOverhead >= Lesser(request, DefaultMaxCapacity)) => s >= size

(* A buffer made for a block size, capped at 64 KiB, never exceeds         *)
(* max_capacity_for, reaches it for a request that fills the block, meets  *)
(* a small request that fits in full and wastes less than half of any      *)
(* other (buffer.rs: with_capacity_and_block_size).                        *)
BlockRespected ==
    made = "block" =>
        /\ Capacity <= MaxCapacityFor(block)
        /\ (request + FlatOverhead >= Capped(block)) => Capacity = MaxCapacityFor(block)
        /\ (request + FlatOverhead < Capped(block) /\ request <= DefaultMaxCapacity) =>
              Capacity >= request
        /\ 2 * size > Lesser(request, Capped(block))

(***************************************************************************)
(* The inductive invariant: size and tag are what the code computes from   *)
(* the request.                                                            *)
(***************************************************************************)
SizingInv ==
    /\ made \in {"none", "flat", "buffer", "block"}
    /\ request \in Nat
    /\ freed = 0 \/ (size # 0 /\ freed = TagToAllocatedSize(tag))
    /\ size # 0 => tag = AllocatedSizeToTag(size)
    /\ made = "none" => size = 0
    /\ made = "flat" => size = NewSize(request, MaxFlatSize)
    /\ made = "buffer" => IF request > InlineCapacity
                          THEN size = NewSize(request, MaxFlatSize) ELSE size = 0
    /\ made = "block" =>
          /\ block \in BlockSizes
          /\ size = NewSize(BlockFor(request, block) - FlatOverhead, MaxLargeFlatSize)

(* "If `capacity <= DEFAULT_MAX_CAPACITY` this behaves like with_capacity" *)
(* (the documentation of with_capacity_and_block_size, buffer.rs).         *)
SmallRequestsLikeDefault ==
    (made = "block" /\ request <= DefaultMaxCapacity) =>
        Capacity = IF request <= InlineCapacity THEN InlineCapacity
                   ELSE TagToLength(AllocatedSizeToTag(NewSize(request, MaxFlatSize)))
=============================================================================
