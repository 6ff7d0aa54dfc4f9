-------------------------- MODULE FlatSizingProofs --------------------------
(***************************************************************************)
(* Proofs about FlatSizing for every request and block size.               *)
(***************************************************************************)
EXTENDS FlatSizing, TLAPS

(* A size that new_impl may round up: what it clamps a length to, plus the *)
(* header.                                                                 *)
Roundable(s) == s \in Nat /\ MinFlatSize <= s /\ s <= MaxLargeFlatSize

(* Rounding up stays within the largest flat, and within the largest       *)
(* default one.                                                            *)
LEMMA RoundUpBounds ==
  ASSUME NEW s, Roundable(s)
  PROVE  /\ RoundUpForTag(s) \in Nat
         /\ s <= RoundUpForTag(s) /\ RoundUpForTag(s) <= MaxLargeFlatSize
         /\ s <= MaxFlatSize => RoundUpForTag(s) <= MaxFlatSize
<1> USE DEF Roundable, MinFlatSize, MaxFlatSize, MaxLargeFlatSize
<1>1. CASE s <= 512
  BY <1>1 DEF RoundUpForTag
<1>2. CASE s > 512 /\ s <= 8192
  BY <1>2 DEF RoundUpForTag
<1>3. CASE s > 8192
  BY <1>3 DEF RoundUpForTag
<1>4. QED
  BY <1>1, <1>2, <1>3

(* A rounded size survives the trip through the tag, which is a flat's.    *)
LEMMA TagRoundTrip ==
  ASSUME NEW s, Roundable(s)
  PROVE  /\ AllocatedSizeToTag(RoundUpForTag(s)) \in Nat
         /\ FLAT <= AllocatedSizeToTag(RoundUpForTag(s))
         /\ AllocatedSizeToTag(RoundUpForTag(s)) <= MaxFlatTag
         /\ TagToAllocatedSize(AllocatedSizeToTag(RoundUpForTag(s))) = RoundUpForTag(s)
<1> USE DEF Roundable, MinFlatSize, MaxFlatSize, MaxLargeFlatSize, FLAT, MaxFlatTag, TagBase
<1>1. CASE s <= 512
  BY <1>1 DEF RoundUpForTag, AllocatedSizeToTag, TagToAllocatedSize
<1>2. CASE s > 512 /\ s <= 8192
  BY <1>2 DEF RoundUpForTag, AllocatedSizeToTag, TagToAllocatedSize
<1>3. CASE s > 8192
  BY <1>3 DEF RoundUpForTag, AllocatedSizeToTag, TagToAllocatedSize
<1>4. QED
  BY <1>1, <1>2, <1>3

(* No class lies between a size and what it is rounded up to.              *)
LEMMA RoundUpIsLeast ==
  ASSUME NEW s, Roundable(s), NEW t \in Nat, FLAT <= t, t <= MaxFlatTag,
         TagToAllocatedSize(t) >= s
  PROVE  TagToAllocatedSize(t) >= RoundUpForTag(s)
<1> USE DEF Roundable, MinFlatSize, MaxFlatSize, MaxLargeFlatSize, FLAT, MaxFlatTag, TagBase
<1>1. CASE s <= 512
  BY <1>1 DEF RoundUpForTag, TagToAllocatedSize
<1>2. CASE s > 512 /\ s <= 8192
  BY <1>2 DEF RoundUpForTag, TagToAllocatedSize
<1>3. CASE s > 8192
  BY <1>3 DEF RoundUpForTag, TagToAllocatedSize
<1>4. QED
  BY <1>1, <1>2, <1>3

(* The size that new_impl allocates for a length, as a rounded size.       *)
LEMMA NewSizeRounds ==
  ASSUME NEW len \in Int, NEW max \in {MaxFlatSize, MaxLargeFlatSize}
  PROVE  \E s : /\ Roundable(s) /\ s <= max
                /\ NewSize(len, max) = RoundUpForTag(s)
                /\ len <= max - FlatOverhead => s >= len + FlatOverhead
                /\ len > max - FlatOverhead => s = max
                /\ len > MinFlatLength => s <= len + FlatOverhead
                /\ len <= MinFlatLength => s = MinFlatSize
<1> USE DEF Roundable, NewSize, MinFlatSize, MaxFlatSize, MaxLargeFlatSize, MinFlatLength,
            FlatOverhead
<1>1. CASE len <= MinFlatLength
  <2>1. WITNESS MinFlatSize
  <2>2. QED
    BY <1>1
<1>2. CASE len > MinFlatLength /\ len <= max - FlatOverhead
  <2>1. WITNESS len + FlatOverhead
  <2>2. QED
    BY <1>2
<1>3. CASE len > MinFlatLength /\ len > max - FlatOverhead
  <2>1. WITNESS max
  <2>2. QED
    BY <1>3
<1>4. QED
  BY <1>1, <1>2, <1>3

(* Whatever length it is asked for, new_impl writes a flat's tag that      *)
(* gives the allocated size back.                                          *)
LEMMA NewSizeRoundTrip ==
  ASSUME NEW len \in Int, NEW max \in {MaxFlatSize, MaxLargeFlatSize}
  PROVE  /\ NewSize(len, max) \in Nat /\ NewSize(len, max) # 0
         /\ FLAT <= AllocatedSizeToTag(NewSize(len, max))
         /\ AllocatedSizeToTag(NewSize(len, max)) <= MaxFlatTag
         /\ TagToAllocatedSize(AllocatedSizeToTag(NewSize(len, max))) = NewSize(len, max)
<1>1. PICK s : Roundable(s) /\ NewSize(len, max) = RoundUpForTag(s)
  BY NewSizeRounds
<1>2. RoundUpForTag(s) # 0
  BY <1>1, RoundUpBounds DEF Roundable, MinFlatSize
<1>3. QED
  BY <1>1, <1>2, RoundUpBounds, TagRoundTrip

(* A request that is below a block and not small has a power of two on     *)
(* either side of it, each within a factor of two.                         *)
LEMMA PowersAround ==
  ASSUME NEW n \in Nat, n > DefaultMaxCapacity, n <= MaxBlockSize
  PROVE  /\ NextPowerOfTwo(n) \in PowersOfTwo /\ NextPowerOfTwo(n) >= n
         /\ \A q \in PowersOfTwo : q >= n => NextPowerOfTwo(n) <= q
         /\ PowerOfTwoBelow(n) \in PowersOfTwo /\ PowerOfTwoBelow(n) <= n
         /\ 2 * PowerOfTwoBelow(n) > n
<1> USE DEF DefaultMaxCapacity, MaxFlatLength, MaxFlatSize, FlatOverhead, MaxBlockSize
<1> DEFINE Above(p) == p >= n /\ \A q \in PowersOfTwo : q >= n => p <= q
           Below(p) == p <= n /\ \A q \in PowersOfTwo : q <= n => q <= p
<1>1. \E p \in PowersOfTwo : Above(p)
  <2>1. CASE n <= 4096
    BY <2>1 DEF PowersOfTwo
  <2>2. CASE 4096 < n /\ n <= 8192
    BY <2>2 DEF PowersOfTwo
  <2>3. CASE 8192 < n /\ n <= 16384
    BY <2>3 DEF PowersOfTwo
  <2>4. CASE 16384 < n /\ n <= 32768
    BY <2>4 DEF PowersOfTwo
  <2>5. CASE 32768 < n
    BY <2>5 DEF PowersOfTwo
  <2>6. QED
    BY <2>1, <2>2, <2>3, <2>4, <2>5
<1>2. \E p \in PowersOfTwo : Below(p)
  <2>1. CASE n < 4096
    BY <2>1 DEF PowersOfTwo
  <2>2. CASE 4096 <= n /\ n < 8192
    BY <2>2 DEF PowersOfTwo
  <2>3. CASE 8192 <= n /\ n < 16384
    BY <2>3 DEF PowersOfTwo
  <2>4. CASE 16384 <= n /\ n < 32768
    BY <2>4 DEF PowersOfTwo
  <2>5. CASE 32768 <= n /\ n < 65536
    BY <2>5 DEF PowersOfTwo
  <2>6. CASE n = 65536
    BY <2>6 DEF PowersOfTwo
  <2>7. QED
    BY <2>1, <2>2, <2>3, <2>4, <2>5, <2>6
<1>3. NextPowerOfTwo(n) \in PowersOfTwo /\ Above(NextPowerOfTwo(n))
  BY <1>1 DEF NextPowerOfTwo
<1>4. PowerOfTwoBelow(n) \in PowersOfTwo /\ Below(PowerOfTwoBelow(n))
  BY <1>2 DEF PowerOfTwoBelow
<1>5. 2 * PowerOfTwoBelow(n) > n
  <2>1. PICK p \in PowersOfTwo : p = PowerOfTwoBelow(n) /\ Below(p)
    BY <1>4
  <2>2. p >= 2048
    BY <2>1 DEF PowersOfTwo
  <2>3. CASE p = 65536
    BY <2>1, <2>3
  <2>4. CASE p # 65536
    <3>1. 2 * p \in PowersOfTwo
      BY <2>2, <2>4 DEF PowersOfTwo
    <3>2. ~(2 * p <= p)
      BY <2>2 DEF PowersOfTwo
    <3>3. p \in Nat
      BY DEF PowersOfTwo
    <3>4. QED
      BY <2>1, <3>1, <3>2, <3>3
  <2>5. QED
    BY <2>1, <2>3, <2>4
<1>6. QED
  BY <1>3, <1>4, <1>5

(* A block size counts up to MAX_BLOCK_SIZE, itself a power of two.        *)
LEMMA CappedBlock ==
  ASSUME NEW b \in BlockSizes
  PROVE  /\ Capped(b) \in PowersOfTwo /\ Capped(b) \in Nat
         /\ Capped(b) > FlatOverhead /\ Capped(b) <= MaxBlockSize
<1>1. b \in Nat /\ b > FlatOverhead /\ (b <= MaxBlockSize => b \in PowersOfTwo)
  BY SizingAssumption
<1>2. QED
  BY <1>1 DEF Capped, Lesser, MaxBlockSize, FlatOverhead, PowersOfTwo

(* What with_capacity_and_block_size allocates, header included.           *)
LEMMA BlockForBounds ==
  ASSUME NEW n \in Nat, NEW b \in BlockSizes
  PROVE  /\ BlockFor(n, b) \in Nat
         /\ BlockFor(n, b) <= Capped(b)
         /\ n + FlatOverhead >= Capped(b) => BlockFor(n, b) = Capped(b)
         /\ (n + FlatOverhead < Capped(b) /\ n <= DefaultMaxCapacity) =>
                BlockFor(n, b) = n + FlatOverhead
         /\ 2 * BlockFor(n, b) > Lesser(n, Capped(b))
<1> USE DEF DefaultMaxCapacity, MaxFlatLength, MaxFlatSize, FlatOverhead, MaxBlockSize, Lesser
<1> DEFINE c == Capped(b)
<1>1. c \in PowersOfTwo /\ c \in Nat /\ c > FlatOverhead /\ c <= MaxBlockSize
  BY CappedBlock
<1>2. /\ Capped(n) + FlatOverhead >= c <=> n + FlatOverhead >= c
      /\ n + FlatOverhead < c => Capped(n) = n
  BY <1>1 DEF Capped
<1>3. BlockFor(n, b) = CASE Capped(n) + FlatOverhead >= c -> c
                         [] Capped(n) + FlatOverhead < c /\ Capped(n) <= DefaultMaxCapacity ->
                              Capped(n) + FlatOverhead
                         [] Capped(n) + FlatOverhead < c /\ Capped(n) > DefaultMaxCapacity ->
                              FitBlock(Capped(n))
  BY DEF BlockFor
<1>4. Capped(n) \in Nat
  BY DEF Capped
<1> HIDE DEF c
<1>5. CASE n + FlatOverhead >= c
  BY <1>1, <1>2, <1>3, <1>4, <1>5 DEF c
<1>6. CASE n + FlatOverhead < c /\ n <= DefaultMaxCapacity
  BY <1>1, <1>2, <1>3, <1>6 DEF c
<1>7. CASE n + FlatOverhead < c /\ n > DefaultMaxCapacity
  <2>1. BlockFor(n, b) = FitBlock(n)
    BY <1>1, <1>2, <1>3, <1>7
  <2>2. FitBlock(n) \in {n, NextPowerOfTwo(n), PowerOfTwoBelow(n)}
    BY DEF FitBlock
  <2>3. n <= MaxBlockSize /\ NextPowerOfTwo(n) <= c /\ n <= NextPowerOfTwo(n)
    BY <1>1, <1>7, PowersAround
  <2>4. PowerOfTwoBelow(n) <= c /\ 2 * PowerOfTwoBelow(n) > n
    BY <1>1, <1>7, PowersAround DEF PowersOfTwo
  <2>5. NextPowerOfTwo(n) \in Nat /\ PowerOfTwoBelow(n) \in Nat
    BY <1>1, <1>7, PowersAround DEF PowersOfTwo
  <2>6. QED
    BY <1>1, <1>7, <2>1, <2>2, <2>3, <2>4, <2>5 DEF c
<1>8. QED
  BY <1>1, <1>5, <1>6, <1>7

-----------------------------------------------------------------------------
(* The state keeps what the code computed from the request.                *)
LEMMA SizingInduction == SizingInv /\ [SizingNext]_sizingVars => SizingInv'
<1> SUFFICES ASSUME SizingInv, [SizingNext]_sizingVars
             PROVE  SizingInv'
  OBVIOUS
<1>2. ASSUME NEW n \in Requests, NewFlat(n)
      PROVE  SizingInv'
  BY <1>2, SizingAssumption DEF NewFlat, Allocate, SizingInv
<1>3. ASSUME NEW n \in Requests, WithCapacity(n)
      PROVE  SizingInv'
  BY <1>3, SizingAssumption DEF WithCapacity, Allocate, SizingInv
<1>4. ASSUME NEW n \in Requests, NEW b \in BlockSizes, WithCapacityAndBlockSize(n, b)
      PROVE  SizingInv'
  BY <1>4, SizingAssumption DEF WithCapacityAndBlockSize, Allocate, SizingInv
<1>5. CASE Delete
  BY <1>5 DEF Delete, SizingInv
<1>6. CASE UNCHANGED sizingVars
  BY <1>6 DEF sizingVars, SizingInv
<1>7. QED
  BY <1>2, <1>3, <1>4, <1>5, <1>6 DEF SizingNext

(* Every reachable state satisfies the inductive invariant.                *)
LEMMA SizingInvariance == SizingSpec => []SizingInv
<1>1. SizingInit => SizingInv
  BY DEF SizingInit, SizingInv
<1>2. QED
  BY <1>1, SizingInduction, PTL DEF SizingSpec

(* Whatever the request, the header's tag is a flat's and gives back the   *)
(* size that was allocated.                                                *)
LEMMA SizeFromTag ==
  ASSUME SizingInv, size # 0
  PROVE  /\ size \in Nat /\ tag = AllocatedSizeToTag(size)
         /\ FLAT <= tag /\ tag <= MaxFlatTag /\ TagToAllocatedSize(tag) = size
<1>1. \E len \in Int, max \in {MaxFlatSize, MaxLargeFlatSize} : size = NewSize(len, max)
  <2>1. CASE made \in {"flat", "buffer"}
    BY <2>1 DEF SizingInv
  <2>2. CASE made = "block"
    <3>1. BlockFor(request, block) - FlatOverhead \in Int
      BY <2>2, BlockForBounds DEF SizingInv, FlatOverhead
    <3>2. QED
      BY <2>2, <3>1 DEF SizingInv
  <2>3. QED
    BY <2>1, <2>2 DEF SizingInv
<1>2. QED
  BY <1>1, NewSizeRoundTrip DEF SizingInv

(* The allocator gets back exactly what it gave, for every request and     *)
(* block size: flat::delete computes the layout from the tag alone.        *)
THEOREM LayoutIsRecovered == SizingSpec => []LayoutMatches
<1>1. SizingInv => LayoutMatches
  BY SizeFromTag DEF SizingInv, LayoutMatches
<1>2. QED
  BY <1>1, SizingInvariance, PTL

(* flat::new and with_capacity give the least size class that will do, and *)
(* at least min(DEFAULT_MAX_CAPACITY, capacity) bytes.                     *)
THEOREM ClassIsLeast == SizingSpec => []LeastClass
<1>1. ASSUME SizingInv, made \in {"flat", "buffer"}, size # 0
      PROVE  /\ TagToLength(tag) >= Lesser(request, DefaultMaxCapacity)
             /\ \A s \in SizeClasses :
                   (s - FlatOverhead >= Lesser(request, DefaultMaxCapacity)) => s >= size
  <2>1. request \in Nat /\ size = NewSize(request, MaxFlatSize)
    BY <1>1 DEF SizingInv
  <2>2. PICK s : /\ Roundable(s) /\ s <= MaxFlatSize
                 /\ size = RoundUpForTag(s)
                 /\ request <= MaxFlatSize - FlatOverhead => s >= request + FlatOverhead
                 /\ request > MaxFlatSize - FlatOverhead => s = MaxFlatSize
                 /\ request > MinFlatLength => s <= request + FlatOverhead
                 /\ request <= MinFlatLength => s = MinFlatSize
    BY <2>1, NewSizeRounds
  <2>3. size >= s /\ size \in Nat
    BY <2>2, RoundUpBounds
  <2>4. TagToLength(tag) = size - FlatOverhead
    BY <1>1, SizeFromTag DEF TagToLength
  <2>5. TagToLength(tag) >= Lesser(request, DefaultMaxCapacity)
    BY <2>1, <2>2, <2>3, <2>4
       DEF Lesser, DefaultMaxCapacity, MaxFlatLength, MaxFlatSize, FlatOverhead, Roundable
  <2>6. ASSUME NEW t \in FLAT..MaxFlatTag,
               TagToAllocatedSize(t) - FlatOverhead >= Lesser(request, DefaultMaxCapacity)
        PROVE  TagToAllocatedSize(t) >= size
    <3>1. t \in Nat /\ FLAT <= t /\ t <= MaxFlatTag
      <4>1. FLAT \in Nat /\ MaxFlatTag \in Nat
        BY DEF FLAT, MaxFlatTag
      <4>2. QED
        BY <4>1
    <3>2. TagToAllocatedSize(t) \in Nat /\ TagToAllocatedSize(t) >= MinFlatSize
      BY <3>1 DEF TagToAllocatedSize, FLAT, MaxFlatTag, TagBase, MinFlatSize
    <3>3. TagToAllocatedSize(t) >= s
      BY <2>1, <2>2, <2>6, <3>2
         DEF Lesser, DefaultMaxCapacity, MaxFlatLength, MaxFlatSize, MinFlatSize,
             MinFlatLength, FlatOverhead, Roundable
    <3>4. QED
      BY <2>2, <3>1, <3>3, RoundUpIsLeast
  <2>7. QED
    BY <2>5, <2>6 DEF SizeClasses
<1>2. ASSUME SizingInv, made \in {"flat", "buffer"}, size = 0
      PROVE  request \in Nat /\ request <= InlineCapacity
  <2>1. NewSize(request, MaxFlatSize) # 0 /\ request \in Nat
    BY <1>2, NewSizeRoundTrip DEF SizingInv
  <2>2. QED
    BY <1>2, <2>1 DEF SizingInv, InlineCapacity
<1>3. SizingInv => LeastClass
  BY <1>1, <1>2 DEF LeastClass, Capacity, Lesser, DefaultMaxCapacity, MaxFlatLength,
     MaxFlatSize, FlatOverhead, InlineCapacity
<1>4. QED
  BY <1>3, SizingInvariance, PTL

(* A buffer made for any legal block size, one beyond the 64 KiB cap       *)
(* included, stays within max_capacity_for, which it reaches when the      *)
(* request fills the capped block.                                         *)
THEOREM BlockIsRespected == SizingSpec => []BlockRespected
<1>1. ASSUME SizingInv, made = "block"
      PROVE  BlockRespected
  <2> DEFINE n == BlockFor(request, block)
             c == Capped(block)
  <2>1. /\ request \in Nat /\ block \in BlockSizes
        /\ size = NewSize(n - FlatOverhead, MaxLargeFlatSize)
    BY <1>1 DEF SizingInv
  <2>2. /\ n \in Nat /\ n <= c
        /\ request + FlatOverhead >= c => n = c
        /\ (request + FlatOverhead < c /\ request <= DefaultMaxCapacity) =>
              n = request + FlatOverhead
        /\ 2 * n > Lesser(request, c)
    BY <2>1, BlockForBounds
  <2>3. PICK s : /\ Roundable(s) /\ s <= MaxLargeFlatSize
                 /\ size = RoundUpForTag(s)
                 /\ n - FlatOverhead <= MaxLargeFlatSize - FlatOverhead => s >= n
                 /\ n - FlatOverhead > MinFlatLength => s <= n
                 /\ n - FlatOverhead <= MinFlatLength => s = MinFlatSize
    <3>1. n - FlatOverhead \in Int /\ (n - FlatOverhead) + FlatOverhead = n
      BY <2>2 DEF FlatOverhead
    <3>2. QED
      BY <2>1, <3>1, NewSizeRounds
  <2>4. size >= s /\ size \in Nat /\ size # 0
    BY <2>3, RoundUpBounds DEF Roundable, MinFlatSize
  <2>5. Capacity = size - FlatOverhead
    BY <1>1, <2>4, SizeFromTag DEF Capacity, TagToLength
  <2>6. c \in PowersOfTwo /\ c > FlatOverhead
    BY <2>1, CappedBlock
  <2>7. s <= c \/ s = MinFlatSize
    BY <2>2, <2>3, <2>6 DEF MinFlatLength, MinFlatSize, FlatOverhead, Roundable, PowersOfTwo
  <2>8. s <= c => size <= c
    <3>1. CASE s <= 512
      <4>1. \E k \in Nat : c = 8 * k
        BY <2>6 DEF PowersOfTwo, FlatOverhead
      <4>2. QED
        BY <2>3, <3>1, <4>1 DEF RoundUpForTag, Roundable
    <3>2. CASE s > 512 /\ s <= 8192 /\ s <= c
      <4>1. \E k \in Nat : c = 64 * k
        BY <2>3, <2>6, <3>2 DEF PowersOfTwo, Roundable
      <4>2. QED
        BY <2>3, <3>2, <4>1 DEF RoundUpForTag, Roundable
    <3>3. CASE s > 8192 /\ s <= c
      <4>1. \E k \in Nat : c = 4096 * k
        BY <2>3, <2>6, <3>3 DEF PowersOfTwo, Roundable
      <4>2. QED
        BY <2>3, <3>3, <4>1 DEF RoundUpForTag, Roundable
    <3>4. QED
      BY <2>3, <3>1, <3>2, <3>3 DEF Roundable
  <2>9. s = MinFlatSize => size = MinFlatSize
    BY <2>3 DEF RoundUpForTag, MinFlatSize
  <2>10. c \in Nat /\ c <= MaxBlockSize
    BY <2>6 DEF PowersOfTwo, MaxBlockSize
  <2> DEFINE payload == c - FlatOverhead
  <2>11. MaxCapacityFor(block) = IF payload < MinFlatLength THEN MinFlatLength ELSE payload
    BY DEF MaxCapacityFor
  <2> HIDE DEF c
  <2>12. Capacity <= MaxCapacityFor(block)
    BY <2>4, <2>5, <2>6, <2>7, <2>8, <2>9, <2>10, <2>11
       DEF FlatOverhead, MinFlatLength, MinFlatSize
  <2>13. s >= n
    BY <2>2, <2>3, <2>10 DEF MaxBlockSize, MaxLargeFlatSize, FlatOverhead
  <2>14. request + FlatOverhead >= c => Capacity = MaxCapacityFor(block)
    <3>1. SUFFICES ASSUME request + FlatOverhead >= c
                   PROVE  Capacity >= MaxCapacityFor(block)
      BY <2>4, <2>5, <2>10, <2>12, <2>11 DEF FlatOverhead, MinFlatLength, MinFlatSize
    <3>2. size >= c /\ size >= MinFlatSize
      BY <2>1, <2>2, <2>3, <2>4, <2>10, <2>13, <3>1 DEF FlatOverhead, Roundable, MinFlatSize
    <3>3. QED
      BY <2>4, <2>5, <2>10, <2>11, <3>2 DEF FlatOverhead, MinFlatLength, MinFlatSize
  <2>15. (request + FlatOverhead < c /\ request <= DefaultMaxCapacity) =>
            Capacity >= request
    BY <2>1, <2>2, <2>3, <2>4, <2>5, <2>13 DEF FlatOverhead, Roundable
  <2>16. 2 * size > Lesser(request, c)
    BY <2>1, <2>2, <2>3, <2>4, <2>10, <2>13 DEF Lesser, Roundable
  <2>17. QED
    BY <2>12, <2>14, <2>15, <2>16 DEF BlockRespected, c
<1>2. SizingInv => BlockRespected
  BY <1>1 DEF BlockRespected
<1>3. QED
  BY <1>2, SizingInvariance, PTL
=============================================================================
