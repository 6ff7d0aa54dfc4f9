---------------------------- MODULE MCFlatSizing ----------------------------
(* FlatSizing around every boundary of the size classes and of the blocks. *)
EXTENDS FlatSizing

Near(n) == (n - 16)..(n + 16)

(* A block is rounded up when that leaves 13 to 141 bytes over. *)
SlopEdges(n) == {n - 143, n - 142, n - 141, n - 140}

Boundaries ==
    0..100 \cup Near(512) \cup Near(1024) \cup Near(2048) \cup Near(4096) \cup Near(8192)
    \cup Near(16384) \cup Near(32768) \cup Near(65536) \cup Near(262144)
    \cup SlopEdges(8192) \cup SlopEdges(16384) \cup SlopEdges(32768) \cup SlopEdges(65536)

(* The doubtful middle of a block that is rounded up or down. *)
Middles == {3000, 6000, 8060, 12000, 16000, 19586, 24000, 48000}

AllRequests == Boundaries \cup Middles

(* Every legal block size up to the cap, and some that the cap cuts. *)
AllBlocks == {b \in PowersOfTwo : b > FlatOverhead} \cup {131072, 1048576, 1073741824}
=============================================================================
