----------------------------- MODULE CordSearch -----------------------------
(***************************************************************************)
(* Searching, comparing and hashing cords without flattening them (src/src/cord.rs: *)
(* find, compare, equals, starts_with, ends_with, hash).                   *)
(*                                                                         *)
(* An operand is a byte string with the offsets its chunks are cut at, and *)
(* how it is stored; a cursor on it, which Reading shows to hand out these *)
(* bytes chunk by chunk, is an offset.  One step is one round of the       *)
(* code's outermost loop; memchr and memmem are external and find the      *)
(* first match.                                                            *)
(***************************************************************************)
EXTENDS InlineData

CONSTANTS
    Searches,   \* the calls: a method, the cord it is called on, its argument
    Block       \* the size of the blocks that hash writes, 1024 in the code

IsOperand(c) ==
    /\ c.bytes \in Seq(Byte)
    /\ c.cuts \subseteq 1..(Len(c.bytes) - 1)
    /\ c.rep \in {"inline", "tree", "slice"}
    /\ c.rep = "inline" => c.cuts = {} /\ Len(c.bytes) <= MaxInline
    /\ c.rep = "tree" => Len(c.bytes) > 0
    /\ c.rep = "slice" => c.cuts = {}

ASSUME SearchAssumption ==
    /\ Block \in Nat \ {0}
    /\ \A s \in Searches :
       /\ s.call \in {"find", "compare", "equals", "starts_with", "ends_with", "hash"}
       /\ IsOperand(s.lhs) /\ s.lhs.rep # "slice"
       /\ IsOperand(s.rhs)

VARIABLES
    lhs,      \* the cord the method is called on
    rhs,      \* its argument
    call,     \* the method
    stage,    \* where it is
    pos,      \* the cursor's offset in lhs
    answer    \* its result, once it is done

searchVars == <<lhs, rhs, call, stage, pos, answer>>

Least(S) == CHOOSE n \in S : \A m \in S : n <= m

Size(c) == Len(c.bytes)

(* The end of the chunk of c that holds byte p, or the end of c. *)
ChunkEnd(c, p) == Least({q \in c.cuts : q > p} \cup {Size(c)})

Piece(c, from, to) == SubSeq(c.bytes, from + 1, to)

SearchInit ==
    /\ \E s \in Searches : lhs = s.lhs /\ rhs = s.rhs /\ call = s.call
    /\ stage = "start"
    /\ pos = 0
    /\ answer = <<>>

Goto(s, p) == stage' = s /\ pos' = p /\ UNCHANGED <<lhs, rhs, call, answer>>

(* The result of the call, which is of another kind for each method. *)
Result(a) == [c \in {call} |-> a]

Answer(a) == stage' = "done" /\ answer' = Result(a) /\ UNCHANGED <<lhs, rhs, call, pos>>

(* is_slice_at, is_subcord_at: bytes from .. to-1 of rhs are at p of lhs,  *)
(* piece by piece where either is cut.                                     *)
IsSubcordAt(p, from, to) ==
    LET at[j \in from..to] ==
          LET q == p + j - from
              n == Least({ChunkEnd(lhs, q) - q, ChunkEnd(rhs, j) - j, to - j})
          IN  \/ j = to
              \/ /\ j < to /\ q # Size(lhs)
                 /\ Piece(lhs, q, q + n) = Piece(rhs, j, j + n)
                 /\ at[j + n]
    IN  at[from]

-----------------------------------------------------------------------------
(* The values stored for lhs and rhs are the same bits: equal inline bytes *)
(* or, if the program cloned one from the other, the same tree.            *)
MayBeSame ==
    \/ /\ lhs.rep = "inline" /\ rhs.rep = "inline"
       /\ IsSame(InlineFrom(lhs.bytes), InlineFrom(rhs.bytes))
    \/ lhs.rep = "tree" /\ rhs = lhs

MustBeSame == lhs.rep = "inline" /\ MayBeSame

(* compare, equals and starts_with up to compare_prefix *)
StartCompare ==
    /\ stage = "start" /\ call \in {"compare", "equals", "starts_with"}
    /\ \/ call = "equals" /\ Size(lhs) # Size(rhs) /\ Answer(FALSE)
       \/ call = "equals" /\ MayBeSame /\ Answer(TRUE)
       \/ call = "compare" /\ MayBeSame /\ Answer("equal")
       \/ /\ call = "compare" /\ lhs.rep = "inline" /\ rhs.rep = "inline"
          /\ ~MayBeSame
          /\ Answer(Compare(InlineFrom(lhs.bytes), InlineFrom(rhs.bytes)))
       \/ call = "starts_with" /\ Size(lhs) < Size(rhs) /\ Answer(FALSE)
       \/ call = "equals" /\ Size(lhs) = Size(rhs) /\ ~MustBeSame /\ Goto("prefix", 0)
       \/ call = "compare" /\ ~(lhs.rep = "inline" /\ rhs.rep = "inline") /\ Goto("prefix", 0)
       \/ call = "starts_with" /\ Size(lhs) >= Size(rhs) /\ Goto("prefix", 0)

NotFound == -1

(* What a method makes of the order of the prefixes. *)
Verdict(order) ==
    CASE call \in {"equals", "starts_with"} -> order = "equal"
      [] call = "find" -> IF order = "equal" THEN 0 ELSE NotFound
      [] call = "compare" /\ order # "equal" -> order
      [] OTHER -> Cmp(Size(lhs), Size(rhs))

(* compare_prefix, and a round of compare_slow_path: as far as the shorter *)
(* of the two chunks reaches.                                              *)
ComparePrefix ==
    LET to    == Least({ChunkEnd(lhs, pos), ChunkEnd(rhs, pos)})
        order == Lexicographic(Piece(lhs, pos, to), Piece(rhs, pos, to))
    IN  /\ stage = "prefix"
        /\ IF to = Least({Size(lhs), Size(rhs)}) \/ order # "equal"
           THEN Answer(Verdict(order))
           ELSE Goto("prefix", to)

EndsWith ==
    /\ stage = "start" /\ call = "ends_with"
    /\ Answer(Size(lhs) >= Size(rhs) /\ IsSubcordAt(Size(lhs) - Size(rhs), 0, Size(rhs)))

-----------------------------------------------------------------------------
(* find, up to its loop: a needle as long as the cord is left to equals. *)
StartFind ==
    /\ stage = "start" /\ call = "find"
    /\ \/ Size(rhs) = 0 /\ Answer(0)
       \/ Size(rhs) > 0 /\ Size(rhs) > Size(lhs) /\ Answer(NotFound)
       \/ Size(rhs) > 0 /\ Size(rhs) = Size(lhs) /\ MayBeSame /\ Answer(0)
       \/ Size(rhs) > 0 /\ Size(rhs) = Size(lhs) /\ ~MustBeSame /\ Goto("prefix", 0)
       \/ Size(rhs) > 0 /\ Size(rhs) < Size(lhs) /\ Goto("scan", 0)

(* find_impl's first chunk of the needle *)
FirstChunk == ChunkEnd(rhs, 0)

Remaining == Size(lhs) - pos

(* finder.find: a match within the chunk at the cursor *)
InChunk ==
    {i \in 0..(ChunkEnd(lhs, pos) - pos - FirstChunk) :
        Piece(lhs, pos + i, pos + i + FirstChunk) = Piece(rhs, 0, FirstChunk)}

(* Mutant: the last start of a match that crosses is left out. *)
CrossingShort ==
    LET size == ChunkEnd(lhs, pos) - pos
        from == IF size < FirstChunk - 1 THEN 0 ELSE size - (FirstChunk - 1)
        end  == Least({size, Remaining - FirstChunk})
    IN  {i \in from..(end - 1) : IsSubcordAt(pos + i, 0, FirstChunk)}

(* The starts of matches that cross into the next chunk: memchr leaves out *)
(* those that differ in the first byte.                                    *)
Crossing ==
    LET size == ChunkEnd(lhs, pos) - pos
        from == IF size < FirstChunk - 1 THEN 0 ELSE size - (FirstChunk - 1)
        end  == Least({size, Remaining - FirstChunk + 1})
    IN  {i \in from..(end - 1) : IsSubcordAt(pos + i, 0, FirstChunk)}

(* Mutant: after a chunk without a match the cursor stays. *)
ScanStuck ==
    /\ stage = "scan"
    /\ \/ Remaining < FirstChunk /\ Answer(NotFound)
       \/ /\ Remaining >= FirstChunk /\ InChunk # {}
          /\ Goto("verify", pos + Least(InChunk))
       \/ /\ Remaining >= FirstChunk /\ InChunk = {} /\ Crossing # {}
          /\ Goto("verify", pos + Least(Crossing))
       \/ /\ Remaining >= FirstChunk /\ InChunk = {} /\ Crossing = {}
          /\ Goto("scan", pos)

(* A round of find_impl's loop *)
Scan ==
    /\ stage = "scan"
    /\ \/ Remaining < FirstChunk /\ Answer(NotFound)
       \/ /\ Remaining >= FirstChunk /\ InChunk # {}
          /\ Goto("verify", pos + Least(InChunk))
       \/ /\ Remaining >= FirstChunk /\ InChunk = {} /\ Crossing # {}
          /\ Goto("verify", pos + Least(Crossing))
       \/ /\ Remaining >= FirstChunk /\ InChunk = {} /\ Crossing = {}
          /\ Goto("scan", ChunkEnd(lhs, pos))

(* The rest of find's loop: the first chunk of the needle is at the cursor. *)
Verify ==
    LET rest == IsSubcordAt(pos + FirstChunk, FirstChunk, Size(rhs))
    IN  /\ stage = "verify"
        /\ \/ FirstChunk = Size(rhs) /\ Answer(pos)
           \/ FirstChunk < Size(rhs) /\ Remaining < Size(rhs) /\ Answer(NotFound)
           \/ FirstChunk < Size(rhs) /\ Remaining >= Size(rhs) /\ rest /\ Answer(pos)
           \/ /\ FirstChunk < Size(rhs) /\ Remaining >= Size(rhs) /\ ~rest
              /\ \/ Remaining - 1 < Size(rhs) /\ Answer(NotFound)
                 \/ /\ Remaining - 1 = Size(rhs)
                    /\ Answer(IF IsSubcordAt(pos + 1, 0, Size(rhs)) THEN pos + 1 ELSE NotFound)
                 \/ Remaining - 1 > Size(rhs) /\ Goto("scan", pos + 1)

-----------------------------------------------------------------------------
(* chunks(BLOCK) of a flat cord *)
Blocks(c) ==
    [i \in 1..((Size(c) + Block - 1) \div Block) |->
        Piece(c, (i - 1) * Block, Least({i * Block, Size(c)}))]

StartHash ==
    /\ stage = "start" /\ call = "hash"
    /\ \/ lhs.cuts = {} /\ Answer(Blocks(lhs))
       \/ /\ lhs.cuts # {}
          /\ stage' = "hash" /\ answer' = Result(<<>>) /\ UNCHANGED <<lhs, rhs, call, pos>>

(* A round of hash's inner loop: as much of the chunk as the block has room *)
(* for.  pos % Block bytes are in the buffer; answer holds the writes.     *)
HashRound ==
    LET to     == Least({ChunkEnd(lhs, pos), pos + (Block - (pos % Block))})
        filled == to % Block
        Wrote(n) == Append(answer[call], Piece(lhs, to - n, to))
    IN  /\ stage = "hash"
        /\ \/ /\ to < Size(lhs)
              /\ answer' = Result(IF filled = 0 THEN Wrote(Block) ELSE answer[call])
              /\ pos' = to
              /\ UNCHANGED <<lhs, rhs, call, stage>>
           \/ to = Size(lhs) /\ Answer(Wrote(IF filled = 0 THEN Block ELSE filled))

SearchNext ==
    \/ StartCompare \/ ComparePrefix \/ EndsWith
    \/ StartFind \/ Scan \/ Verify
    \/ StartHash \/ HashRound

SearchSpec == SearchInit /\ [][SearchNext]_searchVars

-----------------------------------------------------------------------------
Occurs(p) ==
    /\ p + Size(rhs) <= Size(lhs)
    /\ \A i \in 1..Size(rhs) : lhs.bytes[p + i] = rhs.bytes[i]

(* What a method would answer on flat byte strings. *)
FlatAnswer ==
    CASE call = "find" ->
           IF \E p \in 0..Size(lhs) : Occurs(p) THEN Least({p \in 0..Size(lhs) : Occurs(p)})
                                                ELSE NotFound
      [] call = "compare" -> Lexicographic(lhs.bytes, rhs.bytes)
      [] call = "equals" -> lhs.bytes = rhs.bytes
      [] call = "starts_with" -> Occurs(0)
      [] call = "hash" -> Blocks(lhs)
      [] call = "ends_with" -> Size(rhs) <= Size(lhs) /\ Occurs(Size(lhs) - Size(rhs))

(***************************************************************************)
(* However the two operands are cut into chunks, and however they are      *)
(* stored, the answer is the one for flat byte strings: no match that      *)
(* crosses chunks of either is passed over, and equal cords give the same  *)
(* blocks to a hasher.                                                     *)
(***************************************************************************)
SearchAnswers == stage = "done" => answer = Result(FlatAnswer)

(* Every call returns. *)
SearchEnds == <>(stage = "done")
=============================================================================
