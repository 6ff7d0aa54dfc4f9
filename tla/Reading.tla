------------------------------ MODULE Reading ------------------------------
(***************************************************************************)
(* What reading a cord promises (src/src/iter.rs, src/src/io.rs): whatever *)
(* the position is and however it moves, the calls hand out the bytes of   *)
(* the cord in order, each once, from the front or from the back, and a    *)
(* chunk is never empty.                                                   *)
(***************************************************************************)
EXTENDS Integers, Sequences

VARIABLES
    all,    \* the bytes of the cord
    rest,   \* those still to be handed out
    out     \* the last call and what it returned

vars == <<all, rest, out>>

Returned(op, n, bytes) == [op |-> op, n |-> n, bytes |-> bytes]

Drop(n) == SubSeq(rest, n + 1, Len(rest))

(* A new position, which may hand out the first bytes at once. *)
Init ==
    \E n \in 0..Len(all) :
       /\ rest = SubSeq(all, n + 1, Len(all))
       /\ out = Returned("new", 0, SubSeq(all, 1, n))

(* A chunk is as long as it likes, but empty only at the end. *)
NextChunk ==
    \E n \in 0..Len(rest) :
       /\ n = 0 => rest = <<>>
       /\ \/ out' = Returned("next", 0, SubSeq(rest, 1, n)) /\ rest' = Drop(n)
          \/ /\ out' = Returned("next_back", 0, SubSeq(rest, Len(rest) - n + 1, Len(rest)))
             /\ rest' = SubSeq(rest, 1, Len(rest) - n)

(* The byte that follows n others, if there are so many. *)
TakeByte ==
    \E n \in 0..(Len(all) + 1) :
       LET k == IF n < Len(rest) THEN n + 1 ELSE Len(rest)
       IN  \/ out' = Returned("nth", n, SubSeq(rest, n + 1, k)) /\ rest' = Drop(k)
           \/ /\ out' = Returned("nth_back", 0, IF rest = <<>> THEN rest ELSE <<rest[Len(rest)]>>)
              /\ rest' = SubSeq(rest, 1, Len(rest) - 1)

(* n bytes, or all there are. *)
TakeBytes ==
    \E n \in 0..(Len(all) + 1) :
       LET k == IF n < Len(rest) THEN n ELSE Len(rest)
       IN  out' = Returned("read", n, SubSeq(rest, 1, k)) /\ rest' = Drop(k)

SkipBytes ==
    \E n \in 0..Len(rest) : out' = Returned("advance", n, <<>>) /\ rest' = Drop(n)

(* n bytes are skipped and a chunk returned. *)
SkipToChunk ==
    \E n \in 0..(Len(all) + 1) :
       \E k \in 0..Len(rest) :
          /\ k > 0 <=> n < Len(rest)
          /\ n < Len(rest) => n + k <= Len(rest)
          /\ out' = Returned("skip", n, SubSeq(rest, n + 1, n + k))
          /\ rest' = IF k = 0 THEN <<>> ELSE Drop(n + k)

(* A target outside the cord is refused and moves nothing. *)
SeekTo ==
    \E target \in (-1)..(Len(all) + 1) :
       /\ out' = Returned("seek", target, <<>>)
       /\ rest' = IF target \in 0..Len(all) THEN SubSeq(all, target + 1, Len(all)) ELSE rest

GetByte ==
    \E i \in 0..(Len(all) + 1) :
       out' = Returned("get", i, SubSeq(all, i + 1, IF i < Len(all) THEN i + 1 ELSE i)) /\ UNCHANGED rest

Next ==
    /\ UNCHANGED all
    /\ NextChunk \/ TakeByte \/ TakeBytes \/ SkipBytes \/ SkipToChunk \/ SeekTo \/ GetByte

Spec == Init /\ [][Next]_vars
=============================================================================
