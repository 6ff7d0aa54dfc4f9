----------------------------- MODULE SeqVisitor -----------------------------
(***************************************************************************)
(* Deserializing a cord from a sequence of bytes (src/src/serde_impl.rs):  *)
(* the elements are read one by one, from code that may fail, into buffers *)
(* which the cord adopts or copies.  How many there are is not known, only *)
(* a hint that may be wrong in either direction.                           *)
(*                                                                         *)
(* Element i of the sequence is the byte i.  A cord is its chunks, each    *)
(* with the capacity of its flat; inline bytes are a chunk without one.    *)
(***************************************************************************)
EXTENDS Integers, Sequences, FiniteSetsExt

CONSTANTS
    InlineCapacity,   \* of a short buffer and of a cord, 15 in the code
    SizeClasses,      \* the capacities of flats; the largest is DEFAULT_MAX_CAPACITY
    Hints,            \* what size_hint may say
    NoHint,           \* what it says if it cannot tell
    SequenceBound     \* bound on the length of the sequence

ASSUME VisitAssumption ==
    /\ InlineCapacity \in Nat \ {0}
    /\ \A c \in SizeClasses : c \in Nat /\ c > InlineCapacity
    /\ \E m \in SizeClasses : \A c \in SizeClasses : c <= m
    /\ Hints \subseteq Nat /\ NoHint \notin Nat

VARIABLES
    visit,      \* "fill", "done" or "failed"
    hint,       \* read once
    chunks,     \* the cord
    buffer,     \* the bytes of the buffer that is being filled, and its capacity
    consumed    \* the number of elements read

visitVars == <<visit, hint, chunks, buffer, consumed>>

MaxCapacity == Max(SizeClasses)

(* flat::capacity_for, and the capacity of flat::new *)
CapacityFor(n) == IF n > MaxCapacity THEN MaxCapacity ELSE Min({c \in SizeClasses : c >= n})

(* CordBuffer::with_capacity *)
BufferFor(n) == [data |-> <<>>, cap |-> IF n > InlineCapacity THEN CapacityFor(n) ELSE InlineCapacity]

InlineChunk(s) == [data |-> s, cap |-> 0]

IsInline(c) == c = <<>> \/ c[1].cap = 0

InlineBytes(c) == IF c = <<>> THEN <<>> ELSE c[1].data

(* append_tree, of a flat: inline bytes move to a flat of their own. *)
AppendFlat(c, flat) ==
    LET prefix == InlineBytes(c)
    IN  IF IsInline(c) /\ c # <<>>
        THEN <<[data |-> prefix, cap |-> CapacityFor(Len(prefix))], flat>>
        ELSE Append(c, flat)

(* append_precise *)
AppendPrecise(c, s) ==
    IF IsInline(c) /\ Len(InlineBytes(c)) + Len(s) <= InlineCapacity
    THEN <<InlineChunk(InlineBytes(c) \o s)>>
    ELSE AppendFlat(c, [data |-> s, cap |-> CapacityFor(Len(s))])

(* commit: a buffer that is larger than its bytes need is copied. *)
Commit(c, b) ==
    LET n == Len(b.data)
    IN  IF n = 0 THEN c
        ELSE IF n <= InlineCapacity \/ CapacityFor(n) < b.cap THEN AppendPrecise(c, b.data)
        ELSE AppendFlat(c, b)

-----------------------------------------------------------------------------
VisitInit ==
    /\ hint \in Hints \cup {NoHint}
    /\ visit = "fill"
    /\ chunks = <<>>
    /\ buffer = BufferFor(IF hint = NoHint THEN 0 ELSE hint)
    /\ consumed = 0

(* fill: an element goes into the spare capacity. *)
FillSlot ==
    /\ visit = "fill" /\ consumed < SequenceBound
    /\ Len(buffer.data) < buffer.cap
    /\ buffer' = [buffer EXCEPT !.data = Append(@, consumed + 1)]
    /\ consumed' = consumed + 1
    /\ UNCHANGED <<visit, hint, chunks>>

(* Mutant: the hint is read anew for every buffer. *)
NextCapacityRereads == IF hint # NoHint /\ hint > 0 THEN hint ELSE MaxCapacity

(* What is asked of the next buffer: the rest of the hint, while it lasts. *)
NextCapacity ==
    IF hint # NoHint /\ hint > consumed THEN hint - consumed ELSE MaxCapacity

(* The element that did not fit: the first buffer is replaced by a larger  *)
(* one as long as there is one, later ones are committed.                  *)
NextBuffer ==
    /\ visit = "fill" /\ consumed < SequenceBound
    /\ Len(buffer.data) = buffer.cap
    /\ LET larger == BufferFor(Min({4 * buffer.cap, MaxCapacity}))
           next   == BufferFor(NextCapacity)
       IN  IF chunks = <<>> /\ buffer.cap < MaxCapacity
           THEN /\ buffer' = [larger EXCEPT !.data = Append(buffer.data, consumed + 1)]
                /\ UNCHANGED chunks
           ELSE /\ buffer' = [next EXCEPT !.data = <<consumed + 1>>]
                /\ chunks' = Commit(chunks, buffer)
    /\ consumed' = consumed + 1
    /\ UNCHANGED <<visit, hint>>

(* The sequence ends, whether the buffer is full or not. *)
EndSequence ==
    /\ visit = "fill"
    /\ visit' = "done"
    /\ chunks' = Commit(chunks, buffer)
    /\ buffer' = BufferFor(0)
    /\ UNCHANGED <<hint, consumed>>

(* next_element fails: cord and buffer are dropped. *)
SequenceFails ==
    /\ visit = "fill"
    /\ visit' = "failed"
    /\ chunks' = <<>> /\ buffer' = BufferFor(0)
    /\ UNCHANGED <<hint, consumed>>

VisitNext == FillSlot \/ NextBuffer \/ EndSequence \/ SequenceFails

VisitSpec == VisitInit /\ [][VisitNext]_visitVars

-----------------------------------------------------------------------------
(* The elements that the cord and the buffer hold. *)
Staged ==
    LET upTo[i \in 0..Len(chunks)] == IF i = 0 THEN <<>> ELSE upTo[i - 1] \o chunks[i].data
    IN  upTo[Len(chunks)] \o buffer.data

(***************************************************************************)
(* Whatever the hint says, the cord gets all the elements in order, no     *)
(* chunk pins a larger size class than its bytes need ("never pins a       *)
(* full-size buffer", visit_seq), and a wrong hint leaves at most one      *)
(* short chunk ahead of the last: a payload does not turn into "thousands  *)
(* of tiny chunks".                                                        *)
(***************************************************************************)
SequenceKept ==
    /\ visit # "failed" => Staged = [i \in 1..consumed |-> i]
    /\ \A i \in DOMAIN chunks : chunks[i].cap \in {0, CapacityFor(Len(chunks[i].data))}
    /\ Cardinality({i \in 1..(Len(chunks) - 1) : Len(chunks[i].data) < MaxCapacity}) <= 1

(* The lengths of the chunks that Cord::from makes of n bytes. *)
LengthsFrom(n) ==
    [i \in 1..((n + MaxCapacity - 1) \div MaxCapacity) |->
        Min({MaxCapacity, n - (i - 1) * MaxCapacity})]

(***************************************************************************)
(* "Whatever length hint a visit_seq array reports - absent, honest, or    *)
(* wrong - the result has the same chunking as Cord::from(&[u8]) of the    *)
(* same bytes" (Deserialize for Cord, src/src/serde_impl.rs:204).          *)
(***************************************************************************)
ChunkedLikeFrom ==
    visit = "done" => [i \in DOMAIN chunks |-> Len(chunks[i].data)] = LengthsFrom(consumed)
=============================================================================
