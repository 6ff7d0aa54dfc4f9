----------------------------- MODULE InlineData -----------------------------
(***************************************************************************)
(* The in-place storage of a cord (src/src/inline_data.rs): a control byte *)
(* and a tail, which hold up to MaxInline bytes and their number, or a     *)
(* tree pointer.  Values are edited in place and copied bit by bit, and    *)
(* compared as raw words.                                                  *)
(*                                                                         *)
(* In the code a word has 8 bytes and the tail 15.                         *)
(***************************************************************************)
EXTENDS Integers, Sequences

CONSTANTS
    Slots,      \* the values
    Word,       \* bytes in the words that compare loads
    Byte,       \* the values of a byte
    Pointers,   \* the values of a tree pointer, never null
    Inputs      \* the byte strings that are stored

MaxInline == 2 * Word - 1

ASSUME InlineAssumption ==
    /\ Word \in {2, 4, 6, 8}
    /\ Byte \subseteq 0..255
    /\ Pointers \subseteq Nat \ {0}
    /\ Inputs \subseteq Seq(Byte)

VARIABLES
    slots,   \* what is stored
    val      \* what each slot is meant to hold: a pointer, or 0 and bytes

inlineVars == <<slots, val>>

Index == 1..MaxInline

New == [tag |-> 0, tail |-> [i \in Index |-> 0]]

IsTree(d) == d.tag % 2 = 1

InlineSize(d) == d.tag \div 2

InlineSlice(d) == [i \in 1..InlineSize(d) |-> d.tail[i]]

(* set_inline_size, once the tail is written *)
Sized(tail, size) == [tag |-> 2 * size, tail |-> tail]

(* make_tree: the padding is zero, and the pointer takes the last place. *)
MakeTree(p) == [tag |-> 1, tail |-> [i \in Index |-> IF i = MaxInline THEN p ELSE 0]]

(* n bytes of s, from its offset `from' on, are copied to offset `at' of tail. *)
Store(tail, at, s, from, n) ==
    [i \in DOMAIN tail |-> IF i > at /\ i <= at + n THEN s[i - at + from] ELSE tail[i]]

Zero(tail, from, n) ==
    [i \in DOMAIN tail |-> IF i > from /\ i <= from + n THEN 0 ELSE tail[i]]

(***************************************************************************)
(* small_memmove with words of w bytes: two words, or two half words, that *)
(* may overlap, or the first, middle and last byte.                        *)
(***************************************************************************)
SmallMemmove(w, tail, at, s, nullify) ==
    LET n       == Len(s)
        half    == w \div 2
        Long(t) == IF nullify THEN Zero(t, at + w - 1, w) ELSE t
        Ends(t, k) == Store(Store(t, at, s, 0, k), at + n - k, s, n - k, k)
    IN  IF n >= w THEN Ends(Long(tail), w)
        ELSE IF n >= half
        THEN Ends(Long(IF nullify THEN Zero(tail, at + half, half) ELSE tail), half)
        ELSE LET t == IF n = 0 THEN tail
                      ELSE Store(Ends(tail, 1), at + n \div 2, s, n \div 2, 1)
             IN  IF nullify THEN Zero(Long(t), at + n, w) ELSE t

InlineFrom(s) == Sized(SmallMemmove(Word, New.tail, 0, s, TRUE), Len(s))

(* gather_inline (src/src/iter.rs), of two chunks *)
Gather(a, b) ==
    Sized(SmallMemmove(Word, SmallMemmove(Word, New.tail, 0, a, FALSE), Len(a), b, FALSE),
          Len(a) + Len(b))

PushBackInline(d, s) ==
    Sized(Store(d.tail, InlineSize(d), s, 0, Len(s)), InlineSize(d) + Len(s))

ConcatInline(a, b) ==
    Sized(Store(Store(New.tail, 0, a, 0, Len(a)), Len(a), b, 0, Len(b)), Len(a) + Len(b))

PushFrontInline(d, s) == ConcatInline(s, InlineSlice(d))

(* Mutant: the freed bytes stay. *)
TruncateInlineKeepsTail(d, n) == Sized(d.tail, n)

TruncateInline(d, n) == Sized(Zero(d.tail, n, InlineSize(d) - n), n)

DropFrontInline(d, n) ==
    LET left == InlineSize(d) - n
    IN  Sized(Zero(Store(d.tail, 0, d.tail, n, left), left, n), left)

(* is_same *)
IsSame(l, r) == l = r

(* from_be_bytes of a word of the tail *)
BigEndian(tail, from) ==
    LET value[i \in 0..Word] == IF i = 0 THEN 0 ELSE 256 * value[i - 1] + tail[from + i - 1]
    IN  value[Word]

(* Ordering::cmp *)
Cmp(x, y) == IF x < y THEN "less" ELSE IF x = y THEN "equal" ELSE "greater"

(* Mutant: the sizes of values with equal tails are not compared. *)
CompareWordsOnly(l, r) ==
    IF BigEndian(l.tail, 1) = BigEndian(r.tail, 1)
    THEN Cmp(BigEndian(l.tail, Word), BigEndian(r.tail, Word))
    ELSE Cmp(BigEndian(l.tail, 1), BigEndian(r.tail, 1))

(* compare: the two words overlap in one byte. *)
Compare(l, r) ==
    LET x1 == BigEndian(l.tail, 1)
        y1 == BigEndian(r.tail, 1)
        x2 == BigEndian(l.tail, Word)
        y2 == BigEndian(r.tail, Word)
    IN  IF x1 # y1 THEN Cmp(x1, y1)
        ELSE IF x2 # y2 THEN Cmp(x2, y2)
        ELSE Cmp(InlineSize(l), InlineSize(r))

-----------------------------------------------------------------------------
Holds(s) == [tree |-> 0, bytes |-> s]

(* The sequence a followed by b. *)
Joined(a, b) == [i \in 1..(Len(a) + Len(b)) |-> IF i <= Len(a) THEN a[i] ELSE b[i - Len(a)]]

InlineInit ==
    /\ slots = [x \in Slots |-> New]
    /\ val = [x \in Slots |-> Holds(<<>>)]

Put(x, d, v) ==
    /\ slots' = [slots EXCEPT ![x] = d]
    /\ val' = [val EXCEPT ![x] = v]

(* A new value takes the place of one whose tree, if any, was dropped. *)
SetInline(x, s) == Len(s) <= MaxInline /\ Put(x, InlineFrom(s), Holds(s))

SetGathered(x, a, b) == Len(a) + Len(b) <= MaxInline /\ Put(x, Gather(a, b), Holds(Joined(a, b)))

PushBack(x, s) ==
    /\ ~IsTree(slots[x])
    /\ InlineSize(slots[x]) + Len(s) <= MaxInline
    /\ Put(x, PushBackInline(slots[x], s), Holds(Joined(val[x].bytes, s)))

PushFront(x, s) ==
    /\ ~IsTree(slots[x])
    /\ InlineSize(slots[x]) + Len(s) <= MaxInline
    /\ Put(x, PushFrontInline(slots[x], s), Holds(Joined(s, val[x].bytes)))

Truncate(x, n) ==
    /\ ~IsTree(slots[x])
    /\ n <= InlineSize(slots[x])
    /\ Put(x, TruncateInline(slots[x], n), Holds([i \in 1..n |-> val[x].bytes[i]]))

DropFront(x, n) ==
    /\ ~IsTree(slots[x])
    /\ n <= InlineSize(slots[x])
    /\ Put(x, DropFrontInline(slots[x], n),
           Holds([i \in 1..(Len(val[x].bytes) - n) |-> val[x].bytes[i + n]]))

SetTree(x, p) == Put(x, MakeTree(p), [tree |-> p, bytes |-> <<>>])

(* take_tree resets the value to empty inline data. *)
TakeTree(x) == IsTree(slots[x]) /\ Put(x, New, Holds(<<>>))

(* clone_with_ref: a copy of all the bytes *)
CloneWithRef(x, y) == Put(x, slots[y], val[y])

InlineNext ==
    \E x \in Slots :
       \/ \E s \in Inputs : SetInline(x, s) \/ PushBack(x, s) \/ PushFront(x, s)
       \/ \E a, b \in Inputs : SetGathered(x, a, b)
       \/ \E n \in 0..MaxInline : Truncate(x, n) \/ DropFront(x, n)
       \/ \E p \in Pointers : SetTree(x, p)
       \/ TakeTree(x)
       \/ \E y \in Slots : CloneWithRef(x, y)

InlineSpec == InlineInit /\ [][InlineNext]_inlineVars

-----------------------------------------------------------------------------
(***************************************************************************)
(* A slot holds what its edits were meant to put there, and the bytes      *)
(* beyond the inline size are zero ("Invariant: bytes beyond the inline    *)
(* size are always zero", the head of inline_data.rs), whatever edits in   *)
(* place, tree pointers and copies came before.                            *)
(***************************************************************************)
SlotFaithful(x) ==
    LET d == slots[x]
        v == val[x]
    IN  \/ v.tree # 0 /\ d = MakeTree(v.tree)
        \/ /\ v.tree = 0
           /\ Len(v.bytes) <= MaxInline
           /\ d.tag = 2 * Len(v.bytes)
           /\ \A i \in Index : d.tail[i] = IF i <= Len(v.bytes) THEN v.bytes[i] ELSE 0

InlineFaithful == \A x \in Slots : SlotFaithful(x)

(* The lexicographic order of byte strings *)
Lexicographic(a, b) ==
    LET common == IF Len(a) <= Len(b) THEN 1..Len(a) ELSE 1..Len(b)
        differ == {i \in common : a[i] # b[i]}
        first  == CHOOSE i \in differ : \A j \in differ : i <= j
    IN  IF differ = {} THEN Cmp(Len(a), Len(b)) ELSE Cmp(a[first], b[first])

(***************************************************************************)
(* Comparing the raw words decides as comparing the contents would: is_same *)
(* holds of two values exactly when they hold the same bytes or the same   *)
(* tree, and compare orders inline values lexicographically, a string and  *)
(* the same one with trailing zero bytes included.                         *)
(***************************************************************************)
WordsDecide ==
    \A x, y \in Slots :
       /\ IsSame(slots[x], slots[y]) <=> val[x] = val[y]
       /\ ~IsTree(slots[x]) /\ ~IsTree(slots[y]) =>
             Compare(slots[x], slots[y]) = Lexicographic(val[x].bytes, val[y].bytes)
=============================================================================
