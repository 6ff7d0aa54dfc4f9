------------------------------ MODULE CordSpec ------------------------------
(***************************************************************************)
(* What the public interface of Cord promises (src/src/cord.rs): cords are *)
(* independent byte strings.  An operation changes the cords it is given   *)
(* mutably or by value and no other, whatever memory they share, and a     *)
(* buffer taken out of a cord carries the bytes the cord gives up.         *)
(***************************************************************************)
EXTENDS Integers, Sequences

CONSTANTS
    Handles,   \* the Cord values of the program
    Inputs     \* the byte strings it gives to operations

VARIABLES
    val,       \* the bytes of each cord
    pending,   \* the bytes of the CordBuffer being filled, if there is one
    ops        \* the operations the program calls, all along

vars == <<val, pending, ops>>

NoBuffer == [taken |-> FALSE, bytes |-> <<>>]

Taken(s) == [taken |-> TRUE, bytes |-> s]

Prefix(s, n) == SubSeq(s, 1, n)

Suffix(s, n) == SubSeq(s, n + 1, Len(s))

Init == val = [x \in Handles |-> <<>>] /\ pending = NoBuffer

(* No cord but those in S changes. *)
OnlyChange(S) == val' = [x \in Handles |-> IF x \in S THEN val'[x] ELSE val[x]]

(* The program calls one of the operations S. *)
Calls(S) == ops \cap S # {}

(* From, from_static, from_owner, clear *)
SetBytes(x) ==
    /\ OnlyChange({x})
    /\ \/ Calls({"from", "from_owned", "from_static", "from_owner"}) /\ val'[x] \in Inputs
       \/ Calls({"clear"}) /\ val'[x] = <<>>
    /\ UNCHANGED pending

(* append and prepend of bytes *)
AddBytes(x) ==
    /\ OnlyChange({x})
    /\ \E s \in Inputs :
          \/ Calls({"append", "append_owned"}) /\ val'[x] = val[x] \o s
          \/ Calls({"prepend", "prepend_owned"}) /\ val'[x] = s \o val[x]
    /\ UNCHANGED pending

(* clone, append(&cord), prepend(&cord) *)
CombineShared(x, y) ==
    /\ OnlyChange({x})
    /\ \/ Calls({"clone"}) /\ val'[x] = val[y]
       \/ Calls({"append_cord"}) /\ val'[x] = val[x] \o val[y]
       \/ Calls({"prepend_cord"}) /\ val'[x] = val[y] \o val[x]
    /\ UNCHANGED pending

(* append(cord), prepend(cord): y is moved from. *)
CombineOwned(x, y) ==
    /\ OnlyChange({x, y})
    /\ val'[y] = <<>>
    /\ \/ Calls({"append_owned_cord"}) /\ val'[x] = val[x] \o val[y]
       \/ Calls({"prepend_owned_cord"}) /\ val'[x] = val[y] \o val[x]
    /\ UNCHANGED pending

(* advance, truncate *)
Shorten(x) ==
    /\ OnlyChange({x})
    /\ \E n \in 0..Len(val[x]) :
          \/ Calls({"advance"}) /\ val'[x] = Suffix(val[x], n)
          \/ Calls({"truncate"}) /\ val'[x] = Prefix(val[x], n)
    /\ UNCHANGED pending

(* slice *)
SliceInto(x, y) ==
    /\ Calls({"slice"})
    /\ OnlyChange({y})
    /\ \E n \in 0..Len(val[x]), m \in 0..Len(val[x]) : val'[y] = SubSeq(val[x], n + 1, m)
    /\ UNCHANGED pending

(* split_off, split_to *)
Divide(x, y) ==
    /\ OnlyChange({x, y})
    /\ val[y] = <<>>
    /\ \/ Calls({"split_off"}) /\ val[x] = val'[x] \o val'[y]
       \/ Calls({"split_to"}) /\ val[x] = val'[y] \o val'[x]
    /\ UNCHANGED pending

(* take_append_buffer: a tail of the cord, possibly empty, moves to the buffer. *)
TakeBuffer(x) ==
    /\ ~pending.taken
    /\ OnlyChange({x})
    /\ pending' = Taken(pending'.bytes)
    /\ val[x] = val'[x] \o pending'.bytes

(* CordBuffer::put_slice, truncate and drop *)
FillBuffer ==
    /\ pending.taken
    /\ pending' \in {NoBuffer} \cup {Taken(pending.bytes \o s) : s \in Inputs}
                    \cup {Taken(Prefix(pending.bytes, n)) : n \in 0..Len(pending.bytes)}
    /\ UNCHANGED val

(* append(buffer), prepend(buffer) *)
GiveBuffer(x) ==
    /\ pending.taken
    /\ OnlyChange({x})
    /\ val'[x] \in {val[x] \o pending.bytes, pending.bytes \o val[x]}
    /\ pending' = NoBuffer

Next ==
    /\ UNCHANGED ops
    /\ \/ FillBuffer
       \/ \E x \in Handles :
             SetBytes(x) \/ AddBytes(x) \/ Shorten(x) \/ TakeBuffer(x) \/ GiveBuffer(x)
       \/ \E x, y \in Handles :
             /\ x # y
             /\ CombineShared(x, y) \/ CombineOwned(x, y) \/ SliceInto(x, y) \/ Divide(x, y)

Spec == Init /\ [][Next]_vars
=============================================================================
