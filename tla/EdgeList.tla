------------------------------ MODULE EdgeList ------------------------------
(***************************************************************************)
(* What the edge array of a btree node is to the operations on trees       *)
(* (src/src/rep/btree.rs): a list of at most Capacity edges that is cut at *)
(* either end, the outermost edge that is left being replaced if the cut   *)
(* goes through it, and grows at either end.  There is no array here, no   *)
(* window and no alignment.                                                *)
(***************************************************************************)
EXTENDS Integers

CONSTANTS Capacity,  \* MAX_CAPACITY
          Edges      \* the reps that may become edges

VARIABLE list

(* Lists of n edges, from 0. *)
Lists(n) == [0..(n - 1) -> Edges]

Init == \E n \in 0..Capacity : list \in Lists(n)

(* The edges from number a on, and those before number b. *)
KeepFrom(n, a) == list' = [k \in 0..(n - a - 1) |-> list[k + a]]
KeepTo(b) == list' = [k \in 0..(b - 1) |-> list[k]]

(* The same with e for the outermost edge on the side of the cut. *)
CutFrom(n, a, e) == list' = [k \in 0..(n - a - 1) |-> IF k = 0 THEN e ELSE list[k + a]]
CutTo(b, e) == list' = [k \in 0..(b - 1) |-> IF k = b - 1 THEN e ELSE list[k]]

(* The m edges of s come behind the n edges there are, or before them. *)
AddBack(n, m, s) == list' = [k \in 0..(n + m - 1) |-> IF k < n THEN list[k] ELSE s[k - n]]
AddFront(n, m, s) == list' = [k \in 0..(n + m - 1) |-> IF k < m THEN s[k] ELSE list[k - m]]

Next ==
    \E n \in 0..Capacity :
        /\ list \in Lists(n)
        /\ \/ \E a \in 0..n : KeepFrom(n, a) \/ KeepTo(a)
           \/ \E a \in 1..n, e \in Edges : CutFrom(n, a - 1, e) \/ CutTo(a, e)
           \/ \E m \in 1..(Capacity - n) : \E s \in Lists(m) : AddBack(n, m, s) \/ AddFront(n, m, s)

Spec == Init /\ [][Next]_list
=============================================================================
