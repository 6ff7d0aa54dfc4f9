------------------------------- MODULE MCCord -------------------------------
(***************************************************************************)
(* Small instances of Cord for TLC.  Handles are 1..N here.  Which slot    *)
(* Alloc picks is not observable, so the view that TLC tells states apart  *)
(* by numbers the nodes in the order in which a walk from the cords, then  *)
(* the buffer, first meets them.  Nor does anything tell one handle from   *)
(* another: states that differ by a permutation of them are one.           *)
(***************************************************************************)
EXTENDS Cord

VARIABLES
    val,      \* the bytes each cord stands for, a function of heap and cords
    pending   \* the bytes of the buffer

Values == [x \in Handles |-> CordBytes(heap, cords[x])]

Pending ==
    [taken |-> buffer # NoBuffer,
     bytes |-> IF buffer = NoBuffer THEN <<>> ELSE CordBytes(heap, buffer)]

MCInit == Init /\ val = Values /\ pending = Pending

MCNext == Next /\ val' = Values' /\ pending' = Pending'

MCSpec == MCInit /\ [][MCNext]_<<vars, val, pending>>

Abstract == INSTANCE CordSpec WITH Inputs <- UNION {w.slices : w \in Workloads}, ops <- Ops

(***************************************************************************)
(* Cords are independent byte strings: every operation has the effect that *)
(* CordSpec gives it on the bytes of the cords it works on, and none on    *)
(* the others, whatever nodes they share.                                  *)
(***************************************************************************)
ValueSemantics == Abstract!Spec

(* Workloads *)
AppendWork ==
    [ops    |-> {"from", "append", "clone", "clear", "truncate", "append_cord", "append_owned_cord"},
     slices |-> {<<1, 2>>}, maxLen |-> 4]

PrependWork ==
    [ops    |-> {"prepend", "clone", "advance", "prepend_cord", "prepend_owned_cord"},
     slices |-> {<<1, 2>>}, maxLen |-> 4]

SplitWork ==
    [ops    |-> {"append", "slice", "split_off", "split_to"},
     slices |-> {<<1, 2>>}, maxLen |-> 5]

OwnedWork ==
    [ops    |-> {"from_owned", "from_static", "from_owner", "append_owned",
                 "make_contiguous", "clone", "advance"},
     slices |-> {<<1, 2, 3>>}, maxLen |-> 7]

OwnedFrontWork ==
    [ops    |-> {"from_owner", "prepend_owned", "clone", "advance"},
     slices |-> {<<1, 2, 3>>}, maxLen |-> 6]

BufferWork ==
    [ops    |-> {"append", "clone", "take_append_buffer"},
     slices |-> {<<1, 2>>}, maxLen |-> 4]

DeepWork ==
    [ops    |-> {"from", "append", "slice"},
     slices |-> {<<1, 2, 3>>}, maxLen |-> 7]

ExtractWork ==
    [ops    |-> {"from", "append", "prepend", "append_cord", "truncate", "take_append_buffer"},
     slices |-> {<<1, 2>>}, maxLen |-> 7]

CallWorkloads == {AppendWork, PrependWork, SplitWork}

SharingWorkloads == {OwnedWork, OwnedFrontWork, BufferWork}

DeepWorkloads == {DeepWork}

ExtractWorkloads == {ExtractWork}

RECURSIVE Walk(_, _)
Walk(todo, seen) ==
    IF todo = <<>> THEN seen
    ELSE IF Head(todo) <= 0 \/ \E i \in DOMAIN seen : seen[i] = Head(todo)
    THEN Walk(Tail(todo), seen)
    ELSE Walk(Children(heap[Head(todo)]) \o Tail(todo), Append(seen, Head(todo)))

(* The state with the handles in the order of the permutation p. *)
Numbered(p) ==
    LET order == Walk([x \in Handles |-> cords[p[x]].tree] \o <<buffer.tree>>, <<>>)
        Num(n) == IF n <= 0 THEN n ELSE CHOOSE i \in DOMAIN order : order[i] = n
        Rename(node) ==
          CASE node.tag = "btree" -> [node EXCEPT !.edges = [i \in DOMAIN @ |-> Num(@[i])]]
            [] node.tag = "substring" -> [node EXCEPT !.child = Num(@)]
            [] OTHER -> node
    IN  <<[i \in DOMAIN order |-> Rename(heap[order[i]])],
          [x \in Handles |-> [cords[p[x]] EXCEPT !.tree = Num(@)]],
          [buffer EXCEPT !.tree = Num(@)],
          Cardinality(Allocated(heap))>>

Canonical == <<work, {Numbered(p) : p \in Permutations(Handles)}>>
=============================================================================
