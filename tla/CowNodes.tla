------------------------------ MODULE CowNodes ------------------------------
(***************************************************************************)
(* Copy-on-write over many nodes and threads (src/src/rep.rs and           *)
(* src/src/rep/btree.rs).  Cords share nodes; a call that changes a cord   *)
(* walks down from its root, finds out with ref_is_one how far the nodes   *)
(* are its own, and later writes to those in place, while other threads    *)
(* clone, read, change and drop cords that share the rest.  The answer of  *)
(* ref_is_one is thus used long after it was read, and a reader holds no   *)
(* reference on the nodes below the root that it stands on.                *)
(*                                                                         *)
(* The steps are those of the reference counts: a step is one increment,   *)
(* decrement, look at a count or write to a node, and the steps of the     *)
(* hands interleave.  That each of them is atomic, and what the memory     *)
(* orders of the count have to do with it, is CordRefcount's matter.  What *)
(* the trees are for is left out: a call takes any steps that its          *)
(* references and its stack allow.                                         *)
(***************************************************************************)
EXTENDS Integers, FiniteSets

CONSTANTS
    Hands,     \* the owned references outside nodes: cords, and the locals
               \* that a call keeps a reference in
    Nodes,     \* memory for nodes
    Slots,     \* the places for edges in a node (a substring's child too)
    Height,    \* how many levels there may be below each of the nodes
    MaxDepth,  \* MAX_DEPTH: the length of a stack
    Data,      \* what else may be written to a node: its length, its bytes
    None       \* nothing

ASSUME CowAssumption ==
    /\ IsFiniteSet(Hands) /\ IsFiniteSet(Nodes) /\ IsFiniteSet(Slots)
    /\ None \notin Nodes
    /\ Hands \cap (Nodes \X Slots) = {}
    /\ MaxDepth \in Nat \ {0}
    /\ Height \in [Nodes -> 0..(MaxDepth - 1)]

VARIABLES
    ref,    \* the node that each hand and each slot refers to
    rc,     \* the reference counts
    state,  \* "free", "live", or "dying": destroy is at work on it
    data,   \* what is written in each node
    busy,   \* what each hand is borrowed for
    stack,  \* the nodes that the call walked down, from the root
    depth,  \* how many these are
    share   \* share_depth: so many of them, from the root, are its own

vars == <<ref, rc, state, data, busy, stack, depth, share>>

Places == Hands \cup (Nodes \X Slots)

(* The references there are to n *)
Refs(n) == {p \in Places : ref[p] = n}

NoStack == [e \in 1..MaxDepth |-> None]

Idle(x) == busy[x] = "idle"
Empty(x) == Idle(x) /\ ref[x] = None
Holding(x) == Idle(x) /\ ref[x] # None

Init ==
    /\ ref = [p \in Places |-> None]
    /\ rc = [n \in Nodes |-> 0]
    /\ state = [n \in Nodes |-> "free"]
    /\ data = [n \in Nodes |-> None]
    /\ busy = [x \in Hands |-> "idle"]
    /\ stack = [x \in Hands |-> NoStack]
    /\ depth = [x \in Hands |-> 0]
    /\ share = [x \in Hands |-> 0]

-----------------------------------------------------------------------------
(* Reference counting.  Who gives up the last reference to a node goes on  *)
(* to destroy it.                                                          *)

UnrefState(n) == IF rc[n] = 1 THEN "dying" ELSE state[n]

(* A node is allocated, and x has the only reference to it. *)
New(x, n, v) ==
    /\ Empty(x) /\ state[n] = "free"
    /\ ref' = [ref EXCEPT ![x] = n]
    /\ rc' = [rc EXCEPT ![n] = 1]
    /\ state' = [state EXCEPT ![n] = "live"]
    /\ data' = [data EXCEPT ![n] = v]
    /\ UNCHANGED <<busy, stack, depth, share>>

(* ref_rep on behalf of a cord that is not being changed.  It may be       *)
(* being read.                                                             *)
Clone(x, y) ==
    /\ busy[x] # "write" /\ ref[x] # None /\ Empty(y)
    /\ ref' = [ref EXCEPT ![y] = ref[x]]
    /\ rc' = [rc EXCEPT ![ref[x]] = @ + 1]
    /\ UNCHANGED <<state, data, busy, stack, depth, share>>

(* Mutant: a node that is shared is copied without references on its edges. *)
RefEdgeUncounted(x, d, i, y) ==
    /\ d \in (share[x] + 1)..depth[x] /\ Empty(y)
    /\ ref[<<stack[x][d], i>>] # None
    /\ ref' = [ref EXCEPT ![y] = ref[<<stack[x][d], i>>]]
    /\ UNCHANGED <<rc, state, data, busy, stack, depth, share>>

(* ref_rep on an edge of a node that is not the caller's own: a reader's,  *)
(* or one that a writer found to be shared and now copies.                 *)
RefEdge(x, d, i, y) ==
    /\ d \in (share[x] + 1)..depth[x] /\ Empty(y)
    /\ LET p == <<stack[x][d], i>>
       IN  /\ ref[p] # None
           /\ ref' = [ref EXCEPT ![y] = ref[p]]
           /\ rc' = [rc EXCEPT ![ref[p]] = @ + 1]
    /\ UNCHANGED <<state, data, busy, stack, depth, share>>

(* A reference is handed on. *)
Move(x, y) ==
    /\ Holding(x) /\ Empty(y)
    /\ ref' = [ref EXCEPT ![x] = None, ![y] = ref[x]]
    /\ UNCHANGED <<rc, state, data, busy, stack, depth, share>>

(* The reference at p is given up: unref, and destroy's ref_dec. *)
GiveUp(p) ==
    /\ ref[p] # None
    /\ ref' = [ref EXCEPT ![p] = None]
    /\ rc' = [rc EXCEPT ![ref[p]] = @ - 1]
    /\ state' = [state EXCEPT ![ref[p]] = UnrefState(ref[p])]
    /\ UNCHANGED <<data, busy, stack, depth, share>>

Unref(x) == Idle(x) /\ GiveUp(x)

(* destroy gives up the edges of a node one by one, then frees it. *)
UnrefEdge(n, i) == state[n] = "dying" /\ GiveUp(<<n, i>>)

(* A substring is freed first: destroy keeps its child in a local. *)
TakeChild(n, i, y) ==
    /\ state[n] = "dying" /\ Empty(y)
    /\ ref[<<n, i>>] # None
    /\ ref' = [ref EXCEPT ![<<n, i>>] = None, ![y] = ref[<<n, i>>]]
    /\ UNCHANGED <<rc, state, data, busy, stack, depth, share>>

Delete(n) ==
    /\ state[n] = "dying"
    /\ \A i \in Slots : ref[<<n, i>>] = None
    /\ state' = [state EXCEPT ![n] = "free"]
    /\ data' = [data EXCEPT ![n] = None]
    /\ UNCHANGED <<ref, rc, busy, stack, depth, share>>

-----------------------------------------------------------------------------
(* Walking down, by a reader or by a call that changes the cord of x.      *)

Begin(x, what) ==
    /\ Holding(x)
    /\ busy' = [busy EXCEPT ![x] = what]
    /\ stack' = [stack EXCEPT ![x][1] = ref[x]]
    /\ depth' = [depth EXCEPT ![x] = 1]
    /\ UNCHANGED <<ref, rc, state, data>>

BeginRead(x) == Begin(x, "read") /\ UNCHANGED share

(* Mutant: the count of the node alone decides, whoever shares its parents. *)
OwnedByCount(x, d, n) == busy[x] # "read" /\ rc[n] = 1

(* One more of the nodes is the caller's own if all above it are and its   *)
(* count is one.                                                           *)
Owned(x, d, n) == busy[x] # "read" /\ share[x] = d /\ rc[n] = 1

BeginWrite(x) ==
    /\ Begin(x, "write")
    /\ share' = [share EXCEPT ![x] = IF Owned(x, 0, ref[x]) THEN 1 ELSE 0]

Descend(x, i) ==
    /\ ~Idle(x)
    /\ LET d == depth[x]
           n == ref[<<stack[x][d], i>>]
       IN  /\ n # None
           /\ stack' = [stack EXCEPT ![x][d + 1] = n]
           /\ depth' = [depth EXCEPT ![x] = d + 1]
           /\ share' = [share EXCEPT ![x] = IF Owned(x, d, n) THEN d + 1 ELSE @]
    /\ UNCHANGED <<ref, rc, state, data, busy>>

(* build_stack looks again at the count of the node that it stopped at: it *)
(* may have become one.                                                    *)
LookAgain(x) ==
    /\ ~Idle(x) /\ Owned(x, depth[x] - 1, stack[x][depth[x]])
    /\ share' = [share EXCEPT ![x] = depth[x]]
    /\ UNCHANGED <<ref, rc, state, data, busy, stack, depth>>

End(x) ==
    /\ ~Idle(x)
    /\ busy' = [busy EXCEPT ![x] = "idle"]
    /\ stack' = [stack EXCEPT ![x] = NoStack]
    /\ depth' = [depth EXCEPT ![x] = 0]
    /\ share' = [share EXCEPT ![x] = 0]
    /\ UNCHANGED <<ref, rc, state, data>>

-----------------------------------------------------------------------------
(* Writing in place, to the nodes that are the caller's own: the ones with *)
(* which "owned" says d < share_depth.                                     *)

(* Mutant: the first node that is shared counts as owned. *)
WritableOffByOne(x, d) == d \in 1..depth[x] /\ d <= share[x] + 1

Writable(x, d) == d \in 1..share[x]

(* Mutant: the edge that is replaced is forgotten. *)
SetEdgeForgets(x, d, i, y) ==
    /\ Writable(x, d) /\ Idle(y)
    /\ LET n == stack[x][d]
       IN  /\ ref[y] # None => Height[ref[y]] < Height[n]
           /\ ref' = [ref EXCEPT ![<<n, i>>] = ref[y], ![y] = None]
    /\ stack' = [stack EXCEPT ![x] = [e \in 1..MaxDepth |-> IF e <= d THEN stack[x][e] ELSE None]]
    /\ depth' = [depth EXCEPT ![x] = d]
    /\ share' = [share EXCEPT ![x] = d]
    /\ UNCHANGED <<rc, state, data, busy>>

(* A slot gets the reference in y and y the one that was there: an edge is *)
(* added, taken out or replaced.  What is below is walked to anew.         *)
SetEdge(x, d, i, y) ==
    /\ Writable(x, d) /\ Idle(y)
    /\ LET n == stack[x][d]
       IN  /\ ref[y] # None => Height[ref[y]] < Height[n]
           /\ ref' = [ref EXCEPT ![<<n, i>>] = ref[y], ![y] = ref[<<n, i>>]]
    /\ stack' = [stack EXCEPT ![x] = [e \in 1..MaxDepth |-> IF e <= d THEN stack[x][e] ELSE None]]
    /\ depth' = [depth EXCEPT ![x] = d]
    /\ share' = [share EXCEPT ![x] = d]
    /\ UNCHANGED <<rc, state, data, busy>>

WriteData(x, d, v) ==
    /\ Writable(x, d)
    /\ data' = [data EXCEPT ![stack[x][d]] = v]
    /\ UNCHANGED <<ref, rc, state, busy, stack, depth, share>>

Next ==
    \/ \E n \in Nodes : Delete(n) \/ \E i \in Slots : UnrefEdge(n, i)
    \/ \E n \in Nodes, i \in Slots, y \in Hands : TakeChild(n, i, y)
    \/ \E x \in Hands, n \in Nodes, v \in Data : New(x, n, v)
    \/ \E x, y \in Hands : Clone(x, y) \/ Move(x, y)
    \/ \E x, y \in Hands, d \in 1..MaxDepth, i \in Slots : RefEdge(x, d, i, y) \/ SetEdge(x, d, i, y)
    \/ \E x \in Hands : Unref(x) \/ BeginRead(x) \/ BeginWrite(x) \/ LookAgain(x) \/ End(x)
    \/ \E x \in Hands, i \in Slots : Descend(x, i)
    \/ \E x \in Hands, d \in 1..MaxDepth, v \in Data : WriteData(x, d, v)

Spec == Init /\ [][Next]_vars

-----------------------------------------------------------------------------
TypeOK ==
    /\ ref \in [Places -> Nodes \cup {None}]
    /\ rc \in [Nodes -> Nat]
    /\ state \in [Nodes -> {"free", "live", "dying"}]
    /\ data \in [Nodes -> Data \cup {None}]
    /\ busy \in [Hands -> {"idle", "read", "write"}]
    /\ stack \in [Hands -> [1..MaxDepth -> Nodes \cup {None}]]
    /\ depth \in [Hands -> 0..MaxDepth]
    /\ share \in [Hands -> 0..MaxDepth]

Counted(n) == rc[n] = Cardinality(Refs(n)) /\ (Refs(n) # {} <=> state[n] = "live")

(* Every count is the number of references there are, and a node is alive  *)
(* just as long as there are any (ref_rep, unref and ref_dec of rep.rs and *)
(* btree.rs).                                                              *)
RefsCounted == \A n \in Nodes : Counted(n)

(* The raw pointers of a stack, which own nothing, and those of a reader   *)
(* lead to nodes that are there, whatever the other threads drop and       *)
(* change, each is still an edge of the one above it, and the stack has    *)
(* room for them all (StackOperations, RepRef::edge).                      *)
WalksHold ==
    \A x \in Hands : depth[x] <= MaxDepth /\ \A d \in 1..depth[x] :
        /\ stack[x][d] \in Nodes /\ state[stack[x][d]] = "live"
        /\ IF d = 1 THEN stack[x][d] = ref[x]
                    ELSE \E i \in Slots : stack[x][d] = ref[<<stack[x][d - 1], i>>]

(* A set of nodes that no edge leads out of *)
Closed(S) == \A n \in S, i \in Slots : ref[<<n, i>>] \in S \cup {None}

(* n is a node of the tree of hand y: in all that the tree may be. *)
InTree(y, n) ==
    /\ ref[y] # None
    /\ \A S \in SUBSET Nodes : Closed(S) /\ ref[y] \in S => n \in S

SameNode(n) ==
    /\ state'[n] = state[n] /\ data'[n] = data[n]
    /\ \A i \in Slots : ref'[<<n, i>>] = ref[<<n, i>>]

(* Nobody but the call that changes a cord changes a node of its tree: no  *)
(* step changes what the cord of a hand holds that keeps its reference and *)
(* is not borrowed for writing (the copy-on-write of build_stack, set_edge *)
(* and to_op_result).                                                      *)
TreesIsolated ==
    \A y \in Hands, n \in Nodes :
        busy[y] # "write" /\ ref'[y] = ref[y] /\ InTree(y, n) => SameNode(n)

CordsIsolated == [][TreesIsolated]_vars

(* No node is lost: every set that holds what the hands and the nodes      *)
(* under destruction refer to, and what its nodes refer to, holds every    *)
(* live node.  When all references are dropped and destroy is done, all    *)
(* nodes are freed.                                                        *)
NothingLeaks ==
    \A S \in SUBSET Nodes :
        /\ Closed(S)
        /\ \A x \in Hands : ref[x] \in S \cup {None}
        /\ \A n \in Nodes, i \in Slots : state[n] = "dying" => ref[<<n, i>>] \in S \cup {None}
        => \A n \in Nodes : state[n] = "live" => n \in S
=============================================================================
